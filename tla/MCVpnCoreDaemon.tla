-------------------------- MODULE MCVpnCoreDaemon --------------------------
(***************************************************************************)
(* Small instances of VpnCoreDaemon.                                        *)
(***************************************************************************)
EXTENDS VpnCoreDaemon, TLC

\* Connections, tokens, handles and pids are only compared for equality.
Symmetry == Permutations(Conn) \cup Permutations(Token)
              \cup Permutations(Handle) \cup Permutations(Pid)

=============================================================================
