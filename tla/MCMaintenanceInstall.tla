------------------------ MODULE MCMaintenanceInstall ------------------------
(***************************************************************************)
(* Small instances of MaintenanceInstall.                                   *)
(***************************************************************************)
EXTENDS MaintenanceInstall, FiniteSets, TLC

\* Operators and tokens are only compared for equality.
Symmetry == Permutations(Operator) \cup Permutations(Token)

\* Two operators compete for the primary service; next to a legacy service there is one.
Crowd ==
  (\E l \in Legacy : loaded[l]) => Cardinality({o \in Operator : pc[o] # "idle"}) <= 1

=============================================================================
