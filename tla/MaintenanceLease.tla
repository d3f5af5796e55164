-------------------------- MODULE MaintenanceLease --------------------------
(***************************************************************************)
(* What the vpn-core daemon promises to the programs that replace it and to *)
(* the tunnels that use it: an exclusive, single-use maintenance lease.     *)
(*                                                                          *)
(* At most one token holds the lease.  It is granted only while no          *)
(* privileged work is under way, work begins only while nobody holds it,    *)
(* and a token that lost it never holds it again.  Connections, locks, the  *)
(* lease file, crashes and time are details of the implementation,          *)
(* VpnCoreDaemon.                                                           *)
(***************************************************************************)
CONSTANTS Token, None

VARIABLES
  holder,  \* the token that holds the lease, or None
  busy,    \* privileged work is under way
  spent    \* tokens that will never hold the lease again

vars == <<holder, busy, spent>>

Init ==
  /\ holder = None
  /\ busy = FALSE
  /\ spent = {}

Grant(t) ==
  /\ holder = None
  /\ ~busy
  /\ t \notin spent
  /\ holder' = t
  /\ UNCHANGED <<busy, spent>>

\* The owner gives the lease back, or its time is over.
End ==
  /\ holder # None
  /\ holder' = None
  /\ spent' = spent \cup {holder}
  /\ UNCHANGED busy

\* A grant that could not be recorded wastes its token.
Discard(t) ==
  /\ t # holder
  /\ spent' = spent \cup {t}
  /\ UNCHANGED <<holder, busy>>

StartWork ==
  /\ holder = None
  /\ busy' = TRUE
  /\ UNCHANGED <<holder, spent>>

EndWork ==
  /\ busy' = FALSE
  /\ UNCHANGED <<holder, spent>>

Next ==
  \/ \E t \in Token : Grant(t) \/ Discard(t)
  \/ End \/ StartWork \/ EndWork

Spec == Init /\ [][Next]_vars

=============================================================================
