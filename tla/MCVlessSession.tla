--------------------------- MODULE MCVlessSession ---------------------------
(* Small instances of VlessSession for TLC. *)
EXTENDS VlessSession, TLC

\* Commands, sessions and pids are interchangeable.
Symmetry == Permutations(Client) \cup Permutations(Sess) \cup Permutations(Pid)

\* What a command still reads: Start no longer needs the command or the session it has
\* stopped, and a session record that is neither in the file nor read is nowhere.
Starting(c) == pc[c] \in StartStep \cup {"guard", "started"}
Read(c)  == IF Starting(c) \/ pc[c] = "failed" THEN None ELSE cur[c]
Known(s) == record = s \/ \E c \in Client : s \in {Read(c), mine[c]}
View == <<[s \in Sess |-> IF Known(s) THEN info[s] ELSE NoInfo],
          [c \in Client |-> IF Starting(c) \/ pc[c] \in {"idle", "failed"} THEN None ELSE cmd[c]],
          [c \in Client |-> Read(c)],
          record, used, osVars, pc, mine, targets, lost, stray>>

=============================================================================
