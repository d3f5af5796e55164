------------------------ MODULE MCOpenConnectSession ------------------------
(***************************************************************************)
(* Four instances of OpenConnectSession in one run: two commands that       *)
(* overlap; one command at a time, whose authentication may end on another  *)
(* host; or one command at a time and one attempt to start on a machine     *)
(* where other programs, of one kind or the other, take the free pids.      *)
(***************************************************************************)
EXTENDS OpenConnectSession, FiniteSets, TLC
VARIABLE around  \* the kind of other programs that there are, or "redirect"

\* At most one attempt is lost track of.
Bound ==
  /\ Cardinality(loose) <= 1
  /\ "redirect" \notin around => away = {}
  /\ \A p \in Pid : proc[p].kind \in Others => proc[p].kind \in around
  /\ around # {} => Cardinality({c \in Client : pc[c] \notin Ended}) <= 1
  /\ around \cap Others # {} => Cardinality({s \in Sess : fate[s] # "new"}) <= 1

MCInit == Init /\ around \in {{}} \cup {{k} : k \in Others \cup {"redirect"}}
MCNext == Next /\ UNCHANGED around /\ Bound'
MCSpec == MCInit /\ [][MCNext]_<<vars, around>>

\* Commands, attempts and pids are interchangeable.
Symmetry == Permutations(Client) \cup Permutations(Sess) \cup Permutations(Pid)

\* A command that has ended is no longer told apart by how, unless it has stopped a
\* session; Connect has no use for the command or for the session that Stop has loaded.
Stopping == {"load", "alive?", "cleanupLock", "reload", "staleClear", "clean", "int", "poll",
             "wait", "clear", "stopped"}
Undoing  == {"save", "undo", "undoClear", "preserve"}

\* Attempts whose openconnect will not run again, where nobody looks at the wrapper.
Settled ==
  {s \in Sess : fate[s] \in {"begun", "adrift"} /\ hook[s] \notin {"up", "down"}}
    \ ({proc[p].sess : p \in Pid}
        \cup {mine[c].id : c \in {d \in Client : pc[d] \notin Ended \cup Stopping \cup Undoing}})

\* Attempts where a command may still look whether the wrapper has applied its files.
Awaited == {mine[c].id : c \in {d \in Client : pc[d] \in {"identify", "stable", "converge"}}}

View ==
  LET settled == Settled
      awaited == Awaited
  IN <<[c \in Client |-> IF pc[c] \in Ended \ {"stopped"} THEN "idle" ELSE pc[c]],
       [c \in Client |-> pc[c] \in Stopping /\ cmd[c] = "reconnect"],
       [c \in Client |-> IF pc[c] \in Stopping THEN cur[c] ELSE NoRecord],
       [c \in Client |-> IF pc[c] \in Ended \cup Stopping THEN NoRecord ELSE mine[c]],
       [s \in Sess |-> IF s \in settled THEN "over"
                       ELSE IF hook[s] = "applied" /\ s \notin awaited THEN "none" ELSE hook[s]],
       [s \in Sess |-> IF s \in settled THEN "over" ELSE fate[s]],
       IF resolver \in settled THEN "left" ELSE resolver,
       loose \ settled, away \ settled, record, proc, lock, signalled, around>>

=============================================================================
