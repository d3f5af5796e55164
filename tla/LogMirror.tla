----------------------------- MODULE LogMirror -----------------------------
(***************************************************************************)
(* The mirror of the Cisco log and cache files of a dump session           *)
(* (copyRelevantCiscoFiles in ciscodump/runtime.go).  Every iteration of   *)
(* the daemon lists the files and copies the ones whose size or time has   *)
(* changed to cisco-logs/<base name>, while Cisco goes on writing them.    *)
(***************************************************************************)
EXTENDS Naturals, Sequences, FiniteSets

CONSTANTS Sources,     \* sequence of records [dir, base]: the files, sorted by path
          Limit,       \* how many UIHistory files are taken, the newest first
          MaxClock     \* bound on the writes to the files

LogMirrorAssumption == Limit \in Nat /\ MaxClock \in Nat

File == DOMAIN Sources
Base == {Sources[f].base : f \in File}

VARIABLES
  clock,      \* time of the last write
  time,       \* time[f]: modification time and content of file f, 0 when it does not exist
  failing,    \* the files that cannot be looked at or copied, for now or for ever
  stamp,      \* copiedFiles: the time of f when it was copied last, 0 when it never was
  mirror,     \* mirror[b]: what cisco-logs/b holds: <<file, time>>, or <<>> when nothing whole
  todo,       \* files of this iteration that are still to be looked at
  pending     \* the file being copied and its time at os.Stat, or <<>>

vars == <<clock, time, failing, stamp, mirror, todo, pending>>

Init ==
  /\ clock = 0
  /\ time = [f \in File |-> 0] /\ failing = {} /\ stamp = [f \in File |-> 0]
  /\ mirror = [b \in Base |-> <<>>]
  /\ todo = {} /\ pending = <<>>

\* latestUIHistoryFiles: the Limit newest of a directory.
latestUIHistoryFiles(files) == {f \in files : Cardinality({g \in files : time[g] > time[f]}) < Limit}

\* relevantCiscoSources: hostscan logs, the newest UI histories, the profile cache.
relevantCiscoSources ==
  LET present(dir) == {f \in File : Sources[f].dir = dir /\ time[f] # 0}
  IN present("hostscan") \cup latestUIHistoryFiles(present("history")) \cup present("cache")

Begin ==
  /\ todo = {} /\ pending = <<>>
  /\ todo' = relevantCiscoSources
  /\ UNCHANGED <<clock, time, failing, stamp, mirror, pending>>

\* Mutant: a file that was copied once is not looked at again.
StatOnce ==
  /\ pending = <<>>
  /\ \E f \in todo :
        /\ \A g \in todo : f <= g
        /\ todo' = todo \ {f}
        /\ pending' = IF time[f] = 0 \/ stamp[f] # 0 THEN <<>> ELSE <<f, time[f]>>
  /\ UNCHANGED <<clock, time, failing, stamp, mirror>>

\* os.Stat of the next file: gone or not changed since it was copied, or to be copied.
Stat ==
  /\ pending = <<>>
  /\ \E f \in todo :
        /\ \A g \in todo : f <= g
        /\ todo' = todo \ {f}
        /\ pending' = IF time[f] = 0 \/ time[f] = stamp[f] THEN <<>> ELSE <<f, time[f]>>
  /\ UNCHANGED <<clock, time, failing, stamp, mirror>>

\* Mutant: the stamp is taken after the copy.
CopyThenStat ==
  /\ pending # <<>> /\ time[pending[1]] # 0 /\ pending[1] \notin failing
  /\ mirror' = [mirror EXCEPT ![Sources[pending[1]].base] = pending]
  /\ stamp' = [stamp EXCEPT ![pending[1]] = time[pending[1]]]
  /\ pending' = <<>>
  /\ UNCHANGED <<clock, time, failing, todo>>

\* copyFile takes what the file holds now; the stamp is that of os.Stat.
Copy ==
  /\ pending # <<>> /\ time[pending[1]] # 0 /\ pending[1] \notin failing
  /\ LET f == pending[1]
     IN /\ mirror' = [mirror EXCEPT ![Sources[f].base] = <<f, time[f]>>]
        /\ stamp' = [stamp EXCEPT ![f] = pending[2]]
  /\ pending' = <<>>
  /\ UNCHANGED <<clock, time, failing, todo>>

\* os.Stat fails in another way than that the file does not exist: the iteration ends.
StatFails ==
  /\ pending = <<>>
  /\ \E f \in todo \cap failing : \A g \in todo : f <= g
  /\ todo' = {}
  /\ UNCHANGED <<clock, time, failing, stamp, mirror, pending>>

\* The file is gone when it is opened, it cannot be read, or its copy cannot be created or
\* written: the error ends the iteration, and the old copy may be gone by then.
CopyFails ==
  /\ pending # <<>> /\ (time[pending[1]] = 0 \/ pending[1] \in failing)
  /\ mirror' \in {mirror, [mirror EXCEPT ![Sources[pending[1]].base] = <<>>]}
  /\ pending' = <<>> /\ todo' = {}
  /\ UNCHANGED <<clock, time, failing, stamp>>

\* Cisco writes or removes a file (external).
Write(f) ==
  /\ clock < MaxClock
  /\ clock' = clock + 1
  /\ \/ time' = [time EXCEPT ![f] = clock + 1]
     \/ time[f] # 0 /\ time' = [time EXCEPT ![f] = 0]
  /\ UNCHANGED <<failing, stamp, mirror, todo, pending>>

\* Rights, disks and locks change (external).
Trouble ==
  /\ failing' \in SUBSET File
  /\ UNCHANGED <<clock, time, stamp, mirror, todo, pending>>

Step == Begin \/ Stat \/ StatFails \/ Copy \/ CopyFails
Next == Step \/ Trouble \/ \E f \in File : Write(f)

\* The ticker of the daemon starts an iteration every second; what the other snapshots of an
\* iteration run (ps, lsof, netstat, scutil) has no deadline and is taken to return.
Spec == Init /\ [][Next]_vars /\ WF_vars(Step)

-----------------------------------------------------------------------------
(* A file that is not copied again, because its stamp is that of the last   *)
(* copy, is in the mirror with its present content.                         *)
MirrorFaithful ==
  \A f \in File : time[f] # 0 /\ stamp[f] = time[f] => mirror[Sources[f].base] = <<f, time[f]>>

\* What the mirror holds of f is what f holds, if it is a file to be copied.
UpToDate(f) == f \in relevantCiscoSources => mirror[Sources[f].base] = <<f, time[f]>>

(* Once Cisco has stopped writing, a relevant file gets into the mirror if  *)
(* from some time on no file up to it in the list fails, although it        *)
(* changed, disappeared or failed while it was being copied.                *)
MirrorCatchesUp ==
  \A f \in File : <>[](\A g \in failing : g > f) => <>[]UpToDate(f)

-----------------------------------------------------------------------------
(* What a document, a comment or an error message of the repository says   *)
(* and the model refutes: see "What the code does not keep" in README.md.  *)

(* A file that can be copied gets into the mirror, whatever other files do. *)
EachMirrored == \A f \in File : <>[](f \notin failing) => <>[]UpToDate(f)
=============================================================================
