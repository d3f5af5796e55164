----------------------------- MODULE SessionLog ------------------------------
(***************************************************************************)
(* The session log of vless-tun in helper mode and everyone who writes to  *)
(* it: the buffered writer of core/logtail with its flush loop, through    *)
(* which a start writes the header; the events that start and later        *)
(* commands add with logtail.Append; and the daemon, which was given a     *)
(* descriptor of the file and rewrites it with the last lines of sing-box. *)
(*                                                                         *)
(* A bounded Append replaces the file by a rename, so a descriptor opened  *)
(* before it names a file nobody can see: `linked` says whether the        *)
(* daemon's descriptor is still the file at the path, and only then are    *)
(* its writes part of `log`, the bytes at the path.                        *)
(***************************************************************************)
EXTENDS TailLines

CONSTANTS
  MaxLines,     \* logging.max_lines, 0 for no bound
  MaxBytes,     \* maxBoundedLogBytes
  Threshold,    \* the 256 KiB at which Write flushes, in lines
  Headers,      \* bound: header lines of a start
  Events,       \* bound: events of start and of later commands
  Outputs       \* bound: lines of sing-box

Limits == /\ {MaxLines, MaxBytes, Headers, Events, Outputs} \subseteq Nat
          /\ Threshold \in Nat \ {0}

VARIABLES
  log,          \* the bytes at the path
  lock,         \* who holds the flock of path.lock
  pending,      \* writer.pending
  done,         \* writer.done is closed
  pc,           \* where the command and the flush loop are
  ap,           \* where their Append is
  held,         \* what it appends
  snap,         \* what it has read, cut and written to the temporary file
  closeOk,      \* Close returned nil
  linked, tail, dpc,  \* the daemon's descriptor, passedLogWriter.tail, its Write
  headers,      \* the lines that Write has accepted, in order
  written       \* the events and outputs written without an error, in order

vars == <<log, lock, pending, done, pc, ap, held, snap, closeOk, linked, tail, dpc,
          headers, written>>

Thread == {"command", "loop"}
Nobody == "nobody"

Line(src, n) == <<[src |-> src, n |-> n], NL>>
Count(src)   == Cardinality({i \in DOMAIN written : written[i] # NL /\ written[i].src = src})

daemon == <<linked, tail, dpc>>
ghosts == <<headers, written>>
append == <<lock, ap, held, snap>>

Init ==
  /\ log = <<>> /\ lock = Nobody /\ pending = <<>> /\ done = FALSE /\ closeOk = FALSE
  /\ pc = [t \in Thread |-> IF t = "command" THEN "open" ELSE "off"]
  /\ ap = [t \in Thread |-> "none"] /\ held = [t \in Thread |-> <<>>]
  /\ snap = [t \in Thread |-> <<>>]
  /\ linked = FALSE /\ tail = <<>> /\ dpc = "off" /\ headers = <<>> /\ written = <<>>
-----------------------------------------------------------------------------
(* Append *)

BeginAppend(t, data, p) ==
  /\ ap' = [ap EXCEPT ![t] = "read"] /\ held' = [held EXCEPT ![t] = data]
  /\ pc' = [pc EXCEPT ![t] = p]
  /\ UNCHANGED <<lock, snap>>

\* Mutant: the lock file is opened but not locked.
AppendReadUnlocked(t) ==
  /\ ap[t] = "read" /\ MaxLines > 0
  /\ ap' = [ap EXCEPT ![t] = "rename"]
  /\ snap' = [snap EXCEPT ![t] = LastLines(log \o held[t], MaxLines)]
  /\ UNCHANGED <<log, lock, pending, done, pc, held, closeOk, daemon, ghosts>>

\* Mutant: only the new lines are cut.
AppendReadUncut(t) ==
  /\ ap[t] = "read" /\ MaxLines > 0 /\ lock = Nobody
  /\ lock' = t /\ ap' = [ap EXCEPT ![t] = "rename"]
  /\ snap' = [snap EXCEPT ![t] = log \o LastLines(held[t], MaxLines)]
  /\ UNCHANGED <<log, pending, done, pc, held, closeOk, daemon, ghosts>>

\* Under the lock: the existing log and the new lines, cut, in a temporary file.
AppendRead(t) ==
  /\ ap[t] = "read" /\ MaxLines > 0 /\ lock = Nobody
  /\ lock' = t /\ ap' = [ap EXCEPT ![t] = "rename"]
  /\ snap' = [snap EXCEPT ![t] = LastLines(log \o held[t], MaxLines)]
  /\ UNCHANGED <<log, pending, done, pc, held, closeOk, daemon, ghosts>>

\* What the caller of Append goes on with. Open fails with it; a failed flush puts
\* what it took back in front; the errors of Write, Close and of an event are
\* dropped. A start whose guard or sidecar fails ends after it has closed the log.
Return(t, ok) ==
  /\ pending' = IF ~ok /\ pc[t] \in {"flush", "closing"} THEN held[t] \o pending ELSE pending
  /\ CASE pc[t] = "open" ->
            pc' = IF ok THEN [command |-> "header", loop |-> "idle"] ELSE [pc EXCEPT ![t] = "end"]
       [] pc[t] = "flush" -> pc' = [pc EXCEPT ![t] = IF t = "loop" THEN "idle" ELSE "header"]
       [] pc[t] = "closing" -> \E p \in {"launch", "end"} : pc' = [pc EXCEPT ![t] = p]
       [] pc[t] = "event" -> pc' = [pc EXCEPT ![t] = "run"]
  /\ closeOk' = (IF pc[t] = "closing" THEN ok ELSE closeOk)

Written(t) == written' = IF pc[t] = "event" THEN written \o held[t] ELSE written

\* The rename puts the temporary file in the log's place.
AppendRename(t) ==
  /\ ap[t] = "rename" /\ lock' = (IF lock = t THEN Nobody ELSE lock)
  /\ log' = snap[t] /\ linked' = FALSE
  /\ ap' = [ap EXCEPT ![t] = "none"] /\ Return(t, TRUE) /\ Written(t)
  /\ UNCHANGED <<done, held, snap, tail, dpc, headers>>

\* Mutant: an event goes through a temporary file here too.
AppendPlainCopy(t) ==
  /\ ap[t] = "read" /\ MaxLines = 0
  /\ log' = log \o held[t] /\ linked' = FALSE
  /\ ap' = [ap EXCEPT ![t] = "none"] /\ Return(t, TRUE) /\ Written(t)
  /\ UNCHANGED <<lock, done, held, snap, tail, dpc, headers>>

\* Mutant: the file is not opened for appending; the event lands at its start.
AppendPlainStart(t) ==
  /\ ap[t] = "read" /\ MaxLines = 0
  /\ log' = held[t] \o SubSeq(log, Len(held[t]) + 1, Len(log))
  /\ ap' = [ap EXCEPT ![t] = "none"] /\ Return(t, TRUE) /\ Written(t)
  /\ UNCHANGED <<lock, done, held, snap, daemon, headers>>

\* Without a bound Append is one write to a file opened for appending.
AppendPlain(t) ==
  /\ ap[t] = "read" /\ MaxLines = 0
  /\ log' = log \o held[t]
  /\ ap' = [ap EXCEPT ![t] = "none"] /\ Return(t, TRUE) /\ Written(t)
  /\ UNCHANGED <<lock, done, held, snap, daemon, headers>>

\* Mutant: a failed Append keeps the lock.
AppendFailLocked(t) ==
  /\ ap[t] \in {"read", "rename"} /\ UNCHANGED lock
  /\ ap' = [ap EXCEPT ![t] = "none"] /\ Return(t, FALSE)
  /\ UNCHANGED <<log, done, held, snap, daemon, ghosts>>

\* Any step before the rename, or the rename, fails: the log is as it was.
AppendFail(t) ==
  /\ ap[t] \in {"read", "rename"} /\ lock' = (IF lock = t THEN Nobody ELSE lock)
  /\ ap' = [ap EXCEPT ![t] = "none"] /\ Return(t, FALSE)
  /\ UNCHANGED <<log, done, held, snap, daemon, ghosts>>
-----------------------------------------------------------------------------
(* The buffered writer of a start *)

\* Open trims the log and starts the loop, or, without a bound, opens the file.
Open ==
  /\ pc["command"] = "open" /\ ap["command"] = "none"
  /\ IF MaxLines > 0 THEN BeginAppend("command", <<>>, "open") /\ UNCHANGED pc
     ELSE pc' = [pc EXCEPT !["command"] = "header"] /\ UNCHANGED append
  /\ UNCHANGED <<log, pending, done, closeOk, daemon, ghosts>>

\* Flush takes all that is pending, under the mutex, and appends it afterwards.
Flush(t, p, data) == BeginAppend(t, data, p) /\ pending' = <<>>

\* A line of the header; with enough of them pending a flush follows. A plain write
\* that fails leaves no trace.
Write ==
  LET line == Line("header", Cardinality(Newlines(headers)) + 1)
  IN /\ pc["command"] = "header" /\ Cardinality(Newlines(headers)) < Headers
     /\ headers' = headers \o line
     /\ IF MaxLines = 0 THEN log' = log \o line /\ UNCHANGED <<pending, pc, append>>
        ELSE /\ UNCHANGED log
             /\ pending' = pending \o line
             /\ pc' = IF Cardinality(Newlines(pending')) >= Threshold
                      THEN [pc EXCEPT !["command"] = "full"] ELSE pc
             /\ UNCHANGED append
     /\ UNCHANGED <<done, closeOk, daemon, written>>

\* The flush of Write takes the mutex again: the loop may have been there before.
FlushFull ==
  /\ pc["command"] = "full"
  /\ IF pending # <<>> THEN Flush("command", "flush", pending)
     ELSE pc' = [pc EXCEPT !["command"] = "header"] /\ UNCHANGED <<pending, append>>
  /\ UNCHANGED <<log, done, closeOk, daemon, ghosts>>

\* A tick of the loop; with nothing pending it does nothing.
Tick ==
  /\ pc["loop"] = "idle" /\ pending # <<>>
  /\ Flush("loop", "flush", pending)
  /\ UNCHANGED <<log, done, closeOk, daemon, ghosts>>

\* Mutant: the loop serves the ticker only.
LoopDeaf == FALSE /\ UNCHANGED vars

LoopDone ==
  /\ pc["loop"] = "idle" /\ done /\ pc' = [pc EXCEPT !["loop"] = "end"]
  /\ UNCHANGED <<log, pending, done, append, closeOk, daemon, ghosts>>

\* Mutant: Close does not wait for the loop.
CloseAtOnce ==
  /\ \/ /\ pc["command"] = "header" /\ pc' = [pc EXCEPT !["command"] = "close"] /\ done' = TRUE
        /\ UNCHANGED <<pending, append, closeOk>>
     \/ /\ pc["command"] = "close" /\ UNCHANGED done
        /\ IF pending # <<>> THEN Flush("command", "closing", pending) /\ UNCHANGED closeOk
           ELSE /\ \E p \in {"launch", "end"} : pc' = [pc EXCEPT !["command"] = p]
                /\ closeOk' = TRUE /\ UNCHANGED <<pending, append>>
  /\ UNCHANGED <<log, daemon, ghosts>>

\* Close: tell the loop, wait for its end, and flush what is left.
Close ==
  /\ \/ /\ pc["command"] = "header" /\ pc' = [pc EXCEPT !["command"] = "close"] /\ done' = TRUE
        /\ UNCHANGED <<pending, append, closeOk>>
     \/ /\ pc["command"] = "close" /\ pc["loop"] \in {"off", "end"} /\ UNCHANGED done
        /\ IF pending # <<>> THEN Flush("command", "closing", pending) /\ UNCHANGED closeOk
           ELSE /\ \E p \in {"launch", "end"} : pc' = [pc EXCEPT !["command"] = p]
                /\ closeOk' = TRUE /\ UNCHANGED <<pending, append>>
  /\ UNCHANGED <<log, daemon, ghosts>>
-----------------------------------------------------------------------------
(* The daemon *)

\* openClientLog and singbox.start: the file at the path is open for appending in
\* the daemon. A refused start ends the command.
StartSingBox ==
  /\ pc["command"] = "launch"
  /\ \/ linked' = TRUE /\ dpc' = "idle" /\ pc' = [pc EXCEPT !["command"] = "run"]
     \/ UNCHANGED <<linked, dpc>> /\ pc' = [pc EXCEPT !["command"] = "end"]
  /\ UNCHANGED <<log, pending, done, append, closeOk, tail, ghosts>>

\* Mutant: the daemon opens the log by its path at every write.
OutputReopened ==
  LET line == Line("singbox", Count("singbox") + 1)
  IN /\ dpc = "idle" /\ Count("singbox") < Outputs
     /\ tail' = BoundedLastLines(tail \o line, MaxLines, MaxBytes)
     /\ log' = <<>> /\ linked' = TRUE /\ dpc' = "write"
     /\ UNCHANGED <<lock, pending, done, pc, ap, held, snap, closeOk, headers, written>>

\* Write of passedLogWriter, first half: the new tail and the truncation; without
\* a bound, all of it. After an error the copy from the pipe ends.
Output ==
  LET line == Line("singbox", Count("singbox") + 1)
  IN /\ dpc = "idle" /\ Count("singbox") < Outputs
     /\ IF MaxLines = 0
        THEN /\ \/ /\ log' = (IF linked THEN log \o line ELSE log)
                   /\ written' = written \o line /\ UNCHANGED dpc
                \/ UNCHANGED <<log, written>> /\ dpc' = "ended"
             /\ UNCHANGED tail
        ELSE /\ tail' = BoundedLastLines(tail \o line, MaxLines, MaxBytes)
             /\ \/ log' = (IF linked THEN <<>> ELSE log) /\ dpc' = "write"
                \/ UNCHANGED log /\ dpc' = "ended"
             /\ UNCHANGED written
     /\ UNCHANGED <<lock, pending, done, pc, ap, held, snap, closeOk, linked, headers>>

\* Second half: the tail, at the end of the file.
OutputTail ==
  /\ dpc = "write"
  /\ \/ /\ log' = (IF linked THEN log \o tail ELSE log)
        /\ written' = written \o Line("singbox", Count("singbox") + 1) /\ dpc' = "idle"
     \/ UNCHANGED <<log, written>> /\ dpc' = "ended"
  /\ UNCHANGED <<lock, pending, done, pc, ap, held, snap, closeOk, linked, tail, headers>>

\* sing-box has exited: the writer is closed.
SingBoxExit ==
  /\ dpc \in {"idle", "ended"} /\ dpc' = "closed"
  /\ UNCHANGED <<log, pending, done, pc, append, closeOk, linked, tail, ghosts>>

\* appendSessionLog of the start and of the commands after it.
Event ==
  /\ pc["command"] = "run" /\ Count("event") < Events
  /\ BeginAppend("command", Line("event", Count("event") + 1), "event")
  /\ UNCHANGED <<log, pending, done, closeOk, daemon, ghosts>>

Next ==
  \/ Open \/ Write \/ FlushFull \/ Tick \/ LoopDone \/ Close
  \/ StartSingBox \/ Output \/ OutputTail \/ SingBoxExit \/ Event
  \/ \E t \in Thread : AppendRead(t) \/ AppendRename(t) \/ AppendPlain(t) \/ AppendFail(t)

\* The flush loop selects between a tick and the closed channel at random, so it
\* takes the channel in the end; an Append that has begun goes on.
Fairness ==
  /\ SF_vars(LoopDone) /\ WF_vars(Close)
  /\ \A t \in Thread : WF_vars(AppendRead(t) \/ AppendRename(t) \/ AppendPlain(t))

Spec == Init /\ [][Next]_vars /\ Fairness
-----------------------------------------------------------------------------
(* Properties *)

Elem(src, n) == [src : {src}, n : 1..n]
Bytes == Elem("header", Headers) \cup Elem("event", Events) \cup Elem("singbox", Outputs) \cup {NL}

TypeOK ==
  /\ {log, pending, tail, headers, written} \subseteq Seq(Bytes)
  /\ held \in [Thread -> Seq(Bytes)] /\ snap \in [Thread -> Seq(Bytes)]
  /\ lock \in Thread \cup {Nobody} /\ {done, closeOk, linked} \subseteq BOOLEAN
  /\ pc["command"] \in {"open", "header", "full", "flush", "close", "closing", "launch", "run",
                        "event", "end"}
  /\ pc["loop"] \in {"off", "idle", "flush", "end"}
  /\ ap \in [Thread -> {"none", "read", "rename"}]
  /\ \A t \in Thread : lock = t => ap[t] = "rename"
  /\ dpc \in {"off", "idle", "write", "ended", "closed"}

\* README.md:828: a bounded log never has more than max_lines lines, whoever
\* writes to it and in which order.
Bounded == MaxLines > 0 => Cardinality(Newlines(log)) <= MaxLines

\* When Close of the buffered writer has returned nil the log ends with the lines
\* that Write accepted, in their order (TestOpenWriterKeepsLastLines).
TailKept ==
  pc["command"] = "launch" /\ closeOk => log = LastLines(headers, MaxLines)

\* Flushes of the loop and of Write overlap, fail and are repeated: when Close has
\* returned nil every accepted line is in the log exactly once (MaxLines >= Headers).
AcceptedOnce ==
  pc["command"] = "launch" /\ closeOk =>
    \A i \in DOMAIN headers \ Newlines(headers) :
      Cardinality({j \in DOMAIN log : log[j] = headers[i]}) = 1

\* Nobody is in the middle of a write.
Quiet == dpc # "write" /\ ap["command"] = "none"

\* Of the last max_lines lines that were written after the start, those of src.
Recent(src) == {i \in DOMAIN LastLines(written, MaxLines) :
                  LastLines(written, MaxLines)[i] \in [src : {src}, n : Nat]}
Visible(src) == \A i \in Recent(src) :
                  \E j \in DOMAIN log : log[j] = LastLines(written, MaxLines)[i]

\* README.md:529: the last lines of sing-box are in its log.
OutputVisible == Quiet => Visible("singbox")

\* README.md:828: the last events of vless-tun are in the session log.
EventsVisible == Quiet => Visible("event")

\* Close of the writer returns: it waits for the loop, which may be flushing.
CloseEnds == pc["command"] = "close" ~> pc["command"] \in {"launch", "run", "end"}
=============================================================================
