----------------------------- MODULE CiscoDump -----------------------------
(***************************************************************************)
(* A dump session (anyconnect/ciscodump/runtime.go, session.go): the       *)
(* commands start and stop, the capture daemon that start leaves behind,   *)
(* the one or two tcpdump captures of the daemon, and the two files they   *)
(* share: runtime/current-session.json and the session's metadata.         *)
(* Session identifiers, timestamps to the second, are taken to be unique.  *)
(***************************************************************************)
EXTENDS Naturals

CONSTANTS Client,      \* command invocations that may run at the same time
          Sess,        \* bound: one element per daemon ever launched
          MaxCount,    \* bound on the snapshot counter
          Faults,      \* BOOLEAN: writes, tcpdump and its stop may fail
          None, Torn

CiscoDumpAssumption ==
  /\ Faults \in BOOLEAN /\ MaxCount \in Nat \ {0}
  /\ None \notin Sess /\ Torn \notin Sess /\ None # Torn
  /\ None \notin {1, 2, "signal", "kill", "save", "stop"}
  /\ {None, Torn} \cap [captures : BOOLEAN, stopped : BOOLEAN, count : 0..MaxCount] = {}

VARIABLES
  current,    \* current-session.json: None, Torn (cut short) or the session it names
  meta,       \* meta[s]: the metadata file: None, Torn or its fields
  opt,        \* opt[s]: the options of the session
  at, term,   \* the step of daemon s, and whether its context is done
  snapshotCount,  \* snapshotCount[s]: the snapshots that daemon s has counted
  cap,        \* cap[s][k]: capture k of daemon s
  derived,    \* derived[s]: the capture the OCSC files were derived from, or None
  pc, cur, mine,  \* per command: its step, the session it loaded, the one it started
  lost        \* lost[s]: why daemon s could not end its captures, or None

files == <<current, meta>>
daemon == <<opt, at, term, snapshotCount, cap, derived, lost>>
vars == <<files, daemon, pc, cur, mine>>

Backend == {"direct", "sudo", "vpn-core"}
NoOpt   == [tcpdump |-> FALSE, loopback |-> FALSE, backend |-> "direct"]
Options == {NoOpt} \cup [tcpdump : {TRUE}, loopback : BOOLEAN, backend : Backend]
Handled == {"loop", "look", "stop1", "stop2", "analyse", "final"}    \* after NotifyContext
Live    == Handled \cup {"boot", "cap1", "cap2", "saveCaps", "signals"}
\* A capture of vpn-core is copied once it has ended; "stopped" is one of which not all was.
CapState == {"none", "running", "ended", "stopped", "copied"}
Ended   == {"idle", "failed", "started", "stopped"}
Step    == Ended \cup {"check", "prepare", "spawn", "saveMeta", "saveCurrent", "stable",
                       "stopCheck", "term", "poll", "kill", "pollKilled", "clear"}

TypeOK ==
  /\ current \in Sess \cup {None, Torn}
  /\ meta \in [Sess -> {None, Torn} \cup
                       [captures : BOOLEAN, stopped : BOOLEAN, count : 0..MaxCount]]
  /\ opt \in [Sess -> Options]
  /\ at \in [Sess -> Live \cup {"none", "exited"}] /\ term \in [Sess -> BOOLEAN]
  /\ snapshotCount \in [Sess -> 0..MaxCount]
  /\ cap \in [Sess -> [1..2 -> CapState]]
  /\ \A s \in Sess, k \in 1..2 : cap[s][k] = "copied" => opt[s].backend = "vpn-core"
  /\ derived \in [Sess -> {None, 1, 2}]
  /\ pc \in [Client -> Step]
  /\ cur \in [Client -> Sess \cup {None}] /\ mine \in [Client -> Sess \cup {None}]
  /\ lost \in [Sess -> {None, "signal", "kill", "save", "stop"}]

Init ==
  /\ current = None
  /\ meta = [s \in Sess |-> None]
  /\ opt = [s \in Sess |-> NoOpt]
  /\ at = [s \in Sess |-> "none"] /\ term = [s \in Sess |-> FALSE]
  /\ snapshotCount = [s \in Sess |-> 0]
  /\ cap = [s \in Sess |-> [k \in 1..2 |-> "none"]]
  /\ derived = [s \in Sess |-> None]
  /\ pc = [c \in Client |-> "idle"]
  /\ cur = [c \in Client |-> None] /\ mine = [c \in Client |-> None]
  /\ lost = [s \in Sess |-> None]

Goto(c, step) == pc' = [pc EXCEPT ![c] = step]
Become(s, step) == at' = [at EXCEPT ![s] = step]

\* SessionAlive: kill(pid, 0).  A daemon that has exited is a zombie, and alive in this
\* sense, until the start that spawned it ends: nobody waits for it.
SessionAlive(s) ==
  \/ at[s] \in Live
  \/ at[s] = "exited" /\ \E c \in Client : mine[c] = s /\ pc[c] \notin Ended

\* shouldStartOCSCLoopbackCapture: a sidecar unless the primary is the loopback capture.
shouldStartOCSCLoopbackCapture(s) == ~opt[s].loopback
Captures(s) == IF ~opt[s].tcpdump THEN {}
               ELSE IF shouldStartOCSCLoopbackCapture(s) THEN {1, 2} ELSE {1}

\* resolveOCSCPcapPath: the capture that holds the loopback traffic.
resolveOCSCPcapPath(s) == IF ~opt[s].tcpdump THEN None
                          ELSE IF shouldStartOCSCLoopbackCapture(s) THEN 2 ELSE 1

Fields(captures, stopped, count) ==
  [captures |-> captures, stopped |-> stopped, count |-> count]
More(n) == IF n < MaxCount THEN n + 1 ELSE n

\* saveJSON truncates the file before it writes: a failure, or a kill, may leave it torn.
Tear(s) == meta' = [meta EXCEPT ![s] = Torn]
SaveMetadata(s, fields) == meta' = [meta EXCEPT ![s] = fields]
SaveMetadataFails(s) == Tear(s) \/ UNCHANGED meta

-----------------------------------------------------------------------------
(* dump start: Start *)

\* A record that cannot be read ends the start, and nothing removes it.
StartLoad(c) ==
  /\ pc[c] \in Ended
  /\ mine' = [mine EXCEPT ![c] = None]
  /\ cur' = [cur EXCEPT ![c] = IF current = Torn THEN None ELSE current]
  /\ Goto(c, IF current = Torn THEN "failed" ELSE "check")
  /\ UNCHANGED <<files, daemon>>

\* An active session refuses the start, a dead one has its record removed.
StartCheck(c) ==
  /\ pc[c] = "check"
  /\ IF cur[c] = None THEN Goto(c, "prepare") /\ UNCHANGED current
     ELSE IF SessionAlive(cur[c]) THEN Goto(c, "failed") /\ UNCHANGED current
     ELSE current' = None /\ Goto(c, "prepare")
  /\ UNCHANGED <<meta, daemon, cur, mine>>

\* Directories, interface, filter, tcpdump binary and backend, sudo -v, log file.
Prepare(c) ==
  /\ pc[c] = "prepare"
  /\ Goto(c, "spawn") \/ (Faults /\ Goto(c, "failed"))
  /\ UNCHANGED <<files, daemon, cur, mine>>

\* cmd.Start of "__daemon" in a process group of its own, with the resolved options.
Spawn(c) ==
  /\ pc[c] = "spawn"
  /\ \E s \in Sess, o \in Options :
        /\ at[s] = "none"
        /\ opt' = [opt EXCEPT ![s] = o] /\ Become(s, "boot")
        /\ mine' = [mine EXCEPT ![c] = s]
  /\ Goto(c, "saveMeta")
  /\ UNCHANGED <<files, term, snapshotCount, cap, derived, lost, cur>>

\* SaveMetadata and SaveCurrent; a failure kills the process group of the daemon.
SaveMeta(c) ==
  /\ pc[c] = "saveMeta"
  /\ SaveMetadata(mine[c], Fields(FALSE, FALSE, 0))
  /\ Goto(c, "saveCurrent")
  /\ UNCHANGED <<current, daemon, cur, mine>>

SaveCurrent(c) ==
  /\ pc[c] = "saveCurrent"
  /\ current' = mine[c]
  /\ Goto(c, "stable")
  /\ UNCHANGED <<meta, daemon, cur, mine>>

\* waitForStableStart: 400 ms in which SessionAlive must not be false.
StableStart(c) ==
  /\ pc[c] = "stable"
  /\ IF SessionAlive(mine[c]) THEN Goto(c, "started") /\ UNCHANGED current
     ELSE current' = None /\ Goto(c, "failed")
  /\ UNCHANGED <<meta, daemon, cur, mine>>

\* Also in the middle of a write.
Interrupt(c) ==
  /\ pc[c] \notin Ended
  /\ Goto(c, "failed")
  /\ \/ UNCHANGED files
     \/ pc[c] = "saveMeta" /\ Tear(mine[c]) /\ UNCHANGED current
     \/ pc[c] = "saveCurrent" /\ current' = Torn /\ UNCHANGED meta
     \/ /\ pc[c] \in {"poll", "pollKilled"} /\ ~SessionAlive(cur[c])
        /\ Tear(cur[c]) /\ UNCHANGED current
  /\ UNCHANGED <<daemon, cur, mine>>

-----------------------------------------------------------------------------
(* Signals *)

\* A daemon that dies while it saves its metadata.
CutShort(s, saving) == (at[s] \in saving /\ Tear(s)) \/ UNCHANGED meta

\* SIGTERM: the context is done once NotifyContext is installed; before, the daemon dies
\* and leaves its captures.
Terminate(s) ==
  /\ IF at[s] \in Handled THEN term' = [term EXCEPT ![s] = TRUE] /\ UNCHANGED <<at, lost>>
     ELSE IF at[s] \in Live
     THEN Become(s, "exited") /\ lost' = [lost EXCEPT ![s] = "signal"] /\ UNCHANGED term
     ELSE UNCHANGED <<at, term, lost>>
  /\ CutShort(s, {"saveCaps"})
  /\ UNCHANGED <<opt, snapshotCount, cap, derived>>

\* killProcessGroup with SIGKILL: the daemon and its direct children; a tcpdump under sudo
\* may be out of reach, one of vpn-core's is in another group.
KillGroup(s) ==
  /\ at' = [at EXCEPT ![s] = IF @ \in Live THEN "exited" ELSE @]
  /\ \E reach \in {{"direct"}, {"direct", "sudo"}} :
        cap' = [cap EXCEPT ![s] = [k \in 1..2 |->
                  IF @[k] = "running" /\ opt[s].backend \in reach THEN "ended" ELSE @[k]]]
  /\ lost' = [lost EXCEPT ![s] = IF at[s] \in Live THEN "kill" ELSE @]
  /\ UNCHANGED <<opt, term, snapshotCount, derived>>

SaveFails(c) ==
  /\ Faults
  /\ \/ pc[c] = "saveMeta" /\ SaveMetadataFails(mine[c]) /\ UNCHANGED current
     \/ pc[c] = "saveCurrent" /\ current' \in {current, Torn} /\ UNCHANGED meta
  /\ KillGroup(mine[c])
  /\ Goto(c, "failed")
  /\ UNCHANGED <<cur, mine>>

-----------------------------------------------------------------------------
(* dump stop: Stop *)

StopLoad(c) ==
  /\ pc[c] \in Ended
  /\ mine' = [mine EXCEPT ![c] = None]
  /\ cur' = [cur EXCEPT ![c] = IF current = Torn THEN None ELSE current]
  /\ Goto(c, CASE current = None -> "idle" [] current = Torn -> "failed" [] OTHER -> "stopCheck")
  /\ UNCHANGED <<files, daemon>>

StopCheck(c) ==
  /\ pc[c] = "stopCheck"
  /\ IF SessionAlive(cur[c]) THEN Goto(c, "term") /\ UNCHANGED current
     ELSE current' = None /\ Goto(c, "idle")
  /\ UNCHANGED <<meta, daemon, cur, mine>>

Term(c) ==
  /\ pc[c] = "term"
  /\ Terminate(cur[c])
  /\ Goto(c, "poll")
  /\ UNCHANGED <<current, cur, mine>>

\* Mutant: the metadata is not read again after the daemon has ended.
RefreshSkipped(s) == Fields(FALSE, FALSE, 1)

\* The metadata as the daemon left it, or the record where it cannot be read; then one
\* more host probe snapshot, saved (captureFinalStopHostProbes).
Refresh(s) ==
  IF meta[s] \in {None, Torn} THEN Fields(FALSE, FALSE, 1)
  ELSE [meta[s] EXCEPT !.count = More(@)]

\* The daemon is gone, before or after SIGKILL.
Gone(c) ==
  /\ pc[c] \in {"poll", "pollKilled"}
  /\ ~SessionAlive(cur[c])
  /\ \/ SaveMetadata(cur[c], Refresh(cur[c]))
     \/ UNCHANGED meta                       \* no probe hosts, or a probe error
     \/ Faults /\ SaveMetadataFails(cur[c])
  /\ Goto(c, "clear")
  /\ UNCHANGED <<current, daemon, cur, mine>>

\* The deadline: fail, or go on to SIGKILL with --force; after that only fail.
PollTimeout(c) ==
  /\ pc[c] \in {"poll", "pollKilled"}
  /\ SessionAlive(cur[c])
  /\ Goto(c, "failed") \/ (pc[c] = "poll" /\ Goto(c, "kill"))
  /\ UNCHANGED <<files, daemon, cur, mine>>

Kill(c) ==
  /\ pc[c] = "kill"
  /\ KillGroup(cur[c]) /\ CutShort(cur[c], {"saveCaps", "loop", "final"})
  /\ Goto(c, "pollKilled")
  /\ UNCHANGED <<current, cur, mine>>

\* ClearCurrent; the state "stopped" stands for "killed" too.
Clear(c) ==
  /\ pc[c] = "clear"
  /\ current' = None
  /\ Goto(c, "stopped")
  /\ UNCHANGED <<meta, daemon, cur, mine>>

-----------------------------------------------------------------------------
(* The daemon: RunDaemon *)

\* Mutant: the daemon does not compare the recorded session with its own.
BootUnchecked(s) ==
  /\ at[s] = "boot"
  /\ Become(s, IF current = None THEN "exited" ELSE IF opt[s].tcpdump THEN "cap1" ELSE "signals")
  /\ UNCHANGED <<files, opt, term, snapshotCount, cap, derived, lost, pc, cur, mine>>

Boot(s) ==
  /\ at[s] = "boot"
  /\ Become(s, IF current # s THEN "exited" ELSE IF opt[s].tcpdump THEN "cap1" ELSE "signals")
  /\ UNCHANGED <<files, opt, term, snapshotCount, cap, derived, lost, pc, cur, mine>>

\* startTCPDump of the primary and of the loopback capture.
StartCapture(s) ==
  /\ at[s] \in {"cap1", "cap2"}
  /\ cap' = [cap EXCEPT ![s][IF at[s] = "cap1" THEN 1 ELSE 2] = "running"]
  /\ Become(s, IF at[s] = "cap1" /\ 2 \in Captures(s) THEN "cap2" ELSE "saveCaps")
  /\ UNCHANGED <<files, opt, term, snapshotCount, derived, lost, pc, cur, mine>>

\* Mutant: every capture is taken for one of vpn-core's.
StoppedCaptureCopied(s) == "copied"

\* What the stop function of a running capture does: a vpn-core capture is copied to the
\* session's directory, any other one writes there.
StoppedCapture(s) == IF opt[s].backend = "vpn-core" THEN "copied" ELSE "stopped"

\* Mutant: the primary capture is left running when the second one cannot be started.
StartCaptureFailsQuietly(s) ==
  /\ Faults /\ at[s] \in {"cap1", "cap2"}
  /\ Become(s, "exited")
  /\ UNCHANGED <<files, opt, term, snapshotCount, cap, derived, lost, pc, cur, mine>>

\* One cannot be started: the daemon ends, after it has stopped the primary capture.
StartCaptureFails(s) ==
  /\ Faults /\ at[s] \in {"cap1", "cap2"}
  /\ Become(s, "exited")
  /\ \/ \E how \in {"stopped", StoppedCapture(s)} :
          /\ cap' = [cap EXCEPT ![s][1] = IF @ = "running" THEN how ELSE @]
          /\ UNCHANGED lost
     \/ /\ at[s] = "cap2" /\ lost' = [lost EXCEPT ![s] = "stop"]
        /\ UNCHANGED cap
  /\ UNCHANGED <<files, opt, term, snapshotCount, derived, pc, cur, mine>>

\* The pids and handles go to the metadata; a failure ends the daemon at once.
SaveCaptures(s) ==
  /\ at[s] = "saveCaps"
  /\ \/ /\ SaveMetadata(s, Fields(TRUE, FALSE, 0))
        /\ Become(s, "signals")
        /\ UNCHANGED lost
     \/ /\ Faults /\ SaveMetadataFails(s)
        /\ Become(s, "exited") /\ lost' = [lost EXCEPT ![s] = "save"]
  /\ UNCHANGED <<current, opt, term, snapshotCount, cap, derived, pc, cur, mine>>

\* captureState: what has changed since the last look is written and counted.
CaptureState(s) ==
  \E n \in {snapshotCount[s], More(snapshotCount[s])} :
    snapshotCount' = [snapshotCount EXCEPT ![s] = n]

\* signal.NotifyContext, and the first captureState.
NotifyContext(s) ==
  /\ at[s] = "signals"
  /\ CaptureState(s) /\ Become(s, "loop")
  /\ UNCHANGED <<files, opt, term, cap, derived, lost, pc, cur, mine>>

\* A tick: snapshots, and the counter saved; an error of the save is ignored.  The select
\* may take a tick although the context is done.
Tick(s) ==
  /\ at[s] = "loop"
  /\ CaptureState(s)
  /\ \/ SaveMetadata(s, Fields(opt[s].tcpdump, FALSE, snapshotCount'[s]))
     \/ Faults /\ SaveMetadataFails(s)
  /\ UNCHANGED <<current, opt, at, term, cap, derived, lost, pc, cur, mine>>

\* ctx.Done, and the last look of the monitor, while the captures still run.
Done(s) ==
  /\ at[s] = "loop" /\ term[s]
  /\ Become(s, "look")
  /\ UNCHANGED <<files, opt, term, snapshotCount, cap, derived, lost, pc, cur, mine>>

LastLook(s) ==
  /\ at[s] = "look"
  /\ CaptureState(s) /\ Become(s, "stop1")
  /\ UNCHANGED <<files, opt, term, cap, derived, lost, pc, cur, mine>>

\* Mutant: the stop of a capture waits for its exit without a deadline.
StopCaptureWaits(s) ==
  /\ at[s] \in {"stop1", "stop2"}
  /\ cap[s][IF at[s] = "stop1" THEN 1 ELSE 2] # "running"
  /\ Become(s, IF at[s] = "stop1" /\ 2 \in Captures(s) THEN "stop2" ELSE "analyse")
  /\ UNCHANGED <<files, opt, term, snapshotCount, cap, derived, lost, pc, cur, mine>>

\* stopChildProcess or stopDetachedPID: TERM, then KILL.  An error is logged and the
\* daemon goes on, be it of the signal, which leaves the capture running, or of the copy;
\* vpn-core has no handle any more for a capture that has ended by itself.
StopCapture(s) ==
  /\ at[s] \in {"stop1", "stop2"}
  /\ LET k == IF at[s] = "stop1" THEN 1 ELSE 2
     IN \/ /\ cap' = [cap EXCEPT ![s][k] =
                        CASE @ = "running" -> StoppedCapture(s)
                          [] @ = "ended" /\ opt[s].backend # "vpn-core" -> "stopped"
                          [] OTHER -> @]
           /\ UNCHANGED lost
        \/ /\ Faults /\ cap[s][k] = "running"
           /\ cap' = [cap EXCEPT ![s][k] = "stopped"] /\ UNCHANGED lost
        \/ /\ Faults /\ cap[s][k] = "running"
           /\ lost' = [lost EXCEPT ![s] = "stop"]
           /\ UNCHANGED cap
  /\ Become(s, IF at[s] = "stop1" /\ 2 \in Captures(s) THEN "stop2" ELSE "analyse")
  /\ UNCHANGED <<files, opt, term, snapshotCount, derived, pc, cur, mine>>

\* Mutant: the traffic of the primary capture is analysed.
AnalysePrimary(s) ==
  /\ at[s] = "analyse"
  /\ derived' = [derived EXCEPT ![s] = IF opt[s].tcpdump THEN 1 ELSE None]
  /\ Become(s, "final")
  /\ UNCHANGED <<files, opt, term, snapshotCount, cap, lost, pc, cur, mine>>

\* tcpdump writes the file of a capture itself, for vpn-core it is copied at the stop.
HasPcap(s, k) == opt[s].backend = "vpn-core" => cap[s][k] \in {"stopped", "copied"}

\* AnalyzeOCSCArtifactDir on the loopback capture, whether it could be stopped or not; an
\* error is logged, and without a frame there is nothing to write.
Analyse(s) ==
  /\ at[s] = "analyse"
  /\ \/ UNCHANGED derived
     \/ LET k == resolveOCSCPcapPath(s)
        IN k # None /\ HasPcap(s, k) /\ derived' = [derived EXCEPT ![s] = k]
  /\ Become(s, "final")
  /\ UNCHANGED <<files, opt, term, snapshotCount, cap, lost, pc, cur, mine>>

Final(s) ==
  /\ at[s] = "final"
  /\ \/ SaveMetadata(s, Fields(opt[s].tcpdump, TRUE, snapshotCount[s]))
     \/ Faults /\ SaveMetadataFails(s)
  /\ Become(s, "exited")
  /\ UNCHANGED <<current, opt, term, snapshotCount, cap, derived, lost, pc, cur, mine>>

\* tcpdump ends by itself (external).
CaptureEnds(s, k) ==
  /\ Faults /\ cap[s][k] = "running"
  /\ cap' = [cap EXCEPT ![s][k] = "ended"]
  /\ UNCHANGED <<files, opt, at, term, snapshotCount, derived, lost, pc, cur, mine>>

DaemonStep(s) == \/ Boot(s) \/ StartCapture(s) \/ StartCaptureFails(s) \/ SaveCaptures(s)
                 \/ NotifyContext(s) \/ Done(s) \/ LastLook(s) \/ StopCapture(s) \/ Analyse(s)
                 \/ Final(s)

StartStep(c) == \/ StartCheck(c) \/ Prepare(c) \/ Spawn(c) \/ SaveMeta(c) \/ SaveCurrent(c)
                \/ SaveFails(c) \/ StableStart(c)
StopStep(c) == StopCheck(c) \/ Term(c) \/ Gone(c) \/ PollTimeout(c) \/ Kill(c) \/ Clear(c)

Next ==
  \/ \E c \in Client : StartLoad(c) \/ StopLoad(c) \/ Interrupt(c) \/ StartStep(c) \/ StopStep(c)
  \/ \E s \in Sess : DaemonStep(s) \/ Tick(s) \/ \E k \in 1..2 : CaptureEnds(s, k)

\* The daemon is a process of its own and goes on.  Its stops of the captures have deadlines;
\* the ps, lsof, netstat and scutil of a look have none, and are taken to return.
Fairness == \A s \in Sess : WF_vars(DaemonStep(s))

Spec == Init /\ [][Next]_vars /\ Fairness

-----------------------------------------------------------------------------
(* With one command at a time at most one daemon gets past its comparison   *)
(* with current-session.json, whichever starts were interrupted before      *)
(* (Start's refusal, RunDaemon's session mismatch).                         *)
OneDaemon ==
  \A s, t \in Sess : at[s] \in Live \ {"boot"} /\ at[t] \in Live \ {"boot"} => s = t

(* A running tcpdump has a daemon that will stop it, unless that daemon was *)
(* killed, signalled before it handled signals, could not save the pids or  *)
(* was told that the stop failed: no other error path leaves one behind.    *)
CapturesOwned ==
  \A s \in Sess, k \in 1..2 : cap[s][k] = "running" => at[s] \in Live \/ lost[s] # None

(* The metadata never forgets: the handles of the captures, the stop time   *)
(* and the snapshot count survive every later write of the daemon and of    *)
(* stop (saveJSON), except where a write failed or was cut short.           *)
MetadataKept ==
  [][\A s \in Sess :
       meta[s] \notin {None, Torn} /\ meta'[s] # Torn =>
         /\ meta[s].captures => meta'[s].captures
         /\ meta[s].stopped => meta'[s].stopped
         /\ meta[s].count <= meta'[s].count]_vars

(* The OCSC files are derived from the capture that holds the loopback      *)
(* traffic, the sidecar or a primary that is the loopback capture itself,   *)
(* and never from one that is still being written, unless its stop failed   *)
(* (after which the daemon may still be killed).                            *)
OcscFromLoopback ==
  \A s \in Sess : derived[s] # None =>
    /\ derived[s] = 1 <=> opt[s].loopback
    /\ cap[s][derived[s]] = "running" => lost[s] \in {"stop", "kill"}

(* A daemon whose context is done ends.                                     *)
DaemonEnds == \A s \in Sess : term[s] ~> at[s] = "exited"

-----------------------------------------------------------------------------
(* What a document, a comment or an error message of the repository says   *)
(* and the model refutes: see "What the code does not keep" in README.md.  *)

(* A start that reports an active session has a daemon that has not exited. *)
StartHonest ==
  [][\A c \in Client : pc[c] = "stable" /\ pc'[c] = "started" => at[mine[c]] \in Live]_vars

(* A stop that reports "stopped" without having used SIGKILL has ended the  *)
(* captures of the session.                                                 *)
StopEndsCaptures ==
  \A c \in Client, k \in 1..2 :
    pc[c] = "stopped" /\ lost[cur[c]] # "kill" => cap[cur[c]][k] # "running"

=============================================================================
