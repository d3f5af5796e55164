---------------------------- MODULE VlessSession ----------------------------
(***************************************************************************)
(* vless-tun start, stop and reconnect over one cache directory: the        *)
(* current-session.json record, the sing-box process, the Xray sidecar and  *)
(* the system DNS hand-off (desktop/internal/vless/session, vless/cli).     *)
(*                                                                          *)
(* A command is a process of its own that may be killed at any step.  A     *)
(* process is known by its pid and by the identity (name and start time)    *)
(* read when it was started; pids are reused by strangers.  In helper mode  *)
(* vpn-core starts sing-box and signals it by handle, which never reaches   *)
(* a stranger (HandleNamesItsChild of VpnCoreDaemon); in direct and sudo    *)
(* mode, and for sidecars, the process is a child that the command never    *)
(* waits for, a zombie from its exit until the command ends.                *)
(***************************************************************************)
EXTENDS Naturals

CONSTANTS
  Client,  \* command processes
  Sess,    \* session ids
  Pid,     \* process ids
  Mode,    \* launch modes in use: vpn-core ("helper"), or a child ("direct", sudo the same)
  Engine,  \* engines in use
  NetworkSetup,  \* whether networksetup is there to fall back to
  None

ASSUME SessionAssumption ==
  /\ None \notin Client \cup Sess \cup Pid
  /\ "corrupt" \notin Sess \cup {None}
  /\ Mode \subseteq {"helper", "direct"}
  /\ Engine \subseteq {"singbox", "xray"}
  /\ NetworkSetup \in BOOLEAN

VARIABLES
  record,   \* current-session.json: a session, None, or "corrupt"
  info,     \* info[s]: the CurrentSession that was or will be recorded
  used,     \* session ids drawn so far
  proc,     \* the process table
  scutil,   \* sessions whose State:/Network/Service entry is set
  servers,  \* the DNS servers of the network service: the user's own, or the proxy's
  pc,       \* pc[c]: the step command c is about to take
  cmd,      \* cmd[c]: the command and its --force
  cur,      \* cur[c]: the session Stop has loaded
  mine,     \* mine[c]: the session Start is starting
  targets,  \* targets[c]: orphan sidecars found by ps
  lost,     \* history: sessions a failed or killed start, or an unknown liveness, let go
  stray     \* history: the clean-up of a failed start ended a process it had not started

osVars  == <<proc, scutil, servers>>
cmdVars == <<cmd, cur, mine, targets>>
vars == <<record, info, used, osVars, pc, cmdVars, lost, stray>>

-----------------------------------------------------------------------------
(* Values *)

\* What CurrentSession keeps that the later steps read.  ident is the identity recorded
\* for the pid of sing-box, None when it was a stranger's; clear is the choice of Start
\* to end a failure with ClearCurrent.
Info == [mode : {"helper", "direct"}, engine : {"singbox", "xray"}, main : Pid \cup {None}, side : Pid \cup {None},
         ident : Sess \cup {None}, dns : {"none", "scutil", "service"}, restore : {"own", "proxy"},
         clear : BOOLEAN]

NoInfo == [mode |-> "direct", engine |-> "singbox", main |-> None, side |-> None, ident |-> None,
           dns |-> "none", restore |-> "own", clear |-> FALSE]

\* A process is the sing-box or the sidecar of a session, or a stranger; parent is the
\* command that has not waited for it.
Process == [st : {"free", "running", "zombie"}, kind : {"none", "main", "side", "stranger"},
            sess : Sess \cup {None}, parent : Client \cup {None}]
FreePid == [st |-> "free", kind |-> "none", sess |-> None, parent |-> None]
Child(k, s, c) == [st |-> "running", kind |-> k, sess |-> s, parent |-> c]

Command == [name : {"start", "stop", "reconnect"}, force : BOOLEAN]
\* start has no --force.
Given == {r \in Command : r.name = "start" => ~r.force}

StopStep  == {"load", "alive?", "term", "poll", "kill", "repoll", "side", "sideTerm", "sidePoll",
              "sideKill", "restore", "clear"}
StartStep == {"orphans", "orphan", "reorphans", "reorphan", "sidecar", "sideWait", "spawn", "identify", "metadata", "stable",
              "dns", "ready", "save", "undoDNS", "undoKill", "undoSide", "undoClear"}
Step == {"idle", "check", "prepare", "recheck", "guard", "failed", "stopped", "started"}
          \cup StopStep \cup StartStep

Goto(c, step) == pc' = [pc EXCEPT ![c] = step]

\* The process of a session that still runs.
Runs(k, s) == \E p \in Pid : proc[p].st = "running" /\ proc[p].kind = k /\ proc[p].sess = s

-----------------------------------------------------------------------------
(* Processes *)

\* A process that ends stays a zombie while its parent has not waited for it.
Ended(process) ==
  IF process.parent = None THEN FreePid ELSE [process EXCEPT !.st = "zombie"]

Ends(p) == [proc EXCEPT ![p] = IF @.st = "free" THEN @ ELSE Ended(@)]

\* The end of command c: nobody waits for its children any more.
Reparented(c) ==
  [p \in Pid |-> IF proc[p].parent # c THEN proc[p]
                 ELSE IF proc[p].st = "zombie" THEN FreePid ELSE [proc[p] EXCEPT !.parent = None]]

\* What ProcessAlive and the comparison of identities may answer for the process k of s
\* that was recorded at pid p: kill(pid, 0) also finds a zombie, and the identity of a
\* process may be unreadable.  A recorded stranger may or may not be the one seen now.
Seen(p, k, s) ==
  IF p = None \/ proc[p].st = "free" THEN {"dead"}
  ELSE IF s = None THEN {"alive", "dead", "unknown"}
  ELSE IF proc[p].kind = k /\ proc[p].sess = s THEN {"alive", "unknown"}
  ELSE {"dead", "unknown"}

\* SessionAlive.
SessionAlive(s) ==
  IF info[s].ident = s THEN Seen(info[s].main, "main", s) ELSE Seen(info[s].main, "main", None)

\* sidecarAlive.
SidecarAlive(s) == Seen(info[s].side, "side", s)

\* currentSessionState.
CurrentState ==
  IF record = None THEN {"none"} ELSE IF record = "corrupt" THEN {"unknown"} ELSE SessionAlive(record)

\* signalGroup reaches whoever has the pid.  SIGTERM may be ignored, SIGKILL may not;
\* either may be refused (EPERM).
SignalGroup(p, sure) == proc' = Ends(p) \/ (~sure /\ UNCHANGED proc)

\* vpn-core signals by handle: it reaches sing-box or fails.
SignalMain(s, sure) ==
  /\ info[s].mode = "helper" => Runs("main", s)
  /\ SignalGroup(info[s].main, sure)

\* Whether that signal ended a process that is not the one of s.
Stray(s, k) ==
  \E p \in Pid : proc'[p].st # proc[p].st /\ ~(proc[p].kind = k /\ proc[p].sess = s)

-----------------------------------------------------------------------------
Init ==
  /\ record = None
  /\ info = [s \in Sess |-> NoInfo]
  /\ used = {}
  /\ proc = [p \in Pid |-> FreePid]
  /\ scutil = {}
  /\ servers = "own"
  /\ pc = [c \in Client |-> "idle"]
  /\ cmd = [c \in Client |-> [name |-> "stop", force |-> FALSE]]
  /\ cur = [c \in Client |-> None]
  /\ mine = [c \in Client |-> None]
  /\ targets = [c \in Client |-> {}]
  /\ lost = {}
  /\ stray = FALSE

-----------------------------------------------------------------------------
(* runStartCommand, runReconnect and runStop *)

Run(c) ==
  /\ pc[c] = "idle"
  /\ \E r \in Given :
       /\ cmd' = [cmd EXCEPT ![c] = r]
       /\ \/ r.name = "start" /\ Goto(c, "check")
          \/ r.name = "stop" /\ Goto(c, "load")
          \/ r.name = "reconnect" /\ Goto(c, "prepare")
  /\ UNCHANGED <<record, info, used, osVars, cur, mine, targets, lost, stray>>

\* The first look, before the subscription is fetched.
Check(c) ==
  /\ pc[c] = "check"
  /\ \E state \in CurrentState : Goto(c, IF state = "alive" THEN "failed" ELSE "prepare")
  /\ UNCHANGED <<record, info, used, osVars, cmdVars, lost, stray>>

\* prepareStart and preflightReplacement: refresh, select, render.
Prepare(c) ==
  /\ pc[c] = "prepare"
  /\ \/ Goto(c, "failed")
     \/ Goto(c, IF cmd[c].name = "start" THEN "recheck" ELSE "load")
  /\ UNCHANGED <<record, info, used, osVars, cmdVars, lost, stray>>

\* The second look: a stale session is cleaned up with force, and a start that cannot
\* tell whether the recorded session lives goes on.
Recheck(c) ==
  /\ pc[c] = "recheck"
  /\ \E state \in CurrentState :
       /\ \/ state = "alive" /\ Goto(c, "failed") /\ UNCHANGED cmd
          \/ state = "dead" /\ Goto(c, "load") /\ cmd' = [cmd EXCEPT ![c].force = TRUE]
          \/ state \in {"none", "unknown"} /\ Goto(c, "guard") /\ UNCHANGED cmd
       /\ lost' = IF state = "unknown" THEN lost \cup ({record} \cap Sess) ELSE lost
  /\ UNCHANGED <<record, info, used, osVars, cur, mine, targets, stray>>

-----------------------------------------------------------------------------
(* Stop *)

\* A start or reconnect goes on after its stop.
Stopped(c) == IF cmd[c].name = "stop" THEN "stopped" ELSE "guard"

\* Mutant: a record that cannot be decoded is used as it is.
LoadUndecoded(c) ==
  /\ pc[c] = "load"
  /\ record # None
  /\ Goto(c, "failed")
  /\ cur' = [cur EXCEPT ![c] = record]
  /\ UNCHANGED <<record, info, used, osVars, cmd, mine, targets, lost, stray>>

Load(c) ==
  /\ pc[c] = "load"
  /\ \/ record = None /\ Goto(c, Stopped(c)) /\ cur' = [cur EXCEPT ![c] = None]
     \/ record = "corrupt" /\ Goto(c, "failed") /\ UNCHANGED cur
     \/ record \in Sess /\ Goto(c, "alive?") /\ cur' = [cur EXCEPT ![c] = record]
  /\ UNCHANGED <<record, info, used, osVars, cmd, mine, targets, lost, stray>>

\* Where an observation of sing-box or of the sidecar takes Stop.
Follow(c, seen, ifAlive, ifDead) ==
  Goto(c, IF seen = "unknown" THEN "failed" ELSE IF seen = "alive" THEN ifAlive ELSE ifDead)

Observe(c) ==
  /\ pc[c] = "alive?"
  /\ \E seen \in SessionAlive(cur[c]) : Follow(c, seen, "term", "side")
  /\ UNCHANGED <<record, info, used, osVars, cmdVars, lost, stray>>

Term(c) ==
  /\ pc[c] = "term"
  /\ \/ SignalMain(cur[c], FALSE) /\ Goto(c, "poll")
     \/ Goto(c, "failed") /\ UNCHANGED proc
  /\ UNCHANGED <<record, info, used, scutil, servers, cmdVars, lost, stray>>

\* Mutant: an identity that cannot be read counts as gone.
PollUnknownIsGone(c) ==
  /\ pc[c] \in {"poll", "repoll"}
  /\ SessionAlive(cur[c]) # {"alive"}
  /\ Goto(c, "side")
  /\ UNCHANGED <<record, info, used, osVars, cmdVars, lost, stray>>

\* Polls end when sing-box is gone or its liveness is unknown ...
Poll(c) ==
  /\ pc[c] \in {"poll", "repoll"}
  /\ \E seen \in SessionAlive(cur[c]) \ {"alive"} : Follow(c, seen, "poll", "side")
  /\ UNCHANGED <<record, info, used, osVars, cmdVars, lost, stray>>

\* Mutant: the timeout is taken for success.
TimeoutAsStopped(c) ==
  /\ pc[c] \in {"poll", "repoll"}
  /\ Goto(c, IF pc[c] = "poll" /\ cmd[c].force THEN "kill" ELSE "side")
  /\ UNCHANGED <<record, info, used, osVars, cmdVars, lost, stray>>

\* ... or after the timeout.
PollTimeout(c) ==
  /\ pc[c] \in {"poll", "repoll"}
  /\ Goto(c, IF pc[c] = "poll" /\ cmd[c].force THEN "kill" ELSE "failed")
  /\ UNCHANGED <<record, info, used, osVars, cmdVars, lost, stray>>

Kill(c) ==
  /\ pc[c] = "kill"
  /\ \/ SignalMain(cur[c], TRUE) /\ Goto(c, "repoll")
     \/ Goto(c, "failed") /\ UNCHANGED proc
  /\ UNCHANGED <<record, info, used, scutil, servers, cmdVars, lost, stray>>

\* Mutant: a sidecar whose identity cannot be read counts as gone.
SideUnknownIsGone(c) ==
  /\ pc[c] = "side"
  /\ Goto(c, IF SidecarAlive(cur[c]) = {"alive"} THEN "sideTerm" ELSE "restore")
  /\ UNCHANGED <<record, info, used, osVars, cmdVars, lost, stray>>

\* stopSidecar
Side(c) ==
  /\ pc[c] = "side"
  /\ \E seen \in SidecarAlive(cur[c]) : Follow(c, seen, "sideTerm", "restore")
  /\ UNCHANGED <<record, info, used, osVars, cmdVars, lost, stray>>

SideTerm(c) ==
  /\ pc[c] = "sideTerm"
  /\ \/ SignalGroup(info[cur[c]].side, FALSE) /\ Goto(c, "sidePoll")
     \/ Goto(c, "failed") /\ UNCHANGED proc
  /\ UNCHANGED <<record, info, used, scutil, servers, cmdVars, lost, stray>>

\* The last look before SIGKILL is one of these too.
SidePoll(c) ==
  /\ pc[c] = "sidePoll"
  /\ \E seen \in SidecarAlive(cur[c]) :
       Follow(c, seen, IF cmd[c].force THEN "sideKill" ELSE "failed", "restore")
  /\ UNCHANGED <<record, info, used, osVars, cmdVars, lost, stray>>

\* Nobody waits for the sidecar after SIGKILL.
SideKill(c) ==
  /\ pc[c] = "sideKill"
  /\ \/ SignalGroup(info[cur[c]].side, TRUE) /\ Goto(c, "restore")
     \/ Goto(c, "failed") /\ UNCHANGED proc
  /\ UNCHANGED <<record, info, used, scutil, servers, cmdVars, lost, stray>>

\* restoreSystemDNSHandoff succeeds.
RestoreDNS(s) ==
  /\ scutil' = IF info[s].dns = "scutil" THEN scutil \ {s} ELSE scutil
  /\ servers' = IF info[s].dns = "service" THEN info[s].restore ELSE servers

\* Mutant: a failed restore does not keep the record.
RestoreBestEffort(c) ==
  /\ pc[c] = "restore"
  /\ RestoreDNS(cur[c]) \/ UNCHANGED <<scutil, servers>>
  /\ Goto(c, "clear")
  /\ UNCHANGED <<record, info, used, proc, cmdVars, lost, stray>>

Restore(c) ==
  /\ pc[c] = "restore"
  /\ \/ RestoreDNS(cur[c]) /\ Goto(c, "clear")
     \/ info[cur[c]].dns # "none" /\ Goto(c, "failed") /\ UNCHANGED <<scutil, servers>>
  /\ UNCHANGED <<record, info, used, proc, cmdVars, lost, stray>>

\* ClearCurrent removes the file, whichever session it names by now.
Clear(c) ==
  /\ pc[c] = "clear"
  /\ \/ record' = None /\ Goto(c, Stopped(c))
     \/ UNCHANGED record /\ Goto(c, "failed")
  /\ UNCHANGED <<info, used, osVars, cmdVars, lost, stray>>

-----------------------------------------------------------------------------
(* Start *)

\* A session id and a log; guardNestedTunnelStartup may refuse.
Guard(c) ==
  /\ pc[c] = "guard"
  /\ \/ Goto(c, "failed") /\ UNCHANGED <<info, used, mine>>
     \/ \E s \in Sess \ used, m \in Mode, e \in Engine :
          /\ used' = used \cup {s}
          /\ mine' = [mine EXCEPT ![c] = s]
          /\ info' = [info EXCEPT ![s] = [NoInfo EXCEPT !.mode = m, !.engine = e]]
          /\ Goto(c, IF e = "xray" THEN "orphans" ELSE "spawn")
  /\ UNCHANGED <<record, osVars, cmd, cur, targets, lost, stray>>

\* Mutant: only the recorded sidecar is looked for.
OrphansOfRecord(c) ==
  /\ pc[c] \in {"orphans", "reorphans"}
  /\ targets' = [targets EXCEPT ![c] = {p \in Pid : record \in Sess /\ p = info[record].side}]
  /\ Goto(c, IF pc[c] = "orphans" THEN "orphan" ELSE "reorphan")
  /\ UNCHANGED <<record, info, used, osVars, cmd, cur, mine, lost, stray>>

\* cleanupOrphanSidecars: ps finds the sidecars that run with the same configuration ...
Orphans(c) ==
  /\ pc[c] \in {"orphans", "reorphans"}
  /\ \/ Goto(c, "failed") /\ UNCHANGED targets
     \/ /\ targets' = [targets EXCEPT ![c] = {p \in Pid : proc[p].st = "running" /\ proc[p].kind = "side"}]
        /\ Goto(c, IF pc[c] = "orphans" THEN "orphan" ELSE "reorphan")
  /\ UNCHANGED <<record, info, used, osVars, cmd, cur, mine, lost, stray>>

\* ... and terminateOrphanSidecar signals each pid until it is gone, which a zombie of
\* another command never is.
KillOrphan(c) ==
  /\ pc[c] \in {"orphan", "reorphan"}
  /\ \E p \in targets[c] :
       /\ proc' \in {proc, Ends(p)}
       /\ \/ proc'[p].st = "free" /\ targets' = [targets EXCEPT ![c] = @ \ {p}] /\ UNCHANGED pc
          \/ Goto(c, "failed") /\ UNCHANGED targets
  /\ UNCHANGED <<record, info, used, scutil, servers, cmd, cur, mine, lost, stray>>

OrphansDone(c) ==
  /\ pc[c] \in {"orphan", "reorphan"}
  /\ targets[c] = {}
  /\ Goto(c, IF pc[c] = "orphan" THEN "sidecar" ELSE "failed")
  /\ UNCHANGED <<record, info, used, osVars, cmdVars, lost, stray>>

\* startSidecar; one that cannot be identified is killed and waited for, and a failure
\* cleans up once more.
StartSidecar(c) ==
  /\ pc[c] = "sidecar"
  /\ \/ \E p \in Pid :
          /\ proc[p].st = "free"
          /\ proc' = [proc EXCEPT ![p] = Child("side", mine[c], c)]
          /\ info' = [info EXCEPT ![mine[c]].side = p]
          /\ Goto(c, "sideWait")
     \/ Goto(c, "reorphans") /\ UNCHANGED <<proc, info>>
  /\ UNCHANGED <<record, used, scutil, servers, cmdVars, lost, stray>>

\* waitForSidecarStart asks for the pid only, which the unreaped child keeps: it always
\* ends at the deadline.
SidecarStarted(c) ==
  /\ pc[c] = "sideWait"
  /\ proc[info[mine[c]].side].st # "free"
  /\ Goto(c, "spawn")
  /\ UNCHANGED <<record, info, used, osVars, cmdVars, lost, stray>>

\* Mutant: the command waits for its child in the background, which frees the pid.
SpawnAndWait(c) ==
  /\ pc[c] = "spawn"
  /\ \E p \in Pid :
       /\ proc[p].st = "free"
       /\ proc' = [proc EXCEPT ![p] = Child("main", mine[c], None)]
       /\ info' = [info EXCEPT ![mine[c]].main = p]
  /\ Goto(c, "identify")
  /\ UNCHANGED <<record, used, scutil, servers, cmdVars, lost, stray>>

\* startWithVPNCore or startProcessSession.
Spawn(c) ==
  /\ pc[c] = "spawn"
  /\ \E p \in Pid :
       /\ proc[p].st = "free"
       /\ proc' = [proc EXCEPT ![p] = Child("main", mine[c], IF info[mine[c]].mode = "helper" THEN None ELSE c)]
       /\ info' = [info EXCEPT ![mine[c]].main = p]
  /\ Goto(c, "identify")
  /\ UNCHANGED <<record, used, scutil, servers, cmdVars, lost, stray>>

\* Nothing is started, or vpn-core starts it after the client has given up on the call.
SpawnFails(c) ==
  /\ pc[c] = "spawn"
  /\ \/ UNCHANGED <<proc, lost>>
     \/ /\ info[mine[c]].mode = "helper"
        /\ \E p \in Pid :
             /\ proc[p].st = "free"
             /\ proc' = [proc EXCEPT ![p] = Child("main", mine[c], None)]
        /\ lost' = lost \cup {mine[c]}
  /\ Goto(c, "undoSide")
  /\ UNCHANGED <<record, info, used, scutil, servers, cmdVars, stray>>

\* A failure of Start; clear tells whether it ends with ClearCurrent.
Undo(c, clear) ==
  /\ info' = [info EXCEPT ![mine[c]].clear = clear]
  /\ Goto(c, "undoDNS")

\* recordProcessIdentity reads whatever has the pid now.
Identify(c) ==
  /\ pc[c] = "identify"
  /\ LET process == proc[info[mine[c]].main] IN
       \/ /\ process.st # "free"
          /\ info' = [info EXCEPT ![mine[c]].ident = IF process.kind = "main" THEN process.sess ELSE None]
          /\ Goto(c, "metadata")
       \/ Undo(c, FALSE)
  /\ UNCHANGED <<record, used, osVars, cmdVars, lost, stray>>

SaveMetadata(c) ==
  /\ pc[c] = "metadata"
  /\ \/ Goto(c, "stable") /\ UNCHANGED info
     \/ Undo(c, FALSE)
  /\ UNCHANGED <<record, used, osVars, cmdVars, lost, stray>>

\* os.WriteFile truncates before it writes.
SaveFails == record' \in {record, "corrupt"}

\* waitForStableStart: a session of unknown liveness is recorded and left running.
Stable(c) ==
  /\ pc[c] = "stable"
  /\ \E seen \in SessionAlive(mine[c]) :
       \/ seen = "alive" /\ Goto(c, "dns") /\ UNCHANGED <<record, info, lost>>
       \/ seen = "dead" /\ Undo(c, TRUE) /\ UNCHANGED <<record, lost>>
       \/ /\ seen = "unknown"
          /\ \/ record' = mine[c] /\ UNCHANGED lost
             \/ SaveFails /\ lost' = lost \cup {mine[c]}
          /\ Goto(c, "failed")
          /\ UNCHANGED info
  /\ UNCHANGED <<used, osVars, cmdVars, stray>>

\* applySystemDNSHandoff: no overlay DNS, a scutil entry, or the servers of the network
\* service when scutil fails (a call that failed may have been carried out).
HandOffDNS(c) ==
  /\ pc[c] = "dns"
  /\ LET s == mine[c] IN
       \/ /\ \E next \in {"ready", "save"} : Goto(c, next)
          /\ UNCHANGED <<info, scutil, servers, lost>>
       \/ /\ scutil' = scutil \cup {s}
          /\ info' = [info EXCEPT ![s].dns = "scutil"]
          /\ Goto(c, "ready")
          /\ UNCHANGED <<servers, lost>>
       \/ /\ scutil' \in {scutil, scutil \cup {s}}
          /\ \/ /\ NetworkSetup
                /\ info' = [info EXCEPT ![s].dns = "service", ![s].restore = servers]
                /\ servers' = "proxy"
                /\ Goto(c, "ready")
             \/ /\ servers' \in IF NetworkSetup THEN {servers, "proxy"} ELSE {servers}
                /\ Undo(c, TRUE)
          /\ lost' = IF s \in scutil' \/ (servers' # servers /\ info'[s].dns = "none") THEN lost \cup {s} ELSE lost
  /\ UNCHANGED <<record, used, proc, cmdVars, stray>>

\* waitForStartupDNSReadiness
Ready(c) ==
  /\ pc[c] = "ready"
  /\ \/ "alive" \in SessionAlive(mine[c]) /\ Goto(c, "save") /\ UNCHANGED info
     \/ Undo(c, TRUE)
  /\ UNCHANGED <<record, used, osVars, cmdVars, lost, stray>>

\* The metadata again, then SaveCurrent.
SaveCurrent(c) ==
  /\ pc[c] = "save"
  /\ \/ record' = mine[c] /\ Goto(c, "started") /\ UNCHANGED info
     \/ SaveFails /\ Undo(c, FALSE)
  /\ UNCHANGED <<used, osVars, cmdVars, lost, stray>>

-----------------------------------------------------------------------------
(* stopStartedSession: every step is best effort *)

UndoDNS(c) ==
  /\ pc[c] = "undoDNS"
  /\ \/ RestoreDNS(mine[c]) /\ UNCHANGED lost
     \/ /\ info[mine[c]].dns # "none"
        /\ lost' = lost \cup {mine[c]}
        /\ UNCHANGED <<scutil, servers>>
  /\ Goto(c, "undoKill")
  /\ UNCHANGED <<record, info, used, proc, cmdVars, stray>>

UndoKill(c) ==
  /\ pc[c] = "undoKill"
  /\ \/ SignalMain(mine[c], TRUE) /\ UNCHANGED lost
     \/ lost' = lost \cup {mine[c]} /\ UNCHANGED proc
  /\ stray' = (stray \/ Stray(mine[c], "main"))
  /\ Goto(c, "undoSide")
  /\ UNCHANGED <<record, info, used, scutil, servers, cmdVars>>

\* stopSidecars with force; the sidecar is a child, so its pid is still its own.
UndoSide(c) ==
  /\ pc[c] = "undoSide"
  /\ \/ "alive" \in SidecarAlive(mine[c]) /\ SignalGroup(info[mine[c]].side, TRUE)
     \/ UNCHANGED proc
  /\ stray' = (stray \/ Stray(mine[c], "side"))
  /\ Goto(c, "undoClear")
  /\ UNCHANGED <<record, info, used, scutil, servers, cmdVars, lost>>

UndoClear(c) ==
  /\ pc[c] = "undoClear"
  /\ record' \in IF info[mine[c]].clear THEN {None, record} ELSE {record}
  /\ Goto(c, "failed")
  /\ UNCHANGED <<info, used, osVars, cmdVars, lost, stray>>

-----------------------------------------------------------------------------
(* The end of a command, and the environment *)

Leave(c) ==
  /\ pc[c] \in {"failed", "stopped", "started"}
  /\ proc' = Reparented(c)
  /\ Goto(c, "idle")
  /\ cur' = [cur EXCEPT ![c] = None]
  /\ mine' = [mine EXCEPT ![c] = None]
  /\ targets' = [targets EXCEPT ![c] = {}]
  /\ UNCHANGED <<record, info, used, scutil, servers, cmd, lost, stray>>

\* The user interrupts the command.
Interrupt(c) ==
  /\ pc[c] \notin {"idle", "failed", "stopped", "started"}
  /\ Goto(c, "idle")
  /\ proc' = Reparented(c)
  /\ record' \in IF pc[c] \in {"stable", "save"} THEN {record, "corrupt"} ELSE {record}
  /\ lost' = IF pc[c] \in StartStep THEN lost \cup {mine[c]} ELSE lost
  /\ cur' = [cur EXCEPT ![c] = None]
  /\ mine' = [mine EXCEPT ![c] = None]
  /\ targets' = [targets EXCEPT ![c] = {}]
  /\ UNCHANGED <<info, used, scutil, servers, cmd, stray>>

Exit(p) ==
  /\ proc[p].st = "running"
  /\ proc' = Ends(p)
  /\ UNCHANGED <<record, info, used, scutil, servers, pc, cmdVars, lost, stray>>

\* A stranger gets a free pid.
ReusePid(p) ==
  /\ proc[p].st = "free"
  /\ proc' = [proc EXCEPT ![p] = Child("stranger", None, None)]
  /\ UNCHANGED <<record, info, used, scutil, servers, pc, cmdVars, lost, stray>>

-----------------------------------------------------------------------------
CommandStep(c) ==
  \/ Run(c) \/ Check(c) \/ Prepare(c) \/ Recheck(c)
  \/ Load(c) \/ Observe(c) \/ Term(c) \/ Poll(c) \/ PollTimeout(c) \/ Kill(c)
  \/ Side(c) \/ SideTerm(c) \/ SidePoll(c) \/ SideKill(c) \/ Restore(c) \/ Clear(c)
  \/ Guard(c) \/ Orphans(c) \/ KillOrphan(c) \/ OrphansDone(c) \/ StartSidecar(c) \/ SidecarStarted(c)
  \/ Spawn(c) \/ SpawnFails(c) \/ Identify(c) \/ SaveMetadata(c) \/ Stable(c)
  \/ HandOffDNS(c) \/ Ready(c) \/ SaveCurrent(c)
  \/ UndoDNS(c) \/ UndoKill(c) \/ UndoSide(c) \/ UndoClear(c)
  \/ Leave(c) \/ Interrupt(c)

Next ==
  \/ \E c \in Client : CommandStep(c)
  \/ \E p \in Pid : Exit(p) \/ ReusePid(p)

Spec == Init /\ [][Next]_vars

-----------------------------------------------------------------------------
(* Properties *)

\* Every variable keeps to the values the code can give it.
TypeOK ==
  /\ record \in Sess \cup {None, "corrupt"}
  /\ info \in [Sess -> Info]
  /\ used \subseteq Sess
  /\ proc \in [Pid -> Process]
  /\ scutil \subseteq Sess
  /\ servers \in {"own", "proxy"}
  /\ pc \in [Client -> Step]
  /\ cmd \in [Client -> Command]
  /\ cur \in [Client -> Sess \cup {None}]
  /\ mine \in [Client -> Sess \cup {None}]
  /\ targets \in [Client -> SUBSET Pid]
  /\ lost \subseteq Sess
  /\ stray \in BOOLEAN

\* A session somebody still answers for: the Start that is at work on it, the record, or
\* one of the failures in lost, after which the code itself has no trace of it.
Answered(s) ==
  \/ record = s
  \/ s \in lost
  \/ \E c \in Client : mine[c] = s /\ pc[c] \in StartStep

\* A sing-box that runs can be found: the record names it, or a Start is at work on it.
\* One command at a time; a Stop that fails or is interrupted at any step, an identity
\* that cannot be read, and a failed Start leave nothing running without a record (the
\* early returns of Stop, and stopStartedSession).
NothingLost == \A s \in Sess : Runs("main", s) => Answered(s)

\* The system DNS settings that a session replaced can be restored by a later stop: the
\* record that knows how is kept until restoreSystemDNSHandoff has succeeded.
DnsRestorable ==
  /\ \A s \in scutil : Answered(s)
  /\ servers = "proxy" => lost # {} \/ \E s \in Sess : info[s].dns = "service" /\ Answered(s)

\* A stop that reports "stopped", "stale" or "killed" for a session has ended its
\* sing-box and its sidecar and withdrawn its resolver entry, whatever other commands do.
StopHonest ==
  \A c \in Client :
    pc[c] = "stopped" /\ cur[c] # None =>
      /\ ~Runs("main", cur[c])
      /\ ~Runs("side", cur[c])
      /\ cur[c] \in scutil => cur[c] \in lost

\* The clean-up of a failed start signals nothing but the processes this start spawned
\* (the comment above recordProcessIdentity in Start).
StartupSignalsItsOwn == ~stray

\* One command at a time: a session that starts with a sidecar is the only one with a
\* sidecar, whatever an earlier session left behind (cleanupOrphanSidecars).
FreshSidecar ==
  \A c \in Client :
    pc[c] = "started" /\ info[mine[c]].engine = "xray" =>
      \A s \in Sess \ {mine[c]} : ~Runs("side", s)

-----------------------------------------------------------------------------
(* What a document, a comment or an error message of the repository says   *)
(* and the model refutes: see "What the code does not keep" in README.md.  *)

\* What the comment in SessionAlive asks of its callers: the record of a session that
\* may be running is not dropped.
RunningRecordKept ==
  [][\A s \in Sess : record = s /\ Runs("main", s) => record' = s]_vars

\* What waitForStableStart and waitForSidecarStart report as "exited during startup": a
\* start goes on only while the process it waited for runs.
ExitDuringStartupSeen ==
  [][\A c \in Client :
       /\ pc[c] = "stable" /\ pc'[c] = "dns" => Runs("main", mine[c])
       /\ pc[c] = "sideWait" /\ pc'[c] = "spawn" => Runs("side", mine[c])]_vars

=============================================================================
