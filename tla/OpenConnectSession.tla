------------------------ MODULE OpenConnectSession ------------------------
(***************************************************************************)
(* openconnect-tun start, stop and reconnect over one cache directory: the  *)
(* startup lock, the current-session.json record, the openconnect process   *)
(* and the resolver files its script wrapper writes                         *)
(* (desktop/internal/anyconnect/openconnect).                               *)
(*                                                                          *)
(* A command is a process of its own that may be killed at any step, which  *)
(* also releases its lock.  openconnect goes to the background, so nobody   *)
(* waits for it and its pid is free as soon as it ends.  All sessions are   *)
(* for one selected server and have split-DNS domains, hence the same       *)
(* resolver files; the host that openconnect is given is the one where the  *)
(* authentication has ended.  An identity is checked and the signal sent in *)
(* one step.                                                                *)
(***************************************************************************)
EXTENDS Naturals

CONSTANTS
  Client,  \* command processes
  Sess,    \* attempt ids
  Pid,     \* process ids
  Others,  \* kinds of other programs that get free pids: "stranger", "alien" (an openconnect
           \* that is not for this server)
  None

ASSUME OpenConnectAssumption ==
  /\ None \notin Client \cup Sess \cup Pid
  /\ Others \subseteq {"stranger", "alien"}

VARIABLES
  record,    \* current-session.json: a CurrentSession, NoRecord, or Corrupt
  proc,      \* the process table
  hook,      \* hook[s]: the script wrapper of s
  resolver,  \* whose marked files are in /etc/resolver
  lock,      \* the command that holds startup.lock
  pc,        \* pc[c]: the step command c is about to take
  cmd,       \* cmd[c]: the command
  cur,       \* cur[c]: the session Stop has loaded
  mine,      \* mine[c]: the session Connect is starting
  away,      \* the attempts whose authentication has ended on another host than the selected server
  fate,      \* fate[s]: whether the attempt was begun, and whether its launch outlived its command
  loose,     \* history: sessions the commands lost track of
  signalled  \* history: the other programs signalled, with the recorded identity

sysVars == <<proc, hook, resolver>>
vars == <<record, sysVars, lock, pc, cmd, cur, mine, away, fate, loose, signalled>>

-----------------------------------------------------------------------------
(* Values *)

\* CurrentSession.  ident is the recorded identity: none (a legacy record, or an identity
\* that could not be read), that of the openconnect of the session, or that of another
\* program that had the pid by then.
Session  == [id : Sess \cup {None}, pid : Pid \cup {None}, ident : {"none", "own", "other"}]
NoRecord == [id |-> None, pid |-> None, ident |-> "none"]
Corrupt  == [id |-> None, pid |-> None, ident |-> "other"]

Untracked(p) == [id |-> None, pid |-> p, ident |-> "none"]

Process == [kind : {"free", "openconnect", "stranger", "alien"}, sess : Sess \cup {None}]
FreePid == [kind |-> "free", sess |-> None]

Ended == {"idle", "failed", "stopped", "connected"}

Step == Ended
          \cup {"lock", "check", "scan", "prepare", "auth", "rescan", "launch", "identify", "stable",
                "converge", "save", "undo", "undoClear", "preserve"}
          \cup {"load", "alive?", "cleanupLock", "reload", "staleClear", "clean", "int", "poll",
                "wait", "clear"}

\* The steps of Connect in which its openconnect may run.
Starting == {"launch", "identify", "stable", "converge", "save", "undo", "undoClear", "preserve"}

Goto(c, step) == pc' = [pc EXCEPT ![c] = step]

\* A return releases the lock the command has taken.
Return(c, step) ==
  /\ Goto(c, step)
  /\ lock' = IF lock = c THEN None ELSE lock

\* The openconnect of s runs.
Runs(s) == \E p \in Pid : proc[p] = [kind |-> "openconnect", sess |-> s]

-----------------------------------------------------------------------------
(* Processes and identities *)

\* sessionProcessMatches.  A record without identity matches every openconnect; another
\* program that was recorded may or may not be the one that has the pid now.
Match(r) ==
  IF r.ident = "own" THEN {proc[r.pid] = [kind |-> "openconnect", sess |-> r.id]}
  ELSE IF r.ident = "none" THEN {proc[r.pid].kind \in {"openconnect", "alien"}}
  ELSE BOOLEAN

\* SessionAlive: the pid may be free, its owner another program, or the identity unreadable.
SessionAlive(r) ==
  IF r.pid = None \/ proc[r.pid].kind = "free" THEN {"dead"}
  ELSE {"unknown"} \cup {IF m THEN "alive" ELSE "dead" : m \in Match(r)}

\* failedStartSessionAlive: a pid with another owner is an error, not an exit.
FailedStartAlive(r) ==
  IF r.pid = None \/ proc[r.pid].kind = "free" THEN {"dead"}
  ELSE {"unknown"} \cup {IF m THEN "alive" ELSE "unknown" : m \in Match(r)}

\* A signal may be refused, and ignored for a while (INT, TERM).
Kill(r) ==
  /\ proc' \in {proc, [proc EXCEPT ![r.pid] = FreePid]}
  /\ signalled' = signalled \cup [kind : {proc[r.pid].kind} \cap Others, ident : {r.ident}]

\* Mutant: an argument before the last one is compared, which is never the host.
ScannedOption == {}

\* findMatchingOpenConnectPIDs: of the openconnect processes that ps lists, the
\* ones whose last argument names the selected server's host.
Scanned == {p \in Pid : proc[p].kind = "openconnect" /\ proc[p].sess \notin away}

\* pgrep -x openconnect
Pgrep == {p \in Pid : proc[p].kind \in {"openconnect", "alien"}}

-----------------------------------------------------------------------------
Init ==
  /\ record = NoRecord
  /\ proc = [p \in Pid |-> FreePid]
  /\ hook = [s \in Sess |-> "none"]
  /\ resolver = None
  /\ lock = None
  /\ pc = [c \in Client |-> "idle"]
  /\ cmd = [c \in Client |-> "stop"]
  /\ cur = [c \in Client |-> NoRecord]
  /\ mine = [c \in Client |-> NoRecord]
  /\ away = {}
  /\ fate = [s \in Sess |-> "new"]
  /\ loose = {}
  /\ signalled = {}

\* executeRun and runStop
Run(c) ==
  /\ pc[c] \in Ended
  /\ \E name \in {"start", "stop", "reconnect"} :
       /\ cmd' = [cmd EXCEPT ![c] = name]
       /\ Goto(c, IF name = "start" THEN "lock" ELSE "load")
  /\ cur' = [cur EXCEPT ![c] = NoRecord]
  /\ mine' = [mine EXCEPT ![c] = NoRecord]
  /\ UNCHANGED <<record, sysVars, lock, away, fate, loose, signalled>>

-----------------------------------------------------------------------------
(* Connect *)

\* Mutant: the lock is not exclusive.
LockShared(c) ==
  /\ pc[c] = "lock"
  /\ Goto(c, "check")
  /\ lock' = c
  /\ UNCHANGED <<record, sysVars, cmd, away, cur, mine, fate, loose, signalled>>

\* acquireOpenConnectStartupLock does not wait.
Lock(c) ==
  /\ pc[c] = "lock"
  /\ \/ lock = None /\ lock' = c /\ Goto(c, "check")
     \/ Return(c, "failed")
  /\ UNCHANGED <<record, sysVars, cmd, away, cur, mine, fate, loose, signalled>>

\* A recorded session that is gone is cleared, one that may live refuses the start.
Check(c) ==
  /\ pc[c] = "check"
  /\ \/ record = Corrupt /\ Return(c, "failed") /\ UNCHANGED record
     \/ record = NoRecord /\ Goto(c, "scan") /\ UNCHANGED <<record, lock>>
     \/ /\ record.id # None
        /\ \E seen \in SessionAlive(record) :
             \/ seen = "dead" /\ record' = NoRecord /\ Goto(c, "scan") /\ UNCHANGED lock
             \/ Return(c, "failed") /\ UNCHANGED record
  /\ UNCHANGED <<sysVars, cmd, away, cur, mine, fate, loose, signalled>>

\* rejectMatchingUntrackedOpenConnectSession, before the authentication and once more
\* before the launch.
Scan(c) ==
  /\ pc[c] \in {"scan", "rescan"}
  /\ \/ Scanned = {} /\ Goto(c, IF pc[c] = "scan" THEN "prepare" ELSE "launch") /\ UNCHANGED lock
     \/ Return(c, "failed")
  /\ UNCHANGED <<record, sysVars, cmd, away, cur, mine, fate, loose, signalled>>

\* Server, script, sudo, attempt id, log and metadata.
Prepare(c) ==
  /\ pc[c] = "prepare"
  /\ \/ Return(c, "failed") /\ UNCHANGED <<mine, fate>>
     \/ \E s \in Sess :
          /\ fate[s] = "new"
          /\ fate' = [fate EXCEPT ![s] = "begun"]
          /\ mine' = [mine EXCEPT ![c] = [id |-> s, pid |-> None, ident |-> "none"]]
          /\ Goto(c, "auth")
          /\ UNCHANGED lock
  /\ UNCHANGED <<record, sysVars, cmd, away, cur, loose, signalled>>

\* A redirect, a fallback host or CONNECT_URL makes openconnect's argument another host than
\* the selected server's; a failed authentication clears whatever record there is.
Authenticate(c) ==
  /\ pc[c] = "auth"
  /\ \/ /\ away' \in {away, away \cup {mine[c].id}}
        /\ Goto(c, "rescan")
        /\ UNCHANGED <<record, lock>>
     \/ record' \in {NoRecord, record} /\ Return(c, "failed") /\ UNCHANGED away
  /\ UNCHANGED <<sysVars, cmd, cur, mine, fate, loose, signalled>>

\* connectWithCookie: openconnect goes to the background and publishes its pid; or the
\* launch fails or times out, with openconnect running or not, its pid found or not, or
\* goes on without the command.
Launch(c) ==
  /\ pc[c] = "launch"
  /\ LET s == mine[c].id IN
       \/ \E p \in Pid :
            /\ proc[p] = FreePid
            /\ proc' = [proc EXCEPT ![p] = [kind |-> "openconnect", sess |-> s]]
            /\ \/ /\ mine' = [mine EXCEPT ![c].pid = p]
                  /\ Goto(c, "identify") \/ Goto(c, "undo")
                  /\ UNCHANGED loose
               \/ Goto(c, "undoClear") /\ loose' = loose \cup {s} /\ UNCHANGED mine
            /\ UNCHANGED fate
       \/ /\ Goto(c, "undoClear")
          /\ \/ UNCHANGED <<fate, loose>>
             \/ fate' = [fate EXCEPT ![s] = "late"] /\ loose' = loose \cup {s}
          /\ UNCHANGED <<proc, mine>>
  /\ UNCHANGED <<record, hook, resolver, lock, cmd, away, cur, signalled>>

\* Mutant: the command name is taken for the identity.
IdentifyByName(c) ==
  /\ pc[c] = "identify"
  /\ mine' = [mine EXCEPT ![c].ident = proc[mine[c].pid].kind]
  /\ Goto(c, "stable")
  /\ UNCHANGED <<record, sysVars, lock, cmd, away, cur, fate, loose, signalled>>

\* recordProcessIdentity reads whoever has the pid now; without an identity the attempt
\* is recorded and nothing is signalled.
Identify(c) ==
  /\ pc[c] = "identify"
  /\ LET process == proc[mine[c].pid] IN
       \/ /\ process # FreePid
          /\ mine' = [mine EXCEPT ![c].ident =
                        IF process = [kind |-> "openconnect", sess |-> mine[c].id] THEN "own" ELSE "other"]
          /\ Goto(c, "stable")
       \/ Goto(c, "preserve") /\ UNCHANGED mine
  /\ UNCHANGED <<record, sysVars, lock, cmd, away, cur, fate, loose, signalled>>

\* waitForStableStart
Stable(c) ==
  /\ pc[c] = "stable"
  /\ \E seen \in SessionAlive(mine[c]) : Goto(c, IF seen = "alive" THEN "converge" ELSE "undo")
  /\ UNCHANGED <<record, sysVars, lock, cmd, away, cur, mine, fate, loose, signalled>>

\* waitForPostConnectConvergence: the log shows that the connect hook has ended.
Converge(c) ==
  /\ pc[c] = "converge"
  /\ \/ "alive" \in SessionAlive(mine[c]) /\ hook[mine[c].id] = "applied" /\ Goto(c, "save")
     \/ Goto(c, "undo")
  /\ UNCHANGED <<record, sysVars, lock, cmd, away, cur, mine, fate, loose, signalled>>

\* SaveMetadata, SaveCurrent; os.WriteFile truncates before it writes.
Save(c) ==
  /\ pc[c] = "save"
  /\ \/ record' = mine[c] /\ Return(c, "connected")
     \/ record' \in {record, Corrupt} /\ Goto(c, "undo") /\ UNCHANGED lock
  /\ UNCHANGED <<sysVars, cmd, away, cur, mine, fate, loose, signalled>>

\* Mutant: an attempt that cannot be confirmed gone is cleared as if it were.
UndoUnconfirmed(c) ==
  /\ pc[c] = "undo"
  /\ FailedStartAlive(mine[c]) # {"dead"} /\ Kill(mine[c])
  /\ Goto(c, "undoClear")
  /\ UNCHANGED <<record, hook, resolver, lock, cmd, away, cur, mine, fate, loose>>

\* cleanupFailedOpenConnectStart: INT, TERM and KILL, each after a look and followed by
\* looks; it ends when openconnect is gone, when its identity is in doubt, or after KILL.
Undo(c) ==
  /\ pc[c] = "undo"
  /\ \E seen \in FailedStartAlive(mine[c]) :
       \/ seen = "dead" /\ Goto(c, "undoClear") /\ UNCHANGED <<proc, signalled>>
       \/ seen = "unknown" /\ Goto(c, "preserve") /\ UNCHANGED <<proc, signalled>>
       \/ seen = "alive" /\ Kill(mine[c]) /\ (UNCHANGED pc \/ Goto(c, "preserve"))
  /\ UNCHANGED <<record, hook, resolver, lock, cmd, away, cur, mine, fate, loose>>

\* cleanupFailedOpenConnectAttempt, its end: the record goes only if it is this attempt's.
UndoClear(c) ==
  /\ pc[c] = "undoClear"
  /\ record' \in IF record.id = mine[c].id THEN {NoRecord, record} ELSE {record}
  /\ Return(c, "failed")
  /\ UNCHANGED <<sysVars, cmd, away, cur, mine, fate, loose, signalled>>

\* preserveFailedOpenConnectAttempt
Preserve(c) ==
  /\ pc[c] = "preserve"
  /\ \/ record' = mine[c] /\ UNCHANGED loose
     \/ record' \in {record, Corrupt} /\ loose' = loose \cup {mine[c].id}
  /\ Return(c, "failed")
  /\ UNCHANGED <<sysVars, cmd, away, cur, mine, fate, signalled>>

-----------------------------------------------------------------------------
(* Stop *)

\* loadOpenConnectStopSession: without a record, an openconnect that pgrep finds; a pgrep
\* that fails finds none.
Loaded ==
  IF record = NoRecord THEN {NoRecord} \cup {Untracked(p) : p \in Pgrep} ELSE {record} \ {Corrupt}

Load(c) ==
  /\ pc[c] = "load"
  /\ \/ cur' \in {[cur EXCEPT ![c] = r] : r \in Loaded} /\ Goto(c, "alive?")
     \/ record = Corrupt /\ Goto(c, "failed") /\ UNCHANGED cur
  /\ UNCHANGED <<record, sysVars, lock, cmd, away, mine, fate, loose, signalled>>

Observe(c) ==
  /\ pc[c] = "alive?"
  /\ \E seen \in SessionAlive(cur[c]) :
       Goto(c, IF seen = "unknown" THEN "failed" ELSE IF seen = "alive" THEN "int" ELSE "cleanupLock")
  /\ UNCHANGED <<record, sysVars, lock, cmd, away, cur, mine, fate, loose, signalled>>

\* Mutant: stop cleans up although a start holds the lock.
CleanupUnlocked(c) ==
  /\ pc[c] = "cleanupLock"
  /\ Goto(c, "reload")
  /\ UNCHANGED <<record, sysVars, lock, cmd, away, cur, mine, fate, loose, signalled>>

\* acquireOpenConnectStopCleanupLock
CleanupLock(c) ==
  /\ pc[c] = "cleanupLock"
  /\ \/ lock = None /\ lock' = c /\ Goto(c, "reload")
     \/ Return(c, "failed")
  /\ UNCHANGED <<record, sysVars, cmd, away, cur, mine, fate, loose, signalled>>

\* Mutant: the session read before the lock is cleaned up.
ReloadSkipped(c) ==
  /\ pc[c] = "reload"
  /\ Goto(c, IF cur[c].pid = None THEN "clean" ELSE "staleClear")
  /\ UNCHANGED <<record, sysVars, lock, cmd, away, cur, mine, fate, loose, signalled>>

\* The session is loaded and looked at again under the lock.
Reload(c) ==
  /\ pc[c] = "reload"
  /\ \/ /\ \E r \in Loaded :
             /\ cur' = [cur EXCEPT ![c] = r]
             /\ \E seen \in SessionAlive(r) :
                  \/ /\ seen = "dead"
                     /\ Goto(c, IF r.pid = None THEN "clean" ELSE "staleClear")
                     /\ UNCHANGED lock
                  \/ seen # "dead" /\ Return(c, "failed")
     \/ record = Corrupt /\ Return(c, "failed") /\ UNCHANGED cur
  /\ UNCHANGED <<record, sysVars, cmd, away, mine, fate, loose, signalled>>

StaleClear(c) ==
  /\ pc[c] = "staleClear"
  /\ \/ record' = NoRecord /\ Goto(c, "clean") /\ UNCHANGED lock
     \/ Return(c, "failed") /\ UNCHANGED record
  /\ UNCHANGED <<sysVars, cmd, away, cur, mine, fate, loose, signalled>>

\* cleanupOrphanedResolverState removes every file with the marker; it does nothing while
\* Cisco's own client is connected.
Clean(c) ==
  /\ pc[c] = "clean"
  /\ resolver' \in {None, resolver}
  /\ Return(c, "stopped") \/ (resolver # None /\ Return(c, "failed"))
  /\ UNCHANGED <<record, proc, hook, cmd, away, cur, mine, fate, loose, signalled>>

\* Mutant: the identity is not checked again before the signal.
SignalUnchecked(c) ==
  /\ pc[c] \in {"int", "poll"}
  /\ proc[cur[c].pid].kind # "free" /\ Kill(cur[c])
  /\ Goto(c, "poll")
  /\ UNCHANGED <<record, hook, resolver, lock, cmd, away, cur, mine, fate, loose>>

\* signalMatchingSession with INT, and with TERM and KILL while polling.
Signal(c) ==
  /\ pc[c] \in {"int", "poll"}
  /\ \E seen \in SessionAlive(cur[c]) :
       \/ seen = "unknown" /\ Goto(c, "failed") /\ UNCHANGED <<proc, signalled>>
       \/ seen = "dead" /\ Goto(c, "poll") /\ UNCHANGED <<proc, signalled>>
       \/ seen = "alive" /\ Kill(cur[c]) /\ (Goto(c, "poll") \/ Goto(c, "failed"))
  /\ UNCHANGED <<record, hook, resolver, lock, cmd, away, cur, mine, fate, loose>>

\* Mutant: an identity that cannot be read counts as an exit.
PollUnknownIsGone(c) ==
  /\ pc[c] = "poll"
  /\ SessionAlive(cur[c]) # {"alive"}
  /\ Goto(c, IF cur[c].id = None THEN "stopped" ELSE "wait")
  /\ UNCHANGED <<record, sysVars, lock, cmd, away, cur, mine, fate, loose, signalled>>

\* Polling ends with the exit, with an identity that cannot be read, or with the timeout.
Poll(c) ==
  /\ pc[c] = "poll"
  /\ \E seen \in SessionAlive(cur[c]) :
       Goto(c, IF seen # "dead" THEN "failed" ELSE IF cur[c].id = None THEN "stopped" ELSE "wait")
  /\ UNCHANGED <<record, sysVars, lock, cmd, away, cur, mine, fate, loose, signalled>>

\* waitForSessionCleanup: it looks at the wrapper and the files of the session, and gives up
\* at the deadline or when it cannot look; past the deadline it does not look at all, so
\* either outcome is possible with the wrapper running or not.
Wait(c) ==
  /\ pc[c] = "wait"
  /\ Goto(c, "clear") \/ Goto(c, "failed")
  /\ UNCHANGED <<record, sysVars, lock, cmd, away, cur, mine, fate, loose, signalled>>

\* ClearCurrent without the lock, whichever session is recorded by now.
Clear(c) ==
  /\ pc[c] = "clear"
  /\ \/ /\ record' = NoRecord
        /\ loose' = loose \cup ({record.id} \ {None, cur[c].id})
        /\ Goto(c, "stopped")
     \/ Goto(c, "failed") /\ UNCHANGED <<record, loose>>
  /\ UNCHANGED <<sysVars, lock, cmd, away, cur, mine, fate, signalled>>

-----------------------------------------------------------------------------
(* The end of a command, and the environment *)

\* executeRun: a reconnect that has stopped the session goes on with Connect.
Reconnect(c) ==
  /\ pc[c] = "stopped"
  /\ cmd[c] = "reconnect"
  /\ Goto(c, "lock")
  /\ cur' = [cur EXCEPT ![c] = NoRecord]
  /\ UNCHANGED <<record, sysVars, lock, cmd, away, mine, fate, loose, signalled>>

\* The command is killed; a launch it was waiting for may go on without it.
Interrupt(c) ==
  /\ pc[c] \notin Ended
  /\ Return(c, "idle")
  /\ record' \in IF pc[c] \in {"save", "preserve"} THEN {record, Corrupt} ELSE {record}
  /\ fate' \in IF pc[c] = "launch" THEN {fate, [fate EXCEPT ![mine[c].id] = "late"]} ELSE {fate}
  /\ loose' = IF pc[c] \in Starting THEN loose \cup {mine[c].id} ELSE loose
  /\ UNCHANGED <<sysVars, cmd, away, cur, mine, signalled>>

LateLaunch(s) ==
  /\ fate[s] = "late"
  /\ \E p \in Pid :
       /\ proc[p] = FreePid
       /\ proc' = [proc EXCEPT ![p] = [kind |-> "openconnect", sess |-> s]]
  /\ fate' = [fate EXCEPT ![s] = "adrift"]
  /\ UNCHANGED <<record, hook, resolver, lock, pc, cmd, away, cur, mine, loose, signalled>>

\* The wrapper runs when openconnect connects or reconnects, and before it exits; it goes
\* on when openconnect is killed.
Hook(s) ==
  /\ \/ /\ Runs(s) /\ hook[s] \in {"none", "applied"}
        /\ \E h \in {"up", "down"} : hook' = [hook EXCEPT ![s] = h]
        /\ UNCHANGED resolver
     \/ /\ hook[s] = "up"
        /\ \/ hook' = [hook EXCEPT ![s] = "applied"] /\ resolver' = s
           \/ hook' = [hook EXCEPT ![s] = "none"] /\ UNCHANGED resolver
     \/ hook[s] = "down" /\ hook' = [hook EXCEPT ![s] = "over"] /\ resolver' = None
  /\ UNCHANGED <<record, proc, lock, pc, cmd, away, cur, mine, fate, loose, signalled>>

Exit(p) ==
  /\ proc[p] # FreePid
  /\ proc' = [proc EXCEPT ![p] = FreePid]
  /\ UNCHANGED <<record, hook, resolver, lock, pc, cmd, away, cur, mine, fate, loose, signalled>>

\* Another program gets a free pid.
ReusePid(p) ==
  /\ proc[p] = FreePid
  /\ \E k \in Others : proc' = [proc EXCEPT ![p] = [kind |-> k, sess |-> None]]
  /\ UNCHANGED <<record, hook, resolver, lock, pc, cmd, away, cur, mine, fate, loose, signalled>>

-----------------------------------------------------------------------------
CommandStep(c) ==
  \/ Run(c) \/ Lock(c) \/ Check(c) \/ Scan(c) \/ Prepare(c) \/ Authenticate(c) \/ Launch(c)
  \/ Identify(c) \/ Stable(c) \/ Converge(c) \/ Save(c) \/ Undo(c) \/ UndoClear(c) \/ Preserve(c)
  \/ Load(c) \/ Observe(c) \/ CleanupLock(c) \/ Reload(c) \/ StaleClear(c) \/ Clean(c)
  \/ Signal(c) \/ Poll(c) \/ Wait(c) \/ Clear(c) \/ Reconnect(c) \/ Interrupt(c)

Next ==
  \/ \E c \in Client : CommandStep(c)
  \/ \E s \in Sess : LateLaunch(s) \/ Hook(s)
  \/ \E p \in Pid : Exit(p) \/ ReusePid(p)

Spec == Init /\ [][Next]_vars

-----------------------------------------------------------------------------
(* Properties *)

\* Every variable keeps to the values the code can give it.
TypeOK ==
  /\ record \in Session
  /\ proc \in [Pid -> Process]
  /\ hook \in [Sess -> {"none", "up", "applied", "down", "over"}]
  /\ resolver \in Sess \cup {None}
  /\ lock \in Client \cup {None}
  /\ pc \in [Client -> Step]
  /\ cmd \in [Client -> {"start", "stop", "reconnect"}]
  /\ cur \in [Client -> Session]
  /\ mine \in [Client -> Session]
  /\ away \subseteq Sess
  /\ fate \in [Sess -> {"new", "begun", "late", "adrift"}]
  /\ loose \subseteq Sess
  /\ signalled \subseteq [kind : Others, ident : {"none", "own", "other"}]

\* Starts of one cache directory never leave two openconnect processes for a server: the
\* lock from the preflight to the hand-off, the record and the scans exclude it, except
\* for a launch that outlived its killed command, and for an openconnect that was lost
\* track of and that the scan does not recognise, as it was given another host (Connect).
OnePerServer ==
  \A s, t \in Sess : Runs(s) /\ Runs(t) /\ s # t =>
    "adrift" \in {fate[s], fate[t]} \/ {s, t} \cap away \cap loose # {}

\* An openconnect that runs is the recorded session or that of a Connect at work: a failed
\* start that cannot confirm the exit keeps the record (cleanupFailedOpenConnectAttempt).
NothingUntracked ==
  \A p \in Pid : proc[p].kind = "openconnect" =>
    LET s == proc[p].sess IN
      \/ record.id = s /\ record.pid = p
      \/ s \in loose
      \/ \E c \in Client : mine[c].id = s /\ pc[c] \in Starting

\* The clean-up of orphaned resolver files, which holds the lock, spares the files of a
\* session that runs and is not lost (Stop and cleanupOrphanedResolverState).
CleanupSparesLive ==
  [][\A c \in Client : pc[c] = "clean" /\ pc'[c] # "clean" /\ resolver' # resolver =>
       ~Runs(resolver) \/ resolver \in loose]_vars

\* A stop that reports that a session is stopped or stale is right about its openconnect,
\* whatever other commands do.
StopHonest ==
  \A c \in Client : pc[c] = "stopped" /\ cur[c].id # None => ~Runs(cur[c].id)

\* No program is signalled on a wrong identity: one other than openconnect, or another
\* openconnect where an identity was recorded, is signalled only if the identity recorded
\* is its own (signalMatchingSession and cleanupFailedOpenConnectStart).
SignalsVerified ==
  \A x \in signalled : x.ident = "other" \/ (x.kind = "alien" /\ x.ident = "none")

-----------------------------------------------------------------------------
(* What a document, a comment or an error message of the repository says   *)
(* and the model refutes: see "What the code does not keep" in README.md.  *)

\* A start refuses to run beside an openconnect that an earlier start has lost track of
\* (rejectMatchingUntrackedOpenConnectSession).
UntrackedRefused ==
  \A s, t \in Sess : Runs(s) /\ Runs(t) /\ s # t => "adrift" \in {fate[s], fate[t]}

\* A failed start never signals the program that has got the pid of its openconnect
\* (failedStartSessionAlive).
ReusedPidSpared == \A x \in signalled : x.kind # "stranger"

\* Stop preserves a session that became live while it was running.
StopPreservesNewSession ==
  [][\A c \in Client : pc[c] \in {"staleClear", "clear"} /\ record.id # None /\ Runs(record.id) =>
       record' = record \/ pc'[c] = pc[c]]_vars

=============================================================================
