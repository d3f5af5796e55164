---------------------- MODULE OpenConnectSessionProofs ----------------------
(***************************************************************************)
(* Proofs about OpenConnectSession, for any number of commands, attempts,   *)
(* pids and kinds of other programs.                                        *)
(***************************************************************************)
EXTENDS OpenConnectSession, TLAPS

\* Connect before its openconnect may run, and with one that was launched; every step of
\* Connect after the look at the record; and every step taken with the lock.
Prelaunch  == {"auth", "rescan", "launch"}
Launched   == {"identify", "stable", "converge", "save", "undo", "preserve"}
Connecting == {"scan", "prepare", "undoClear"} \cup Prelaunch \cup Launched
Locked     == {"check", "reload", "staleClear", "clean"} \cup Connecting

\* The attempts whose openconnect runs.
Live == {s \in Sess : Runs(s)}

\* The attempts beside which a Connect may launch: those whose launch outlived its command,
\* and those lost track of that the scan does not recognise.
Unseen == {s \in Sess : fate[s] = "adrift" \/ s \in away \cap loose}

LockInv == \A c \in Client : pc[c] \in Locked => lock = c

\* What the commands know of an attempt, and where its openconnect may run.
CommandInv ==
  \A c \in Client :
    /\ mine[c].id # None => fate[mine[c].id] # "new"
    /\ pc[c] \in Prelaunch =>
         /\ mine[c].id # None /\ fate[mine[c].id] = "begun" /\ mine[c].ident = "none"
         /\ mine[c].id \notin Live
    /\ pc[c] = "launch" => Live \subseteq Unseen
    /\ pc[c] = "undoClear" => mine[c].id # None /\ mine[c].id \in loose \cup (Sess \ Live)

FateInv ==
  /\ \A s \in Sess :
       /\ fate[s] \in {"new", "late"} => s \notin Live
       /\ fate[s] \in {"late", "adrift"} => s \in loose
  /\ \A p \in Pid : proc[p].kind = "openconnect" => proc[p].sess \in Sess

AttemptInv == CommandInv /\ FateInv

\* The openconnect of a session runs under its recorded pid or not at all, and never again
\* once it has ended or was found to be another program.
Faithful(r) ==
  r.id # None =>
    /\ r.pid # None /\ fate[r.id] = "begun"
    /\ \A p \in Pid : proc[p] = [kind |-> "openconnect", sess |-> r.id] => p = r.pid
    /\ r.ident = "other" => r.id \notin Live
    /\ \A c \in Client : mine[c].id = r.id => pc[c] \notin Prelaunch

RecordInv ==
  /\ Faithful(record)
  /\ \A c \in Client :
       /\ Faithful(cur[c])
       /\ pc[c] \in Launched => mine[c].id # None /\ Faithful(mine[c])

\* When a record may be cleared, and when resolver files may be removed.
ClearInv ==
  \A c \in Client :
    /\ pc[c] \in Connecting => record.id = None
    /\ pc[c] \in {"staleClear", "clean"} /\ record.id # None => record.id \notin Live
    /\ pc[c] \in {"staleClear", "clean", "wait", "clear", "stopped"} /\ cur[c].id # None =>
         cur[c].id \notin Live

IInv ==
  /\ TypeOK /\ LockInv /\ AttemptInv /\ RecordInv /\ ClearInv
  /\ OnePerServer /\ NothingUntracked /\ SignalsVerified

-----------------------------------------------------------------------------
\* Records of every kind are records.
LEMMA Values ==
  /\ NoRecord \in Session /\ Corrupt \in Session /\ FreePid \in Process
  /\ \A p \in Pid : Untracked(p) \in Session
  /\ \A s \in Sess : [kind |-> "openconnect", sess |-> s] \in Process
  /\ NoRecord.id = None /\ Corrupt.id = None /\ \A p \in Pid : Untracked(p).id = None
  BY OpenConnectAssumption DEF NoRecord, Corrupt, FreePid, Untracked, Session, Process

\* An identity that was read makes a record of a record.
LEMMA Identified ==
  ASSUME NEW r \in Session, NEW i \in {"own", "other"}
  PROVE  /\ [r EXCEPT !.ident = i] \in Session
         /\ [r EXCEPT !.ident = i].id = r.id /\ [r EXCEPT !.ident = i].pid = r.pid
         /\ [r EXCEPT !.ident = i].ident = i
<1>1. [r EXCEPT !.ident = i] = [id |-> r.id, pid |-> r.pid, ident |-> i]
  BY DEF Session
<1> QED
  BY <1>1 DEF Session

\* No command runs at first.
LEMMA InitIInv == Init => IInv
<1> SUFFICES ASSUME Init PROVE IInv
  OBVIOUS
<1> USE OpenConnectAssumption, Values DEF Init
<1>1. TypeOK
  BY DEF TypeOK, Step, Ended
<1>2. LockInv /\ AttemptInv /\ RecordInv /\ ClearInv
  BY DEF LockInv, AttemptInv, CommandInv, FateInv, RecordInv, ClearInv, Faithful, Locked, Connecting,
     Prelaunch, Launched, Live, Runs, FreePid, Ended
<1>3. OnePerServer /\ NothingUntracked /\ SignalsVerified
  BY DEF OnePerServer, NothingUntracked, SignalsVerified, Runs, FreePid
<1> QED
  BY <1>1, <1>2, <1>3 DEF IInv

\* A signal leaves a process table and a set of signals.
LEMMA KillType ==
  ASSUME TypeOK, NEW r \in Session, Kill(r)
  PROVE  proc' \in [Pid -> Process] /\ signalled' \subseteq [kind : Others, ident : {"none", "own", "other"}]
  BY Values, SMTT(60) DEF TypeOK, Kill, Session

\* Every step keeps the types.
LEMMA TypeStep == IInv /\ [Next]_vars => TypeOK'
<1> SUFFICES ASSUME IInv, [Next]_vars PROVE TypeOK'
  OBVIOUS
<1>0. TypeOK /\ AttemptInv /\ RecordInv
  BY DEF IInv
<1> USE OpenConnectAssumption, Values, <1>0 DEF TypeOK, Goto, Return, sysVars
<1>a. \A c \in Client : pc[c] \in Starting => mine[c].id \in Sess
  BY DEF AttemptInv, CommandInv, RecordInv, Starting, Prelaunch, Launched, Session
<1>1. ASSUME NEW c \in Client, Run(c) \/ Lock(c) \/ Check(c) \/ Scan(c)
      PROVE  TypeOK'
  BY <1>1 DEF Run, Lock, Check, Scan, Step, Ended
<1>b. ASSUME NEW c \in Client, Authenticate(c)
      PROVE  TypeOK'
  <2>1. mine[c].id \in Sess
    BY <1>b DEF Authenticate, AttemptInv, CommandInv, Prelaunch, Session
  <2> QED
    BY <1>b, <2>1 DEF Authenticate, Step, Ended
<1>2. ASSUME NEW c \in Client, Prepare(c)
      PROVE  TypeOK'
  <2>1. \A s \in Sess : [id |-> s, pid |-> None, ident |-> "none"] \in Session
    BY DEF Session
  <2> QED
    BY <1>2, <2>1 DEF Prepare, Step, Ended
<1>3. ASSUME NEW c \in Client, Launch(c)
      PROVE  TypeOK'
  <2>1. \A p \in Pid : [mine EXCEPT ![c].pid = p] \in [Client -> Session]
    BY SMTT(60) DEF Session
  <2>2. mine[c].id \in Sess
    BY <1>3, <1>a DEF Launch, Starting
  <2> QED
    BY <1>3, <2>1, <2>2 DEF Launch, Step, Ended
<1>4. ASSUME NEW c \in Client, Identify(c) \/ Stable(c) \/ Converge(c) \/ Save(c)
      PROVE  TypeOK'
  <2>1. \A i \in {"own", "other"} : [mine[c] EXCEPT !.ident = i] \in Session
    BY Identified, ZenonT(60)
  <2>2. \A i \in {"own", "other"} : [mine EXCEPT ![c].ident = i] \in [Client -> Session]
    BY <2>1
  <2> QED
    BY <1>4, <2>2 DEF Identify, Stable, Converge, Save, Step, Ended
<1>5. ASSUME NEW c \in Client, Undo(c) \/ Signal(c)
      PROVE  TypeOK'
  BY <1>5, KillType DEF Undo, Signal, Step, Ended
<1>6. ASSUME NEW c \in Client, UndoClear(c) \/ Preserve(c)
      PROVE  TypeOK'
  BY <1>6, <1>a DEF UndoClear, Preserve, Step, Ended, Starting
<1>7. ASSUME NEW c \in Client, Load(c) \/ Observe(c) \/ CleanupLock(c) \/ Reload(c)
      PROVE  TypeOK'
  <2>1. Loaded \subseteq Session
    BY DEF Loaded, Pgrep
  <2> QED
    BY <1>7, <2>1 DEF Load, Observe, CleanupLock, Reload, Step, Ended
<1>8. ASSUME NEW c \in Client, StaleClear(c) \/ Clean(c) \/ Poll(c) \/ Wait(c)
      PROVE  TypeOK'
  BY <1>8 DEF StaleClear, Clean, Poll, Wait, Step, Ended
<1>9. ASSUME NEW c \in Client, Clear(c) \/ Reconnect(c)
      PROVE  TypeOK'
  <2>1. {record.id} \ {None, cur[c].id} \subseteq Sess
    BY DEF Session
  <2> QED
    BY <1>9, <2>1 DEF Clear, Reconnect, Step, Ended
<1>10. ASSUME NEW c \in Client, Interrupt(c)
       PROVE  TypeOK'
  BY <1>10, <1>a DEF Interrupt, Step, Ended, Starting
<1>11. ASSUME NEW s \in Sess, LateLaunch(s) \/ Hook(s)
       PROVE  TypeOK'
  BY <1>11 DEF LateLaunch, Hook
<1>12. ASSUME NEW p \in Pid, Exit(p) \/ ReusePid(p)
       PROVE  TypeOK'
  <2>1. \A k \in Others : [kind |-> k, sess |-> None] \in Process
    BY DEF Process
  <2> QED
    BY <1>12, <2>1 DEF Exit, ReusePid
<1>13. CASE UNCHANGED vars
  BY <1>13 DEF vars
<1> QED
  BY <1>1, <1>b, <1>2, <1>3, <1>4, <1>5, <1>6, <1>7, <1>8, <1>9, <1>10, <1>11, <1>12, <1>13
     DEF Next, CommandStep

-----------------------------------------------------------------------------
(* The processes *)

\* An attempt lives in a process.
LEMMA LiveIs ==
  ASSUME TypeOK
  PROVE  Live = {s \in Sess : \E p \in Pid : proc[p].kind = "openconnect" /\ proc[p].sess = s}
  BY DEF TypeOK, Process, Runs, Live

\* The same, of the next state.
LEMMA LiveIsNext ==
  ASSUME TypeOK'
  PROVE  Live' = {s \in Sess : \E p \in Pid : proc'[p].kind = "openconnect" /\ proc'[p].sess = s}
  BY DEF TypeOK, Process, Runs, Live

\* A signal starts no openconnect.
LEMMA KillShrinks ==
  ASSUME TypeOK, NEW r \in Session, Kill(r)
  PROVE  \A p \in Pid : proc'[p].kind = "openconnect" => proc'[p] = proc[p]
  BY DEF TypeOK, Kill, FreePid

\* Only a launch starts an openconnect: that of a Connect that holds the lock, or one that
\* outlived its command.
LEMMA OnlyLaunches ==
  ASSUME IInv, [Next]_vars, NEW p \in Pid, proc'[p].kind = "openconnect", proc'[p] # proc[p]
  PROVE  \/ \E c \in Client : Launch(c) /\ proc'[p] = [kind |-> "openconnect", sess |-> mine[c].id]
         \/ \E s \in Sess : LateLaunch(s) /\ proc'[p] = [kind |-> "openconnect", sess |-> s]
<1>0. TypeOK
  BY DEF IInv
<1> USE OpenConnectAssumption, <1>0 DEF TypeOK, sysVars
<1>1. ASSUME NEW c \in Client, Undo(c) \/ Signal(c)
      PROVE  FALSE
  BY <1>1, KillShrinks DEF Undo, Signal
<1>2. ASSUME NEW c \in Client, CommandStep(c), proc' # proc
      PROVE  Launch(c) \/ Undo(c) \/ Signal(c)
  BY <1>2 DEF CommandStep, Run, Lock, Check, Scan, Prepare, Authenticate, Identify, Stable, Converge,
     Save, UndoClear, Preserve, Load, Observe, CleanupLock, Reload, StaleClear, Clean, Poll, Wait,
     Clear, Reconnect, Interrupt
<1>3. ASSUME NEW c \in Client, Launch(c)
      PROVE  proc'[p] = [kind |-> "openconnect", sess |-> mine[c].id]
  BY <1>3 DEF Launch
<1>4. ASSUME NEW s \in Sess, LateLaunch(s)
      PROVE  proc'[p] = [kind |-> "openconnect", sess |-> s]
  BY <1>4 DEF LateLaunch
<1>5. ASSUME NEW q \in Pid, Exit(q) \/ ReusePid(q)
      PROVE  FALSE
  BY <1>5 DEF Exit, ReusePid, FreePid
<1>6. ASSUME NEW s \in Sess, Hook(s)
      PROVE  FALSE
  BY <1>6 DEF Hook
<1> QED
  BY <1>1, <1>2, <1>3, <1>4, <1>5, <1>6 DEF Next, vars

-----------------------------------------------------------------------------
(* The lock *)

\* No two commands are in the steps that need the lock.
LEMMA Exclusive ==
  ASSUME LockInv, NEW c \in Client, NEW d \in Client, pc[c] \in Locked, pc[d] \in Locked
  PROVE  c = d
  BY DEF LockInv

\* A command takes the lock only when nobody has it, and keeps it until it returns.
LEMMA LockStep == IInv /\ [Next]_vars => LockInv'
<1> SUFFICES ASSUME IInv, [Next]_vars PROVE LockInv'
  OBVIOUS
<1>0. TypeOK /\ LockInv
  BY DEF IInv
<1> USE OpenConnectAssumption, <1>0 DEF TypeOK, LockInv, Goto, Return, sysVars, Locked, Connecting,
        Prelaunch, Launched, Ended
<1>1. ASSUME NEW c \in Client, Run(c) \/ Lock(c) \/ Check(c) \/ Scan(c) \/ Prepare(c) \/ Authenticate(c)
      PROVE  LockInv'
  BY <1>1 DEF Run, Lock, Check, Scan, Prepare, Authenticate
<1>2. ASSUME NEW c \in Client, Launch(c) \/ Identify(c) \/ Stable(c) \/ Converge(c) \/ Save(c)
      PROVE  LockInv'
  BY <1>2 DEF Launch, Identify, Stable, Converge, Save
<1>3. ASSUME NEW c \in Client, Undo(c) \/ UndoClear(c) \/ Preserve(c) \/ Load(c) \/ Observe(c)
      PROVE  LockInv'
  BY <1>3 DEF Undo, UndoClear, Preserve, Load, Observe
<1>4. ASSUME NEW c \in Client, CleanupLock(c) \/ Reload(c) \/ StaleClear(c) \/ Clean(c)
      PROVE  LockInv'
  BY <1>4 DEF CleanupLock, Reload, StaleClear, Clean
<1>5. ASSUME NEW c \in Client, Signal(c) \/ Poll(c) \/ Wait(c) \/ Clear(c) \/ Reconnect(c) \/ Interrupt(c)
      PROVE  LockInv'
  BY <1>5 DEF Signal, Poll, Wait, Clear, Reconnect, Interrupt
<1>6. ASSUME NEW s \in Sess, LateLaunch(s) \/ Hook(s)
      PROVE  LockInv'
  BY <1>6 DEF LateLaunch, Hook
<1>7. ASSUME NEW p \in Pid, Exit(p) \/ ReusePid(p)
      PROVE  LockInv'
  BY <1>7 DEF Exit, ReusePid
<1>8. CASE UNCHANGED vars
  BY <1>8 DEF vars
<1> QED
  BY <1>1, <1>2, <1>3, <1>4, <1>5, <1>6, <1>7, <1>8 DEF Next, CommandStep
-----------------------------------------------------------------------------
(* The attempts *)

\* A step that starts no openconnect and no attempt, and takes no command to a step where an
\* attempt is in hand.
Quiet(c) ==
  /\ \A p \in Pid : proc'[p].kind = "openconnect" => proc'[p] = proc[p]
  /\ fate' = fate /\ loose \subseteq loose' /\ away \subseteq away'
  /\ \A d \in Client : d # c => mine'[d] = mine[d] /\ pc'[d] = pc[d]
  /\ mine'[c].id \in {mine[c].id, None}
  /\ pc'[c] \notin Prelaunch \cup {"undoClear"}

\* A quiet step keeps what is known of the attempts.
LEMMA QuietAttempt ==
  ASSUME TypeOK, TypeOK', AttemptInv, NEW c \in Client, Quiet(c)
  PROVE  AttemptInv'
<1>1. Live' \subseteq Live
  BY LiveIs, LiveIsNext DEF Quiet
<1>2. CommandInv'
  BY <1>1 DEF AttemptInv, CommandInv, Unseen, Quiet, TypeOK, Prelaunch, Session
<1>3. FateInv'
  BY <1>1 DEF AttemptInv, FateInv, Quiet
<1> QED
  BY <1>2, <1>3 DEF AttemptInv

\* Where Connect is about to launch, or has an attempt in hand, its openconnect is accounted
\* for; an attempt's openconnect runs once it was begun, and only once.
LEMMA AttemptStep == IInv /\ [Next]_vars => AttemptInv'
<1> SUFFICES ASSUME IInv, [Next]_vars PROVE AttemptInv'
  OBVIOUS
<1>0. TypeOK /\ LockInv /\ AttemptInv /\ RecordInv /\ ClearInv /\ NothingUntracked /\ TypeOK'
  BY TypeStep DEF IInv
<1> USE OpenConnectAssumption, Values, <1>0 DEF Goto, Return, sysVars
<1>m. \A d \in Client : mine[d].id \in Sess \cup {None}
  BY DEF TypeOK, Session
<1>1. ASSUME NEW c \in Client,
             Run(c) \/ Lock(c) \/ Check(c) \/ Stable(c) \/ Converge(c) \/ Save(c) \/ UndoClear(c) \/ Preserve(c)
      PROVE  AttemptInv'
  <2>1. Quiet(c)
    BY <1>1 DEF Quiet, Run, Lock, Check, Stable, Converge, Save, UndoClear, Preserve, TypeOK, Prelaunch,
       Session
  <2> QED
    BY <2>1, QuietAttempt
<1>2. ASSUME NEW c \in Client,
             Load(c) \/ Observe(c) \/ CleanupLock(c) \/ Reload(c) \/ StaleClear(c) \/ Clean(c) \/ Poll(c)
               \/ Wait(c) \/ Clear(c) \/ Reconnect(c)
      PROVE  AttemptInv'
  <2>1. Quiet(c)
    BY <1>2 DEF Quiet, Load, Observe, CleanupLock, Reload, StaleClear, Clean, Poll, Wait, Clear, Reconnect,
                TypeOK, Prelaunch
  <2> QED
    BY <2>1, QuietAttempt
<1>3. ASSUME NEW c \in Client, Signal(c)
      PROVE  AttemptInv'
  <2>1. Quiet(c)
    BY <1>3, KillShrinks DEF Quiet, Signal, TypeOK, Prelaunch
  <2> QED
    BY <2>1, QuietAttempt
<1>4. ASSUME NEW c \in Client, Identify(c)
      PROVE  AttemptInv'
  <2>1. \A i \in {"own", "other"} : [mine[c] EXCEPT !.ident = i].id = mine[c].id
    BY Identified DEF TypeOK
  <2>2. mine'[c].id = mine[c].id /\ \A d \in Client : d # c => mine'[d] = mine[d]
    BY <1>4, <2>1, ZenonT(60) DEF Identify, TypeOK
  <2>3. Quiet(c)
    BY <1>4, <2>2 DEF Quiet, Identify, TypeOK, Prelaunch
  <2> QED
    BY <2>3, QuietAttempt
<1>5. ASSUME NEW c \in Client, Undo(c)
      PROVE  AttemptInv'
  <2>1. CASE pc'[c] = "undoClear"
    <3>1. proc' = proc /\ "dead" \in FailedStartAlive(mine[c]) /\ pc' = [pc EXCEPT ![c] = "undoClear"]
          /\ UNCHANGED <<mine, fate, loose, away>>
      BY <1>5, <2>1 DEF Undo, TypeOK
    <3>2. mine[c].id # None /\ Faithful(mine[c])
      BY <1>5 DEF Undo, RecordInv, Launched
    <3>3. mine[c].id \in Sess \ Live /\ Live' = Live
      BY <3>1, <3>2 DEF FailedStartAlive, Faithful, Live, Runs, TypeOK, Session
    <3> QED
      BY <3>1, <3>2, <3>3 DEF AttemptInv, CommandInv, FateInv, Unseen, TypeOK, Prelaunch
  <2>2. CASE pc'[c] # "undoClear"
    <3>1. Quiet(c)
      BY <1>5, <2>2, KillShrinks DEF Quiet, Undo, TypeOK, Prelaunch
    <3> QED
      BY <3>1, QuietAttempt
  <2> QED
    BY <2>1, <2>2
<1>6. ASSUME NEW c \in Client, Scan(c) \/ Authenticate(c)
      PROVE  AttemptInv'
  <2>1. ASSUME pc'[c] = "launch", NEW s \in Live
        PROVE  s \in Unseen
    <3>1. pc[c] = "rescan" /\ Scanned = {}
      BY <1>6, <2>1 DEF Scan, Authenticate, TypeOK
    <3>2. PICK p \in Pid : proc[p].kind = "openconnect" /\ proc[p].sess = s
      BY <2>1, LiveIs
    <3>3. \A d \in Client : pc[d] \notin Starting
      BY <3>1, Exclusive DEF Locked, Connecting, Prelaunch, Launched, Starting
    <3>4. record.id = None
      BY <3>1 DEF ClearInv, Connecting, Prelaunch
    <3>5. s \in loose /\ s \in Sess
      BY <2>1, <3>2, <3>3, <3>4 DEF NothingUntracked, Live
    <3> QED
      BY <3>1, <3>2, <3>5 DEF Scanned, Unseen
  <2>2. Live' = Live /\ Unseen \subseteq Unseen'
    BY <1>6 DEF Scan, Authenticate, Live, Runs, Unseen
  <2>3. \A d \in Client : d # c => pc'[d] = pc[d]
    BY <1>6 DEF Scan, Authenticate, TypeOK
  <2>4. pc'[c] \in Prelaunch => pc[c] \in Prelaunch
    BY <1>6 DEF Scan, Authenticate, TypeOK, Prelaunch
  <2>5. pc'[c] # "undoClear" /\ UNCHANGED <<mine, fate, loose, proc>>
    BY <1>6 DEF Scan, Authenticate, TypeOK
  <2>6. CommandInv'
    BY <2>1, <2>2, <2>3, <2>4, <2>5 DEF AttemptInv, CommandInv
  <2>7. FateInv'
    BY <2>2, <2>5 DEF AttemptInv, FateInv
  <2> QED
    BY <2>6, <2>7 DEF AttemptInv
<1>7. ASSUME NEW c \in Client, Prepare(c)
      PROVE  AttemptInv'
  <2>1. Live' = Live
    BY <1>7 DEF Prepare, Live, Runs
  <2>u. Unseen \subseteq Unseen'
    BY <1>7 DEF Prepare, Unseen, TypeOK
  <2>2. CommandInv'
    <3>1. CASE UNCHANGED <<mine, fate>> /\ pc' = [pc EXCEPT ![c] = "failed"]
      BY <2>1, <2>u, <3>1, <1>7 DEF Prepare, AttemptInv, CommandInv, TypeOK, Prelaunch
    <3>2. ASSUME NEW s \in Sess, fate[s] = "new", fate' = [fate EXCEPT ![s] = "begun"],
                 mine' = [mine EXCEPT ![c] = [id |-> s, pid |-> None, ident |-> "none"]],
                 pc' = [pc EXCEPT ![c] = "auth"]
          PROVE  CommandInv'
      <4>1. \A t \in Sess : t # s => fate'[t] = fate[t]
        BY <3>2 DEF TypeOK
      <4>2. fate'[s] = "begun" /\ mine'[c].id = s /\ mine'[c].ident = "none" /\ pc'[c] = "auth"
            /\ \A d \in Client : d # c => mine'[d] = mine[d] /\ pc'[d] = pc[d]
        BY <3>2 DEF TypeOK
      <4> QED
        BY <1>7, <1>m, <2>1, <2>u, <3>2, <4>1, <4>2 DEF Prepare, AttemptInv, CommandInv, FateInv, Prelaunch
    <3> QED
      BY <1>7, <3>1, <3>2 DEF Prepare
  <2>3. FateInv'
    BY <1>7, <2>1 DEF Prepare, AttemptInv, FateInv, TypeOK
  <2> QED
    BY <2>2, <2>3 DEF AttemptInv
<1>8. ASSUME NEW c \in Client, Launch(c)
      PROVE  AttemptInv'
  <2> DEFINE s == mine[c].id
  <2>1. s \in Sess /\ fate[s] = "begun" /\ s \notin Live
    BY <1>8 DEF Launch, AttemptInv, CommandInv, FateInv, TypeOK, Session, Prelaunch
  <2>2. \A d \in Client : d # c => pc[d] \notin Prelaunch \cup {"undoClear"}
    BY <1>8, Exclusive DEF Launch, Locked, Connecting, Prelaunch
  <2>3. \A d \in Client : mine'[d].id = mine[d].id
    BY <1>8 DEF Launch, TypeOK, Session
  <2>4. Live' \subseteq Live \cup {s} /\ \A t \in Sess : t # s => fate'[t] = fate[t]
    BY <1>8, LiveIs, LiveIsNext, SMTT(60) DEF Launch, TypeOK
  <2>5. pc'[c] \notin Prelaunch /\ \A d \in Client : d # c => pc'[d] = pc[d]
    BY <1>8 DEF Launch, TypeOK, Prelaunch
  <2>6. loose \subseteq loose' /\ (s \in Live' => fate'[s] = "begun") /\ (fate'[s] = "late" => s \in loose')
        /\ fate'[s] \in {"begun", "late"}
    BY <1>8, <2>1, LiveIs, LiveIsNext DEF Launch, TypeOK
  <2>7. pc'[c] = "undoClear" => s \notin Live' \/ s \in loose'
    BY <1>8, <2>1, LiveIs, LiveIsNext DEF Launch, TypeOK
  <2>8. \A p \in Pid : proc'[p].kind = "openconnect" => proc'[p].sess \in Sess
    BY <1>8, <2>1 DEF Launch, AttemptInv, CommandInv, FateInv, TypeOK
  <2>9. CommandInv'
    BY <1>m, <2>1, <2>2, <2>3, <2>4, <2>5, <2>6, <2>7 DEF AttemptInv, CommandInv, Prelaunch
  <2>10. FateInv'
    BY <2>1, <2>2, <2>3, <2>4, <2>5, <2>6, <2>7, <2>8 DEF AttemptInv, FateInv
  <2> QED
    BY <2>9, <2>10 DEF AttemptInv
<1>9. ASSUME NEW c \in Client, Interrupt(c)
      PROVE  AttemptInv'
  <2>1. pc[c] # "launch" => Quiet(c)
    BY <1>9 DEF Interrupt, Quiet, TypeOK, Prelaunch
  <2>2. CASE pc[c] = "launch"
    <3>1. \A d \in Client : d # c => pc[d] \notin Prelaunch
      BY <2>2, Exclusive DEF Locked, Connecting, Prelaunch
    <3>2. mine[c].id \in Sess /\ fate[mine[c].id] = "begun" /\ mine[c].id \notin Live
      BY <2>2 DEF AttemptInv, CommandInv, FateInv, TypeOK, Session, Prelaunch
    <3>3. Live' = Live
      BY <1>9 DEF Interrupt, Live, Runs
    <3>4. CommandInv'
      <4>1. pc'[c] = "idle" /\ \A d \in Client : d # c => pc'[d] = pc[d]
        BY <1>9 DEF Interrupt, TypeOK
      <4>2. mine' = mine /\ loose \subseteq loose' /\ \A t \in Sess : fate'[t] \in {fate[t], "late"}
        BY <1>9, <3>2 DEF Interrupt, TypeOK
      <4> QED
        BY <1>m, <3>1, <3>3, <4>1, <4>2 DEF AttemptInv, CommandInv, Prelaunch
    <3>5. FateInv'
      BY <1>9, <2>2, <3>1, <3>2, <3>3 DEF Interrupt, AttemptInv, FateInv, TypeOK, Starting
    <3> QED
      BY <3>4, <3>5 DEF AttemptInv
  <2> QED
    BY <2>1, <2>2, QuietAttempt
<1>10. ASSUME NEW s \in Sess, LateLaunch(s)
       PROVE  AttemptInv'
  <2>1. Live' \subseteq Live \cup {s} /\ \A t \in Sess : t # s => fate'[t] = fate[t]
    BY <1>10, LiveIs, LiveIsNext DEF LateLaunch, TypeOK
  <2>2. fate[s] = "late" /\ fate'[s] = "adrift" /\ s \in loose
        /\ pc' = pc /\ mine' = mine /\ loose' = loose
    BY <1>10 DEF LateLaunch, TypeOK, AttemptInv, FateInv
  <2>3. \A p \in Pid : proc'[p].kind = "openconnect" => proc'[p].sess \in Sess
    BY <1>10 DEF LateLaunch, AttemptInv, CommandInv, FateInv, TypeOK
  <2>4. CommandInv'
    <3> SUFFICES ASSUME NEW d \in Client
                 PROVE  /\ mine[d].id # None => fate'[mine[d].id] # "new"
                        /\ pc[d] \in Prelaunch =>
                             /\ mine[d].id # None /\ fate'[mine[d].id] = "begun" /\ mine[d].ident = "none"
                             /\ mine[d].id \notin Live'
                        /\ pc[d] = "launch" => Live' \subseteq Unseen'
                        /\ pc[d] = "undoClear" =>
                             mine[d].id # None /\ mine[d].id \in loose \cup (Sess \ Live')
      BY <2>2 DEF CommandInv
    <3>1. pc[d] = "launch" => Live' \subseteq Unseen'
      BY <1>10, <2>1, <2>2 DEF AttemptInv, CommandInv, Live, Unseen, LateLaunch
    <3>2. pc[d] = "undoClear" => mine[d].id # None /\ mine[d].id \in loose \cup (Sess \ Live')
      BY <2>1, <2>2 DEF AttemptInv, CommandInv
    <3>3. mine[d].id # None => fate'[mine[d].id] # "new"
      BY <1>m, <2>1, <2>2 DEF AttemptInv, CommandInv
    <3>4. pc[d] \in Prelaunch => /\ mine[d].id # None /\ fate'[mine[d].id] = "begun" /\ mine[d].ident = "none"
                                /\ mine[d].id \notin Live'
      BY <1>m, <2>1, <2>2 DEF AttemptInv, CommandInv
    <3> QED
      BY <3>1, <3>2, <3>3, <3>4
  <2>5. FateInv'
    BY <2>1, <2>2, <2>3 DEF AttemptInv, FateInv
  <2> QED
    BY <2>4, <2>5 DEF AttemptInv
<1>11. ASSUME NEW p \in Pid, Exit(p) \/ ReusePid(p)
       PROVE  AttemptInv'
  <2>1. \A q \in Pid : proc'[q].kind = "openconnect" => proc'[q] = proc[q]
    BY <1>11 DEF Exit, ReusePid, TypeOK, FreePid
  <2>2. Live' \subseteq Live
    BY <2>1, LiveIs, LiveIsNext
  <2> QED
    BY <1>11, <2>1, <2>2 DEF Exit, ReusePid, AttemptInv, CommandInv, FateInv, Unseen, TypeOK, Session
<1>12. ASSUME (\E s \in Sess : Hook(s)) \/ UNCHANGED vars
       PROVE  AttemptInv'
  <2>1. Live' = Live
    BY <1>12 DEF Hook, vars, Live, Runs
  <2> QED
    BY <1>12, <2>1 DEF Hook, vars, AttemptInv, CommandInv, FateInv, Unseen
<1> QED
  BY <1>1, <1>2, <1>3, <1>4, <1>5, <1>6, <1>7, <1>8, <1>9, <1>10, <1>11, <1>12 DEF Next, CommandStep
-----------------------------------------------------------------------------
(* The records *)

\* No Connect is about to launch the attempt, and none ever will be.
Spent(s) == fate[s] = "begun" /\ \A c \in Client : mine[c].id = s => pc[c] \notin Prelaunch

\* An attempt that is past its launch stays there.
LEMMA SpentStep ==
  ASSUME IInv, [Next]_vars, NEW s \in Sess, Spent(s)
  PROVE  Spent(s)'
<1>0. TypeOK /\ CommandInv
  BY DEF IInv, AttemptInv
<1> USE OpenConnectAssumption, Values, <1>0 DEF TypeOK, Goto, Return, sysVars
<1>1. ASSUME NEW c \in Client, Run(c)
      PROVE  Spent(s)'
  BY <1>1 DEF Spent, Run, Prelaunch
<1>2. ASSUME NEW c \in Client, Prepare(c)
      PROVE  Spent(s)'
  BY <1>2 DEF Spent, Prepare, Prelaunch
<1>3. ASSUME NEW c \in Client, Launch(c)
      PROVE  Spent(s)'
  <2>1. mine[c].id # s /\ pc'[c] \notin Prelaunch /\ \A d \in Client : d # c => pc'[d] = pc[d]
    BY <1>3 DEF Spent, Launch, Prelaunch
  <2>0. mine[c].id \in Sess
    BY <1>3 DEF Launch, CommandInv, Prelaunch, Session
  <2>2. mine[c].id \in Sess /\ \A d \in Client : mine'[d].id = mine[d].id
    BY <1>3, <2>0 DEF Launch, Session
  <2>3. fate'[s] = fate[s]
    BY <1>3, <2>1, <2>2 DEF Launch
  <2> QED
    BY <2>1, <2>2, <2>3 DEF Spent
<1>4. ASSUME NEW c \in Client, Identify(c)
      PROVE  Spent(s)'
  BY <1>4 DEF Spent, Identify, Prelaunch
<1>5. ASSUME NEW c \in Client, Interrupt(c)
      PROVE  Spent(s)'
  <2>1. fate'[s] = fate[s]
    BY <1>5 DEF Interrupt, Spent, Prelaunch
  <2> QED
    BY <1>5, <2>1 DEF Interrupt, Spent, Prelaunch
<1>6. ASSUME NEW c \in Client,
             Lock(c) \/ Check(c) \/ Scan(c) \/ Authenticate(c) \/ Stable(c) \/ Converge(c) \/ Save(c)
               \/ Undo(c) \/ UndoClear(c) \/ Preserve(c) \/ Load(c) \/ Observe(c)
      PROVE  Spent(s)'
  BY <1>6 DEF Spent, Lock, Check, Scan, Authenticate, Stable, Converge, Save, Undo, UndoClear, Preserve,
              Load, Observe, Prelaunch
<1>7. ASSUME NEW c \in Client,
             CleanupLock(c) \/ Reload(c) \/ StaleClear(c) \/ Clean(c) \/ Signal(c) \/ Poll(c)
               \/ Wait(c) \/ Clear(c) \/ Reconnect(c)
      PROVE  Spent(s)'
  BY <1>7 DEF Spent, CleanupLock, Reload, StaleClear, Clean, Signal, Poll, Wait, Clear, Reconnect, Prelaunch
<1>8. ASSUME NEW t \in Sess, LateLaunch(t) \/ Hook(t)
      PROVE  Spent(s)'
  BY <1>8 DEF Spent, LateLaunch, Hook
<1>9. ASSUME NEW p \in Pid, Exit(p) \/ ReusePid(p)
      PROVE  Spent(s)'
  BY <1>9 DEF Spent, Exit, ReusePid
<1>10. CASE UNCHANGED vars
  BY <1>10 DEF Spent, vars
<1> QED
  BY <1>1, <1>2, <1>3, <1>4, <1>5, <1>6, <1>7, <1>8, <1>9, <1>10 DEF Next, CommandStep

\* Its openconnect may end and starts no more.
LEMMA SpentProcess ==
  ASSUME IInv, [Next]_vars, NEW s \in Sess, Spent(s),
         NEW p \in Pid, proc'[p] = [kind |-> "openconnect", sess |-> s]
  PROVE  proc[p] = [kind |-> "openconnect", sess |-> s]
<1>1. SUFFICES ASSUME proc'[p] # proc[p] PROVE FALSE
  OBVIOUS
<1>2. ASSUME NEW c \in Client, Launch(c), proc'[p] = [kind |-> "openconnect", sess |-> mine[c].id]
      PROVE  FALSE
  BY <1>2 DEF Launch, Spent, Prelaunch
<1>3. ASSUME NEW t \in Sess, LateLaunch(t), proc'[p] = [kind |-> "openconnect", sess |-> t]
      PROVE  FALSE
  BY <1>3 DEF LateLaunch, Spent
<1>4. proc'[p].kind = "openconnect"
  OBVIOUS
<1>5. \/ \E c \in Client : Launch(c) /\ proc'[p] = [kind |-> "openconnect", sess |-> mine[c].id]
      \/ \E t \in Sess : LateLaunch(t) /\ proc'[p] = [kind |-> "openconnect", sess |-> t]
  BY <1>1, <1>4, OnlyLaunches
<1> QED
  BY <1>2, <1>3, <1>5

\* What a record says of its session stays true.
LEMMA FaithfulStep ==
  ASSUME IInv, [Next]_vars, NEW r \in Session, Faithful(r)
  PROVE  Faithful(r)' /\ (r.id # None /\ r.id \notin Live => r.id \notin Live')
<1> SUFFICES ASSUME r.id # None PROVE Faithful(r)' /\ (r.id \notin Live => r.id \notin Live')
  BY DEF Faithful
<1>1. r.id \in Sess /\ Spent(r.id)
  BY DEF Faithful, Spent, Session
<1>2. Spent(r.id)'
  BY <1>1, SpentStep
<1>3. \A p \in Pid : proc'[p] = [kind |-> "openconnect", sess |-> r.id] =>
        proc[p] = [kind |-> "openconnect", sess |-> r.id]
  BY <1>1, SpentProcess
<1>4. r.id \notin Live => r.id \notin Live'
  BY <1>1, <1>3 DEF Live, Runs
<1> QED
  BY <1>2, <1>3, <1>4 DEF Faithful, Spent
\* A session that is seen dead is gone.
LEMMA DeadGone ==
  ASSUME TypeOK, NEW r \in Session, Faithful(r), r.id # None, "dead" \in SessionAlive(r)
  PROVE  r.id \in Sess /\ r.id \notin Live
<1>0. r.id \in Sess /\ r.pid \in Pid
  BY DEF Faithful, Session
<1>1. SUFFICES r.ident # "other" => proc[r.pid] # [kind |-> "openconnect", sess |-> r.id]
  BY <1>0 DEF Faithful, Live, Runs
<1>2. CASE proc[r.pid].kind = "free"
  BY <1>2
<1>3. CASE proc[r.pid].kind # "free"
  <2>1. "dead" \in {"unknown"} \cup {IF m THEN "alive" ELSE "dead" : m \in Match(r)}
    BY <1>0, <1>3, OpenConnectAssumption DEF SessionAlive
  <2>2. PICK m \in Match(r) : "dead" = IF m THEN "alive" ELSE "dead"
    BY <2>1
  <2>3. ~m
    BY <2>2
  <2>4. CASE r.ident = "own"
    BY <2>3, <2>4 DEF Match
  <2>5. CASE r.ident = "none"
    <3>1. Match(r) = {proc[r.pid].kind \in {"openconnect", "alien"}}
      BY <2>5 DEF Match
    <3>2. proc[r.pid].kind # "openconnect"
      BY <2>3, <3>1, Zenon
    <3> QED
      BY <3>2
  <2> QED
    BY <2>4, <2>5 DEF Session
<1> QED
  BY <1>2, <1>3

\* The record becomes empty, unreadable, or that of a Connect that has launched and returns.
LEMMA RecordMoves ==
  ASSUME IInv, [Next]_vars
  PROVE  \/ record' = record
         \/ record'.id = None
         \/ \E c \in Client : pc[c] \in Launched /\ pc'[c] \notin Locked /\ record' = mine[c]
<1>0. TypeOK
  BY DEF IInv
<1> USE OpenConnectAssumption, Values, <1>0 DEF sysVars
<1>1. ASSUME NEW c \in Client, CommandStep(c), record' # record, record'.id # None
      PROVE  pc[c] \in Launched /\ pc'[c] \notin Locked /\ record' = mine[c]
  BY <1>1 DEF CommandStep, Run, Lock, Check, Scan, Prepare, Authenticate, Launch, Identify, Stable, Converge,
     Save, Undo, UndoClear, Preserve, Load, Observe, CleanupLock, Reload, StaleClear, Clean, Signal, Poll,
     Wait, Clear, Reconnect, Interrupt, Launched, Locked, Connecting, Prelaunch, Return, Goto, TypeOK
<1>2. (\E s \in Sess : LateLaunch(s) \/ Hook(s)) \/ (\E p \in Pid : Exit(p) \/ ReusePid(p)) \/ UNCHANGED vars =>
        record' = record
  BY DEF LateLaunch, Hook, Exit, ReusePid, vars
<1> QED
  BY <1>1, <1>2 DEF Next

\* Stop loads the record, or a process without one.
LEMMA CurMoves ==
  ASSUME IInv, [Next]_vars, NEW c \in Client
  PROVE  cur'[c] \in {cur[c], record} \/ cur'[c].id = None
<1>0. TypeOK
  BY DEF IInv
<1> USE OpenConnectAssumption, Values, <1>0 DEF TypeOK, sysVars
<1>1. \A r \in Loaded : r = record \/ r.id = None
  BY DEF Loaded, Pgrep
<1>2. ASSUME NEW d \in Client, CommandStep(d)
      PROVE  cur'[c] \in {cur[c], record} \/ cur'[c].id = None
  BY <1>1, <1>2 DEF CommandStep, Run, Lock, Check, Scan, Prepare, Authenticate, Launch, Identify, Stable,
     Converge, Save, Undo, UndoClear, Preserve, Load, Observe, CleanupLock, Reload, StaleClear, Clean,
     Signal, Poll, Wait, Clear, Reconnect, Interrupt
<1>3. (\E s \in Sess : LateLaunch(s) \/ Hook(s)) \/ (\E p \in Pid : Exit(p) \/ ReusePid(p)) \/ UNCHANGED vars =>
        cur' = cur
  BY DEF LateLaunch, Hook, Exit, ReusePid, vars
<1> QED
  BY <1>2, <1>3 DEF Next

\* An attempt that is in hand stays as it is, has just been launched, or has just got its identity.
LEMMA MineMoves ==
  ASSUME IInv, [Next]_vars, NEW c \in Client, pc'[c] \in Launched
  PROVE  Launch(c) \/ Identify(c) \/ (pc[c] \in Launched /\ mine'[c] = mine[c])
<1>0. TypeOK
  BY DEF IInv
<1> USE OpenConnectAssumption, Values, <1>0 DEF TypeOK, sysVars, Goto, Return
<1>1. ASSUME NEW d \in Client, CommandStep(d), d # c
      PROVE  pc'[c] = pc[c] /\ mine'[c] = mine[c]
  BY <1>1 DEF CommandStep, Run, Lock, Check, Scan, Prepare, Authenticate, Launch, Identify, Stable, Converge,
     Save, Undo, UndoClear, Preserve, Load, Observe, CleanupLock, Reload, StaleClear, Clean, Signal, Poll,
     Wait, Clear, Reconnect, Interrupt
<1>2. CASE CommandStep(c)
  BY <1>2 DEF CommandStep, Run, Lock, Check, Scan, Prepare, Authenticate, Stable, Converge,
     Save, Undo, UndoClear, Preserve, Load, Observe, CleanupLock, Reload, StaleClear, Clean, Signal, Poll,
     Wait, Clear, Reconnect, Interrupt, Launched
<1>3. (\E s \in Sess : LateLaunch(s) \/ Hook(s)) \/ (\E p \in Pid : Exit(p) \/ ReusePid(p)) \/ UNCHANGED vars =>
        pc' = pc /\ mine' = mine
  BY DEF LateLaunch, Hook, Exit, ReusePid, vars
<1> QED
  BY <1>1, <1>2, <1>3 DEF Next

\* Every record, also the one Stop has loaded and the one Connect is about to write, is right
\* about its session.
LEMMA RecordStep == IInv /\ [Next]_vars => RecordInv'
<1> SUFFICES ASSUME IInv, [Next]_vars PROVE RecordInv'
  OBVIOUS
<1>0. TypeOK /\ LockInv /\ AttemptInv /\ RecordInv /\ TypeOK'
  BY TypeStep DEF IInv
<1>1. \A r \in Session : Faithful(r) => Faithful(r)'
  BY FaithfulStep
<1>2. Faithful(record)'
  <2>1. CASE record' = record
    BY <1>0, <1>1, <2>1 DEF TypeOK, RecordInv
  <2>2. CASE record'.id = None
    BY <2>2 DEF Faithful
  <2>3. CASE \E c \in Client : pc[c] \in Launched /\ record' = mine[c]
    BY <1>0, <1>1, <2>3 DEF TypeOK, RecordInv
  <2> QED
    BY <2>1, <2>2, <2>3, RecordMoves
<1>3. ASSUME NEW c \in Client
      PROVE  Faithful(cur[c])'
  <2>1. CASE cur'[c] \in {cur[c], record}
    BY <1>0, <1>1, <2>1 DEF TypeOK, RecordInv
  <2>2. CASE cur'[c].id = None
    BY <2>2 DEF Faithful
  <2> QED
    BY <2>1, <2>2, CurMoves
<1>4. ASSUME NEW c \in Client, pc'[c] \in Launched
      PROVE  mine'[c].id # None /\ Faithful(mine[c])'
  <2>1. CASE pc[c] \in Launched /\ mine'[c] = mine[c]
    BY <1>0, <1>1, <2>1 DEF TypeOK, RecordInv
  <2>2. CASE Launch(c)
    <3>1. PICK p \in Pid :
            /\ proc[p] = FreePid
            /\ proc' = [proc EXCEPT ![p] = [kind |-> "openconnect", sess |-> mine[c].id]]
            /\ mine' = [mine EXCEPT ![c].pid = p]
            /\ UNCHANGED fate
      BY <1>0, <1>4, <2>2 DEF Launch, Goto, Launched, TypeOK
    <3>2. mine[c].id \in Sess /\ fate[mine[c].id] = "begun" /\ mine[c].id \notin Live /\ mine[c].ident = "none"
      BY <1>0, <2>2 DEF Launch, AttemptInv, CommandInv, Prelaunch, TypeOK, Session
    <3>3. mine'[c].id = mine[c].id /\ mine'[c].pid = p /\ mine'[c].ident = "none"
      BY <1>0, <3>1, <3>2 DEF TypeOK, Session
    <3>4. \A q \in Pid : proc'[q] = [kind |-> "openconnect", sess |-> mine[c].id] => q = p
      BY <1>0, <3>1, <3>2 DEF Live, Runs, TypeOK
    <3>5. \A d \in Client : pc'[d] \notin Prelaunch
      <4>1. \A d \in Client : d # c => pc[d] \notin Prelaunch
        BY <1>0, <2>2, Exclusive DEF Launch, Locked, Connecting, Prelaunch
      <4> QED
        BY <1>0, <1>4, <2>2, <4>1 DEF Launch, Goto, TypeOK, Launched, Prelaunch
    <3> QED
      BY <3>1, <3>2, <3>3, <3>4, <3>5, OpenConnectAssumption DEF Faithful
  <2>3. CASE Identify(c)
    <3>1. mine[c].id # None /\ Faithful(mine[c]) /\ mine[c] \in Session
      BY <1>0, <2>3 DEF Identify, RecordInv, Launched, TypeOK
    <3>2. Faithful(mine[c])' \/ mine' # mine
      BY <1>1, <3>1
    <3>3. ASSUME NEW i \in {"own", "other"}, mine' = [mine EXCEPT ![c].ident = i],
                 i = "other" => proc[mine[c].pid] # [kind |-> "openconnect", sess |-> mine[c].id]
          PROVE  mine'[c].id # None /\ Faithful(mine[c])'
      <4>1. mine'[c].id = mine[c].id /\ mine'[c].pid = mine[c].pid /\ mine'[c].ident = i
        BY <1>0, <3>1, <3>3, Identified DEF TypeOK
      <4>2. i = "other" => mine[c].id \notin Live'
        BY <2>3, <3>1, <3>3 DEF Faithful, Live, Runs, Identify, sysVars
      <4>3. /\ mine[c].pid # None /\ fate'[mine[c].id] = "begun"
            /\ \A p \in Pid : proc'[p] = [kind |-> "openconnect", sess |-> mine[c].id] => p = mine[c].pid
            /\ \A d \in Client : mine'[d].id = mine[c].id => pc'[d] \notin Prelaunch
        BY <1>1, <3>1 DEF Faithful
      <4> QED
        BY <3>1, <4>1, <4>2, <4>3 DEF Faithful
    <3>4. CASE mine' = mine
      BY <3>1, <3>2, <3>4
    <3> QED
      BY <2>3, <3>3, <3>4 DEF Identify
  <2> QED
    BY <1>4, <2>1, <2>2, <2>3, MineMoves
<1> QED
  BY <1>2, <1>3, <1>4 DEF RecordInv
-----------------------------------------------------------------------------
(* What may be cleared *)

\* Stop, once it has found its session gone.
Gone == {"staleClear", "clean", "wait", "clear", "stopped"}

\* Connect goes on from its look at the record only when there is none any more.
LEMMA ConnectEnters ==
  ASSUME IInv, [Next]_vars, NEW c \in Client, pc[c] \notin Connecting, pc'[c] \in Connecting
  PROVE  record'.id = None
<1>0. TypeOK
  BY DEF IInv
<1> USE OpenConnectAssumption, Values, <1>0 DEF TypeOK, sysVars, Goto, Return
<1>1. ASSUME NEW d \in Client, CommandStep(d), d # c
      PROVE  pc'[c] = pc[c]
  BY <1>1 DEF CommandStep, Run, Lock, Check, Scan, Prepare, Authenticate, Launch, Identify, Stable, Converge,
     Save, Undo, UndoClear, Preserve, Load, Observe, CleanupLock, Reload, StaleClear, Clean, Signal, Poll,
     Wait, Clear, Reconnect, Interrupt
<1>2. CASE CommandStep(c)
  BY <1>2 DEF CommandStep, Run, Lock, Check, Scan, Prepare, Authenticate, Launch, Identify, Stable, Converge,
     Save, Undo, UndoClear, Preserve, Load, Observe, CleanupLock, Reload, StaleClear, Clean, Signal, Poll,
     Wait, Clear, Reconnect, Interrupt, Connecting, Prelaunch, Launched
<1>3. (\E s \in Sess : LateLaunch(s) \/ Hook(s)) \/ (\E p \in Pid : Exit(p) \/ ReusePid(p)) \/ UNCHANGED vars =>
        pc' = pc
  BY DEF LateLaunch, Hook, Exit, ReusePid, vars
<1> QED
  BY <1>1, <1>2, <1>3 DEF Next

\* Stop finds its session gone with the lock, or polling.
LEMMA StopEnters ==
  ASSUME IInv, [Next]_vars, NEW c \in Client, pc'[c] \in Gone
  PROVE  \/ pc[c] \in Gone /\ cur'[c] = cur[c]
            /\ (pc'[c] \in {"staleClear", "clean"} => pc[c] \in {"staleClear", "clean"})
         \/ Reload(c)
         \/ Poll(c) /\ pc'[c] \notin {"staleClear", "clean"}
<1>0. TypeOK
  BY DEF IInv
<1> USE OpenConnectAssumption, Values, <1>0 DEF TypeOK, sysVars, Goto, Return
<1>1. ASSUME NEW d \in Client, CommandStep(d), d # c
      PROVE  pc'[c] = pc[c] /\ cur'[c] = cur[c]
  BY <1>1 DEF CommandStep, Run, Lock, Check, Scan, Prepare, Authenticate, Launch, Identify, Stable, Converge,
     Save, Undo, UndoClear, Preserve, Load, Observe, CleanupLock, Reload, StaleClear, Clean, Signal, Poll,
     Wait, Clear, Reconnect, Interrupt
<1>2. CASE CommandStep(c)
  BY <1>2 DEF CommandStep, Run, Lock, Check, Scan, Prepare, Authenticate, Launch, Identify, Stable, Converge,
     Save, Undo, UndoClear, Preserve, Load, Observe, CleanupLock, StaleClear, Clean, Signal, Poll,
     Wait, Clear, Reconnect, Interrupt, Gone
<1>3. (\E s \in Sess : LateLaunch(s) \/ Hook(s)) \/ (\E p \in Pid : Exit(p) \/ ReusePid(p)) \/ UNCHANGED vars =>
        pc' = pc /\ cur' = cur
  BY DEF LateLaunch, Hook, Exit, ReusePid, vars
<1> QED
  BY <1>1, <1>2, <1>3 DEF Next

\* What a reload under the lock finds gone is gone, and it is the recorded session.
LEMMA ReloadGone ==
  ASSUME IInv, NEW c \in Client, Reload(c), pc'[c] \in Gone
  PROVE  /\ UNCHANGED <<proc, record>>
         /\ record.id # None => record.id \notin Live
         /\ cur'[c].id # None => cur'[c].id \notin Live
<1>0. TypeOK /\ RecordInv
  BY DEF IInv
<1>1. PICK r \in Loaded : cur' = [cur EXCEPT ![c] = r] /\ "dead" \in SessionAlive(r)
  BY <1>0 DEF Reload, Return, Goto, Gone, TypeOK
<1>2. r = record \/ (r.id = None /\ record = NoRecord)
  BY Values DEF Loaded, Pgrep
<1>3. r.id # None => r.id \notin Live
  BY <1>0, <1>1, <1>2, DeadGone DEF RecordInv, TypeOK
<1> QED
  BY <1>0, <1>1, <1>2, <1>3, Values DEF Reload, sysVars, TypeOK

\* A record is cleared, and resolver files are removed, only when the session is gone.
LEMMA ClearStep == IInv /\ [Next]_vars => ClearInv'
<1> SUFFICES ASSUME IInv, [Next]_vars, NEW c \in Client
             PROVE  /\ pc'[c] \in Connecting => record'.id = None
                    /\ pc'[c] \in {"staleClear", "clean"} /\ record'.id # None => record'.id \notin Live'
                    /\ pc'[c] \in Gone /\ cur'[c].id # None => cur'[c].id \notin Live'
  BY DEF ClearInv, Gone
<1>0. TypeOK /\ LockInv /\ RecordInv /\ ClearInv
  BY DEF IInv
<1>1. \A r \in Session : Faithful(r) /\ r.id # None /\ r.id \notin Live => r.id \notin Live'
  BY FaithfulStep
<1>2. ASSUME pc'[c] \in Connecting
      PROVE  record'.id = None
  <2>1. CASE pc[c] \in Connecting
    <3>1. \A d \in Client : pc[d] \in Launched => d = c
      BY <1>0, <2>1, Exclusive DEF Locked, Connecting
    <3> QED
      BY <1>0, <1>2, <2>1, <3>1, RecordMoves DEF ClearInv, Locked
  <2> QED
    BY <1>2, <2>1, ConnectEnters
<1>3. ASSUME pc'[c] \in {"staleClear", "clean"}, record'.id # None
      PROVE  record'.id \notin Live'
  <2>1. CASE pc[c] \in {"staleClear", "clean"}
    <3>1. \A d \in Client : pc[d] \notin Launched
      BY <1>0, <2>1, Exclusive DEF Locked, Connecting, Launched
    <3>2. record' = record
      BY <1>3, <3>1, RecordMoves
    <3> QED
      BY <1>0, <1>1, <1>3, <2>1, <3>2 DEF ClearInv, RecordInv, TypeOK
  <2>2. CASE Reload(c)
    <3>1. record' = record /\ record.id \notin Live /\ proc' = proc
      BY <1>3, <2>2, ReloadGone DEF Gone
    <3> QED
      BY <3>1 DEF Live, Runs
  <2> QED
    BY <1>3, <2>1, <2>2, StopEnters DEF Gone
<1>4. ASSUME pc'[c] \in Gone, cur'[c].id # None
      PROVE  cur'[c].id \notin Live'
  <2>1. CASE pc[c] \in Gone /\ cur'[c] = cur[c]
    BY <1>0, <1>1, <1>4, <2>1 DEF ClearInv, RecordInv, TypeOK, Gone
  <2>2. CASE Reload(c)
    <3>1. cur'[c].id \notin Live /\ proc' = proc
      BY <1>4, <2>2, ReloadGone
    <3> QED
      BY <3>1 DEF Live, Runs
  <2>3. CASE Poll(c)
    <3>1. cur' = cur /\ proc' = proc /\ "dead" \in SessionAlive(cur[c])
      BY <1>0, <1>4, <2>3 DEF Poll, Goto, Gone, TypeOK, sysVars
    <3>2. cur[c].id \notin Live
      BY <1>0, <1>4, <3>1, DeadGone DEF RecordInv, TypeOK
    <3> QED
      BY <3>1, <3>2 DEF Live, Runs
  <2> QED
    BY <1>4, <2>1, <2>2, <2>3, StopEnters
<1> QED
  BY <1>2, <1>3, <1>4
-----------------------------------------------------------------------------
(* The properties *)

\* The launches that outlived their commands stay, and what was lost stays lost.
LEMMA History ==
  ASSUME IInv, [Next]_vars
  PROVE  /\ loose \subseteq loose'
         /\ \A s \in Sess : fate[s] = "adrift" => fate'[s] = "adrift"
<1>0. TypeOK /\ CommandInv
  BY DEF IInv, AttemptInv
<1> USE <1>0 DEF TypeOK, sysVars
<1>1. ASSUME NEW c \in Client, CommandStep(c)
      PROVE  loose \subseteq loose' /\ \A s \in Sess : fate[s] = "adrift" => fate'[s] = "adrift"
  <2>1. loose \subseteq loose'
    BY <1>1 DEF CommandStep, Run, Lock, Check, Scan, Prepare, Authenticate, Launch, Identify, Stable,
       Converge, Save, Undo, UndoClear, Preserve, Load, Observe, CleanupLock, Reload, StaleClear, Clean,
       Signal, Poll, Wait, Clear, Reconnect, Interrupt
  <2>2. CASE Prepare(c)
    BY <2>2 DEF Prepare
  <2>3. CASE Launch(c) \/ Interrupt(c)
    BY <2>3 DEF Launch, Interrupt, CommandInv, Prelaunch
  <2>4. CASE ~(Prepare(c) \/ Launch(c) \/ Interrupt(c))
    BY <1>1, <2>4 DEF CommandStep, Run, Lock, Check, Scan, Authenticate, Identify, Stable, Converge,
       Save, Undo, UndoClear, Preserve, Load, Observe, CleanupLock, Reload, StaleClear, Clean, Signal, Poll,
       Wait, Clear, Reconnect
  <2> QED
    BY <2>1, <2>2, <2>3, <2>4
<1>2. ASSUME NEW s \in Sess, LateLaunch(s) \/ Hook(s)
      PROVE  loose \subseteq loose' /\ \A t \in Sess : fate[t] = "adrift" => fate'[t] = "adrift"
  BY <1>2 DEF LateLaunch, Hook
<1>3. (\E p \in Pid : Exit(p) \/ ReusePid(p)) \/ UNCHANGED vars => loose' = loose /\ fate' = fate
  BY DEF Exit, ReusePid, vars
<1> QED
  BY <1>1, <1>2, <1>3 DEF Next

\* What the scan cannot see, it cannot see later.
LEMMA StillUnseen ==
  ASSUME IInv, [Next]_vars
  PROVE  Unseen \subseteq Unseen'
<1>0. TypeOK
  BY DEF IInv
<1> USE <1>0 DEF TypeOK, sysVars
<1>1. ASSUME NEW c \in Client, CommandStep(c)
      PROVE  away \subseteq away'
  BY <1>1 DEF CommandStep, Run, Lock, Check, Scan, Prepare, Authenticate, Launch, Identify, Stable,
     Converge, Save, Undo, UndoClear, Preserve, Load, Observe, CleanupLock, Reload, StaleClear, Clean,
     Signal, Poll, Wait, Clear, Reconnect, Interrupt
<1>2. (\E s \in Sess : LateLaunch(s) \/ Hook(s)) \/ (\E p \in Pid : Exit(p) \/ ReusePid(p)) \/ UNCHANGED vars =>
        away' = away
  BY DEF LateLaunch, Hook, Exit, ReusePid, vars
<1>3. away \subseteq away'
  BY <1>1, <1>2 DEF Next
<1> QED
  BY <1>3, History DEF Unseen

\* A Connect launches when no openconnect runs but those adrift, or lost and unrecognised.
LEMMA OneStep == IInv /\ [Next]_vars => OnePerServer'
<1> SUFFICES ASSUME IInv, [Next]_vars, NEW s \in Sess, NEW t \in Sess, s \in Live', t \in Live', s # t
             PROVE  s \in Unseen' \/ t \in Unseen'
  BY DEF OnePerServer, Live, Unseen
<1>0. TypeOK /\ TypeOK' /\ CommandInv /\ OnePerServer
  BY TypeStep DEF IInv, AttemptInv
<1>1. Unseen \subseteq Unseen'
  BY StillUnseen
<1>a. s \in Live /\ t \in Live => s \in Unseen \/ t \in Unseen
  BY <1>0 DEF OnePerServer, Live, Unseen
<1>2. CASE \E c \in Client : Launch(c)
  <2>1. PICK c \in Client : Launch(c)
    BY <1>2
  <2>2. Live' \subseteq Live \cup {mine[c].id}
    BY <1>0, <2>1, LiveIs, LiveIsNext DEF Launch, TypeOK
  <2>3. Live \subseteq Unseen
    BY <1>0, <2>1 DEF Launch, CommandInv
  <2> QED
    BY <1>1, <2>2, <2>3
<1>3. CASE \E u \in Sess : LateLaunch(u)
  <2>1. PICK u \in Sess : LateLaunch(u)
    BY <1>3
  <2>2. Live' \subseteq Live \cup {u} /\ u \in Unseen'
    BY <1>0, <2>1, LiveIs, LiveIsNext DEF LateLaunch, TypeOK, Unseen
  <2> QED
    BY <1>1, <1>a, <2>2
<1>4. CASE ~(\E c \in Client : Launch(c)) /\ ~(\E u \in Sess : LateLaunch(u))
  <2>1. \A p \in Pid : proc'[p].kind = "openconnect" => proc'[p] = proc[p]
    BY <1>4, OnlyLaunches
  <2>2. Live' \subseteq Live
    BY <1>0, <2>1, LiveIs, LiveIsNext
  <2> QED
    BY <1>1, <1>a, <2>2
<1> QED
  BY <1>2, <1>3, <1>4

\* A record that is given up is that of a session that is gone, or lost by it.
LEMMA RecordLeaves ==
  ASSUME IInv, [Next]_vars, record' # record, record.id # None
  PROVE  record.id \notin Live \/ record.id \in loose'
<1>0. TypeOK /\ RecordInv /\ ClearInv
  BY DEF IInv
<1> USE <1>0 DEF TypeOK, sysVars
<1>1. ASSUME NEW c \in Client, CommandStep(c)
      PROVE  record.id \notin Live \/ record.id \in loose'
  <2>1. pc[c] \notin Connecting
    BY DEF ClearInv
  <2>2. CASE Check(c)
    BY <2>2, DeadGone DEF Check, RecordInv
  <2>3. CASE StaleClear(c)
    BY <2>3 DEF StaleClear, ClearInv
  <2>4. CASE Clear(c)
    BY <2>4 DEF Clear, ClearInv
  <2> QED
    BY <1>1, <2>1, <2>2, <2>3, <2>4 DEF CommandStep, Run, Lock, Scan, Prepare, Authenticate, Launch,
       Identify, Stable, Converge, Save, Undo, UndoClear, Preserve, Load, Observe, CleanupLock, Reload, Clean,
       Signal, Poll, Wait, Reconnect, Interrupt, Connecting, Prelaunch, Launched
<1>2. (\E s \in Sess : LateLaunch(s) \/ Hook(s)) \/ (\E p \in Pid : Exit(p) \/ ReusePid(p)) \/ UNCHANGED vars =>
        record' = record
  BY DEF LateLaunch, Hook, Exit, ReusePid, vars
<1> QED
  BY <1>1, <1>2 DEF Next

\* A Connect lets go of its openconnect when it has recorded it, lost it, or found it gone.
LEMMA StartingLeaves ==
  ASSUME IInv, [Next]_vars, NEW c \in Client, pc[c] \in Starting
  PROVE  \/ pc'[c] \in Starting /\ mine'[c].id = mine[c].id
         \/ mine[c].id \in loose'
         \/ pc[c] \in Launched /\ record' = mine[c]
         \/ pc[c] = "undoClear"
<1>0. TypeOK
  BY DEF IInv
<1> USE <1>0 DEF TypeOK, sysVars, Goto, Return
<1>1. ASSUME NEW d \in Client, CommandStep(d), d # c
      PROVE  pc'[c] = pc[c] /\ mine'[c] = mine[c]
  BY <1>1 DEF CommandStep, Run, Lock, Check, Scan, Prepare, Authenticate, Launch, Identify, Stable, Converge,
     Save, Undo, UndoClear, Preserve, Load, Observe, CleanupLock, Reload, StaleClear, Clean, Signal, Poll,
     Wait, Clear, Reconnect, Interrupt
<1>2. CASE Identify(c)
  <2>0. \A i \in {"own", "other"} : [mine[c] EXCEPT !.ident = i].id = mine[c].id
    BY Identified
  <2>1. mine'[c].id = mine[c].id
    BY <1>2, <2>0 DEF Identify
  <2> QED
    BY <1>2, <2>1 DEF Identify, Starting
<1>3. CASE Launch(c)
  <2>1. mine'[c].id = mine[c].id
    BY <1>3 DEF Launch, Session
  <2> QED
    BY <1>3, <2>1 DEF Launch, Starting
<1>4. CASE CommandStep(c) /\ ~Identify(c) /\ ~Launch(c)
  BY <1>4 DEF CommandStep, Run, Lock, Check, Scan, Prepare, Authenticate, Stable, Converge,
     Save, Undo, UndoClear, Preserve, Load, Observe, CleanupLock, Reload, StaleClear, Clean, Signal, Poll,
     Wait, Clear, Reconnect, Interrupt, Ended, Starting, Launched
<1>5. (\E s \in Sess : LateLaunch(s) \/ Hook(s)) \/ (\E p \in Pid : Exit(p) \/ ReusePid(p)) \/ UNCHANGED vars =>
        pc' = pc /\ mine' = mine
  BY DEF LateLaunch, Hook, Exit, ReusePid, vars
<1> QED
  BY <1>1, <1>2, <1>3, <1>4, <1>5 DEF Next

\* A process is handed on from Connect to the record, and given up only when it is gone or lost.
LEMMA TrackedStep == IInv /\ [Next]_vars => NothingUntracked'
<1> SUFFICES ASSUME IInv, [Next]_vars, NEW p \in Pid, proc'[p].kind = "openconnect"
             PROVE  \/ record'.id = proc'[p].sess /\ record'.pid = p
                    \/ proc'[p].sess \in loose'
                    \/ \E c \in Client : mine'[c].id = proc'[p].sess /\ pc'[c] \in Starting
  BY DEF NothingUntracked
<1>0. TypeOK /\ AttemptInv /\ RecordInv /\ NothingUntracked
  BY DEF IInv
<1>1. CASE proc'[p] # proc[p]
  <2>1. ASSUME NEW c \in Client, Launch(c), proc'[p] = [kind |-> "openconnect", sess |-> mine[c].id]
        PROVE  mine'[c].id = proc'[p].sess /\ pc'[c] \in Starting
    BY <1>0, <2>1 DEF Launch, TypeOK, Session, Goto, Starting
  <2>2. ASSUME NEW s \in Sess, LateLaunch(s), proc'[p] = [kind |-> "openconnect", sess |-> s]
        PROVE  proc'[p].sess \in loose'
    BY <1>0, <2>2 DEF LateLaunch, AttemptInv, FateInv
  <2> QED
    BY <1>1, <2>1, <2>2, OnlyLaunches
<1>2. CASE proc'[p] = proc[p]
  <2> DEFINE s == proc[p].sess
  <2>1. s \in Sess /\ s \in Live /\ proc[p] = [kind |-> "openconnect", sess |-> s]
    BY <1>0, <1>2, LiveIs DEF AttemptInv, FateInv, TypeOK, Process
  <2>2. CASE s \in loose
    BY <1>2, <2>2, History
  <2>3. CASE record.id = s /\ record.pid = p
    BY <1>2, <2>1, <2>3, RecordLeaves, OpenConnectAssumption
  <2>4. CASE \E c \in Client : mine[c].id = s /\ pc[c] \in Starting
    <3>1. PICK c \in Client : mine[c].id = s /\ pc[c] \in Starting
      BY <2>4
    <3>2. CASE pc[c] \in Launched /\ record' = mine[c]
      BY <1>0, <1>2, <2>1, <3>1, <3>2 DEF RecordInv, Faithful
    <3>3. CASE pc[c] = "undoClear"
      <4>1. s \in loose
        BY <1>0, <2>1, <3>1, <3>3 DEF AttemptInv, CommandInv
      <4> QED
        BY <1>2, <4>1, History
    <3> QED
      BY <1>2, <3>1, <3>2, <3>3, StartingLeaves
  <2> QED
    BY <1>0, <1>2, <2>2, <2>3, <2>4 DEF NothingUntracked
<1> QED
  BY <1>1, <1>2
\* What is signalled matches the recorded identity.
LEMMA KillVerified ==
  ASSUME TypeOK, SignalsVerified, NEW r \in Session, Kill(r), r.pid # None, proc[r.pid].kind # "free",
         NEW m \in Match(r), m
  PROVE  SignalsVerified'
<1>1. r.ident = "other" \/ proc[r.pid].kind = "openconnect"
      \/ (r.ident = "none" /\ proc[r.pid].kind = "alien")
  <2>1. CASE r.ident = "own"
    <3>1. Match(r) = {proc[r.pid] = [kind |-> "openconnect", sess |-> r.id]}
      BY <2>1 DEF Match
    <3>2. proc[r.pid] = [kind |-> "openconnect", sess |-> r.id]
      BY <3>1, Zenon
    <3> QED
      BY <3>2
  <2>2. CASE r.ident = "none"
    <3>1. Match(r) = {proc[r.pid].kind \in {"openconnect", "alien"}}
      BY <2>2 DEF Match
    <3>2. proc[r.pid].kind \in {"openconnect", "alien"}
      BY <3>1, Zenon
    <3> QED
      BY <2>2, <3>2
  <2> QED
    BY <2>1, <2>2 DEF Session
<1>2. "openconnect" \notin Others
  BY OpenConnectAssumption
<1> QED
  BY <1>1, <1>2 DEF SignalsVerified, Kill

\* Commands signal what matches only.
LEMMA SignalStep == IInv /\ [Next]_vars => SignalsVerified'
<1> SUFFICES ASSUME IInv, [Next]_vars PROVE SignalsVerified'
  OBVIOUS
<1>0. TypeOK /\ SignalsVerified
  BY DEF IInv
<1>1. ASSUME NEW c \in Client, Undo(c)
      PROVE  SignalsVerified'
  <2>1. CASE "alive" \in FailedStartAlive(mine[c]) /\ Kill(mine[c])
    <3>1. mine[c].pid # None /\ proc[mine[c].pid].kind # "free"
          /\ "alive" \in {"unknown"} \cup {IF m THEN "alive" ELSE "unknown" : m \in Match(mine[c])}
      BY <2>1 DEF FailedStartAlive
    <3>2. PICK m \in Match(mine[c]) : "alive" = IF m THEN "alive" ELSE "unknown"
      BY <3>1
    <3>3. m
      BY <3>2
    <3> QED
      BY <1>0, <2>1, <3>1, <3>3, KillVerified DEF TypeOK
  <2>2. CASE UNCHANGED signalled
    BY <1>0, <2>2 DEF SignalsVerified
  <2> QED
    BY <1>1, <2>1, <2>2 DEF Undo
<1>2. ASSUME NEW c \in Client, Signal(c)
      PROVE  SignalsVerified'
  <2>1. CASE "alive" \in SessionAlive(cur[c]) /\ Kill(cur[c])
    <3>1. cur[c].pid # None /\ proc[cur[c].pid].kind # "free"
          /\ "alive" \in {"unknown"} \cup {IF m THEN "alive" ELSE "dead" : m \in Match(cur[c])}
      BY <2>1 DEF SessionAlive
    <3>2. PICK m \in Match(cur[c]) : "alive" = IF m THEN "alive" ELSE "dead"
      BY <3>1
    <3>3. m
      BY <3>2
    <3> QED
      BY <1>0, <2>1, <3>1, <3>3, KillVerified DEF TypeOK
  <2>2. CASE UNCHANGED signalled
    BY <1>0, <2>2 DEF SignalsVerified
  <2> QED
    BY <1>2, <2>1, <2>2 DEF Signal
<1>3. ASSUME NEW c \in Client, CommandStep(c), ~Undo(c), ~Signal(c)
      PROVE  signalled' = signalled
  BY <1>3 DEF CommandStep, Run, Lock, Check, Scan, Prepare, Authenticate, Launch, Identify, Stable, Converge,
     Save, UndoClear, Preserve, Load, Observe, CleanupLock, Reload, StaleClear, Clean, Poll,
     Wait, Clear, Reconnect, Interrupt
<1>4. (\E s \in Sess : LateLaunch(s) \/ Hook(s)) \/ (\E p \in Pid : Exit(p) \/ ReusePid(p)) \/ UNCHANGED vars =>
        signalled' = signalled
  BY DEF LateLaunch, Hook, Exit, ReusePid, vars
<1>5. signalled' = signalled => SignalsVerified'
  BY <1>0 DEF SignalsVerified
<1> QED
  BY <1>1, <1>2, <1>3, <1>4, <1>5 DEF Next

-----------------------------------------------------------------------------
\* Every step keeps the inductive invariant.
LEMMA Inductive == IInv /\ [Next]_vars => IInv'
  BY TypeStep, LockStep, AttemptStep, RecordStep, ClearStep, OneStep, TrackedStep, SignalStep DEF IInv

\* The inductive invariant holds in every state the commands reach.
THEOREM InvariantHolds == Spec => []IInv
  BY InitIInv, Inductive, PTL DEF Spec

\* Every variable keeps to the values the code can give it.
THEOREM TypeCorrect == Spec => []TypeOK
<1>1. IInv => TypeOK
  BY DEF IInv
<1> QED
  BY <1>1, InvariantHolds, PTL

\* Any number of starts of one cache directory never leaves two openconnect processes for
\* the server, except for a launch that outlived its killed command, and for one that was lost
\* track of and was given another host than the one the scan looks for (Connect).
THEOREM OneOpenConnect == Spec => []OnePerServer
<1>1. IInv => OnePerServer
  BY DEF IInv
<1> QED
  BY <1>1, InvariantHolds, PTL

\* Every openconnect that runs is the recorded one, that of a Connect at work, or one that the
\* commands reported lost (cleanupFailedOpenConnectAttempt).
THEOREM EveryOpenConnectTracked == Spec => []NothingUntracked
<1>1. IInv => NothingUntracked
  BY DEF IInv
<1> QED
  BY <1>1, InvariantHolds, PTL

\* A stop reports only sessions that are gone, and they stay gone (Stop).
THEOREM StopReportsHonestly == Spec => []StopHonest
<1>1. IInv => StopHonest
  BY DEF IInv, ClearInv, StopHonest, Live, TypeOK, Session
<1> QED
  BY <1>1, InvariantHolds, PTL

\* No program is signalled on a wrong identity (signalMatchingSession and
\* cleanupFailedOpenConnectStart).
THEOREM SignalsAreVerified == Spec => []SignalsVerified
<1>1. IInv => SignalsVerified
  BY DEF IInv
<1> QED
  BY <1>1, InvariantHolds, PTL

\* Removing orphaned resolver files spares those of a session that runs and is not lost: while
\* Stop holds the lock, no Connect is at work and the record, if any, is of a session that is
\* gone (cleanupOrphanedResolverState).
THEOREM CleanupIsSafe == Spec => CleanupSparesLive
<1>1. ASSUME IInv, NEW c \in Client, pc[c] = "clean", resolver \in Live
      PROVE  resolver \in loose
  <2>0. TypeOK /\ LockInv /\ ClearInv /\ AttemptInv /\ NothingUntracked
    BY <1>1 DEF IInv
  <2>1. PICK p \in Pid : proc[p].kind = "openconnect" /\ proc[p].sess = resolver
    BY <1>1, <2>0, LiveIs
  <2>2. \A d \in Client : pc[d] \notin Starting
    BY <1>1, <2>0, Exclusive DEF Locked, Connecting,
     Prelaunch, Launched, Starting
  <2>3. record.id # resolver
    BY <1>1, <2>0, OpenConnectAssumption DEF ClearInv, Live
  <2> QED
    BY <2>0, <2>1, <2>2, <2>3 DEF NothingUntracked
<1>2. IInv /\ [Next]_vars =>
        [\A c \in Client : pc[c] = "clean" /\ pc'[c] # "clean" /\ resolver' # resolver =>
           ~Runs(resolver) \/ resolver \in loose]_vars
  <2> SUFFICES ASSUME IInv, Next, NEW c \in Client, pc[c] = "clean", resolver' # resolver, Runs(resolver)
               PROVE  resolver \in loose
    OBVIOUS
  <2>1. TypeOK /\ AttemptInv
    BY DEF IInv
  <2>2. resolver \in Live
    BY <2>1 DEF Live, Runs, AttemptInv, FateInv
  <2> QED
    BY <1>1, <2>2
<1> QED
  BY <1>2, InvariantHolds, PTL DEF Spec, CleanupSparesLive

=============================================================================
