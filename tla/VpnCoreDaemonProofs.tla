------------------------ MODULE VpnCoreDaemonProofs ------------------------
(***************************************************************************)
(* Proofs about VpnCoreDaemon, for any number of connections, tokens,       *)
(* handles and pids and any lease time: its invariants, and that it         *)
(* implements MaintenanceLease.                                             *)
(***************************************************************************)
EXTENDS VpnCoreDaemon, TLAPS

\* A daemon that has just started, with no lease file, satisfies the invariant.
LEMMA InitIInv == Init => IInv
<1> SUFFICES ASSUME Init PROVE IInv
  OBVIOUS
<1> USE NoneAssumption, TTLAssumption DEF Init, NoLease, NoRequest, FreePid
<1>1. TypeOK
  BY DEF TypeOK, Stage, Request, Action, Lease, Process, ProcState
<1>2. LockInv /\ DownInv /\ TokenInv
  BY DEF LockInv, Locked, LockedStage, Mutating, DownInv, TokenInv
<1>3. FileInv /\ EndedInv /\ IdleInv /\ WorkInv
  BY DEF FileInv, Writing, Settled, EndedInv, IdleInv, WorkInv, LeaseLive, AtWork
<1>4. ChildInv /\ LeaseHonoured /\ HandleNamesItsChild /\ NoLostChild
  BY DEF ChildInv, LeaseHonoured, HandleNamesItsChild, NoLostChild
<1> QED
  BY <1>1, <1>2, <1>3, <1>4 DEF IInv

\* Time leaves a lease a lease.
LEMMA ElapseLease == \A l \in Lease : Elapse(l) \in Lease
  BY TTLAssumption DEF Lease, Elapse

\* Time keeps the token, revives nothing and does not reorder leases.
LEMMA ElapseFacts ==
  /\ Elapse(NoLease) = NoLease
  /\ \A l \in Lease : /\ Elapse(l).token = l.token
                      /\ Elapse(l).left > 0 => l.left > 0
                      /\ l.left = 0 => Elapse(l).left = 0
  /\ \A l, m \in Lease : l.left >= m.left => Elapse(l).left >= Elapse(m).left
  BY TTLAssumption DEF Lease, NoLease, Elapse

\* The end of a process, and the end of its parent, leave a process table entry.
LEMMA EndedProcess ==
  /\ FreePid \in Process
  /\ \A x \in Process : Ended(x) \in Process /\ Abandoned(x) \in Process
  BY DEF FreePid, Process, ProcState, Ended, Abandoned

\* Every step of the daemon keeps the types.
LEMMA TypeStep == IInv /\ [Next]_vars => TypeOK'
<1> SUFFICES ASSUME IInv, [Next]_vars PROVE TypeOK'
  OBVIOUS
<1>0. TypeOK
  BY DEF IInv
<1> USE NoneAssumption, TTLAssumption DEF TypeOK, Goto
<1>1. NoLease \in Lease /\ NoRequest \in Request
  BY DEF NoLease, NoRequest, Lease, Request, Action
<1>2. ASSUME NEW c \in Conn,
             Accept(c) \/ ReadRequest(c) \/ Begin(c) \/ AbandonRequest(c) \/ Ping(c) \/ Finish(c)
      PROVE  TypeOK'
  BY <1>0, <1>1, <1>2 DEF Accept, ReadRequest, Begin, AbandonRequest, Ping, Finish,
                    ClientRequest, Stage, leaseVars, childVars, histVars
<1>3. ASSUME NEW c \in Conn,
             \/ RefuseDraining(c) \/ DrawFails(c) \/ RenewCheck(c) \/ ReportBusy(c)
             \/ RemoveLeaseFails(c) \/ StartFails(c) \/ RunCommand(c)
      PROVE  TypeOK'
  BY <1>0, <1>3 DEF RefuseDraining, DrawFails, RenewCheck, ReportBusy, RemoveLeaseFails,
              StartFails, RunCommand, Stage, leaseVars, childVars, histVars
<1>4. ASSUME NEW c \in Conn, Admit(c) \/ RefuseToken(c) \/ ClearMaintenanceState(c)
      PROVE  TypeOK'
  <2>1. mem.token \in Token \cup {None} /\ (stage[c] = "removed" => req[c].token \in Token)
    BY <1>0 DEF IInv, FileInv, Lease
  <2> QED
    BY <1>0, <1>1, <1>4, <2>1 DEF Admit, RefuseToken, ClearMaintenanceState, ObserveExpiry, Stage, childVars
<1>5. ASSUME NEW c \in Conn, DrainIdle(c) \/ RenewIdle(c)
      PROVE  TypeOK'
  <2>1. \A t \in Token \cup {None} : [token |-> t, left |-> TTL] \in Lease
    BY DEF Lease
  <2>2. req[c].token \in Token \cup {None}
    BY <1>0 DEF Request
  <2> QED
    BY <1>0, <1>5, <2>1, <2>2 DEF DrainIdle, RenewIdle, Stage, childVars, histVars
<1>6. ASSUME NEW c \in Conn, Persist(c) \/ PersistFails(c) \/ SetMaintenanceState(c) \/ RemoveLease(c)
      PROVE  TypeOK'
  BY <1>0, <1>1, <1>6 DEF Persist, PersistFails, SetMaintenanceState, RemoveLease, Stage, childVars, histVars
<1>7. ASSUME NEW c \in Conn, Spawn(c) \/ Register(c) \/ Watch(c) \/ UndoSpawn(c) \/ Signal(c)
      PROVE  TypeOK'
  <2>1. \A h \in Handle : /\ [action |-> "start", token |-> None, handle |-> h] \in Request
                          /\ [st |-> "running", inst |-> h] \in Process
    BY DEF Request, Action, Process, ProcState
  <2> QED
    BY <1>0, <1>7, <2>1, EndedProcess DEF Spawn, Register, Watch, UndoSpawn, Signal, Stage,
                                    leaseVars, histVars
<1>8. ASSUME NEW p \in Pid, Exit(p) \/ ReusePid(p)
      PROVE  TypeOK'
  BY <1>0, <1>8, EndedProcess DEF Exit, ReusePid, Process, ProcState, connVars, leaseVars, histVars
<1>9. ASSUME NEW h \in Handle, RemoveBeforeReap(h) \/ Reap(h)
      PROVE  TypeOK'
  BY <1>0, <1>9, EndedProcess DEF RemoveBeforeReap, Reap, connVars, leaseVars, histVars
<1>10. ASSUME Crash
       PROVE  TypeOK'
  BY <1>0, <1>1, <1>10, EndedProcess DEF Crash, Stage
<1>11. ASSUME Restart
       PROVE  TypeOK'
  <2>1. file.token \in Token \cup {None}
    BY <1>0 DEF Lease
  <2> QED
    BY <1>0, <1>1, <1>11, <2>1 DEF Restart, connVars, childVars
<1>12. ASSUME Tick
       PROVE  TypeOK'
  BY <1>0, <1>12, ElapseLease DEF Tick, connVars, childVars
<1>13. CASE UNCHANGED vars
  BY <1>0, <1>13 DEF vars, connVars, leaseVars, childVars, histVars
<1> QED
  BY <1>2, <1>3, <1>4, <1>5, <1>6, <1>7, <1>8, <1>9, <1>10, <1>11, <1>12, <1>13
     DEF Next, HandlerStep


\* Every step keeps the mutation lock with the handlers past Begin, one at a time.
LEMMA LockStep == IInv /\ [Next]_vars => LockInv'
<1> SUFFICES ASSUME IInv, [Next]_vars PROVE LockInv'
  OBVIOUS
<1>0. TypeOK /\ LockInv
  BY DEF IInv
<1> USE NoneAssumption, <1>0 DEF TypeOK, LockInv, Locked, LockedStage, Mutating, Goto
<1>1. ASSUME NEW c \in Conn,
             Accept(c) \/ ReadRequest(c) \/ Begin(c) \/ AbandonRequest(c) \/ Ping(c) \/ Finish(c)
      PROVE  LockInv'
  BY <1>1 DEF Accept, ReadRequest, Begin, AbandonRequest, Ping, Finish, NoRequest, childVars
<1>2. ASSUME NEW c \in Conn,
             \/ RefuseDraining(c) \/ Admit(c) \/ DrainIdle(c) \/ DrawFails(c) \/ RenewCheck(c)
             \/ RenewIdle(c) \/ ReportBusy(c) \/ Persist(c) \/ PersistFails(c)
      PROVE  LockInv'
  BY <1>2 DEF RefuseDraining, Admit, DrainIdle, DrawFails, RenewCheck, RenewIdle, ReportBusy,
              Persist, PersistFails, Refusable, childVars
<1>3. ASSUME NEW c \in Conn,
             \/ SetMaintenanceState(c) \/ RefuseToken(c) \/ RemoveLease(c) \/ RemoveLeaseFails(c)
             \/ ClearMaintenanceState(c)
      PROVE  LockInv'
  BY <1>3 DEF SetMaintenanceState, RefuseToken, RemoveLease, RemoveLeaseFails,
              ClearMaintenanceState, childVars
<1>4. ASSUME NEW c \in Conn,
             \/ StartFails(c) \/ Spawn(c) \/ Register(c) \/ Watch(c) \/ UndoSpawn(c)
             \/ Signal(c) \/ RunCommand(c)
      PROVE  LockInv'
  BY <1>4 DEF StartFails, Spawn, Register, Watch, UndoSpawn, Signal, RunCommand, childVars
<1>5. CASE Crash
  BY <1>5 DEF Crash
<1>6. CASE UNCHANGED <<stage, req, mutation, born>>
  BY <1>6
<1> QED
  BY <1>1, <1>2, <1>3, <1>4, <1>5, <1>6
     DEF Next, HandlerStep, Exit, ReusePid, RemoveBeforeReap, Reap, Restart, Tick,
         vars, connVars, childVars

\* A crash leaves no memory behind, and only a restart brings a stopped daemon back.
LEMMA DownStep == IInv /\ [Next]_vars => DownInv'
<1> SUFFICES ASSUME IInv, [Next]_vars, ~up' PROVE DownInv'
  BY DEF DownInv
<1>0. TypeOK /\ LockInv /\ DownInv
  BY DEF IInv
<1> USE <1>0 DEF TypeOK, DownInv
<1>1. CASE Crash
  BY <1>1, EndedProcess DEF Crash, Abandoned, FreePid
<1>2. CASE ~up
  <2>1. \A c \in Conn : ~(Accept(c) \/ ReadRequest(c) \/ Begin(c) \/ HandlerStep(c))
    BY <1>2 DEF Accept, ReadRequest, Begin, HandlerStep, AbandonRequest, Ping, Finish,
                RefuseDraining, Admit, Refusable, DrainIdle, DrawFails, RenewCheck, RenewIdle,
                ReportBusy, Persist, PersistFails, SetMaintenanceState, RefuseToken,
                RemoveLease, RemoveLeaseFails, ClearMaintenanceState, StartFails, Spawn,
                Register, Watch, UndoSpawn, Signal, RunCommand
  <2>2. \A h \in Handle : ~(RemoveBeforeReap(h) \/ Reap(h))
    BY <1>2 DEF RemoveBeforeReap, Reap
  <2>3. ASSUME NEW p \in Pid, Exit(p) \/ ReusePid(p)
        PROVE  DownInv'
    BY <1>2, <2>3 DEF Exit, ReusePid, Ended, FreePid, connVars, leaseVars
  <2>4. CASE Tick
    BY <1>2, <2>4 DEF Tick, Elapse, NoLease, connVars, childVars
  <2>5. CASE UNCHANGED vars
    BY <1>2, <2>5 DEF vars, connVars, leaseVars, childVars
  <2> QED
    BY <1>2, <2>1, <2>2, <2>3, <2>4, <2>5 DEF Next, Crash, Restart
<1> QED
  BY <1>1, <1>2 DEF Next, HandlerStep, Accept, ReadRequest, Begin, AbandonRequest, Ping, Finish,
                RefuseDraining, Admit, DrainIdle, DrawFails, RenewCheck, RenewIdle,
                ReportBusy, Persist, PersistFails, SetMaintenanceState, RefuseToken,
                RemoveLease, RemoveLeaseFails, ClearMaintenanceState, StartFails, Spawn,
                Register, Watch, UndoSpawn, Signal, RunCommand, Exit, ReusePid,
                RemoveBeforeReap, Reap, Restart, Tick, vars

\* Two handlers never hold the mutation lock together.
LEMMA Exclusive == IInv => \A c, d \in Conn : Locked(c) /\ Locked(d) => c = d
  BY DEF IInv, LockInv

\* Handler steps that change neither a lease nor the history of leases.
Quiet(c) ==
  \/ Accept(c) \/ ReadRequest(c) \/ Begin(c) \/ AbandonRequest(c) \/ Ping(c) \/ Finish(c)
  \/ RefuseDraining(c) \/ DrawFails(c) \/ RenewCheck(c) \/ ReportBusy(c) \/ RemoveLeaseFails(c)
  \/ StartFails(c) \/ Spawn(c) \/ Register(c) \/ Watch(c) \/ UndoSpawn(c)
  \/ Signal(c) \/ RunCommand(c)

\* What such a step leaves alone, and the stages it does not enter.
LEMMA QuietStep ==
  ASSUME TypeOK, NEW c \in Conn, Quiet(c)
  PROVE  /\ UNCHANGED <<up, leaseVars, histVars>>
         /\ stage[c] \notin {"persisting", "persisted", "removed"}
         /\ stage'[c] \notin {"admitted", "persisting", "persisted", "removed"}
         /\ \A d \in Conn \ {c} : stage'[d] = stage[d] /\ req'[d] = req[d]
  BY DEF Quiet, TypeOK, Goto, Accept, ReadRequest, Begin, AbandonRequest, Ping, Finish,
         RefuseDraining, Refusable, DrawFails, RenewCheck, ReportBusy, RemoveLeaseFails, StartFails,
         Spawn, Register, Watch, UndoSpawn, Signal, RunCommand

\* Every step is quiet, touches only processes, or is one of the steps about leases.
LEMMA StepCases ==
  ASSUME [Next]_vars
  PROVE  \/ \E c \in Conn : Quiet(c)
         \/ \E c \in Conn : \/ Admit(c) \/ DrainIdle(c) \/ RenewIdle(c) \/ Persist(c) \/ PersistFails(c)
                            \/ SetMaintenanceState(c) \/ RefuseToken(c) \/ RemoveLease(c)
                            \/ ClearMaintenanceState(c)
         \/ \E p \in Pid : Exit(p) \/ ReusePid(p)
         \/ \E h \in Handle : RemoveBeforeReap(h) \/ Reap(h)
         \/ Crash \/ Restart \/ Tick \/ UNCHANGED vars
  BY DEF Next, HandlerStep, Quiet

\* A handler that holds the lock before it has touched a lease finds the file and the
\* memory in agreement, and nothing in preparation.
LEMMA SettledAt ==
  ASSUME IInv, NEW c \in Conn, Locked(c), stage[c] \notin {"persisting", "persisted", "removed"}
  PROVE  up /\ pending = NoLease /\ (LeaseLive => file = mem)
<1>1. \A d \in Conn : stage[d] \notin {"persisting", "persisted", "removed"}
  BY Exclusive DEF Locked, LockedStage
<1> QED
  BY <1>1 DEF IInv, DownInv, FileInv, Settled, Writing, Locked, LockedStage

\* Tokens with time left stay among the drawn ones: drain draws before it writes.
LEMMA TokenStep == IInv /\ [Next]_vars => TokenInv'
<1> SUFFICES ASSUME IInv, [Next]_vars PROVE TokenInv'
  OBVIOUS
<1>0. TypeOK /\ TokenInv /\ FileInv
  BY DEF IInv
<1> USE NoneAssumption, TTLAssumption DEF TokenInv
<1>1. ASSUME NEW c \in Conn, Quiet(c)
      PROVE  TokenInv'
  BY <1>0, <1>1, QuietStep DEF leaseVars, histVars
<1>2. ASSUME NEW c \in Conn, Admit(c) \/ RefuseToken(c)
      PROVE  TokenInv'
  BY <1>0, <1>2 DEF Admit, RefuseToken, ObserveExpiry, NoLease
<1>3. ASSUME NEW c \in Conn, DrainIdle(c) \/ RenewIdle(c)
      PROVE  TokenInv'
  BY <1>0, <1>3 DEF DrainIdle, RenewIdle, OwnsDrain, DrainActive, histVars
<1>4. ASSUME NEW c \in Conn, Persist(c) \/ PersistFails(c) \/ SetMaintenanceState(c) \/ RemoveLease(c)
      PROVE  TokenInv'
  BY <1>0, <1>4 DEF Persist, PersistFails, SetMaintenanceState, RemoveLease, NoLease, histVars
<1>5. ASSUME NEW c \in Conn, ClearMaintenanceState(c)
      PROVE  TokenInv'
  BY <1>0, <1>5 DEF ClearMaintenanceState, FileInv, NoLease
<1>6. CASE Crash \/ Restart
  BY <1>0, <1>6 DEF Crash, Restart, NoLease
<1>7. CASE Tick
  BY <1>0, <1>7 DEF Tick, Elapse, TypeOK, Lease
<1>8. CASE UNCHANGED <<leaseVars, histVars>>
  BY <1>0, <1>8 DEF leaseVars, histVars
<1> QED
  BY <1>1, <1>2, <1>3, <1>4, <1>5, <1>6, <1>7, <1>8, StepCases
     DEF Exit, ReusePid, RemoveBeforeReap, Reap, vars

\* Every step keeps the agreement of lease file, memory and the lease in preparation.
LEMMA FileStep == IInv /\ [Next]_vars => FileInv'
<1> SUFFICES ASSUME IInv, [Next]_vars PROVE FileInv'
  OBVIOUS
<1>0. TypeOK /\ LockInv /\ DownInv /\ TokenInv /\ FileInv
  BY DEF IInv
<1> USE NoneAssumption, TTLAssumption, <1>0 DEF FileInv, Writing, Settled, LeaseLive
<1>1. ASSUME NEW c \in Conn, Quiet(c)
      PROVE  FileInv'
  BY <1>1, QuietStep DEF leaseVars, histVars
<1>2. ASSUME NEW c \in Conn, Admit(c) \/ RefuseToken(c)
      PROVE  FileInv'
  BY <1>2, Exclusive DEF Admit, RefuseToken, ObserveExpiry, NoLease, Locked, LockedStage, Goto, TypeOK,
     DownInv, Lease, TokenInv, Mutating, Refusable, DrainActive, OwnsDrain, DownInv
<1>3. ASSUME NEW c \in Conn, DrainIdle(c)
      PROVE  FileInv'
  BY <1>3, Exclusive DEF DrainIdle, Goto, TypeOK, Locked, LockedStage, Lease
<1>31. ASSUME NEW c \in Conn, RenewIdle(c)
      PROVE  FileInv'
  BY <1>31, Exclusive DEF RenewIdle, OwnsDrain, DrainActive, Goto, TypeOK, Locked, LockedStage, Lease,
     LockInv, histVars
<1>4. ASSUME NEW c \in Conn, Persist(c) \/ PersistFails(c)
      PROVE  FileInv'
  BY <1>4, Exclusive DEF Persist, PersistFails, Goto, TypeOK, Locked, LockedStage, LockInv, histVars
<1>41. ASSUME NEW c \in Conn, SetMaintenanceState(c)
      PROVE  FileInv'
  BY <1>41, Exclusive DEF SetMaintenanceState, Goto, TypeOK, Locked, LockedStage, LockInv
<1>42. ASSUME NEW c \in Conn, RemoveLease(c)
      PROVE  FileInv'
  BY <1>42, Exclusive DEF RemoveLease, Goto, TypeOK, Locked, LockedStage, LockInv, Mutating, OwnsDrain,
     DrainActive
<1>5. ASSUME NEW c \in Conn, ClearMaintenanceState(c)
      PROVE  FileInv'
  BY <1>5, Exclusive DEF ClearMaintenanceState, Goto, TypeOK, Locked, LockedStage, LockInv, NoLease
<1>6. CASE Crash
  BY <1>6 DEF Crash
<1>61. CASE Restart
  BY <1>61 DEF Restart, DownInv, connVars, NoLease
<1>7. CASE Tick
  BY <1>7, ElapseFacts DEF Tick, TypeOK, connVars
<1>8. CASE UNCHANGED <<up, connVars, leaseVars, histVars>>
  BY <1>8 DEF connVars, leaseVars, histVars
<1> QED
  BY <1>1, <1>2, <1>3, <1>31, <1>4, <1>41, <1>42, <1>5, <1>6, <1>61, <1>7, <1>8, StepCases
     DEF Exit, ReusePid, RemoveBeforeReap, Reap, vars

\* No step brings an ended token back: renew finds it gone, a restart finds it expired.
LEMMA EndedStep == IInv /\ [Next]_vars => EndedInv'
<1> SUFFICES ASSUME IInv, [Next]_vars PROVE EndedInv'
  OBVIOUS
<1>0. TypeOK /\ LockInv /\ DownInv /\ TokenInv /\ FileInv /\ EndedInv
  BY DEF IInv
<1> USE NoneAssumption, TTLAssumption, <1>0 DEF EndedInv, NoLease
<1>1. ASSUME NEW c \in Conn, Quiet(c)
      PROVE  EndedInv'
  BY <1>1, QuietStep DEF leaseVars, histVars
<1>2. ASSUME NEW c \in Conn, Admit(c) \/ RefuseToken(c)
      PROVE  EndedInv'
  <2>1. Locked(c) /\ stage[c] \notin {"persisting", "persisted", "removed"}
    BY <1>2 DEF Admit, RefuseToken, Refusable, Locked, LockedStage, Mutating
  <2>2. pending = NoLease /\ (LeaseLive => file = mem)
    BY <2>1, SettledAt
  <2>3. CASE UNCHANGED <<mem, file, pending, ended>>
    BY <2>3
  <2>4. CASE ~DrainActive /\ ObserveExpiry /\ UNCHANGED pending
    <3>1. mem.token # None => file.left = 0
      BY <2>2, <2>4 DEF DrainActive, LeaseLive, TypeOK, Lease
    <3>2. CASE mem.token = None
      BY <2>4, <3>2 DEF ObserveExpiry
    <3>3. CASE mem.token # None
      BY <2>2, <2>4, <3>1, <3>3 DEF ObserveExpiry, TypeOK
    <3> QED
      BY <3>2, <3>3
  <2> QED
    BY <1>2, <2>3, <2>4 DEF Admit, RefuseToken
<1>3. ASSUME NEW c \in Conn, DrainIdle(c) \/ RenewIdle(c)
      PROVE  EndedInv'
  BY <1>3 DEF DrainIdle, RenewIdle, OwnsDrain, DrainActive, TokenInv, histVars
<1>4. ASSUME NEW c \in Conn, Persist(c) \/ PersistFails(c) \/ SetMaintenanceState(c) \/ RemoveLease(c)
      PROVE  EndedInv'
  BY <1>4 DEF Persist, PersistFails, SetMaintenanceState, RemoveLease, TypeOK, TokenInv, histVars
<1>5. ASSUME NEW c \in Conn, ClearMaintenanceState(c)
      PROVE  EndedInv'
  BY <1>5, Exclusive DEF ClearMaintenanceState, FileInv, Writing, Locked, LockedStage, TokenInv, TypeOK
<1>6. CASE Crash
  BY <1>6 DEF Crash, TypeOK, TokenInv
<1>7. CASE Restart
  BY <1>7 DEF Restart, FileInv, Writing, DownInv, TypeOK, TokenInv, Lease
<1>8. CASE Tick
  BY <1>8, ElapseFacts DEF Tick, TypeOK
<1>9. CASE UNCHANGED <<leaseVars, histVars>>
  BY <1>9 DEF leaseVars, histVars
<1> QED
  BY <1>1, <1>2, <1>3, <1>4, <1>5, <1>6, <1>7, <1>8, <1>9, StepCases
     DEF Exit, ReusePid, RemoveBeforeReap, Reap, vars

\* Every step keeps the promise of the last drain or renew, crashes included.
LEMMA HonouredStep == IInv /\ [Next]_vars => LeaseHonoured'
<1> SUFFICES ASSUME IInv, [Next]_vars PROVE LeaseHonoured'
  OBVIOUS
<1>0. TypeOK /\ LockInv /\ DownInv /\ TokenInv /\ FileInv /\ LeaseHonoured
  BY DEF IInv
<1> USE NoneAssumption, TTLAssumption, <1>0 DEF LeaseHonoured, NoLease
<1>1. ASSUME NEW c \in Conn, Quiet(c)
      PROVE  LeaseHonoured'
  BY <1>1, QuietStep DEF leaseVars, histVars
<1>2. ASSUME NEW c \in Conn, Admit(c) \/ RefuseToken(c)
      PROVE  LeaseHonoured'
  BY <1>2, SettledAt DEF Admit, RefuseToken, ObserveExpiry, OwnsDrain, DrainActive, TypeOK, Lease,
     Refusable, Locked, LockedStage, Mutating, TokenInv
<1>3. ASSUME NEW c \in Conn, DrainIdle(c) \/ RenewIdle(c) \/ PersistFails(c)
      PROVE  LeaseHonoured'
  BY <1>3 DEF DrainIdle, RenewIdle, PersistFails, histVars
<1>4. ASSUME NEW c \in Conn, Persist(c) \/ SetMaintenanceState(c) \/ RemoveLease(c) \/ ClearMaintenanceState(c)
      PROVE  LeaseHonoured'
  BY <1>4 DEF Persist, SetMaintenanceState, RemoveLease, ClearMaintenanceState, TypeOK, Lease, DownInv,
     FileInv, histVars
<1>6. CASE Crash
  <2>1. up /\ promise.left > 0 => file.token = promise.token /\ file.left >= promise.left
    BY DEF FileInv, LockInv, Settled, LeaseLive, TypeOK, Lease
  <2> QED
   BY <1>6, <2>1 DEF Crash
<1>7. CASE Restart
  BY <1>7 DEF Restart, TypeOK, Lease
<1>8. CASE Tick
  BY <1>8, ElapseFacts DEF Tick, TypeOK
<1>9. CASE UNCHANGED <<up, leaseVars, histVars>>
  BY <1>9 DEF leaseVars, histVars
<1> QED
  BY <1>1, <1>2, <1>3, <1>4, <1>6, <1>7, <1>8, <1>9, StepCases
     DEF Exit, ReusePid, RemoveBeforeReap, Reap, vars

\* No child is registered between the idle check of withIdle and the end of the lease.
LEMMA IdleStep == IInv /\ [Next]_vars => IdleInv'
<1> SUFFICES ASSUME IInv, [Next]_vars PROVE IdleInv'
  OBVIOUS
<1>0. TypeOK /\ LockInv /\ DownInv /\ FileInv /\ IdleInv /\ WorkInv
  BY DEF IInv
<1> USE NoneAssumption, TTLAssumption, <1>0 DEF IdleInv, LeaseLive, Writing, NoLease, TypeOK
<1>1. ASSUME NEW c \in Conn, Quiet(c)
      PROVE  IdleInv'
  <2>1. LeaseLive' \/ Writing' => LeaseLive \/ Writing
    BY <1>1, QuietStep DEF leaseVars
  <2>2. CASE Register(c)
    BY <2>2, Exclusive DEF Register, WorkInv, AtWork, Locked, LockedStage, leaseVars, Goto
  <2>3. CASE UNCHANGED children \/ UndoSpawn(c)
    BY <2>1, <2>3 DEF UndoSpawn
  <2> QED
    BY <1>1, <2>2, <2>3 DEF Quiet, Accept, ReadRequest, Begin, AbandonRequest, Ping, Finish,
      RefuseDraining, DrawFails, RenewCheck, ReportBusy, RemoveLeaseFails, StartFails,
      Spawn, Watch, Signal, RunCommand, childVars
<1>2. ASSUME NEW c \in Conn, Admit(c) \/ RefuseToken(c)
      PROVE  IdleInv'
  BY <1>2 DEF Admit, RefuseToken, ObserveExpiry, Goto, childVars
<1>3. ASSUME NEW c \in Conn, DrainIdle(c) \/ RenewIdle(c)
      PROVE  IdleInv'
  BY <1>3 DEF DrainIdle, RenewIdle, Idle, childVars
<1>4. ASSUME NEW c \in Conn, \/ Persist(c) \/ PersistFails(c) \/ SetMaintenanceState(c)
                             \/ RemoveLease(c) \/ ClearMaintenanceState(c)
      PROVE  IdleInv'
  BY <1>4 DEF Persist, PersistFails, SetMaintenanceState, RemoveLease, ClearMaintenanceState, Goto, childVars
<1>5. CASE Crash
  BY <1>5 DEF Crash
<1>6. CASE Restart
  BY <1>6 DEF Restart, connVars, childVars
<1>7. CASE Tick
  BY <1>7, ElapseFacts DEF Tick, connVars, childVars
<1>8. ASSUME NEW h \in Handle, RemoveBeforeReap(h) \/ Reap(h)
      PROVE  IdleInv'
  BY <1>8 DEF RemoveBeforeReap, Reap, connVars, leaseVars
<1>9. CASE UNCHANGED <<connVars, leaseVars, children>>
  BY <1>9 DEF connVars, leaseVars
<1> QED
  BY <1>1, <1>2, <1>3, <1>4, <1>5, <1>6, <1>7, <1>8, <1>9, StepCases
     DEF Exit, ReusePid, vars, childVars

\* Admission begins no privileged work under a live lease.
LEMMA WorkStep == IInv /\ [Next]_vars => WorkInv'
<1> SUFFICES ASSUME IInv, [Next]_vars PROVE WorkInv'
  OBVIOUS
<1>0. TypeOK /\ LockInv /\ DownInv /\ TokenInv /\ FileInv /\ WorkInv
  BY DEF IInv
<1> USE NoneAssumption, TTLAssumption, <1>0 DEF WorkInv, AtWork, LeaseLive, NoLease
<1>1. ASSUME NEW c \in Conn, Quiet(c)
      PROVE  WorkInv'
  <2>1. stage'[c] \in {"spawned", "registered"} => AtWork(c)
    BY <1>1 DEF Quiet, TypeOK, Goto, Accept, ReadRequest, Begin, AbandonRequest, Ping, Finish,
         RefuseDraining, DrawFails, RenewCheck, ReportBusy, RemoveLeaseFails, StartFails,
         Spawn, Register, Watch, UndoSpawn, Signal, RunCommand
  <2> QED
    BY <1>1, <2>1, QuietStep DEF leaseVars
<1>2. ASSUME NEW c \in Conn, Admit(c) \/ RefuseToken(c)
      PROVE  WorkInv'
  BY <1>2, SettledAt DEF Admit, RefuseToken, ObserveExpiry, OwnsDrain, DrainActive, TypeOK, Lease,
     Refusable, Locked, LockedStage, Mutating, TokenInv, Goto
<1>3. ASSUME NEW c \in Conn,
             DrainIdle(c) \/ RenewIdle(c) \/ PersistFails(c) \/ RemoveLease(c) \/ ClearMaintenanceState(c)
      PROVE  WorkInv'
  BY <1>3 DEF DrainIdle, RenewIdle, PersistFails, RemoveLease, ClearMaintenanceState, Goto, TypeOK
<1>4. ASSUME NEW c \in Conn, Persist(c) \/ SetMaintenanceState(c)
      PROVE  WorkInv'
  BY <1>4, Exclusive DEF Persist, SetMaintenanceState, Goto, TypeOK, Locked, LockedStage
<1>5. CASE Crash
  BY <1>5 DEF Crash
<1>6. CASE Restart
  BY <1>6 DEF Restart, connVars, DownInv
<1>7. CASE Tick
  BY <1>7, ElapseFacts DEF Tick, connVars, TypeOK
<1>9. CASE UNCHANGED <<connVars, leaseVars>>
  BY <1>9 DEF connVars, leaseVars
<1> QED
  BY <1>1, <1>2, <1>3, <1>4, <1>5, <1>6, <1>7, <1>9, StepCases
     DEF Exit, ReusePid, RemoveBeforeReap, Reap, vars

\* A start between Spawn and its answer.
Starting(c) == stage[c] \in {"spawned", "registered"}

\* Steps that create, register, end or reap a process.
ChildAction ==
  \/ \E c \in Conn : Spawn(c) \/ Register(c) \/ Watch(c) \/ UndoSpawn(c) \/ Signal(c)
  \/ \E p \in Pid : Exit(p) \/ ReusePid(p)
  \/ \E h \in Handle : RemoveBeforeReap(h) \/ Reap(h)
  \/ Crash

\* Every other step leaves the children, and the starts under way, alone.
LEMMA ChildCases ==
  ASSUME TypeOK, [Next]_vars, ~ChildAction
  PROVE  /\ UNCHANGED childVars
         /\ \A d \in Conn : Starting(d) \/ Starting(d)' => UNCHANGED <<stage[d], req[d]>>
<1> USE DEF TypeOK, Goto, Starting, childVars
<1>1. ASSUME NEW c \in Conn, Accept(c) \/ ReadRequest(c) \/ Begin(c) \/ AbandonRequest(c)
                               \/ Ping(c) \/ Finish(c) \/ RefuseDraining(c) \/ Admit(c)
      PROVE  /\ UNCHANGED childVars
             /\ \A d \in Conn : Starting(d) \/ Starting(d)' => UNCHANGED <<stage[d], req[d]>>
  BY <1>1 DEF Accept, ReadRequest, Begin, AbandonRequest, Ping, Finish, RefuseDraining, Admit, Refusable
<1>2. ASSUME NEW c \in Conn, DrainIdle(c) \/ DrawFails(c) \/ RenewCheck(c) \/ RenewIdle(c)
                               \/ ReportBusy(c) \/ Persist(c) \/ PersistFails(c) \/ SetMaintenanceState(c)
      PROVE  /\ UNCHANGED childVars
             /\ \A d \in Conn : Starting(d) \/ Starting(d)' => UNCHANGED <<stage[d], req[d]>>
  BY <1>2 DEF DrainIdle, DrawFails, RenewCheck, RenewIdle, ReportBusy, Persist, PersistFails,
              SetMaintenanceState
<1>3. ASSUME NEW c \in Conn, RefuseToken(c) \/ RemoveLease(c) \/ RemoveLeaseFails(c)
                               \/ ClearMaintenanceState(c) \/ StartFails(c) \/ RunCommand(c)
      PROVE  /\ UNCHANGED childVars
             /\ \A d \in Conn : Starting(d) \/ Starting(d)' => UNCHANGED <<stage[d], req[d]>>
  BY <1>3 DEF RefuseToken, RemoveLease, RemoveLeaseFails, ClearMaintenanceState, StartFails, RunCommand
<1>4. CASE Restart \/ Tick \/ UNCHANGED vars
  BY <1>4 DEF Restart, Tick, vars, connVars
<1> QED
  BY <1>1, <1>2, <1>3, <1>4 DEF Next, HandlerStep, ChildAction

\* Start, exit, reap and crash keep registry, watchers and process table in step.
LEMMA ChildStep == IInv /\ [Next]_vars => ChildInv'
<1> SUFFICES ASSUME IInv, [Next]_vars PROVE ChildInv'
  OBVIOUS
<1>0. TypeOK /\ LockInv /\ ChildInv /\ HandleNamesItsChild /\ NoLostChild
  BY DEF IInv
<1> USE NoneAssumption, <1>0 DEF TypeOK, ChildInv, Goto, FreePid
<1>1. CASE ~ChildAction
  BY <1>1, ChildCases DEF childVars, Starting
<1>2. ASSUME NEW c \in Conn, Spawn(c)
      PROVE  ChildInv'
  <2>1. PICK h \in Handle \ born, p \in Pid :
          /\ proc[p].st = "free"
          /\ proc' = [proc EXCEPT ![p] = [st |-> "running", inst |-> h]]
          /\ born' = born \cup {h}
          /\ req' = [req EXCEPT ![c] = [action |-> "start", token |-> None, handle |-> h]]
    BY <1>2 DEF Spawn
  <2>2. \A d \in Conn \ {c} : ~Starting(d)'
    BY <1>2, Exclusive DEF Spawn, Locked, LockedStage, Starting
  <2>3. stage'[c] = "spawned" /\ req'[c].handle = h /\ UNCHANGED <<children, watcher>>
    BY <1>2, <2>1 DEF Spawn
  <2>4. \A q \in Pid \ {p} : proc'[q] = proc[q]
    BY <2>1
  <2>5. \A q \in Pid : proc'[q].inst = h => q = p
    <3>1. h # None /\ h \notin born
      BY <2>1
    <3>2. \A q \in Pid : proc[q].inst # h
      BY <3>1
    <3> QED
      BY <2>4, <3>2
  <2>6. proc'[p].st = "running" /\ proc'[p].inst = h
    BY <2>1
  <2> QED
    BY <2>1, <2>2, <2>3, <2>4, <2>5, <2>6 DEF Starting
<1>3. ASSUME NEW c \in Conn, Register(c)
      PROVE  ChildInv'
  BY <1>3, Exclusive DEF Register, LockInv, Locked, LockedStage
<1>4. ASSUME NEW c \in Conn, Watch(c)
      PROVE  ChildInv'
  BY <1>4, Exclusive DEF Watch, LockInv, Locked, LockedStage
<1>5. ASSUME NEW c \in Conn, UndoSpawn(c)
      PROVE  ChildInv'
  BY <1>5, Exclusive DEF UndoSpawn, LockInv, Locked, LockedStage
<1>6. ASSUME NEW c \in Conn, Signal(c)
      PROVE  ChildInv'
  <2>1. /\ UNCHANGED <<children, watcher, born>>
        /\ \A d \in Conn : Starting(d)' => stage'[d] = stage[d] /\ req'[d] = req[d]
    BY <1>6 DEF Signal, Starting
  <2>2. CASE UNCHANGED proc
    BY <2>1, <2>2 DEF Starting
  <2>3. CASE ~UNCHANGED proc
    <3> DEFINE p == children[req[c].handle]
    <3>1. req[c].handle \in Handle /\ p \in Pid /\ proc' = [proc EXCEPT ![p] = Ended(proc[p])]
      BY <1>6, <2>3 DEF Signal, Request
    <3>2. proc[p].st \in {"running", "zombie"}
      BY <3>1 DEF HandleNamesItsChild
    <3>3. proc'[p].st = "zombie" /\ proc'[p].inst = proc[p].inst
      BY <3>1, <3>2 DEF Ended
    <3> HIDE DEF p
    <3>4. \A q \in Pid \ {p} : proc'[q] = proc[q]
      BY <3>1
    <3> QED
      BY <2>1, <3>1, <3>2, <3>3, <3>4 DEF Starting
  <2> QED
    BY <2>2, <2>3
<1>7. ASSUME NEW p \in Pid, Exit(p)
      PROVE  ChildInv'
  BY <1>7 DEF Exit, Ended, Process, ProcState, connVars
<1>8. ASSUME NEW p \in Pid, ReusePid(p)
      PROVE  ChildInv'
  BY <1>8 DEF ReusePid, connVars
<1>9. ASSUME NEW h \in Handle, RemoveBeforeReap(h)
      PROVE  ChildInv'
  BY <1>9 DEF RemoveBeforeReap, connVars
<1>10. ASSUME NEW h \in Handle, Reap(h)
       PROVE  ChildInv'
  BY <1>10 DEF Reap, connVars
<1>11. CASE Crash
  BY <1>11 DEF Crash, Abandoned, Process, ProcState
<1> QED
  BY <1>1, <1>2, <1>3, <1>4, <1>5, <1>6, <1>7, <1>8, <1>9, <1>10, <1>11 DEF ChildAction

\* Removing the handle before Wait keeps every handle on the process it was drawn for.
LEMMA HandleStep == IInv /\ [Next]_vars => HandleNamesItsChild'
<1> SUFFICES ASSUME IInv, [Next]_vars PROVE HandleNamesItsChild'
  OBVIOUS
<1>0. TypeOK /\ LockInv /\ ChildInv /\ HandleNamesItsChild
  BY DEF IInv
<1> USE NoneAssumption, <1>0 DEF TypeOK, HandleNamesItsChild, FreePid
<1>1. CASE ~ChildAction
  BY <1>1, ChildCases DEF childVars
<1>2. ASSUME NEW c \in Conn, Spawn(c)
      PROVE  HandleNamesItsChild'
  BY <1>2 DEF Spawn, ChildInv
<1>3. ASSUME NEW c \in Conn, Register(c)
      PROVE  HandleNamesItsChild'
  BY <1>3 DEF Register, ChildInv, LockInv, Process, ProcState
<1>4. ASSUME NEW c \in Conn, Watch(c)
      PROVE  HandleNamesItsChild'
  BY <1>4 DEF Watch
<1>5. ASSUME NEW c \in Conn, UndoSpawn(c)
      PROVE  HandleNamesItsChild'
  BY <1>5 DEF UndoSpawn, LockInv
<1>6. ASSUME NEW c \in Conn, Signal(c)
      PROVE  HandleNamesItsChild'
  BY <1>6 DEF Signal, Ended
<1>7. ASSUME NEW p \in Pid, Exit(p) \/ ReusePid(p)
      PROVE  HandleNamesItsChild'
  BY <1>7 DEF Exit, ReusePid, Ended
<1>8. ASSUME NEW h \in Handle, RemoveBeforeReap(h) \/ Reap(h)
      PROVE  HandleNamesItsChild'
  BY <1>8 DEF RemoveBeforeReap, Reap, ChildInv
<1>9. CASE Crash
  BY <1>9 DEF Crash
<1> QED
  BY <1>1, <1>2, <1>3, <1>4, <1>5, <1>6, <1>7, <1>8, <1>9 DEF ChildAction

\* Every failure path of startManagedChild accounts for the process it spawned.
LEMMA LostStep == IInv /\ [Next]_vars => NoLostChild'
<1> SUFFICES ASSUME IInv, [Next]_vars PROVE NoLostChild'
  OBVIOUS
<1>0. TypeOK /\ LockInv /\ ChildInv /\ HandleNamesItsChild /\ NoLostChild
  BY DEF IInv
<1> USE NoneAssumption, <1>0 DEF TypeOK, NoLostChild, Goto, FreePid
<1>1. CASE ~ChildAction
  BY <1>1, ChildCases DEF childVars, Starting
<1>2. ASSUME NEW c \in Conn, Spawn(c)
      PROVE  NoLostChild'
  <2>1. \A d \in Conn : stage[d] # "spawned"
    BY <1>2, Exclusive DEF Spawn, Locked, LockedStage
  <2> QED
    BY <1>2, <2>1 DEF Spawn
<1>3. ASSUME NEW c \in Conn, Register(c)
      PROVE  NoLostChild'
  BY <1>3 DEF Register, ChildInv, LockInv
<1>4. ASSUME NEW c \in Conn, Watch(c)
      PROVE  NoLostChild'
  BY <1>4 DEF Watch
<1>5. ASSUME NEW c \in Conn, UndoSpawn(c)
      PROVE  NoLostChild'
  BY <1>5 DEF UndoSpawn, ChildInv, LockInv
<1>6. ASSUME NEW c \in Conn, Signal(c)
      PROVE  NoLostChild'
  BY <1>6 DEF Signal, Ended
<1>7. ASSUME NEW p \in Pid, Exit(p) \/ ReusePid(p)
      PROVE  NoLostChild'
  BY <1>7 DEF Exit, ReusePid, Ended, connVars
<1>8. ASSUME NEW h \in Handle, RemoveBeforeReap(h) \/ Reap(h)
      PROVE  NoLostChild'
  BY <1>8 DEF RemoveBeforeReap, Reap, ChildInv, connVars
<1>9. CASE Crash
  BY <1>9 DEF Crash, Abandoned
<1> QED
  BY <1>1, <1>2, <1>3, <1>4, <1>5, <1>6, <1>7, <1>8, <1>9 DEF ChildAction

\* IInv is inductive: every step of the daemon keeps each of its parts.
THEOREM Inductive == IInv /\ [Next]_vars => IInv'
<1> SUFFICES ASSUME IInv, [Next]_vars PROVE IInv'
  OBVIOUS
<1>1. TypeOK' /\ LockInv' /\ DownInv' /\ TokenInv' /\ FileInv' /\ EndedInv'
  BY TypeStep, LockStep, DownStep, TokenStep, FileStep, EndedStep
<1>2. ChildInv' /\ IdleInv' /\ WorkInv' /\ LeaseHonoured' /\ HandleNamesItsChild' /\ NoLostChild'
  BY ChildStep, IdleStep, WorkStep, HonouredStep, HandleStep, LostStep
<1> QED
  BY <1>1, <1>2 DEF IInv

\* Every reachable state of the daemon satisfies IInv.
THEOREM InvariantHolds == Spec => []IInv
  BY InitIInv, Inductive, PTL DEF Spec

\* Type correctness of the daemon's state.
THEOREM TypeCorrect == Spec => []TypeOK
<1>1. IInv => TypeOK
  BY DEF IInv
<1> QED
  BY <1>1, InvariantHolds, PTL

\* A live maintenance lease and privileged work exclude each other, whatever the
\* interleaving of connection handlers, exits and daemon restarts.
THEOREM DrainExclusion == Spec => []DrainExcludesWork
<1>1. IInv => DrainExcludesWork
  <2> SUFFICES ASSUME IInv, LeaseLive PROVE DrainExcludesWork
    BY DEF DrainExcludesWork
  <2>1. \A h \in Handle : children[h] = None
    BY DEF IInv, IdleInv
  <2>2. \A c \in Conn : ~AtWork(c)
    BY DEF IInv, WorkInv
  <2>3. ASSUME NEW p \in Pid, proc[p].st = "running" PROVE FALSE
    <3>1. proc[p].inst \in Handle
      BY <2>3, NoneAssumption DEF IInv, TypeOK, ChildInv, Process
    <3>2. p # None
      BY NoneAssumption
    <3>3. children[proc[p].inst] # p
      BY <2>1, <3>1, <3>2
    <3>4. \E c \in Conn : stage[c] = "spawned"
      BY <2>3, <3>3 DEF IInv, NoLostChild
    <3> QED
      BY <2>2, <3>4 DEF AtWork
  <2> QED
    BY <2>1, <2>2, <2>3 DEF DrainExcludesWork
<1> QED
  BY <1>1, InvariantHolds, PTL

\* A granted or renewed lease is enforced, or restorable from its file, until its
\* owner gives it back or its time is over, through crashes and restarts.
THEOREM LeaseSurvives == Spec => []LeaseHonoured
<1>1. IInv => LeaseHonoured
  BY DEF IInv
<1> QED
  BY <1>1, InvariantHolds, PTL

\* A lease that was given back or seen expired never blocks again.
THEOREM NoRevival == Spec => []EndedStaysEnded
<1>1. IInv => EndedStaysEnded
  BY DEF IInv, EndedInv, EndedStaysEnded
<1> QED
  BY <1>1, InvariantHolds, PTL

\* A registered handle names the process it was drawn for.
THEOREM SignalReachesItsChild == Spec => []HandleNamesItsChild
<1>1. IInv => HandleNamesItsChild
  BY DEF IInv
<1> QED
  BY <1>1, InvariantHolds, PTL

\* No running child of the daemon is outside the registry and outside a start.
THEOREM ChildrenAccountedFor == Spec => []NoLostChild
<1>1. IInv => NoLostChild
  BY DEF IInv
<1> QED
  BY <1>1, InvariantHolds, PTL

\* A lease with time left leaves the memory of a running daemon only through an
\* undrain that carries its token.
THEOREM OwnershipKept == Spec => OnlyOwnerEndsDrain
<1> DEFINE A == (up /\ up' /\ DrainActive /\ mem'.token # mem.token) =>
        \E c \in Conn : /\ stage[c] = "removed"
                        /\ req[c].action = "undrain" /\ req[c].token = mem.token
<1>1. IInv /\ [Next]_vars => [A]_vars
  <2> SUFFICES ASSUME IInv, [Next]_vars, up, up', DrainActive, mem'.token # mem.token
               PROVE  \E c \in Conn : /\ stage[c] = "removed"
                                      /\ req[c].action = "undrain" /\ req[c].token = mem.token
    OBVIOUS
  <2>0. TypeOK /\ LockInv /\ TokenInv /\ FileInv
    BY DEF IInv
  <2>1. ASSUME NEW c \in Conn, Quiet(c)
        PROVE  FALSE
    BY <2>0, <2>1, QuietStep DEF leaseVars
  <2>2. ASSUME NEW c \in Conn, \/ Admit(c) \/ DrainIdle(c) \/ RenewIdle(c) \/ Persist(c)
                               \/ PersistFails(c) \/ RefuseToken(c) \/ RemoveLease(c)
        PROVE  FALSE
    BY <2>2 DEF Admit, DrainIdle, RenewIdle, Persist, PersistFails, RefuseToken, RemoveLease
  <2>3. ASSUME NEW c \in Conn, SetMaintenanceState(c)
        PROVE  FALSE
    BY <2>0, <2>3 DEF SetMaintenanceState, LockInv, FileInv, DrainActive, NoLease
  <2>4. ASSUME NEW c \in Conn, ClearMaintenanceState(c)
        PROVE  stage[c] = "removed" /\ req[c].action = "undrain" /\ req[c].token = mem.token
    BY <2>0, <2>4 DEF ClearMaintenanceState, LockInv, FileInv
  <2>5. CASE Tick
    BY <2>0, <2>5, ElapseFacts DEF Tick, TypeOK
  <2>6. CASE UNCHANGED mem \/ Crash \/ Restart
    BY <2>6 DEF Crash, Restart
  <2> QED
    BY <2>1, <2>2, <2>3, <2>4, <2>5, <2>6, StepCases
       DEF Exit, ReusePid, RemoveBeforeReap, Reap, vars, leaseVars
<1> QED
  BY <1>1, InvariantHolds, PTL DEF Spec, OnlyOwnerEndsDrain

-----------------------------------------------------------------------------
(* The daemon implements MaintenanceLease.                                  *)

\* The mapping of one step, as a step of the abstract specification.
Mapped == Abstract!Next \/ UNCHANGED <<LeaseHolder, Busy, Spent>>

\* While a lease is being written nothing privileged is under way.
LEMMA WritingIsIdle == IInv /\ Writing => ~Busy
<1> SUFFICES ASSUME IInv, NEW c \in Conn, stage[c] \in {"persisting", "persisted"}
             PROVE  ~Busy
  BY DEF Writing
<1>1. \A d \in Conn : ~AtWork(d)
  BY Exclusive DEF AtWork, Locked, LockedStage
<1>2. \A h \in Handle : children[h] = None
  BY DEF IInv, IdleInv, Writing
<1>3. ASSUME NEW p \in Pid, proc[p].st = "running" PROVE FALSE
  <2>1. proc[p].inst \in Handle
    BY <1>3, NoneAssumption DEF IInv, TypeOK, ChildInv, Process
  <2>2. children[proc[p].inst] # p
    BY <1>2, <2>1, NoneAssumption
  <2>3. \E d \in Conn : stage[d] = "spawned"
    BY <1>3, <2>2 DEF IInv, NoLostChild
  <2> QED
    BY <1>1, <2>3 DEF AtWork
<1> QED
  BY <1>1, <1>3 DEF Busy

\* Only Admit begins privileged work.
LEMMA WorkBeginsAtAdmit ==
  ASSUME TypeOK, [Next]_vars, \A c \in Conn : ~Admit(c)
  PROVE  Busy' => Busy
<1> USE DEF TypeOK
<1>1. ASSUME NEW c \in Conn, AtWork(c)' PROVE AtWork(c)
  <2>1. ASSUME NEW d \in Conn, Quiet(d) PROVE AtWork(c)
    <3>1. stage'[d] \in {"spawned", "registered"} => AtWork(d)
      BY <2>1 DEF Quiet, AtWork, Goto, Accept, ReadRequest, Begin, AbandonRequest, Ping, Finish,
         RefuseDraining, DrawFails, RenewCheck, ReportBusy, RemoveLeaseFails, StartFails,
         Spawn, Register, Watch, UndoSpawn, Signal, RunCommand
    <3> QED
      BY <1>1, <2>1, <3>1, QuietStep DEF AtWork
  <2>2. ASSUME NEW d \in Conn, \/ DrainIdle(d) \/ RenewIdle(d) \/ Persist(d) \/ PersistFails(d)
                               \/ SetMaintenanceState(d) \/ RefuseToken(d) \/ RemoveLease(d)
                               \/ ClearMaintenanceState(d)
        PROVE  AtWork(c)
    BY <1>1, <2>2 DEF DrainIdle, RenewIdle, Persist, PersistFails, SetMaintenanceState, RefuseToken,
                      RemoveLease, ClearMaintenanceState, Goto, AtWork
  <2>3. CASE Crash
    BY <1>1, <2>3 DEF Crash, AtWork
  <2>4. CASE UNCHANGED connVars
    BY <1>1, <2>4 DEF connVars, AtWork
  <2> QED
    BY <2>1, <2>2, <2>3, <2>4, StepCases
       DEF Exit, ReusePid, RemoveBeforeReap, Reap, Restart, Tick, vars
<1>2. ASSUME NEW p \in Pid, proc'[p].st = "running" PROVE proc[p].st = "running" \/ \E c \in Conn : AtWork(c)
  <2> USE <1>2 DEF FreePid, Ended, Abandoned
  <2>1. CASE ~ChildAction
    BY <2>1, ChildCases DEF childVars
  <2>2. ASSUME NEW c \in Conn, Spawn(c) \/ Register(c) \/ Watch(c) \/ UndoSpawn(c) \/ Signal(c)
        PROVE  proc[p].st = "running" \/ \E d \in Conn : AtWork(d)
    BY <2>2 DEF Spawn, Register, Watch, UndoSpawn, Signal, AtWork
  <2>3. ASSUME NEW q \in Pid, Exit(q) \/ ReusePid(q)
        PROVE  proc[p].st = "running"
    BY <2>3 DEF Exit, ReusePid
  <2>4. ASSUME NEW h \in Handle, RemoveBeforeReap(h) \/ Reap(h)
        PROVE  proc[p].st = "running"
    BY <2>4 DEF RemoveBeforeReap, Reap
  <2>5. CASE Crash
    BY <2>5 DEF Crash
  <2> QED
    BY <2>1, <2>2, <2>3, <2>4, <2>5 DEF ChildAction
<1> QED
  BY <1>1, <1>2 DEF Busy

\* Steps that leave the lease alone, as steps of the abstract specification.
LEMMA LeaseKept ==
  ASSUME UNCHANGED <<LeaseHolder, Spent>>, Busy' => Busy
  PROVE  Mapped
<1>1. CASE Busy'
  <2>1. Busy' = Busy
    BY <1>1
  <2> QED
    BY <2>1 DEF Mapped
<1>2. CASE ~Busy'
  <2>1. Busy' = FALSE
    BY <1>2
  <2> QED
    BY <2>1 DEF Mapped, Abstract!Next, Abstract!EndWork
<1> QED
  BY <1>1, <1>2

\* The lease in preparation is dropped: the lease ends, or a token is wasted.
LEMMA DropPending ==
  ASSUME IInv, Writing, pending' = NoLease, UNCHANGED <<file, issued>>, ~Busy'
  PROVE  Mapped
<1>1. Busy' = Busy
  BY WritingIsIdle DEF Busy
<1> USE NoneAssumption DEF IInv
<1>2. pending.token \in Token /\ pending.token \in issued
  <2>1. pending.token # None
    BY DEF Writing, FileInv
  <2>2. pending.token \in Token \cup {None}
    BY DEF TypeOK, Lease
  <2> QED
    BY <2>1, <2>2 DEF TokenInv
<1>3. CASE file.left > 0 /\ pending.token = file.token
  BY <1>1, <1>2, <1>3 DEF LeaseHolder, Spent, NoLease, Mapped, TypeOK
<1>4. CASE ~(file.left > 0) /\ pending.token = file.token
  <2>1. LeaseHolder = pending.token /\ LeaseHolder' = None
    BY <1>2, <1>4 DEF LeaseHolder, NoLease
  <2>2. Spent' = Spent \cup {LeaseHolder}
    BY <1>2, <2>1 DEF Spent, NoLease, TypeOK
  <2> QED
    BY <1>1, <1>2, <2>1, <2>2 DEF Mapped, Abstract!Next, Abstract!End
<1>5. CASE pending.token # file.token
  <2>1. LeaseHolder' = LeaseHolder /\ LeaseHolder # pending.token
    BY <1>2, <1>5 DEF LeaseHolder, NoLease
  <2>2. Spent' = Spent \cup {pending.token}
    BY <1>2, <2>1 DEF Spent, NoLease, TypeOK
  <2> QED
    BY <1>1, <1>2, <2>1, <2>2 DEF Mapped, Abstract!Next, Abstract!Discard
<1> QED
  BY <1>3, <1>4, <1>5

\* Until the rename, a live lease is the one in memory.
LEMMA SettledWhilePersisting ==
  ASSUME IInv, NEW c \in Conn, stage[c] = "persisting", LeaseLive
  PROVE  file = mem
<1>1. Settled
  BY Exclusive DEF Settled, Locked, LockedStage
<1>2. up
  BY DEF IInv, DownInv
<1> QED
  BY <1>1, <1>2 DEF IInv, FileInv

\* Every step of the daemon is a step of MaintenanceLease, or none, under the mapping.
LEMMA MappedStep == IInv /\ [Next]_vars => Mapped
<1> SUFFICES ASSUME IInv, [Next]_vars PROVE Mapped
  OBVIOUS
<1>0. TypeOK /\ LockInv /\ DownInv /\ TokenInv /\ FileInv
  BY DEF IInv
<1>1. ASSUME \A c \in Conn : ~Admit(c) PROVE Busy' => Busy
  BY <1>0, <1>1, WorkBeginsAtAdmit
<1> USE NoneAssumption
<1>2. CASE UNCHANGED <<leaseVars, issued>> /\ \A c \in Conn : ~Admit(c)
  BY <1>1, <1>2, LeaseKept DEF LeaseHolder, Spent, leaseVars
<1>3. ASSUME NEW c \in Conn, Admit(c) PROVE Mapped
  <2>1. Locked(c) /\ stage[c] \notin {"persisting", "persisted", "removed"}
    BY <1>3 DEF Admit, Refusable, Locked, LockedStage, Mutating
  <2>2. pending = NoLease /\ (LeaseLive => file = mem)
    BY <2>1, SettledAt
  <2>3. file.left = 0 /\ file'.left = 0 /\ UNCHANGED <<pending, issued>>
    BY <1>0, <1>3, <2>2 DEF Admit, DrainActive, ObserveExpiry, LeaseLive, TypeOK, Lease, NoLease, TokenInv
  <2>4. LeaseHolder = None /\ LeaseHolder' = None
    BY <2>2, <2>3 DEF LeaseHolder, NoLease
  <2>5. Spent' = Spent
    BY <2>3, <2>4 DEF Spent
  <2>6. CASE Busy'
    <3>1. Busy' = TRUE
      BY <2>6
    <3> QED
      BY <2>4, <2>5, <3>1 DEF Mapped, Abstract!Next, Abstract!StartWork
  <2>7. CASE ~Busy'
    BY <2>4, <2>5, <2>7, LeaseKept
  <2> QED
    BY <2>6, <2>7
<1>4. ASSUME NEW c \in Conn, RefuseToken(c) PROVE Mapped
  <2>1. Locked(c) /\ stage[c] \notin {"persisting", "persisted", "removed"}
    BY <1>4 DEF RefuseToken, Locked, LockedStage, Mutating
  <2>2. pending = NoLease /\ (LeaseLive => file = mem)
    BY <2>1, SettledAt
  <2>3. UNCHANGED <<pending, issued>> /\ (UNCHANGED file \/ (file.left = 0 /\ file'.left = 0))
    BY <1>0, <1>4, <2>2 DEF RefuseToken, DrainActive, ObserveExpiry, LeaseLive, TypeOK, Lease, NoLease,
       TokenInv
  <2>4. LeaseHolder' = LeaseHolder
    BY <2>2, <2>3 DEF LeaseHolder, NoLease
  <2>5. Spent' = Spent
    BY <2>3, <2>4 DEF Spent
  <2>6. \A d \in Conn : ~Admit(d)
    BY <1>0, <1>4, <2>1, Exclusive DEF RefuseToken, Admit, Refusable, Goto, TypeOK, Locked, LockedStage,
       Mutating
  <2> QED
    BY <1>1, <2>4, <2>5, <2>6, LeaseKept
<1>5. ASSUME NEW c \in Conn, DrainIdle(c) PROVE Mapped
  <2>1. PICK t \in Token \ issued : issued' = issued \cup {t} /\ pending' = [token |-> t, left |-> TTL]
    BY <1>5 DEF DrainIdle
  <2>2. pending = NoLease /\ (LeaseLive => file = mem) /\ mem = NoLease
    BY <1>0, <1>5, SettledAt DEF DrainIdle, Locked, LockedStage, FileInv
  <2>3. ~(file.left > 0) /\ file.token # t /\ UNCHANGED file
    BY <1>0, <1>5, <2>1, <2>2 DEF DrainIdle, LeaseLive, NoLease, TokenInv
  <2>4. LeaseHolder = None /\ LeaseHolder' = None
    BY <2>1, <2>2, <2>3 DEF LeaseHolder, NoLease
  <2>5. Spent' = Spent
    BY <1>0, <2>1, <2>2, <2>4 DEF Spent, NoLease, TypeOK
  <2>6. \A d \in Conn : ~Admit(d)
    BY <2>1 DEF Admit
  <2> QED
    BY <1>1, <2>4, <2>5, <2>6, LeaseKept
<1>6. ASSUME NEW c \in Conn, RenewIdle(c) PROVE Mapped
  <2>1. pending = NoLease /\ (LeaseLive => file = mem)
    BY <1>6, SettledAt DEF RenewIdle, Locked, LockedStage
  <2>2. file.left > 0 /\ file.token # None /\ pending'.token = file.token /\ UNCHANGED <<file, issued>>
    BY <1>6, <2>1 DEF RenewIdle, OwnsDrain, DrainActive, LeaseLive, histVars
  <2>3. LeaseHolder = file.token /\ LeaseHolder' = file.token
    BY <2>2 DEF LeaseHolder
  <2>4. Spent' = Spent
    BY <1>0, <2>1, <2>2, <2>3 DEF Spent, NoLease, TypeOK
  <2>5. \A d \in Conn : ~Admit(d)
    BY <2>1, <2>2 DEF Admit, NoLease
  <2> QED
    BY <1>1, <2>3, <2>4, <2>5, LeaseKept
<1>7. ASSUME NEW c \in Conn, Persist(c) PROVE Mapped
  <2>1. pending.token # None /\ pending.token \in Token
    BY <1>0, <1>7 DEF Persist, FileInv, TypeOK, Lease
  <2>2. file' = pending /\ UNCHANGED <<pending, issued>>
    BY <1>7 DEF Persist, histVars
  <2>3. LeaseHolder' = pending.token
    BY <2>1, <2>2 DEF LeaseHolder
  <2>4. ~Busy
    BY <1>7, WritingIsIdle DEF Persist, Writing
  <2>5. Busy' = Busy
    <3>1. \A d \in Conn : ~Admit(d)
      BY <1>0, <1>7, Exclusive DEF Persist, Admit, Refusable, Goto, TypeOK, Locked, LockedStage, Mutating
    <3> QED
      BY <1>1, <2>4, <3>1 DEF Busy
  <2>6. CASE LeaseHolder = pending.token
    <3>1. Spent' = Spent
      BY <2>2, <2>3, <2>6 DEF Spent
    <3> QED
      BY <2>3, <2>5, <2>6, <3>1 DEF Mapped
  <2>7. CASE LeaseHolder # pending.token
    <3>1. LeaseHolder = None
      <4>1. CASE file.left > 0
        <5>1. file = mem
          BY <1>0, <1>7, <4>1, SettledWhilePersisting DEF LeaseLive, Persist
        <5> QED
          BY <1>0, <1>7, <2>1, <2>7, <4>1, <5>1 DEF LeaseHolder, Persist, LockInv, FileInv, NoLease
      <4>2. CASE ~(file.left > 0)
        BY <2>7, <4>2 DEF LeaseHolder
      <4> QED
        BY <4>1, <4>2
    <3>2. Spent' = Spent /\ pending.token \notin Spent
      BY <1>0, <2>2, <2>3, <3>1 DEF Spent, TypeOK
    <3> QED
      BY <2>1, <2>3, <2>4, <2>5, <3>1, <3>2 DEF Mapped, Abstract!Next, Abstract!Grant
  <2> QED
    BY <2>6, <2>7
<1>8. ASSUME NEW c \in Conn, PersistFails(c) PROVE Mapped
  <2>1. Writing /\ pending' = NoLease /\ UNCHANGED <<file, issued>>
    BY <1>8 DEF PersistFails, Writing, histVars
  <2>2. ~Busy'
    <3>1. \A d \in Conn : ~Admit(d)
      BY <1>0, <1>8, Exclusive DEF PersistFails, Admit, Refusable, Goto, TypeOK, Locked, LockedStage, Mutating
    <3> QED
      BY <1>1, <2>1, <3>1, WritingIsIdle
  <2> QED
    BY <2>1, <2>2, DropPending
<1>9. ASSUME NEW c \in Conn, SetMaintenanceState(c) PROVE Mapped
  <2>1. Writing /\ pending' = NoLease /\ UNCHANGED <<file, issued>>
    BY <1>9 DEF SetMaintenanceState, Writing
  <2>2. ~Busy'
    <3>1. \A d \in Conn : ~Admit(d)
      BY <1>0, <1>9, Exclusive DEF SetMaintenanceState, Admit, Refusable, Goto, TypeOK, Locked,
         LockedStage, Mutating
    <3> QED
      BY <1>1, <2>1, <3>1, WritingIsIdle
  <2> QED
    BY <2>1, <2>2, DropPending
<1>10. ASSUME NEW c \in Conn, RemoveLease(c) PROVE Mapped
  <2>1. pending = NoLease /\ (LeaseLive => file = mem)
    BY <1>0, <1>10, SettledAt DEF RemoveLease, Locked, LockedStage, Mutating
  <2>2. file.token # None /\ file.left > 0 /\ file' = NoLease /\ UNCHANGED <<pending, issued>>
    BY <1>10, <2>1 DEF RemoveLease, OwnsDrain, DrainActive, LeaseLive
  <2>3. LeaseHolder = file.token /\ LeaseHolder' = None
    BY <2>1, <2>2 DEF LeaseHolder, NoLease
  <2>4. file.token \in issued
    BY <1>0, <2>2 DEF TokenInv
  <2>5. Spent' = Spent \cup {LeaseHolder}
    BY <1>0, <2>1, <2>2, <2>3, <2>4 DEF Spent, NoLease, TypeOK
  <2>6. Busy' = Busy
    <3>1. \A d \in Conn : AtWork(d)' <=> AtWork(d)
      BY <1>0, <1>10 DEF RemoveLease, AtWork, Goto, TypeOK
    <3>2. proc' = proc
      BY <1>10 DEF RemoveLease, childVars
    <3> QED
      BY <3>1, <3>2 DEF Busy
  <2> QED
    BY <2>2, <2>3, <2>5, <2>6 DEF Mapped, Abstract!Next, Abstract!End
<1>11. ASSUME NEW c \in Conn, ClearMaintenanceState(c) PROVE Mapped
  <2>1. UNCHANGED <<file, pending, issued>> /\ \A d \in Conn : ~Admit(d)
    BY <1>0, <1>11, Exclusive DEF ClearMaintenanceState, Admit, Refusable, Goto, TypeOK, Locked,
       LockedStage, Mutating
  <2> QED
    BY <1>1, <2>1, LeaseKept DEF LeaseHolder, Spent
<1>12. CASE Crash
  <2>1. \A d \in Conn : ~Admit(d)
    BY <1>12 DEF Crash, Admit
  <2>2. pending' = NoLease /\ UNCHANGED <<file, issued>>
    BY <1>12 DEF Crash
  <2>3. CASE Writing
    BY <1>1, <2>1, <2>2, <2>3, WritingIsIdle, DropPending
  <2>4. CASE ~Writing
    <3>1. UNCHANGED <<LeaseHolder, Spent>>
      BY <1>0, <2>2, <2>4 DEF FileInv, LeaseHolder, Spent
    <3> QED
      BY <1>1, <2>1, <3>1, LeaseKept
  <2> QED
    BY <2>3, <2>4
<1>13. CASE Restart
  <2>1. \A d \in Conn : ~Admit(d)
    BY <1>13 DEF Restart, Admit
  <2>2. pending = NoLease
    BY <1>0, <1>13 DEF Restart, DownInv, FileInv, Writing
  <2>3. UNCHANGED <<pending, issued>> /\ (UNCHANGED file \/ (~(file.left > 0) /\ ~(file'.left > 0)))
    BY <1>13 DEF Restart, NoLease
  <2>4. UNCHANGED LeaseHolder
    BY <2>2, <2>3 DEF LeaseHolder, NoLease
  <2>5. UNCHANGED Spent
    BY <2>3, <2>4 DEF Spent
  <2> QED
    BY <1>1, <2>1, <2>4, <2>5, LeaseKept
<1>14. CASE Tick
  <2>1. /\ file'.token = file.token /\ pending'.token = pending.token /\ UNCHANGED issued
        /\ file'.left > 0 => file.left > 0
    BY <1>0, <1>14, ElapseFacts DEF Tick, TypeOK
  <2>2. Busy' = Busy
    BY <1>14 DEF Tick, Busy, AtWork, connVars, childVars
  <2>3. CASE LeaseHolder' = LeaseHolder
    BY <2>1, <2>2, <2>3 DEF Mapped, Spent
  <2>4. CASE LeaseHolder' # LeaseHolder
    <3>1. LeaseHolder' = None /\ LeaseHolder = file.token /\ file.token # None /\ pending.token # file.token
      BY <2>1, <2>4 DEF LeaseHolder
    <3>2. Spent' = Spent \cup {LeaseHolder}
      BY <1>0, <2>1, <3>1 DEF Spent, TokenInv, TypeOK
    <3> QED
      BY <2>2, <3>1, <3>2 DEF Mapped, Abstract!Next, Abstract!End
  <2> QED
    BY <2>3, <2>4
<1>15. ASSUME NEW c \in Conn, Quiet(c) PROVE Mapped
  <2>1. UNCHANGED <<leaseVars, issued>>
    BY <1>0, <1>15, QuietStep DEF histVars
  <2>2. CASE \A d \in Conn : ~Admit(d)
    BY <1>2, <2>1, <2>2
  <2> QED
    BY <1>3, <2>2
<1>16. CASE \/ \E p \in Pid : Exit(p) \/ ReusePid(p)
            \/ \E h \in Handle : RemoveBeforeReap(h) \/ Reap(h)
            \/ UNCHANGED vars
  <2>1. UNCHANGED <<leaseVars, issued>>
    BY <1>16 DEF Exit, ReusePid, RemoveBeforeReap, Reap, histVars, vars
  <2> QED
    BY <1>2, <1>3, <2>1
<1> QED
  BY <1>3, <1>4, <1>5, <1>6, <1>7, <1>8, <1>9, <1>10, <1>11, <1>12, <1>13, <1>14, <1>15, <1>16, StepCases

\* VpnCoreDaemon implements MaintenanceLease: an exclusive, single-use lease.
THEOREM DaemonImplementsLease == Spec => ImplementsLease
<1>1. Init => Abstract!Init
  BY NoneAssumption DEF Init, Abstract!Init, LeaseHolder, Busy, Spent, AtWork, NoLease, FreePid
<1>2. IInv /\ [Next]_vars => [Abstract!Next]_(Abstract!vars)
  BY MappedStep DEF Mapped, Abstract!vars
<1> QED
  BY <1>1, <1>2, InvariantHolds, PTL DEF Spec, ImplementsLease, Abstract!Spec
=============================================================================
