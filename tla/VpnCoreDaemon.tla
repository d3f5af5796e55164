--------------------------- MODULE VpnCoreDaemon ---------------------------
(***************************************************************************)
(* The privileged vpn-core daemon (desktop/internal/core/vpncore): the      *)
(* connection handlers and their tracker, the mutation lock, the registry   *)
(* of managed children, and the maintenance drain with its lease file, over *)
(* crashes and restarts by launchd.                                         *)
(*                                                                          *)
(* Time.  The code keeps absolute deadlines (drainUntil, expires_at); the   *)
(* model keeps what every comparison with them uses, the time left, and     *)
(* Tick takes one unit from each.  The restored lease is re-anchored to the *)
(* wall clock, so both files and memory run on the same clock as long as    *)
(* nobody sets it.                                                          *)
(*                                                                          *)
(* Random values.  Tokens and child handles are 32 and 24 random bytes:     *)
(* they are drawn from the values never drawn before.  Process identity:    *)
(* the handle a start will be given also names the process it spawned, so   *)
(* that a pid reused by another process can be told from the original.      *)
(***************************************************************************)
EXTENDS Naturals

CONSTANTS
  Conn,    \* slots of the connections semaphore; a connection beyond them is refused
  Token,   \* maintenance ownership tokens
  Handle,  \* child handles
  Pid,     \* process ids of the operating system
  TTL,     \* maintenanceDrainTTL, in ticks
  None     \* "no connection", "no token", "no handle", "no pid"

ASSUME NoneAssumption == None \notin Conn \cup Token \cup Handle \cup Pid
ASSUME TTLAssumption == TTL \in Nat \ {0}

VARIABLES
  up,        \* the daemon runs and its socket is published
  stage,     \* stage[c]: where the handler goroutine of connection c stands
  req,       \* req[c]: the request read from connection c
  mutation,  \* the connection whose handler holds serviceDaemon.mutation
  mem,       \* drainToken and drainUntil
  file,      \* the maintenance.lease file
  pending,   \* the lease a drain or renew is about to persist
  children,  \* childRegistry.children: handle -> pid, None when absent
  watcher,   \* watcher[h]: the exit watcher goroutine of child h
  proc,      \* the operating system's process table
  issued,    \* tokens drawn so far
  born,      \* handles drawn so far
  promise,   \* history: the last lease granted or renewed, until its owner gives it back
  ended      \* history: tokens whose lease was given back or seen expired

connVars  == <<stage, req, mutation>>
leaseVars == <<mem, file, pending>>
childVars == <<children, watcher, proc, born>>
histVars  == <<issued, promise, ended>>
vars == <<up, connVars, leaseVars, childVars, histVars>>

-----------------------------------------------------------------------------
(* Values *)

Action == {"ping", "drain", "undrain", "renew", "start", "signal", "command"}

Stage == {"free", "accepted", "read", "begun", "admitted", "rechecking", "persisting",
          "persisted", "removed", "spawned", "registered", "replying"}

\* The zero Request, and the lease that setMaintenanceState("", time.Time{}) leaves.
NoRequest == [action |-> "ping", token |-> None, handle |-> None]
NoLease   == [token |-> None, left |-> 0]

Request == [action : Action, token : Token \cup {None}, handle : Handle \cup {None}]
Lease   == [token : Token \cup {None}, left : 0..TTL]

\* A request a client can send: the typed schema gives a token to undrain and renew
\* only, and a handle to signal only.  None stands for a value the daemon never drew.
ClientRequest ==
  {r \in Request :
     /\ r.token # None => r.action \in {"undrain", "renew"} /\ r.token \in issued
     /\ r.handle # None => r.action = "signal" /\ r.handle \in born}

ProcState == {"free", "running", "zombie", "orphan", "foreign"}
Process   == [st : ProcState, inst : Handle \cup {None}]
FreePid   == [st |-> "free", inst |-> None]

\* A process ends: a child stays as a zombie until the daemon waits for it; a child of
\* an earlier daemon is reaped by launchd, and a process that is not ours by its parent.
Ended(process) ==
  IF process.st \in {"running", "zombie"} THEN [st |-> "zombie", inst |-> process.inst] ELSE FreePid

-----------------------------------------------------------------------------
(* Derived state *)

Mutating(c) == req[c].action # "ping"

\* requestTracker.queued and requestTracker.active.
Queued == {c \in Conn : stage[c] \in {"accepted", "read"}}
Active == {c \in Conn : stage[c] \notin {"free", "accepted", "read", "replying"}}

\* childRegistry.mu and requestTracker.mu, which withIdle holds around its transition.
RegistryAndTrackerFree == \A c \in Conn : stage[c] \notin {"persisting", "persisted"}

\* Mutant: the idle check counts requests and forgets the children.
IdleIgnoringChildren(c) == (Queued \cup Active) \ {c} = {}

\* The test of withIdle: no registered child, no other accepted or running request.
Idle(c) ==
  /\ \A h \in Handle : children[h] = None
  /\ (Queued \cup Active) \ {c} = {}

\* The value drainActive() returns.
DrainActive == mem.token # None /\ mem.left > 0

\* Mutant: any caller owns the drain.
OwnsAnyDrain(c) == DrainActive

\* requireDrainToken succeeds.
OwnsDrain(c) == DrainActive /\ req[c].token = mem.token

Goto(c, s) == stage' = [stage EXCEPT ![c] = s]

\* What drainActive() does when it returns false: it clears an expired lease and
\* removes its file, best effort.
ObserveExpiry ==
  IF mem.token # None
  THEN /\ mem' = NoLease
       /\ file' \in {NoLease, file}
       /\ ended' = ended \cup {mem.token}
  ELSE UNCHANGED <<mem, file, ended>>

-----------------------------------------------------------------------------
Init ==
  /\ up = TRUE
  /\ stage = [c \in Conn |-> "free"]
  /\ req = [c \in Conn |-> NoRequest]
  /\ mutation = None
  /\ mem = NoLease
  /\ file = NoLease
  /\ pending = NoLease
  /\ children = [h \in Handle |-> None]
  /\ watcher = [h \in Handle |-> "none"]
  /\ proc = [p \in Pid |-> FreePid]
  /\ issued = {}
  /\ born = {}
  /\ promise = NoLease
  /\ ended = {}

-----------------------------------------------------------------------------
(* Connections *)

\* acceptConnection: an authorised peer gets a slot and is queued in the tracker.
Accept(c) ==
  /\ up
  /\ stage[c] = "free"
  /\ RegistryAndTrackerFree
  /\ Goto(c, "accepted")
  /\ UNCHANGED <<up, req, mutation, leaseVars, childVars, histVars>>

\* readRequest fails (deadline, EOF, a request outside the schema): abandon.
AbandonRequest(c) ==
  /\ stage[c] = "accepted"
  /\ RegistryAndTrackerFree
  /\ Goto(c, "replying")
  /\ UNCHANGED <<up, req, mutation, leaseVars, childVars, histVars>>

ReadRequest(c) ==
  /\ stage[c] = "accepted"
  /\ \E r \in ClientRequest : req' = [req EXCEPT ![c] = r]
  /\ Goto(c, "read")
  /\ UNCHANGED <<up, mutation, leaseVars, childVars, histVars>>

\* Mutant: the lock is not waited for.
BeginUnlocked(c) ==
  /\ stage[c] = "read"
  /\ RegistryAndTrackerFree
  /\ mutation' = IF Mutating(c) THEN c ELSE mutation
  /\ Goto(c, "begun")
  /\ UNCHANGED <<up, req, leaseVars, childVars, histVars>>

\* A mutating action takes the mutation lock; requests.begin moves it to active.
Begin(c) ==
  /\ stage[c] = "read"
  /\ RegistryAndTrackerFree
  /\ Mutating(c) => mutation = None
  /\ mutation' = IF Mutating(c) THEN c ELSE mutation
  /\ Goto(c, "begun")
  /\ UNCHANGED <<up, req, leaseVars, childVars, histVars>>

\* ping answers from the tracker and the drain state without the mutation lock.
Ping(c) ==
  /\ stage[c] = "begun"
  /\ req[c].action = "ping"
  /\ RegistryAndTrackerFree
  /\ Goto(c, "replying")
  /\ UNCHANGED <<up, req, mutation, leaseVars, childVars, histVars>>

\* Mutant: a return path that does not unlock.
FinishLocked(c) ==
  /\ stage[c] = "replying"
  /\ Goto(c, "free")
  /\ req' = [req EXCEPT ![c] = NoRequest]
  /\ UNCHANGED <<up, mutation, leaseVars, childVars, histVars>>

\* writeResponse, then the deferred unlock of mutation and release of the slot.
Finish(c) ==
  /\ stage[c] = "replying"
  /\ Goto(c, "free")
  /\ req' = [req EXCEPT ![c] = NoRequest]
  /\ mutation' = IF mutation = c THEN None ELSE mutation
  /\ UNCHANGED <<up, leaseVars, childVars, histVars>>

-----------------------------------------------------------------------------
(* Admission *)

\* Actions that a drain refuses.
Refusable(c) == stage[c] = "begun" /\ req[c].action \notin {"ping", "undrain", "renew"}

RefuseDraining(c) ==
  /\ Refusable(c)
  /\ DrainActive
  /\ Goto(c, "replying")
  /\ UNCHANGED <<up, req, mutation, leaseVars, childVars, histVars>>

Admit(c) ==
  /\ Refusable(c)
  /\ ~DrainActive
  /\ ObserveExpiry
  /\ Goto(c, "admitted")
  /\ UNCHANGED <<up, req, mutation, pending, childVars, issued, promise>>

-----------------------------------------------------------------------------
(* maintenance.drain and maintenance.renew: idle check, persist, set *)

DrainIdle(c) ==
  /\ stage[c] = "admitted"
  /\ req[c].action = "drain"
  /\ Idle(c)
  /\ \E t \in Token \ issued :
       /\ issued' = issued \cup {t}
       /\ pending' = [token |-> t, left |-> TTL]
  /\ Goto(c, "persisting")
  /\ UNCHANGED <<up, req, mutation, mem, file, childVars, promise, ended>>

\* The first ownership check of renew, before it waits for the registry and the tracker.
RenewCheck(c) ==
  /\ stage[c] = "begun"
  /\ req[c].action = "renew"
  /\ OwnsDrain(c)
  /\ Goto(c, "rechecking")
  /\ UNCHANGED <<up, req, mutation, leaseVars, childVars, histVars>>

\* Mutant: ownership is not checked again.
RenewUnchecked(c) ==
  /\ stage[c] = "rechecking"
  /\ Idle(c)
  /\ pending' = [token |-> req[c].token, left |-> TTL]
  /\ Goto(c, "persisting")
  /\ UNCHANGED <<up, req, mutation, mem, file, childVars, histVars>>

\* Mutant: the new lease time is added to what is left of the old one.
RenewAdding(c) ==
  /\ stage[c] = "rechecking"
  /\ Idle(c)
  /\ OwnsDrain(c)
  /\ pending' = [token |-> req[c].token, left |-> mem.left + TTL]
  /\ Goto(c, "persisting")
  /\ UNCHANGED <<up, req, mutation, mem, file, childVars, histVars>>

\* The second one, under both locks, after the idle check.
RenewIdle(c) ==
  /\ stage[c] = "rechecking"
  /\ Idle(c)
  /\ OwnsDrain(c)
  /\ pending' = [token |-> req[c].token, left |-> TTL]
  /\ Goto(c, "persisting")
  /\ UNCHANGED <<up, req, mutation, mem, file, childVars, histVars>>

\* rand.Read fails, so no token is drawn.
DrawFails(c) ==
  /\ stage[c] = "admitted"
  /\ req[c].action = "drain"
  /\ Idle(c)
  /\ Goto(c, "replying")
  /\ UNCHANGED <<up, req, mutation, leaseVars, childVars, histVars>>

\* withIdle reports the children and requests it found.
ReportBusy(c) ==
  /\ \/ stage[c] = "admitted" /\ req[c].action = "drain"
     \/ stage[c] = "rechecking"
  /\ ~Idle(c)
  /\ Goto(c, "replying")
  /\ UNCHANGED <<up, req, mutation, leaseVars, childVars, histVars>>

\* The rename, the last step of persistMaintenanceLease that can fail.
Persist(c) ==
  /\ stage[c] = "persisting"
  /\ file' = pending
  /\ Goto(c, "persisted")
  /\ UNCHANGED <<up, req, mutation, mem, pending, childVars, histVars>>

\* An earlier step fails: the old file and the old lease stay.
PersistFails(c) ==
  /\ stage[c] = "persisting"
  /\ pending' = NoLease
  /\ Goto(c, "replying")
  /\ UNCHANGED <<up, req, mutation, mem, file, childVars, histVars>>

SetMaintenanceState(c) ==
  /\ stage[c] = "persisted"
  /\ mem' = pending
  /\ pending' = NoLease
  /\ promise' = pending
  /\ Goto(c, "replying")
  /\ UNCHANGED <<up, req, mutation, file, childVars, issued, ended>>

-----------------------------------------------------------------------------
(* maintenance.undrain, and the ownership refusals it shares with renew *)

RefuseToken(c) ==
  /\ \/ stage[c] = "begun" /\ req[c].action \in {"undrain", "renew"}
     \/ stage[c] = "rechecking" /\ Idle(c)
  /\ ~OwnsDrain(c)
  /\ IF DrainActive THEN UNCHANGED <<mem, file, ended>> ELSE ObserveExpiry
  /\ Goto(c, "replying")
  /\ UNCHANGED <<up, req, mutation, pending, childVars, issued, promise>>

\* Mutant: undrain clears the memory and leaves the file.
KeepLeaseFile(c) ==
  /\ stage[c] = "begun"
  /\ req[c].action = "undrain"
  /\ OwnsDrain(c)
  /\ promise' = NoLease
  /\ Goto(c, "removed")
  /\ UNCHANGED <<up, req, mutation, leaseVars, childVars, issued, ended>>

RemoveLease(c) ==
  /\ stage[c] = "begun"
  /\ req[c].action = "undrain"
  /\ OwnsDrain(c)
  /\ file' = NoLease
  /\ promise' = NoLease
  /\ Goto(c, "removed")
  /\ UNCHANGED <<up, req, mutation, mem, pending, childVars, issued, ended>>

\* The lease file cannot be removed: undrain fails and the drain stays.
RemoveLeaseFails(c) ==
  /\ stage[c] = "begun"
  /\ req[c].action = "undrain"
  /\ OwnsDrain(c)
  /\ Goto(c, "replying")
  /\ UNCHANGED <<up, req, mutation, leaseVars, childVars, histVars>>

ClearMaintenanceState(c) ==
  /\ stage[c] = "removed"
  /\ mem' = NoLease
  /\ ended' = ended \cup {req[c].token}
  /\ Goto(c, "replying")
  /\ UNCHANGED <<up, req, mutation, file, pending, childVars, issued, promise>>

-----------------------------------------------------------------------------
(* singbox.start and tcpdump.start: startManagedChild *)

\* The request is refused before a process exists (schema, runtime directory, exec).
StartFails(c) ==
  /\ stage[c] = "admitted"
  /\ req[c].action = "start"
  /\ Goto(c, "replying")
  /\ UNCHANGED <<up, req, mutation, leaseVars, childVars, histVars>>

Spawn(c) ==
  /\ stage[c] = "admitted"
  /\ req[c].action = "start"
  /\ \E h \in Handle \ born, p \in Pid :
       /\ proc[p].st = "free"
       /\ proc' = [proc EXCEPT ![p] = [st |-> "running", inst |-> h]]
       /\ born' = born \cup {h}
       /\ req' = [req EXCEPT ![c] = [action |-> "start", token |-> None, handle |-> h]]
  /\ Goto(c, "spawned")
  /\ UNCHANGED <<up, mutation, leaseVars, children, watcher, histVars>>

Register(c) ==
  /\ stage[c] = "spawned"
  /\ \E p \in Pid :
       /\ proc[p].inst = req[c].handle
       /\ children' = [children EXCEPT ![req[c].handle] = p]
  /\ Goto(c, "registered")
  /\ UNCHANGED <<up, req, mutation, leaseVars, watcher, proc, born, histVars>>

Watch(c) ==
  /\ stage[c] = "registered"
  /\ watcher' = [watcher EXCEPT ![req[c].handle] = "armed"]
  /\ Goto(c, "replying")
  /\ UNCHANGED <<up, req, mutation, leaseVars, children, proc, born, histVars>>

\* Mutant: the handle is taken back and the child left running.
UndoRegistration(c) ==
  /\ stage[c] \in {"spawned", "registered"}
  /\ children' = [children EXCEPT ![req[c].handle] = None]
  /\ Goto(c, "replying")
  /\ UNCHANGED <<up, req, mutation, leaseVars, watcher, proc, born, histVars>>

\* add or watchProcessExit fails: take the handle back, kill the child and wait for it.
UndoSpawn(c) ==
  /\ stage[c] \in {"spawned", "registered"}
  /\ children' = [children EXCEPT ![req[c].handle] = None]
  /\ \E p \in Pid :
       /\ proc[p].inst = req[c].handle
       /\ proc' = [proc EXCEPT ![p] = FreePid]
  /\ Goto(c, "replying")
  /\ UNCHANGED <<up, req, mutation, leaseVars, watcher, born, histVars>>

-----------------------------------------------------------------------------
(* signal, and the typed commands *)

\* childRegistry.signal: SIGKILL ends whatever process has the pid; a process may
\* also ignore the other signals.
Signal(c) ==
  /\ stage[c] = "admitted"
  /\ req[c].action = "signal"
  /\ req[c].handle # None
  /\ LET p == children[req[c].handle] IN
       \/ p = None /\ UNCHANGED proc
       \/ p # None /\ (UNCHANGED proc \/ proc' = [proc EXCEPT ![p] = Ended(@)])
  /\ Goto(c, "replying")
  /\ UNCHANGED <<up, req, mutation, leaseVars, children, watcher, born, histVars>>

\* A signal with a handle never drawn, or dns.scutil, dns.networksetup and
\* resolver.cleanup, which run under mutation and touch no state of the daemon.
RunCommand(c) ==
  /\ stage[c] = "admitted"
  /\ req[c].action = "command" \/ (req[c].action = "signal" /\ req[c].handle = None)
  /\ Goto(c, "replying")
  /\ UNCHANGED <<up, req, mutation, leaseVars, childVars, histVars>>

-----------------------------------------------------------------------------
(* Child exit *)

Exit(p) ==
  /\ proc[p].st \in {"running", "orphan", "foreign"}
  /\ proc' = [proc EXCEPT ![p] = Ended(@)]
  /\ UNCHANGED <<up, connVars, leaseVars, children, watcher, born, histVars>>

\* Mutant: the child is reaped with its handle still in the registry.
KeepWhileReaping(h) ==
  /\ watcher[h] = "armed"
  /\ RegistryAndTrackerFree
  /\ \E p \in Pid : proc[p] = [st |-> "zombie", inst |-> h]
  /\ watcher' = [watcher EXCEPT ![h] = "reaping"]
  /\ UNCHANGED <<up, connVars, leaseVars, children, proc, born, histVars>>

\* removeBeforeReap: the handle goes first ...
RemoveBeforeReap(h) ==
  /\ watcher[h] = "armed"
  /\ RegistryAndTrackerFree
  /\ \E p \in Pid : proc[p] = [st |-> "zombie", inst |-> h]
  /\ children' = [children EXCEPT ![h] = None]
  /\ watcher' = [watcher EXCEPT ![h] = "reaping"]
  /\ UNCHANGED <<up, connVars, leaseVars, proc, born, histVars>>

\* ... then Wait frees the pid, and the session directory is cleaned up.
Reap(h) ==
  /\ watcher[h] = "reaping"
  /\ proc' = [p \in Pid |-> IF proc[p].inst = h THEN FreePid ELSE proc[p]]
  /\ watcher' = [watcher EXCEPT ![h] = "none"]
  /\ UNCHANGED <<up, connVars, leaseVars, children, born, histVars>>

\* The system gives a free pid to another process.
ReusePid(p) ==
  /\ proc[p].st = "free"
  /\ proc' = [proc EXCEPT ![p] = [st |-> "foreign", inst |-> None]]
  /\ UNCHANGED <<up, connVars, leaseVars, children, watcher, born, histVars>>

-----------------------------------------------------------------------------
(* Crash, restart, time *)

\* What the death of its parent makes of a child.
Abandoned(process) ==
  IF process.st = "running" THEN [st |-> "orphan", inst |-> process.inst]
  ELSE IF process.st = "zombie" THEN FreePid ELSE process

\* The daemon dies (crash, SIGTERM, bootout) between any two steps.  Its memory is
\* lost; its children live on without a parent.
Crash ==
  /\ up
  /\ up' = FALSE
  /\ stage' = [c \in Conn |-> "free"]
  /\ req' = [c \in Conn |-> NoRequest]
  /\ mutation' = None
  /\ mem' = NoLease
  /\ pending' = NoLease
  /\ children' = [h \in Handle |-> None]
  /\ watcher' = [h \in Handle |-> "none"]
  /\ proc' = [p \in Pid |-> Abandoned(proc[p])]
  /\ UNCHANGED <<file, issued, born, promise, ended>>

\* Mutant: the socket is published without restoring the lease.
RestartForgetful ==
  /\ ~up
  /\ up' = TRUE
  /\ UNCHANGED <<connVars, leaseVars, childVars, histVars>>

\* launchd starts it again: restoreMaintenanceLease runs before the socket is published.
Restart ==
  /\ ~up
  /\ up' = TRUE
  /\ IF file.left > 0
     THEN mem' = file /\ UNCHANGED <<file, ended>>
     ELSE /\ UNCHANGED mem
          /\ file' \in {NoLease, file}
          /\ ended' = ended \cup ({file.token} \ {None})
  /\ UNCHANGED <<connVars, pending, childVars, issued, promise>>

\* Mutant: a deadline that is never compared with the clock.
NeverElapse(lease) == lease

Elapse(lease) == [token |-> lease.token, left |-> IF lease.left > 0 THEN lease.left - 1 ELSE 0]

Tick ==
  /\ mem' = Elapse(mem)
  /\ file' = Elapse(file)
  /\ pending' = Elapse(pending)
  /\ promise' = Elapse(promise)
  /\ UNCHANGED <<up, connVars, childVars, issued, ended>>

-----------------------------------------------------------------------------
\* The steps of the handler goroutine of c once it has a slot.
HandlerStep(c) ==
  \/ AbandonRequest(c) \/ Ping(c) \/ Finish(c)
  \/ RefuseDraining(c) \/ Admit(c)
  \/ DrainIdle(c) \/ DrawFails(c) \/ RenewCheck(c) \/ RenewIdle(c) \/ ReportBusy(c)
  \/ Persist(c) \/ PersistFails(c) \/ SetMaintenanceState(c)
  \/ RefuseToken(c) \/ RemoveLease(c) \/ RemoveLeaseFails(c) \/ ClearMaintenanceState(c)
  \/ StartFails(c) \/ Spawn(c) \/ Register(c) \/ Watch(c) \/ UndoSpawn(c)
  \/ Signal(c) \/ RunCommand(c)

Next ==
  \/ \E c \in Conn : Accept(c) \/ ReadRequest(c) \/ Begin(c) \/ HandlerStep(c)
  \/ \E p \in Pid : Exit(p) \/ ReusePid(p)
  \/ \E h \in Handle : RemoveBeforeReap(h) \/ Reap(h)
  \/ Crash \/ Restart \/ Tick

Spec == Init /\ [][Next]_vars

-----------------------------------------------------------------------------
(* Properties *)

\* Every variable has its type.
TypeOK ==
  /\ up \in BOOLEAN
  /\ stage \in [Conn -> Stage]
  /\ req \in [Conn -> Request]
  /\ mutation \in Conn \cup {None}
  /\ mem \in Lease /\ file \in Lease /\ pending \in Lease /\ promise \in Lease
  /\ children \in [Handle -> Pid \cup {None}]
  /\ watcher \in [Handle -> {"none", "armed", "reaping"}]
  /\ proc \in [Pid -> Process]
  /\ issued \subseteq Token /\ ended \subseteq Token
  /\ born \subseteq Handle

\* A lease some daemon would still enforce: the one in memory, or the one a restart
\* would restore.
LeaseLive == mem.left > 0 \/ file.left > 0

\* The request has passed admission and is doing privileged work.
AtWork(c) ==
  \/ stage[c] \in {"spawned", "registered"}
  \/ stage[c] = "admitted" /\ req[c].action # "drain"

\* While a maintenance lease is live the daemon has no managed child, no child process
\* of its own is running, and no admitted start, signal or command is under way: the
\* idle check of withIdle and the admission test of handleConn exclude each other
\* through the mutation lock, also while the lease file is being replaced.
DrainExcludesWork ==
  LeaseLive =>
    /\ \A h \in Handle : children[h] = None
    /\ \A p \in Pid : proc[p].st # "running"
    /\ \A c \in Conn : ~AtWork(c)

\* A lease that was granted or renewed holds until its owner gives it back or its time
\* is over: a running daemon enforces it, and while the daemon is down its file would
\* restore it, for at least the time that was promised.
LeaseHonoured ==
  promise.left > 0 =>
    LET kept == IF up THEN mem ELSE file
    IN  kept.token = promise.token /\ kept.left >= promise.left

\* A lease that was given back, or that the daemon saw expire, never blocks again: not
\* through a file whose best-effort removal failed, nor through a crash between the
\* removal of the file and the reset of the memory.
EndedStaysEnded ==
  \A t \in ended :
    /\ ~(mem.token = t /\ mem.left > 0)
    /\ ~(file.token = t /\ file.left > 0)

\* A handle in the registry names the process it was drawn for, alive or not yet
\* reaped, so childRegistry.signal cannot reach a process that was given the same pid.
HandleNamesItsChild ==
  \A h \in Handle :
    children[h] # None =>
      /\ proc[children[h]].inst = h
      /\ proc[children[h]].st \in {"running", "zombie"}

\* No child process of the running daemon is lost: it is registered, or a start still
\* holds it.  (An exited one may be waiting for Wait.)
NoLostChild ==
  \A p \in Pid :
    proc[p].st = "running" =>
      \/ children[proc[p].inst] = p
      \/ \E c \in Conn : stage[c] = "spawned" /\ req[c].handle = proc[p].inst

\* Only the owner takes a live drain away: a step of a running daemon that replaces or
\* clears a lease that has time left is the end of an undrain that carries its token.
OnlyOwnerEndsDrain ==
  [][ (up /\ up' /\ DrainActive /\ mem'.token # mem.token) =>
        \E c \in Conn : /\ stage[c] = "removed"
                        /\ req[c].action = "undrain" /\ req[c].token = mem.token ]_vars

-----------------------------------------------------------------------------
(* The abstract specification *)

\* The lease in the file is the lease: it holds while it has time left, and while a
\* renewal that has passed its second ownership check is being written.
LeaseHolder ==
  IF file.token # None /\ (file.left > 0 \/ pending.token = file.token) THEN file.token ELSE None

\* A child of the daemon runs, or an admitted request is doing privileged work.
Busy == (\E p \in Pid : proc[p].st = "running") \/ (\E c \in Conn : AtWork(c))

\* Tokens that were drawn and neither hold the lease nor are about to.
Spent == issued \ {LeaseHolder, pending.token}

Abstract == INSTANCE MaintenanceLease WITH holder <- LeaseHolder, busy <- Busy, spent <- Spent

\* The daemon implements an exclusive, single-use lease: maintenance.drain grants it only
\* when idle, admission begins work only when nobody holds it, and no crash, failed write
\* or failed removal gives a token its lease back.
ImplementsLease == Abstract!Spec

-----------------------------------------------------------------------------
(* The inductive invariant behind the safety properties *)

\* Stages a handler passes with the mutation lock in its hands, apart from "begun".
LockedStage == {"admitted", "rechecking", "persisting", "persisted", "removed",
                "spawned", "registered"}

Locked(c) == stage[c] \in LockedStage \/ (stage[c] = "begun" /\ Mutating(c))

\* The lock serialises the mutating handlers, and a stage tells the action.
LockInv ==
  \A c \in Conn :
    /\ Locked(c) => mutation = c
    /\ stage[c] = "admitted" => req[c].action \notin {"ping", "undrain", "renew"}
    /\ stage[c] = "rechecking" => req[c].action = "renew"
    /\ stage[c] \in {"persisting", "persisted"} => req[c].action \in {"drain", "renew"}
    /\ stage[c] = "removed" => req[c].action = "undrain"
    /\ stage[c] \in {"spawned", "registered"} => req[c].action = "start" /\ req[c].handle \in born

\* A stopped daemon has no memory.
DownInv ==
  ~up => /\ \A c \in Conn : stage[c] = "free"
         /\ mem = NoLease
         /\ \A h \in Handle : children[h] = None /\ watcher[h] = "none"
         /\ \A p \in Pid : proc[p].st \notin {"running", "zombie"}

\* Time left belongs to a token that was drawn.
TokenInv ==
  /\ \A l \in {mem, file, pending, promise} : l.left > 0 => l.token # None
  /\ \A l \in {mem, file, pending} : l.token # None => l.token \in issued
  /\ ended \subseteq issued

\* How the file, the memory and the lease in preparation agree at each stage.
Writing == \E c \in Conn : stage[c] \in {"persisting", "persisted"}

Settled == \A c \in Conn : stage[c] \notin {"persisted", "removed"}

FileInv ==
  /\ ~Writing => pending = NoLease
  /\ up /\ Settled /\ LeaseLive => file = mem
  /\ \A c \in Conn :
       /\ stage[c] = "admitted" => mem = NoLease
       /\ stage[c] \in {"persisting", "persisted"} =>
            /\ pending.token # None
            /\ req[c].action = "drain" => mem = NoLease
            /\ req[c].action = "renew" => pending.token = mem.token /\ pending.left >= mem.left
       /\ stage[c] = "persisted" => file = pending
       /\ stage[c] = "removed" =>
            mem.token = req[c].token /\ mem.token # None /\ file = NoLease /\ promise = NoLease

\* A token that ended is in no place it could come back from.
EndedInv ==
  \A t \in ended :
    mem.token # t /\ pending.token # t /\ (file.token = t => file.left = 0)

\* The registry, the exit watchers and the process table.
ChildInv ==
  /\ \A p \in Pid : /\ proc[p].st \in {"free", "foreign"} <=> proc[p].inst = None
                    /\ proc[p].inst # None => proc[p].inst \in born
  /\ \A p, q \in Pid : proc[p].inst = proc[q].inst /\ proc[p].inst # None => p = q
  /\ \A h \in Handle \ born : children[h] = None /\ watcher[h] = "none"
  /\ \A h \in Handle : watcher[h] = "reaping" => children[h] = None
  /\ \A p \in Pid : proc[p].st = "orphan" =>
       /\ children[proc[p].inst] = None /\ watcher[proc[p].inst] = "none"
       /\ \A c \in Conn : stage[c] \in {"spawned", "registered"} => req[c].handle # proc[p].inst
  /\ \A p \in Pid : proc[p].st = "running" => watcher[proc[p].inst] # "reaping"
  /\ \A c \in Conn : stage[c] \in {"spawned", "registered"} => watcher[req[c].handle] = "none"
  /\ \A c \in Conn : stage[c] = "spawned" => children[req[c].handle] = None

\* The idle check stays true while the lease is written and while it lasts.
IdleInv == LeaseLive \/ Writing => \A h \in Handle : children[h] = None

WorkInv == LeaseLive => \A c \in Conn : ~AtWork(c)

IInv ==
  /\ TypeOK /\ LockInv /\ DownInv /\ TokenInv /\ FileInv /\ EndedInv /\ ChildInv
  /\ IdleInv /\ WorkInv /\ LeaseHonoured /\ HandleNamesItsChild /\ NoLostChild

-----------------------------------------------------------------------------
(* Liveness *)

\* The handler goroutines run, the exit watchers run, time passes, and launchd restarts
\* the daemon (KeepAlive).  Steps that wait for a sync.Mutex are strongly fair: Go's
\* mutex hands itself to a waiter that starves.  Nothing is assumed of clients.
Fairness ==
  /\ \A c \in Conn : SF_vars(Begin(c)) /\ SF_vars(HandlerStep(c))
  /\ \A h \in Handle : SF_vars(RemoveBeforeReap(h)) /\ WF_vars(Reap(h))
  /\ WF_vars(Restart)
  /\ WF_vars(Tick)

LiveSpec == Spec /\ Fairness

\* A connection that got a slot gives it back: every request is answered, or lost with
\* the daemon, whatever the other clients do.
EveryRequestEnds == \A c \in Conn : stage[c] # "free" ~> stage[c] = "free"

\* A drain nobody renews ends: if from some time on no renewal is being written, tunnel
\* starts are not blocked for ever.
DrainExpires ==
  <>[](\A c \in Conn : ~(stage[c] = "persisting" /\ req[c].action = "renew"))
    => []<>~LeaseLive

=============================================================================
