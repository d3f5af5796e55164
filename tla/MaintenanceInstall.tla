------------------------- MODULE MaintenanceInstall -------------------------
(***************************************************************************)
(* vpn-core install and vpn-core uninstall: operators that drain, replace   *)
(* or remove the services of this machine through launchd, while tunnels    *)
(* start and stop and daemons crash.                                        *)
(*                                                                          *)
(* A daemon is reduced to what MaintenanceLease promises plus the time left *)
(* of its lease (PrimaryImplementsLease checks the reduction).  A call is a    *)
(* message to the daemon and an answer: the client may give up before, or   *)
(* after, the daemon has served it, and what it gave up on is still served. *)
(***************************************************************************)
EXTENDS Naturals

CONSTANTS
  Operator,  \* processes that run vpn-core install or uninstall, once each
  Primary,   \* the service label being installed or removed
  Legacy,    \* compatibility service labels; their daemons do not know maintenance.drain
  Token,     \* maintenance ownership tokens
  TTL,       \* maintenanceDrainTTL, in ticks
  None

ASSUME InstallAssumption ==
  /\ TTL \in Nat \ {0}
  /\ None \notin Operator \cup Token
  /\ Primary \notin Legacy

Label == {Primary} \cup Legacy

VARIABLES
  loaded,    \* loaded[l]: launchd knows the service
  running,   \* running[l]: its daemon runs and answers on its socket
  tunnel,    \* tunnel[l]: the daemon has managed children
  lease,     \* lease[l]: the maintenance lease in force, or restored by the next start
  saved,     \* saved[l]: the runtime directory still has its file
  issued,    \* tokens drawn so far
  package,   \* the installed helper tree and plist of the primary service
  inbox,     \* requests sent to a daemon and not served yet
  pc,        \* pc[o]: the step operator o is about to take
  job,       \* job[o]: what o was asked to do
  todo,      \* todo[o]: labels the current phase of o still has to visit
  at,        \* at[o]: the label o is working on
  guard,     \* guard[o]: maintenanceGuard.leases
  reply,     \* reply[o]: the answer to the outstanding call of o
  forgot,    \* forgot[o]: launchd was seen to have forgotten the service at[o]
  failed,    \* failed[o]: errors collected by uninstallServiceConfigs
  result,    \* result[o]: what the command reported, with the time left until ExpiresAt
  cover,     \* history: the time left of the last renewal served for o at at[o]
  mine       \* history: tokens a daemon granted to o

serviceVars == <<loaded, running, tunnel, package>>
rpcVars     == <<inbox, reply>>
leaseVars   == <<lease, saved, issued, cover, mine>>
flowVars    == <<job, todo, at, guard, forgot, failed, result>>
vars == <<serviceVars, leaseVars, rpcVars, pc, flowVars>>

-----------------------------------------------------------------------------
(* Values *)

NoLease == [token |-> None, left |-> 0]
Lease   == [token : Token \cup {None}, left : 0..TTL]

Job == [kind : {"install", "uninstall"}, override : BOOLEAN]

\* from is None once the client has given up waiting.
Message == [from : Operator \cup {None}, label : Label,
            action : {"drain", "renew", "undrain"}, token : Token \cup {None}]

\* The answers the callers tell apart: none yet, success, socket unavailable, any error.
Answer  == [kind : {"none", "ok", "unavailable", "error"}, token : Token \cup {None}]
Waiting == [kind |-> "none", token |-> None]
Say(k)  == [kind |-> k, token |-> None]

Step == {"idle", "drain", "drain?", "sudo", "files", "verify", "probe", "probe?", "renew", "renew?",
         "bootout", "paths", "enable", "ready", "undrain", "undrain?", "status",
         "release", "release?", "done"}

\* blocked: InstallMaintenanceError with DrainActive; warned and unverified: with and
\* without an expiry of the lease the installer holds.
Outcome == [kind : {"none", "failed", "removed", "installed", "blocked", "warned", "unverified"},
            left : 0..TTL]

Live(l) == lease[l].left > 0

Held(o, l) == guard[o][l].token # None

Goto(o, s) == pc' = [pc EXCEPT ![o] = s]

Less(n) == IF n > 0 THEN n - 1 ELSE 0

Elapse(x) == [token |-> x.token, left |-> Less(x.left)]

Later(r) == [kind |-> r.kind, left |-> Less(r.left)]

-----------------------------------------------------------------------------
Init ==
  /\ loaded \in [Label -> BOOLEAN]
  /\ running = loaded
  /\ tunnel = [l \in Label |-> FALSE]
  /\ lease = [l \in Label |-> NoLease]
  /\ saved = [l \in Label |-> TRUE]
  /\ issued = {}
  /\ package = IF loaded[Primary] THEN "installed" ELSE "absent"
  /\ inbox = {}
  /\ pc = [o \in Operator |-> "idle"]
  /\ job = [o \in Operator |-> [kind |-> "install", override |-> FALSE]]
  /\ todo = [o \in Operator |-> {}]
  /\ at = [o \in Operator |-> Primary]
  /\ guard = [o \in Operator |-> [l \in Label |-> NoLease]]
  /\ reply = [o \in Operator |-> Waiting]
  /\ forgot = [o \in Operator |-> FALSE]
  /\ failed = [o \in Operator |-> FALSE]
  /\ result = [o \in Operator |-> [kind |-> "none", left |-> 0]]
  /\ cover = [o \in Operator |-> NoLease]
  /\ mine = [o \in Operator |-> {}]

-----------------------------------------------------------------------------
(* Daemons, tunnels, launchd and time *)

\* A primary daemon verifies its package before it listens.
CanServe(l) == loaded[l] /\ (l = Primary => package = "installed")

Restart(l) ==
  /\ ~running[l]
  /\ CanServe(l)
  /\ running' = [running EXCEPT ![l] = TRUE]
  /\ UNCHANGED <<loaded, tunnel, package, leaseVars, rpcVars, pc, flowVars>>

\* A lease whose file is gone dies with the daemon.
LoseMemory(l) == lease' = IF saved[l] THEN lease ELSE [lease EXCEPT ![l] = NoLease]

\* Requests in the socket of a daemon that ends are lost; who still waits gets an error.
Hangup(l) ==
  /\ inbox' = {m \in inbox : m.label # l}
  /\ reply' = [o \in Operator |->
                 IF \E m \in inbox : m.label = l /\ m.from = o THEN Say("error") ELSE reply[o]]

Crash(l) ==
  /\ running[l]
  /\ running' = [running EXCEPT ![l] = FALSE]
  /\ tunnel' = [tunnel EXCEPT ![l] = FALSE]
  /\ Hangup(l)
  /\ LoseMemory(l)
  /\ UNCHANGED <<loaded, package, saved, issued, cover, mine, pc, flowVars>>

StartTunnel(l) ==
  /\ running[l]
  /\ ~Live(l)
  /\ ~tunnel[l]
  /\ tunnel' = [tunnel EXCEPT ![l] = TRUE]
  /\ UNCHANGED <<loaded, running, package, leaseVars, rpcVars, pc, flowVars>>

StopTunnel(l) ==
  /\ tunnel[l]
  /\ tunnel' = [tunnel EXCEPT ![l] = FALSE]
  /\ UNCHANGED <<loaded, running, package, leaseVars, rpcVars, pc, flowVars>>

Tick ==
  /\ lease' = [l \in Label |-> Elapse(lease[l])]
  /\ guard' = [o \in Operator |-> [l \in Label |-> Elapse(guard[o][l])]]
  /\ cover' = [o \in Operator |-> Elapse(cover[o])]
  /\ result' = [o \in Operator |-> Later(result[o])]
  /\ UNCHANGED <<serviceVars, saved, issued, mine, rpcVars, pc, job, todo, at, forgot, failed>>

-----------------------------------------------------------------------------
(* Calls *)

\* Send the request, or find the socket missing or refusing.
Call(o, l, action, token) ==
  IF running[l]
  THEN /\ inbox' = inbox \cup {[from |-> o, label |-> l, action |-> action, token |-> token]}
       /\ reply' = [reply EXCEPT ![o] = Waiting]
  ELSE /\ reply' = [reply EXCEPT ![o] = Say("unavailable")]
       /\ UNCHANGED inbox

\* The response deadline passes; the request is already with the daemon.
TimeOut(m) ==
  /\ m.from # None
  /\ inbox' = (inbox \ {m}) \cup {[m EXCEPT !.from = None]}
  /\ reply' = [reply EXCEPT ![m.from] = Say("error")]
  /\ UNCHANGED <<serviceVars, leaseVars, pc, flowVars>>

Deliver(m, answer) ==
  /\ inbox' = inbox \ {m}
  /\ reply' = IF m.from = None THEN reply ELSE [reply EXCEPT ![m.from] = answer]

\* Refused: draining, busy, another token, a write that failed, an unknown action.
ServeError(m) ==
  /\ Deliver(m, Say("error"))
  /\ UNCHANGED <<serviceVars, leaseVars, pc, flowVars>>

ServeDrain(m) ==
  /\ m.action = "drain"
  /\ m.label \notin Legacy
  /\ ~Live(m.label)
  /\ ~tunnel[m.label]
  /\ \E t \in Token \ issued :
       /\ issued' = issued \cup {t}
       /\ lease' = [lease EXCEPT ![m.label] = [token |-> t, left |-> TTL]]
       /\ Deliver(m, [kind |-> "ok", token |-> t])
       /\ saved' = [saved EXCEPT ![m.label] = TRUE]
       /\ mine' = IF m.from = None THEN mine ELSE [mine EXCEPT ![m.from] = @ \cup {t}]
  /\ UNCHANGED <<serviceVars, cover, pc, flowVars>>

\* Mutant: the token is compared, the expiry is not.
ServeLateRenew(m) ==
  /\ m.action = "renew"
  /\ lease[m.label].token = m.token
  /\ lease' = [lease EXCEPT ![m.label] = [token |-> m.token, left |-> TTL]]
  /\ cover' = IF m.from = None THEN cover
              ELSE [cover EXCEPT ![m.from] = [token |-> m.token, left |-> TTL]]
  /\ saved' = [saved EXCEPT ![m.label] = TRUE]
  /\ Deliver(m, [kind |-> "ok", token |-> m.token])
  /\ UNCHANGED <<serviceVars, issued, mine, pc, flowVars>>

ServeRenew(m) ==
  /\ m.action = "renew"
  /\ Live(m.label)
  /\ lease[m.label].token = m.token
  /\ lease' = [lease EXCEPT ![m.label] = [token |-> m.token, left |-> TTL]]
  /\ cover' = IF m.from = None THEN cover
              ELSE [cover EXCEPT ![m.from] = [token |-> m.token, left |-> TTL]]
  /\ saved' = [saved EXCEPT ![m.label] = TRUE]
  /\ Deliver(m, [kind |-> "ok", token |-> m.token])
  /\ UNCHANGED <<serviceVars, issued, mine, pc, flowVars>>

ServeUndrain(m) ==
  /\ m.action = "undrain"
  /\ Live(m.label)
  /\ lease[m.label].token = m.token
  /\ lease' = [lease EXCEPT ![m.label] = NoLease]
  /\ Deliver(m, Say("ok"))
  /\ UNCHANGED <<serviceVars, saved, issued, cover, mine, pc, flowVars>>

-----------------------------------------------------------------------------
(* The operator: drainServices *)

\* The labels are visited in order: the primary service first when draining, last when
\* booting out.
First(labels) == IF Primary \in labels THEN {Primary} ELSE labels
Last(labels)  == IF labels = {Primary} THEN labels ELSE labels \ {Primary}

\* --allow-disruption skips the handshake.
Begin(o) ==
  /\ pc[o] = "idle"
  /\ \E j \in Job :
       /\ job' = [job EXCEPT ![o] = j]
       /\ Goto(o, IF j.override THEN "sudo" ELSE "drain")
  /\ todo' = [todo EXCEPT ![o] = Label]
  /\ UNCHANGED <<serviceVars, leaseVars, rpcVars, at, guard, forgot, failed, result>>

\* The command ends with a report; what the guard still holds is released first.
Report(o, k, left) ==
  /\ result' = [result EXCEPT ![o] = [kind |-> k, left |-> left]]
  /\ Goto(o, "release")

DrainNext(o) ==
  /\ pc[o] = "drain"
  /\ \E l \in First(todo[o]) :
       /\ at' = [at EXCEPT ![o] = l]
       /\ todo' = [todo EXCEPT ![o] = @ \ {l}]
       /\ Call(o, l, "drain", None)
  /\ Goto(o, "drain?")
  /\ UNCHANGED <<serviceVars, leaseVars, job, guard, forgot, failed, result>>

\* acquire: an unavailable socket is accepted for now, any other error ends the command.
Drained(o) ==
  /\ pc[o] = "drain?"
  /\ reply[o].kind # "none"
  /\ reply' = [reply EXCEPT ![o] = Waiting]
  /\ IF reply[o].kind = "error"
     THEN Report(o, "failed", 0) /\ UNCHANGED guard
     ELSE /\ guard' = IF reply[o].kind = "unavailable" THEN guard
                      ELSE [guard EXCEPT ![o][at[o]] = [token |-> reply[o].token, left |-> TTL]]
          /\ Goto(o, IF todo[o] = {} THEN "sudo" ELSE "drain")
          /\ UNCHANGED result
  /\ UNCHANGED <<serviceVars, leaseVars, inbox, job, todo, at, forgot, failed>>

-----------------------------------------------------------------------------
(* Privileged changes *)

Authenticate(o) ==
  /\ pc[o] = "sudo"
  /\ Goto(o, IF job[o].kind = "install" THEN "files" ELSE "probe")
  /\ todo' = [todo EXCEPT ![o] = Label]
  /\ UNCHANGED <<serviceVars, leaseVars, rpcVars, job, at, guard, forgot, failed, result>>

SudoRefused(o) ==
  /\ pc[o] = "sudo"
  /\ Report(o, "failed", 0)
  /\ UNCHANGED <<serviceVars, leaseVars, rpcVars, job, todo, at, guard, forgot, failed>>

\* rm -rf of the helper tree, then the install commands; any may fail.
CopyFiles(o) ==
  /\ pc[o] = "files"
  /\ \/ package' = "installed" /\ Goto(o, "verify") /\ UNCHANGED result
     \/ package' \in {package, "partial"} /\ Report(o, "failed", 0)
  /\ UNCHANGED <<loaded, running, tunnel, leaseVars, rpcVars, job, todo, at, guard, forgot, failed>>

\* verifyInstalledPackage; a package that fails it is removed again, best effort.
Verify(o) ==
  /\ pc[o] = "verify"
  /\ \/ package = "installed" /\ Goto(o, "probe") /\ UNCHANGED <<package, result>>
     \/ package' \in {package, "partial", "absent"} /\ Report(o, "failed", 0)
  /\ UNCHANGED <<loaded, running, tunnel, leaseVars, rpcVars, job, todo, at, guard, forgot, failed>>

-----------------------------------------------------------------------------
(* maintenanceGuard.beforeBootout, once per service *)

\* Mutant: a lease held since the first drain is trusted.
ProbeWithoutRenew(o) ==
  /\ pc[o] = "probe"
  /\ \E l \in Last(todo[o]) :
       /\ at' = [at EXCEPT ![o] = l]
       /\ todo' = [todo EXCEPT ![o] = @ \ {l}]
       /\ IF job[o].override \/ Held(o, l) THEN Goto(o, "bootout") /\ UNCHANGED rpcVars
          ELSE Goto(o, "probe?") /\ Call(o, l, "drain", None)
  /\ forgot' = [forgot EXCEPT ![o] = FALSE]
  /\ cover' = [cover EXCEPT ![o] = NoLease]
  /\ UNCHANGED <<serviceVars, lease, saved, issued, mine, job, guard, failed, result>>

\* A service whose socket was unavailable is asked again; a held lease is renewed.
ProbeNext(o) ==
  /\ pc[o] = "probe"
  /\ \E l \in Last(todo[o]) :
       /\ at' = [at EXCEPT ![o] = l]
       /\ todo' = [todo EXCEPT ![o] = @ \ {l}]
       /\ IF job[o].override THEN Goto(o, "bootout") /\ UNCHANGED rpcVars
          ELSE IF Held(o, l) THEN Goto(o, "renew") /\ UNCHANGED rpcVars
          ELSE Goto(o, "probe?") /\ Call(o, l, "drain", None)
  /\ forgot' = [forgot EXCEPT ![o] = FALSE]
  /\ cover' = [cover EXCEPT ![o] = NoLease]
  /\ UNCHANGED <<serviceVars, lease, saved, issued, mine, job, guard, failed, result>>

\* uninstallExactService finds the parent of the helper tree unsafe and skips the service.
ParentRefused(o) ==
  /\ pc[o] = "probe"
  /\ job[o].kind = "uninstall"
  /\ todo[o] = {Primary}
  /\ todo' = [todo EXCEPT ![o] = {}]
  /\ failed' = [failed EXCEPT ![o] = TRUE]
  /\ Report(o, "failed", 0)
  /\ UNCHANGED <<serviceVars, leaseVars, rpcVars, job, at, guard, forgot>>

Probed(o) ==
  /\ pc[o] = "probe?"
  /\ reply[o].kind # "none"
  /\ reply' = [reply EXCEPT ![o] = Waiting]
  /\ IF reply[o].kind = "error"
     THEN Report(o, "failed", 0) /\ UNCHANGED guard
     ELSE /\ guard' = IF reply[o].kind = "unavailable" THEN guard
                      ELSE [guard EXCEPT ![o][at[o]] = [token |-> reply[o].token, left |-> TTL]]
          /\ Goto(o, IF reply[o].kind = "unavailable" THEN "bootout" ELSE "renew")
          /\ UNCHANGED result
  /\ UNCHANGED <<serviceVars, leaseVars, inbox, job, todo, at, forgot, failed>>

Renew(o) ==
  /\ pc[o] = "renew"
  /\ Call(o, at[o], "renew", guard[o][at[o]].token)
  /\ Goto(o, "renew?")
  /\ UNCHANGED <<serviceVars, leaseVars, flowVars>>

\* Mutant: the new lease time is added to what is left of the old one.
RenewedAdding(o) ==
  /\ pc[o] = "renew?"
  /\ reply[o].kind # "none"
  /\ reply' = [reply EXCEPT ![o] = Waiting]
  /\ IF reply[o].kind = "ok"
     THEN /\ guard' = [guard EXCEPT ![o][at[o]] = [token |-> @.token, left |-> @.left + TTL]]
          /\ Goto(o, "bootout")
          /\ UNCHANGED result
     ELSE Report(o, "failed", 0) /\ UNCHANGED guard
  /\ UNCHANGED <<serviceVars, leaseVars, inbox, job, todo, at, forgot, failed>>

Renewed(o) ==
  /\ pc[o] = "renew?"
  /\ reply[o].kind # "none"
  /\ reply' = [reply EXCEPT ![o] = Waiting]
  /\ IF reply[o].kind = "ok"
     THEN /\ guard' = [guard EXCEPT ![o][at[o]] = [token |-> @.token, left |-> TTL]]
          /\ Goto(o, "bootout")
          /\ UNCHANGED result
     ELSE Report(o, "failed", 0) /\ UNCHANGED guard
  /\ UNCHANGED <<serviceVars, leaseVars, inbox, job, todo, at, forgot, failed>>

-----------------------------------------------------------------------------
(* forgetLaunchdLabel and what follows it *)

Replaces(o) == job[o].kind = "install" /\ at[o] = Primary

\* launchctl bootout ends the daemon and its children, or fails and leaves them.  launchd
\* is then seen, before the poll ends, to have forgotten the service, or it is not.
Bootout(o) ==
  /\ pc[o] = "bootout"
  /\ \/ /\ loaded' = [loaded EXCEPT ![at[o]] = FALSE]
        /\ running' = [running EXCEPT ![at[o]] = FALSE]
        /\ tunnel' = [tunnel EXCEPT ![at[o]] = FALSE]
        /\ Hangup(at[o])
        /\ LoseMemory(at[o])
     \/ UNCHANGED <<loaded, running, tunnel, rpcVars, lease>>
  /\ \E seen \in BOOLEAN :
       /\ seen => ~loaded'[at[o]]
       /\ forgot' = [forgot EXCEPT ![o] = seen]
       /\ guard' = IF seen /\ ~Replaces(o) THEN [guard EXCEPT ![o][at[o]] = NoLease] ELSE guard
       /\ failed' = [failed EXCEPT ![o] = @ \/ ~seen]
       /\ \/ ~Replaces(o) /\ Goto(o, "paths") /\ UNCHANGED result
          \/ Replaces(o) /\ seen /\ Goto(o, "enable") /\ UNCHANGED result
          \/ Replaces(o) /\ ~seen /\ Report(o, "failed", 0)
  /\ UNCHANGED <<package, saved, issued, cover, mine, job, todo, at>>

\* The last service is done, or the legacy ones are and one of them failed an install.
Stops(o) == todo[o] = {} \/ (job[o].kind = "install" /\ todo[o] = {Primary} /\ failed'[o])

NextService(o) ==
  \/ ~Stops(o) /\ Goto(o, "probe") /\ UNCHANGED result
  \/ Stops(o) /\ Report(o, IF failed'[o] THEN "failed" ELSE "removed", 0)

\* uninstallExactService removes plist and socket, the runtime tree with its lease file
\* and the helper tree, then looks for what is left.  The runtime tree stays when the
\* service was not confirmed forgotten.
RemovePaths(o) ==
  /\ pc[o] = "paths"
  /\ at[o] = Primary
  /\ package' \in {package, "partial", "absent"}
  /\ \E keep \in BOOLEAN :
       /\ ~forgot[o] => keep
       /\ saved' = [saved EXCEPT ![Primary] = @ /\ keep]
       /\ lease' = IF keep \/ running[Primary] THEN lease ELSE [lease EXCEPT ![Primary] = NoLease]
       /\ failed' = [failed EXCEPT ![o] = @ \/ keep \/ package' # "absent"]
  /\ NextService(o)
  /\ UNCHANGED <<loaded, running, tunnel, issued, cover, mine, rpcVars, job, todo, at, guard, forgot>>

\* A legacy service has a plist and a socket, which may be left behind.
RemoveLegacyPaths(o) ==
  /\ pc[o] = "paths"
  /\ at[o] # Primary
  /\ \E left \in BOOLEAN : failed' = [failed EXCEPT ![o] = @ \/ left]
  /\ NextService(o)
  /\ UNCHANGED <<serviceVars, leaseVars, rpcVars, job, todo, at, guard, forgot>>

-----------------------------------------------------------------------------
(* Bootstrap and releaseReplacement *)

\* Mutant: a late failure is reported like an early one.
WarnPlainly(o) == Report(o, "failed", 0)

\* How a failure after the primary service was forgotten is reported.
Warn(o) ==
  IF Held(o, Primary) THEN Report(o, "warned", guard[o][Primary].left) ELSE Report(o, "unverified", 0)

Bootstrap(o) ==
  /\ pc[o] = "enable"
  /\ loaded' = [loaded EXCEPT ![Primary] = TRUE]
  /\ Goto(o, "ready")
  /\ UNCHANGED <<running, tunnel, package, leaseVars, rpcVars, flowVars>>

\* launchctl enable or bootstrap fails: without a lease it is a plain error.
BootstrapFails(o) ==
  /\ pc[o] = "enable"
  /\ IF Held(o, Primary) THEN Warn(o) ELSE Report(o, "failed", 0)
  /\ UNCHANGED <<serviceVars, leaseVars, rpcVars, job, todo, at, guard, forgot, failed>>

\* The daemon answers a ping within maintenanceReadyTimeout.
Ready(o) ==
  /\ pc[o] = "ready"
  /\ running[Primary]
  /\ Goto(o, IF Held(o, Primary) THEN "undrain" ELSE "status")
  /\ UNCHANGED <<serviceVars, leaseVars, rpcVars, flowVars>>

\* It does not, or the final ping fails.
PingFails(o) ==
  /\ pc[o] \in {"ready", "status"}
  /\ Warn(o)
  /\ UNCHANGED <<serviceVars, leaseVars, rpcVars, job, todo, at, guard, forgot, failed>>

Undrain(o) ==
  /\ pc[o] = "undrain"
  /\ Call(o, Primary, "undrain", guard[o][Primary].token)
  /\ Goto(o, "undrain?")
  /\ UNCHANGED <<serviceVars, leaseVars, flowVars>>

Undrained(o) ==
  /\ pc[o] = "undrain?"
  /\ reply[o].kind # "none"
  /\ reply' = [reply EXCEPT ![o] = Waiting]
  /\ IF reply[o].kind = "ok"
     THEN /\ guard' = [guard EXCEPT ![o][Primary] = NoLease]
          /\ Goto(o, "status")
          /\ UNCHANGED result
     ELSE Warn(o) /\ UNCHANGED guard
  /\ UNCHANGED <<serviceVars, leaseVars, inbox, job, todo, at, forgot, failed>>

\* The final ping reports the drain in force, if any.
Status(o) ==
  /\ pc[o] = "status"
  /\ running[Primary]
  /\ IF Live(Primary) THEN Report(o, "blocked", lease[Primary].left) ELSE Report(o, "installed", 0)
  /\ UNCHANGED <<serviceVars, leaseVars, rpcVars, job, todo, at, guard, forgot, failed>>

-----------------------------------------------------------------------------
(* maintenanceGuard.release, deferred *)

\* A primary lease that outlived the bootout of its daemon is not rolled back.
ToRelease(o) == {l \in Label : Held(o, l) /\ ~(l = Primary /\ Replaces(o) /\ forgot[o])}

\* Mutant: a lease stays in the guard until its release succeeds.
ReleaseAgain(o) ==
  /\ pc[o] = "release"
  /\ \E l \in ToRelease(o) : Call(o, l, "undrain", guard[o][l].token)
  /\ Goto(o, "release?")
  /\ UNCHANGED <<serviceVars, leaseVars, flowVars>>

ReleaseNext(o) ==
  /\ pc[o] = "release"
  /\ \E l \in ToRelease(o) :
       /\ Call(o, l, "undrain", guard[o][l].token)
       /\ guard' = [guard EXCEPT ![o][l] = NoLease]
  /\ Goto(o, "release?")
  /\ UNCHANGED <<serviceVars, leaseVars, job, todo, at, forgot, failed, result>>

\* Whatever the answer is.
Released(o) ==
  /\ pc[o] = "release?"
  /\ reply[o].kind # "none"
  /\ reply' = [reply EXCEPT ![o] = Waiting]
  /\ Goto(o, "release")
  /\ UNCHANGED <<serviceVars, leaseVars, inbox, flowVars>>

End(o) ==
  /\ pc[o] = "release"
  /\ ToRelease(o) = {}
  /\ guard' = [guard EXCEPT ![o] = [l \in Label |-> NoLease]]
  /\ Goto(o, "done")
  /\ UNCHANGED <<serviceVars, leaseVars, rpcVars, job, todo, at, forgot, failed, result>>

-----------------------------------------------------------------------------
OperatorStep(o) ==
  \/ DrainNext(o) \/ Drained(o) \/ Authenticate(o) \/ SudoRefused(o) \/ CopyFiles(o) \/ Verify(o)
  \/ ProbeNext(o) \/ ParentRefused(o) \/ Probed(o) \/ Renew(o) \/ Renewed(o) \/ Bootout(o)
  \/ RemovePaths(o) \/ RemoveLegacyPaths(o)
  \/ Bootstrap(o) \/ BootstrapFails(o) \/ Ready(o) \/ PingFails(o) \/ Undrain(o) \/ Undrained(o) \/ Status(o)
  \/ ReleaseNext(o) \/ Released(o) \/ End(o)

Serve(m) == ServeDrain(m) \/ ServeRenew(m) \/ ServeUndrain(m) \/ ServeError(m)

Next ==
  \/ \E o \in Operator : Begin(o) \/ OperatorStep(o)
  \/ \E m \in inbox : Serve(m) \/ TimeOut(m)
  \/ \E l \in Label : Restart(l) \/ Crash(l) \/ StartTunnel(l) \/ StopTunnel(l)
  \/ Tick

Spec == Init /\ [][Next]_vars

-----------------------------------------------------------------------------
(* Properties *)

\* Every variable has its type.
TypeOK ==
  /\ loaded \in [Label -> BOOLEAN] /\ running \in [Label -> BOOLEAN]
  /\ tunnel \in [Label -> BOOLEAN] /\ saved \in [Label -> BOOLEAN]
  /\ lease \in [Label -> Lease]
  /\ issued \subseteq Token
  /\ package \in {"absent", "partial", "installed"}
  /\ inbox \subseteq Message
  /\ pc \in [Operator -> Step]
  /\ job \in [Operator -> Job]
  /\ todo \in [Operator -> SUBSET Label] /\ at \in [Operator -> Label]
  /\ guard \in [Operator -> [Label -> Lease]]
  /\ reply \in [Operator -> Answer]
  /\ forgot \in [Operator -> BOOLEAN] /\ failed \in [Operator -> BOOLEAN]
  /\ result \in [Operator -> Outcome]
  /\ cover \in [Operator -> Lease] /\ mine \in [Operator -> SUBSET Token]

\* The lease that beforeBootout renewed for the service at hand has run out since.
Lapsed(o) == cover[o].token = guard[o][at[o]].token /\ cover[o].left = 0

\* A bootout ends tunnels only where the documentation says so: with --allow-disruption,
\* when the daemon's socket was unavailable at the final probe, or when the bootout began
\* more than the lease time after the daemon had served the renewal.  With three operators
\* there is one more case: an uninstall with --allow-disruption removes the runtime
\* directory, and with it the lease file, under a daemon that another has started anew.
BootoutSparesTunnels ==
  [][ \A o \in Operator :
        (pc[o] = "bootout" /\ pc'[o] # "bootout" /\ tunnel[at[o]] /\ ~tunnel'[at[o]]) =>
           job[o].override \/ ~Held(o, at[o]) \/ Lapsed(o) ]_vars

\* When the primary service was replaced and a lease of this installer is still in force,
\* the installer said so, with an expiry no earlier than the lease's: tunnel starts are
\* never blocked behind a report of success or a plain failure.
HonestReport ==
  \A o \in Operator :
    (/\ pc[o] = "done" /\ Replaces(o) /\ forgot[o]
     /\ Live(Primary) /\ lease[Primary].token \in mine[o]) =>
       result[o].kind = "warned" /\ result[o].left >= lease[Primary].left

\* The lease as MaintenanceLease sees it.
Holder == IF Live(Primary) THEN lease[Primary].token ELSE None
Spent  == {t \in issued : ~(Live(Primary) /\ lease[Primary].token = t)}

Abstract == INSTANCE MaintenanceLease WITH
  holder <- Holder,
  busy   <- tunnel[Primary],
  spent  <- Spent

\* The primary daemon, as installers see it, keeps the promise that VpnCoreDaemon
\* implements, also while its files, its runtime directory and its launchd job are
\* replaced under it.
PrimaryImplementsLease == Abstract!Spec

-----------------------------------------------------------------------------
(* Liveness *)

\* An operator's process runs, a call ends by its deadline, and launchd keeps loaded
\* services alive.
Fairness ==
  /\ \A o \in Operator : WF_vars(OperatorStep(o))
  /\ WF_vars(\E m \in inbox : m.from # None /\ (Serve(m) \/ TimeOut(m)))

LiveSpec == Spec /\ Fairness

\* Every install and uninstall ends with a report, whatever the daemons do.
OperationsEnd == \A o \in Operator : pc[o] # "idle" ~> (pc[o] = "done" /\ result[o].kind # "none")

=============================================================================
