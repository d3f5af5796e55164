------------------------- MODULE AndroidTunnelProofs -------------------------
(***************************************************************************)
(* Proofs about AndroidTunnel, for any number of coroutines, command        *)
(* servers and connect requests.                                            *)
(***************************************************************************)
EXTENDS AndroidTunnel, TLAPS

\* A service that was never started is idle, and the binder is that of a running one.
LinkInv ==
  /\ service = "none" => JobsDone /\ ~tun /\ phase = "Disconnected"
  /\ binder => service = "running"

\* The call that starts sing-box is made on a command server.
ServerInv == \A j \in Job : job[j].at = "service" => job[j].srv # None

IInv == TypeOK /\ ServerInv /\ LinkInv /\ TunPublished /\ NeverStuck

JobType == [Job -> [at : Stages, srv : Server \cup {None}]]

\* What a coroutine does to its own record.
LEMMA JobRecord ==
  ASSUME NEW S, NEW r \in [at : Stages, srv : S], NEW a \in Stages
  PROVE  [r EXCEPT !.at = a] = [at |-> a, srv |-> r.srv]
OBVIOUS

\* A coroutine that goes on to another call.
LEMMA AtMoves ==
  ASSUME job \in JobType, NEW j \in Job, NEW a \in Stages, At(j, a)
  PROVE  /\ job' \in JobType /\ job'[j] = [at |-> a, srv |-> job[j].srv]
         /\ job'[j].at = a /\ job'[j].srv = job[j].srv
         /\ \A i \in Job : i # j => job'[i] = job[i]
<1>1. [job[j] EXCEPT !.at = a] = [at |-> a, srv |-> job[j].srv]
  BY JobRecord DEF JobType
<1>2. job' = [job EXCEPT ![j] = [at |-> a, srv |-> job[j].srv]]
  BY <1>1 DEF At
<1>3. [at |-> a, srv |-> job[j].srv] \in [at : Stages, srv : Server \cup {None}]
  BY DEF JobType
<1> QED
  BY <1>2, <1>3 DEF JobType

\* A coroutine that has ended.
LEMMA FreeMoves ==
  ASSUME job \in JobType, NEW j \in Job, Free(j)
  PROVE  /\ job' \in JobType /\ job'[j].at = "free"
         /\ \A i \in Job : i # j => job'[i] = job[i]
<1>1. [at |-> "free", srv |-> None] \in [at : Stages, srv : Server \cup {None}]
  BY DEF Stages
<1> QED
  BY <1>1 DEF Free, JobType

\* What startTunnel and stopTunnel do to the service.
LEMMA StartMoves ==
  ASSUME TypeOK, NEW b \in Engine, StartTunnel(b)
  PROVE  \/ UNCHANGED <<phase, backend, job>>
         \/ /\ phase \notin {"Connecting", "Connected"} /\ phase' = "Connecting" /\ backend' = b
            /\ job' \in JobType
            /\ \E j \in Job : /\ Idle(j) /\ job'[j].at = (IF b = "xray" THEN "stopold" ELSE "prepare")
                              /\ \A i \in Job : i # j => job'[i] = job[i]
<1>1. job \in JobType
  BY DEF TypeOK, JobType
<1>2. {"stopold", "prepare"} \subseteq Stages
  BY DEF Stages
<1>3. CASE phase \notin {"Connecting", "Connected"}
  <2>1. PICK j \in Job : Idle(j) /\ At(j, IF b = "xray" THEN "stopold" ELSE "prepare")
    BY <1>3 DEF StartTunnel
  <2>2. /\ job' \in JobType /\ job'[j].at = (IF b = "xray" THEN "stopold" ELSE "prepare")
        /\ \A i \in Job : i # j => job'[i] = job[i]
    BY <1>1, <1>2, <2>1, AtMoves
  <2> QED
    BY <1>3, <2>1, <2>2 DEF StartTunnel
<1> QED
  BY <1>3 DEF StartTunnel

\* The same of stopTunnel.
LEMMA StopMoves ==
  ASSUME TypeOK, StopTunnel
  PROVE  \/ UNCHANGED <<phase, job>>
         \/ /\ phase \notin {"Disconnected", "Disconnecting"} /\ phase' = "Disconnecting"
            /\ job' \in JobType
            /\ \E j \in Job : /\ Idle(j) /\ job'[j].at = (IF backend = "xray" THEN "stopxray" ELSE "closebox")
                              /\ \A i \in Job : i # j => job'[i] = job[i]
<1>1. job \in JobType
  BY DEF TypeOK, JobType
<1>2. {"stopxray", "closebox"} \subseteq Stages
  BY DEF Stages
<1>3. CASE phase \notin {"Disconnected", "Disconnecting"}
  <2>1. PICK j \in Job : Idle(j) /\ At(j, IF backend = "xray" THEN "stopxray" ELSE "closebox")
    BY <1>3 DEF StopTunnel
  <2>2. /\ job' \in JobType /\ job'[j].at = (IF backend = "xray" THEN "stopxray" ELSE "closebox")
        /\ \A i \in Job : i # j => job'[i] = job[i]
    BY <1>1, <1>2, <2>1, AtMoves
  <2> QED
    BY <1>3, <2>1, <2>2 DEF StopTunnel
<1> QED
  BY <1>3 DEF StopTunnel
\* A call of a runtime, on an IO thread.
RuntimeStep(j) ==
  \/ Prepare(j) \/ EnsureCommandServer(j) \/ StartOrReloadService(j)
  \/ WaitForTunOpen(j) \/ StartFails(j)
  \/ CloseService(j) \/ CloseCommandServer(j) \/ StopClosesTun(j)
  \/ StopOldXray(j) \/ OpenTun(j) \/ RunXray(j) \/ XrayFails(j)
  \/ StopXray(j) \/ StopXrayClosesTun(j)

\* It changes the runtime and the coroutine that makes it, which goes on.
LEMMA RuntimeMoves ==
  ASSUME AndroidAssumption, TypeOK, ServerInv, NEW j \in Job, RuntimeStep(j)
  PROVE  /\ UNCHANGED <<ui, link, phase, backend, wish>>
         /\ job[j].at # "free" /\ job' \in JobType /\ job'[j].at # "free"
         /\ job'[j].at = "service" => job'[j].srv # None
         /\ \A i \in Job : i # j => job'[i] = job[i]
         /\ tun' \in BOOLEAN /\ tunOpened' \in BOOLEAN /\ xray' \in BOOLEAN
         /\ server' \in Server \cup {None} /\ boxes' \subseteq Server
<1>1. /\ job \in JobType /\ tun \in BOOLEAN /\ tunOpened \in BOOLEAN /\ xray \in BOOLEAN
      /\ server \in Server \cup {None} /\ boxes \subseteq Server
  BY DEF TypeOK, JobType
<1>2. \A a \in Stages : At(j, a) => /\ job' \in JobType /\ job'[j].at = a
                                     /\ \A i \in Job : i # j => job'[i] = job[i]
  BY <1>1, AtMoves
<1>3. /\ {"server", "fail", "wait", "connected", "error", "closeserver", "closetun", "ended", "tun",
          "run", "failxray", "closexraytun", "service"} \subseteq Stages
      /\ "free" \notin {"server", "fail", "wait", "connected", "error", "closeserver", "closetun", "ended",
          "tun", "run", "failxray", "closexraytun", "service"}
  BY DEF Stages
<1>4. UNCHANGED <<ui, link, phase, backend, wish>> /\ job[j].at # "free"
  BY DEF RuntimeStep, Prepare, EnsureCommandServer, StartOrReloadService, WaitForTunOpen, StartFails,
     CloseService, CloseCommandServer, StopClosesTun, StopOldXray, OpenTun, RunXray, XrayFails, StopXray,
     StopXrayClosesTun
<1> HIDE DEF At
<1>5. CASE EnsureCommandServer(j)
  <2>1. CASE \E s \in Server : job' = [job EXCEPT ![j] = [at |-> "service", srv |-> s]]
    <3>1. PICK s \in Server : job' = [job EXCEPT ![j] = [at |-> "service", srv |-> s]]
      BY <2>1
    <3>2. [at |-> "service", srv |-> s] \in [at : Stages, srv : Server \cup {None}]
      BY <1>3
    <3>3. /\ job' \in JobType /\ job'[j].at = "service" /\ job'[j].srv # None
          /\ \A i \in Job : i # j => job'[i] = job[i]
      BY <1>1, <3>1, <3>2 DEF JobType, AndroidAssumption
    <3> QED
      BY <1>1, <1>4, <1>5, <3>3 DEF EnsureCommandServer
  <2>2. CASE At(j, "fail") /\ UNCHANGED server
    BY <1>1, <1>2, <1>3, <1>4, <1>5, <2>2 DEF EnsureCommandServer
  <2>3. server' \in Server \cup {None}
    BY <1>1, <1>5 DEF EnsureCommandServer
  <2> QED
    BY <1>1, <1>5, <2>1, <2>2, <2>3 DEF EnsureCommandServer
<1>6. CASE StartOrReloadService(j)
  <2>1. At(j, "wait") \/ At(j, "fail")
    BY <1>6 DEF StartOrReloadService
  <2>2. job[j].srv \in Server
    BY <1>1, <1>6 DEF StartOrReloadService, ServerInv, JobType
  <2>3. boxes' \subseteq Server /\ tun' \in BOOLEAN /\ tunOpened' \in BOOLEAN
    BY <1>1, <1>6, <2>2 DEF StartOrReloadService
  <2> QED
    BY <1>1, <1>2, <1>3, <1>4, <1>6, <2>1, <2>3 DEF StartOrReloadService
<1>7. CASE Prepare(j)
  BY <1>1, <1>2, <1>3, <1>4, <1>7 DEF Prepare
<1>8. CASE WaitForTunOpen(j)
  BY <1>1, <1>2, <1>3, <1>4, <1>8 DEF WaitForTunOpen
<1>9. CASE StartFails(j)
  BY <1>1, <1>2, <1>3, <1>4, <1>9 DEF StartFails
<1>10. CASE CloseService(j)
  BY <1>1, <1>2, <1>3, <1>4, <1>10 DEF CloseService
<1>11. CASE CloseCommandServer(j)
  BY <1>1, <1>2, <1>3, <1>4, <1>11 DEF CloseCommandServer
<1>12. CASE StopClosesTun(j)
  BY <1>1, <1>2, <1>3, <1>4, <1>12 DEF StopClosesTun
<1>13. CASE StopOldXray(j)
  BY <1>1, <1>2, <1>3, <1>4, <1>13 DEF StopOldXray
<1>14. CASE OpenTun(j)
  BY <1>1, <1>2, <1>3, <1>4, <1>14 DEF OpenTun
<1>15. CASE RunXray(j)
  BY <1>1, <1>2, <1>3, <1>4, <1>15 DEF RunXray
<1>16. CASE XrayFails(j)
  BY <1>1, <1>2, <1>3, <1>4, <1>16 DEF XrayFails
<1>17. CASE StopXray(j)
  BY <1>1, <1>2, <1>3, <1>4, <1>17 DEF StopXray
<1>18. CASE StopXrayClosesTun(j)
  BY <1>1, <1>2, <1>3, <1>4, <1>18 DEF StopXrayClosesTun
<1> QED
  BY <1>5, <1>6, <1>7, <1>8, <1>9, <1>10, <1>11, <1>12, <1>13, <1>14, <1>15, <1>16, <1>17, <1>18
  DEF RuntimeStep
\* A start or a stop that begins gives a free coroutine its first call.
Begins ==
  /\ phase' \in {"Connecting", "Disconnecting"} /\ service = "running"
  /\ job' \in JobType /\ backend' \in Engine \cup {None}
  /\ \E j \in Job : /\ Idle(j) /\ job'[j].at \in {"prepare", "stopold", "closebox", "stopxray"}
                    /\ \A i \in Job : i # j => job'[i] = job[i]

\* What the screen and the connector do to the service: nothing, or they begin a start or a
\* stop, or they start the service.
LEMMA ScreenMoves ==
  ASSUME IInv,
         \/ \E b \in Engine : ClickConnect(b) \/ Resolve(b)
         \/ ClickDisconnect \/ Consent \/ ServiceConnected \/ SyncRuntime \/ Relaunch
  PROVE  /\ rt' = rt
         /\ UNCHANGED <<phase, backend, job>> \/ Begins
         /\ service' = service \/ (service # "destroyed" /\ service' = "running")
         /\ binder' => service' = "running"
<1>1. TypeOK /\ (binder => service = "running")
  BY DEF IInv, LinkInv
<1>2. ASSUME NEW b \in Engine, StartTunnel(b), service = "running"
      PROVE  UNCHANGED <<phase, backend, job>> \/ Begins
  BY <1>1, <1>2, StartMoves DEF Begins
<1>3. ASSUME NEW b \in Engine, Forward(b)
      PROVE  UNCHANGED <<phase, backend, job>> \/ Begins
  BY <1>1, <1>2, <1>3 DEF Forward
<1>4. ASSUME NEW b \in Engine, ClickConnect(b)
      PROVE  rt' = rt /\ UNCHANGED <<phase, backend, job, service, binder>>
  BY <1>4 DEF ClickConnect, link, rt
<1>5. ASSUME NEW b \in Engine, Resolve(b)
      PROVE  /\ rt' = rt /\ (UNCHANGED <<phase, backend, job>> \/ Begins) /\ binder' = binder
             /\ service' = service \/ (service # "destroyed" /\ service' = "running")
  <2>1. UNCHANGED <<phase, backend, job>> \/ Begins
    BY <1>3, <1>5 DEF Resolve
  <2> QED
    BY <1>5, <2>1 DEF Resolve, Forward, rt
<1>6. CASE Consent
  <2>1. consent \in Engine
    BY <1>1, <1>6 DEF Consent, TypeOK
  <2>2. UNCHANGED <<phase, backend, job>> \/ Begins
    BY <1>3, <1>6, <2>1 DEF Consent
  <2> QED
    BY <1>1, <1>6, <2>2 DEF Consent, Forward, rt
<1>7. CASE ServiceConnected
  <2>1. UNCHANGED <<phase, backend, job>> \/ Begins
    <3>1. queue \subseteq Engine
      BY <1>1 DEF TypeOK
    <3>2. CASE queue = {}
      BY <1>7, <3>2 DEF ServiceConnected
    <3>3. CASE queue # {}
      BY <1>2, <1>7, <3>1, <3>3 DEF ServiceConnected
    <3> QED
      BY <3>2, <3>3
  <2> QED
    BY <1>7, <2>1 DEF ServiceConnected, rt
<1>8. CASE ClickDisconnect
  <2>1. StopTunnel /\ binder /\ rt' = rt /\ backend' = backend /\ service' = service /\ binder' = binder
    BY <1>8 DEF ClickDisconnect, link, rt
  <2>2. backend \in Engine \cup {None}
    BY <1>1 DEF TypeOK
  <2> QED
    BY <1>1, <2>1, <2>2, StopMoves DEF Begins
<1>9. CASE SyncRuntime \/ Relaunch
  BY <1>1, <1>9 DEF SyncRuntime, Relaunch, link, rt
<1> QED
  BY <1>1, <1>4, <1>5, <1>6, <1>7, <1>8, <1>9

\* The screen keeps its own types.
LEMMA ScreenType ==
  ASSUME TypeOK,
         \/ \E b \in Engine : ClickConnect(b) \/ Resolve(b)
         \/ ClickDisconnect \/ Consent \/ ServiceConnected \/ SyncRuntime \/ Relaunch
  PROVE  /\ shown' \in Phases /\ synced' \in Phases
         /\ pending' \subseteq Engine /\ queue' \subseteq Engine /\ consent' \in Engine \cup {None}
         /\ conn' \in {"none", "weak", "strong"} /\ binder' \in BOOLEAN /\ granted' \in BOOLEAN
         /\ service' \in {"none", "running", "destroyed"} /\ stopped' \in BOOLEAN
         /\ wish' \in {"none", "up", "down"}
<1>1. /\ shown \in Phases /\ synced \in Phases /\ phase \in Phases
      /\ pending \subseteq Engine /\ queue \subseteq Engine /\ consent \in Engine \cup {None}
      /\ conn \in {"none", "weak", "strong"} /\ binder \in BOOLEAN /\ granted \in BOOLEAN
      /\ service \in {"none", "running", "destroyed"} /\ stopped \in BOOLEAN
      /\ wish \in {"none", "up", "down"}
  BY DEF TypeOK
<1>2. {"Error", "PermissionRequired", "Disconnected"} \subseteq Phases
  BY DEF Phases
<1>3. ASSUME NEW b \in Engine, Forward(b)
      PROVE  /\ shown' \in Phases /\ queue' \subseteq Engine /\ conn' \in {"none", "weak", "strong"}
             /\ service' \in {"none", "running", "destroyed"} /\ stopped' \in BOOLEAN
  BY <1>1, <1>2, <1>3 DEF Forward
<1>4. ASSUME NEW b \in Engine, ClickConnect(b) \/ Resolve(b)
      PROVE  /\ shown' \in Phases /\ synced' \in Phases
             /\ pending' \subseteq Engine /\ queue' \subseteq Engine /\ consent' \in Engine \cup {None}
             /\ conn' \in {"none", "weak", "strong"} /\ binder' \in BOOLEAN /\ granted' \in BOOLEAN
             /\ service' \in {"none", "running", "destroyed"} /\ stopped' \in BOOLEAN
             /\ wish' \in {"none", "up", "down"}
  <2>1. CASE ClickConnect(b)
    BY <1>1, <2>1 DEF ClickConnect, link
  <2>2. CASE Resolve(b)
    <3>1. /\ UNCHANGED <<synced, binder, granted, wish>>
          /\ pending' \subseteq Engine /\ consent' \in Engine \cup {None}
      BY <1>1, <2>2 DEF Resolve
    <3>2. /\ shown' \in Phases /\ queue' \subseteq Engine /\ conn' \in {"none", "weak", "strong"}
          /\ service' \in {"none", "running", "destroyed"} /\ stopped' \in BOOLEAN
      BY <1>1, <1>2, <1>3, <2>2 DEF Resolve
    <3> QED
      BY <1>1, <3>1, <3>2
  <2> QED
    BY <1>4, <2>1, <2>2
<1>5. CASE Consent
  <2>1. consent \in Engine
    BY <1>1, <1>5 DEF Consent
  <2>2. /\ shown' \in Phases /\ queue' \subseteq Engine /\ conn' \in {"none", "weak", "strong"}
        /\ service' \in {"none", "running", "destroyed"} /\ stopped' \in BOOLEAN
    BY <1>1, <1>2, <1>3, <1>5, <2>1 DEF Consent
  <2>3. /\ UNCHANGED <<synced, pending, binder, wish>> /\ consent' = None /\ granted' \in BOOLEAN
    BY <1>1, <1>5 DEF Consent
  <2> QED
    BY <1>1, <2>2, <2>3
<1>6. CASE ClickDisconnect
  BY <1>1, <1>6 DEF ClickDisconnect, ui, link
<1>7. CASE ServiceConnected \/ SyncRuntime \/ Relaunch
  BY <1>1, <1>2, <1>7 DEF ServiceConnected, SyncRuntime, Relaunch, link
<1> QED
  BY <1>4, <1>5, <1>6, <1>7
\* The two ends of a coroutine, on the main thread.
LEMMA EndMoves ==
  ASSUME TypeOK, NEW j \in Job, StartEnds(j) \/ StopEnds(j)
  PROVE  /\ job' \in JobType /\ job[j].at # "free" /\ job'[j].at = "free"
         /\ \A i \in Job : i # j => job'[i] = job[i]
         /\ UNCHANGED <<ui, conn, binder, granted, service, tunOpened, server, boxes, xray, wish>>
         /\ service # "running" => UNCHANGED <<phase, backend, tun, stopped>>
         /\ service = "running" => /\ phase' \in {"Connected", "Error", "Disconnected"}
                                   /\ tun' => phase' = "Connected"
         /\ phase' \in Phases \ {"PermissionRequired"} /\ backend' \in {backend, None}
         /\ tun' \in BOOLEAN /\ stopped' \in BOOLEAN
<1>1. /\ job \in JobType /\ phase \in Phases \ {"PermissionRequired"}
      /\ tun \in BOOLEAN /\ stopped \in BOOLEAN
  BY DEF TypeOK, JobType
<1>2. {"Connected", "Error", "Disconnected"} \subseteq Phases
  BY DEF Phases
<1>3. Free(j) /\ job[j].at # "free"
  BY DEF StartEnds, StopEnds
<1>4. job' \in JobType /\ job'[j].at = "free" /\ \A i \in Job : i # j => job'[i] = job[i]
  BY <1>1, <1>3, FreeMoves
<1>5. CASE StartEnds(j)
  BY <1>1, <1>2, <1>3, <1>4, <1>5 DEF StartEnds, link
<1>6. CASE StopEnds(j)
  BY <1>1, <1>2, <1>3, <1>4, <1>6 DEF StopEnds
<1> QED
  BY <1>5, <1>6

\* Every step keeps the types, and starts sing-box on a command server.
LEMMA TypeStep ==
  ASSUME AndroidAssumption, IInv, [Next]_vars
  PROVE  TypeOK' /\ ServerInv'
<1>0. TypeOK /\ ServerInv
  BY DEF IInv
<1>1. ASSUME NEW j \in Job, RuntimeStep(j)
      PROVE  TypeOK' /\ ServerInv'
  <2>1. UNCHANGED <<shown, synced, pending, consent, queue, conn, binder, granted, service, stopped>>
    BY <1>0, <1>1, RuntimeMoves DEF ui, link
  <2>2. TypeOK'
    BY <1>0, <1>1, <2>1, RuntimeMoves DEF TypeOK, JobType
  <2> QED
    BY <1>0, <1>1, <2>2, RuntimeMoves DEF ServerInv
<1>2. ASSUME NEW j \in Job, StartEnds(j) \/ StopEnds(j)
      PROVE  TypeOK' /\ ServerInv'
  <2>1. UNCHANGED <<shown, synced, pending, consent, queue>>
    BY <1>0, <1>2, EndMoves DEF ui
  <2>2. TypeOK'
    BY <1>0, <1>2, <2>1, EndMoves DEF TypeOK, JobType
  <2> QED
    BY <1>0, <1>2, <2>2, EndMoves DEF ServerInv
<1>3. CASE \/ \E b \in Engine : ClickConnect(b) \/ Resolve(b)
           \/ ClickDisconnect \/ Consent \/ ServiceConnected \/ SyncRuntime \/ Relaunch
  <2>1. /\ tun' = tun /\ tunOpened' = tunOpened /\ server' = server /\ boxes' = boxes /\ xray' = xray
        /\ UNCHANGED <<phase, backend, job>> \/ Begins
    BY <1>3, ScreenMoves DEF rt
  <2>2. {"Connecting", "Disconnecting"} \subseteq Phases \ {"PermissionRequired"}
    BY DEF Phases
  <2>3. /\ job' \in JobType /\ phase' \in Phases \ {"PermissionRequired"} /\ backend' \in Engine \cup {None}
        /\ ServerInv'
    BY <1>0, <2>1, <2>2 DEF Begins, TypeOK, JobType, ServerInv
  <2> QED
    BY <1>0, <1>3, <2>1, <2>3, ScreenType DEF TypeOK, JobType
<1>4. CASE Revoke \/ Destroy
  <2>1. "Disconnected" \in Phases \ {"PermissionRequired"}
    BY DEF Phases
  <2>2. CASE Revoke
    <3>1. /\ tun' \in BOOLEAN /\ stopped' \in BOOLEAN /\ phase' \in Phases \ {"PermissionRequired"}
          /\ granted' \in BOOLEAN
      BY <1>0, <2>1, <2>2 DEF Revoke, TypeOK
    <3>2. UNCHANGED <<shown, synced, pending, consent, queue, conn, binder, service, backend, tunOpened,
                      server, boxes, xray, job, wish>>
      BY <2>2 DEF Revoke, ui
    <3> QED
      BY <1>0, <3>1, <3>2 DEF TypeOK, ServerInv
  <2>3. CASE Destroy
    BY <1>0, <2>1, <2>3 DEF Destroy, TypeOK, ServerInv, ui, rt
  <2> QED
    BY <1>4, <2>2, <2>3
<1>5. CASE UNCHANGED vars
  BY <1>0, <1>5 DEF vars, ui, link, rt, TypeOK, ServerInv
<1> QED
  BY <1>1, <1>2, <1>3, <1>4, <1>5 DEF Next, Step, RuntimeStep

\* Every step keeps what the service publishes true to its coroutines and its tun interface.
LEMMA PublishStep ==
  ASSUME AndroidAssumption, IInv, [Next]_vars
  PROVE  LinkInv' /\ TunPublished' /\ NeverStuck'
<1> USE DEF IInv, LinkInv, TunPublished, NeverStuck, JobsDone, Idle
<1>1. ASSUME NEW j \in Job, RuntimeStep(j)
      PROVE  LinkInv' /\ TunPublished' /\ NeverStuck'
  BY <1>1, RuntimeMoves DEF link
<1>2. ASSUME NEW j \in Job, StartEnds(j) \/ StopEnds(j)
      PROVE  LinkInv' /\ TunPublished' /\ NeverStuck'
  BY <1>2, EndMoves
<1>3. CASE \/ \E b \in Engine : ClickConnect(b) \/ Resolve(b)
           \/ ClickDisconnect \/ Consent \/ ServiceConnected \/ SyncRuntime \/ Relaunch
  <2>1. /\ UNCHANGED <<phase, backend, job>> \/ Begins
        /\ service' = service \/ (service # "destroyed" /\ service' = "running")
        /\ binder' => service' = "running"
    BY <1>3, ScreenMoves DEF rt
  <2>2. tun' = tun
    BY <1>3, ScreenMoves DEF rt
  <2>3. CASE UNCHANGED <<phase, backend, job>>
    BY <2>1, <2>2, <2>3 DEF TypeOK
  <2>4. CASE Begins
    BY <2>1, <2>2, <2>4 DEF Begins
  <2> QED
    BY <2>1, <2>3, <2>4
<1>4. CASE Revoke
  BY <1>4 DEF Revoke
<1>5. CASE Destroy
  BY <1>5 DEF Destroy, rt
<1>6. CASE UNCHANGED vars
  BY <1>6 DEF vars, link, rt
<1> QED
  BY <1>1, <1>2, <1>3, <1>4, <1>5, <1>6 DEF Next, Step, RuntimeStep

\* The invariant that the theorems below rest on.
THEOREM InvariantHolds == ASSUME AndroidAssumption PROVE Spec => []IInv
<1>1. Init => IInv
  <2> SUFFICES ASSUME Init PROVE IInv
    OBVIOUS
  <2>1. [at |-> "free", srv |-> None] \in [at : Stages, srv : Server \cup {None}]
    BY DEF Stages
  <2>2. TypeOK
    BY <2>1 DEF Init, TypeOK, Phases
  <2> QED
    BY <2>2 DEF Init, IInv, ServerInv, LinkInv, TunPublished, NeverStuck, JobsDone, Idle
<1>2. IInv /\ [Next]_vars => IInv'
  BY TypeStep, PublishStep DEF IInv
<1> QED
  BY <1>1, <1>2, PTL DEF Spec
-----------------------------------------------------------------------------
(* A user who waits, without another VPN application.                      *)

\* The tunnel is up: the tun interface is open and the engine of the session runs.
Up == tun /\ IF backend = "xray" THEN xray ELSE server \in boxes

\* One thing is under way at a time: a request, or a coroutine.
SoloInv ==
  /\ \A i, j \in Job : ~Idle(i) /\ ~Idle(j) => i = j
  /\ ~JobsDone => pending = {} /\ queue = {} /\ consent = None
  /\ \A a, b \in pending : a = b
  /\ pending # {} => queue = {} /\ consent = None
  /\ queue # {} => consent = None
  /\ phase = "Connected" => JobsDone

\* What a start has achieved before each of its calls.
StartInv ==
  \A j \in Job :
    /\ job[j].at \in {"prepare", "server", "service", "wait"} => backend # "xray"
    /\ job[j].at \in {"stopold", "tun", "run"} => backend = "xray"
    /\ job[j].at \in {"server", "service"} => ~tunOpened
    /\ job[j].at \in {"service", "wait"} => job[j].srv = server
    /\ job[j].at = "wait" => server \in boxes /\ (tunOpened => tun)
    /\ job[j].at = "run" => tun
    /\ job[j].at = "connected" => Up

PatientInv == SoloInv /\ StartInv /\ ConnectedMeansUp

\* A call of a runtime takes the start one call further.
LEMMA StartCalls ==
  ASSUME AndroidAssumption, IInv, PatientInv, NEW j \in Job, RuntimeStep(j)
  PROVE  StartInv'
<1> DEFINE S(i) ==
      /\ job[i].at \in {"prepare", "server", "service", "wait"} => backend # "xray"
      /\ job[i].at \in {"stopold", "tun", "run"} => backend = "xray"
      /\ job[i].at \in {"server", "service"} => ~tunOpened
      /\ job[i].at \in {"service", "wait"} => job[i].srv = server
      /\ job[i].at = "wait" => server \in boxes /\ (tunOpened => tun)
      /\ job[i].at = "run" => tun
      /\ job[i].at = "connected" => Up
<1>1. S(j) /\ job \in JobType
  BY DEF PatientInv, StartInv, IInv, TypeOK, JobType
<1>2. /\ backend' = backend /\ job[j].at # "free"
      /\ \A i \in Job : i # j => job'[i] = job[i]
  BY RuntimeMoves DEF IInv
<1>3. \A i \in Job : i # j => job'[i].at = "free"
  BY <1>2 DEF PatientInv, SoloInv, Idle
<1>4. \A a \in Stages : At(j, a) => job'[j].at = a /\ job'[j].srv = job[j].srv
  BY <1>1, AtMoves
<1>5. {"server", "fail", "wait", "connected", "error", "closeserver", "closetun", "ended", "tun",
       "run", "failxray", "closexraytun", "service"} \subseteq Stages
  BY DEF Stages
<1> HIDE DEF S
<1>6. S(j)'
  <2>1. CASE EnsureCommandServer(j)
    <3>1. UNCHANGED <<tunOpened, boxes, backend>> /\ job[j].at = "server"
      BY <2>1 DEF EnsureCommandServer
    <3>2. CASE At(j, "fail")
      BY <1>4, <1>5, <3>2 DEF S
    <3>3. CASE job' = [job EXCEPT ![j] = [at |-> "service", srv |-> server']]
      <4>1. job'[j] = [at |-> "service", srv |-> server']
        BY <1>1, <3>3 DEF JobType
      <4> QED
        BY <1>1, <3>1, <4>1 DEF S
    <3> QED
      BY <2>1, <3>2, <3>3 DEF EnsureCommandServer
  <2>2. CASE Prepare(j)
    BY <1>1, <1>2, <1>4, <1>5, <2>2 DEF Prepare, S, Up
  <2>3. CASE StartOrReloadService(j)
    BY <1>1, <1>2, <1>4, <1>5, <2>3 DEF StartOrReloadService, S, Up
  <2>4. CASE WaitForTunOpen(j)
    BY <1>1, <1>2, <1>4, <1>5, <2>4 DEF WaitForTunOpen, S, Up
  <2>5. CASE StartFails(j)
    BY <1>1, <1>2, <1>4, <1>5, <2>5 DEF StartFails, S, Up
  <2>6. CASE CloseService(j)
    BY <1>1, <1>2, <1>4, <1>5, <2>6 DEF CloseService, S, Up
  <2>7. CASE CloseCommandServer(j)
    BY <1>1, <1>2, <1>4, <1>5, <2>7 DEF CloseCommandServer, S, Up
  <2>8. CASE StopClosesTun(j)
    BY <1>1, <1>2, <1>4, <1>5, <2>8 DEF StopClosesTun, S, Up
  <2>9. CASE StopOldXray(j)
    BY <1>1, <1>2, <1>4, <1>5, <2>9 DEF StopOldXray, S, Up
  <2>10. CASE OpenTun(j)
    BY <1>1, <1>2, <1>4, <1>5, <2>10 DEF OpenTun, S, Up
  <2>11. CASE RunXray(j)
    BY <1>1, <1>2, <1>4, <1>5, <2>11 DEF RunXray, S, Up
  <2>12. CASE XrayFails(j)
    BY <1>1, <1>2, <1>4, <1>5, <2>12 DEF XrayFails, S, Up
  <2>13. CASE StopXray(j)
    BY <1>1, <1>2, <1>4, <1>5, <2>13 DEF StopXray, S, Up
  <2>14. CASE StopXrayClosesTun(j)
    BY <1>1, <1>2, <1>4, <1>5, <2>14 DEF StopXrayClosesTun, S, Up
  <2> QED
    BY <2>1, <2>2, <2>3, <2>4, <2>5, <2>6, <2>7, <2>8, <2>9, <2>10, <2>11, <2>12, <2>13, <2>14 DEF RuntimeStep
<1> QED
  BY <1>3, <1>6 DEF StartInv, S
\* What the user and the connector begin, they begin when nothing else is under way.
LEMMA SoloScreen ==
  ASSUME Patient, IInv, PatientInv,
         \/ \E b \in Engine : ClickConnect(b) \/ Resolve(b)
         \/ ClickDisconnect \/ Consent \/ ServiceConnected \/ SyncRuntime \/ Relaunch
  PROVE  /\ Begins => JobsDone /\ pending' = {} /\ queue' = {} /\ consent' = None
         /\ UNCHANGED job => SoloInv'
<1> USE DEF PatientInv, SoloInv
<1>1. \/ UNCHANGED <<phase, backend, job>>
      \/ Begins
  BY ScreenMoves
<1>2. Begins => ~UNCHANGED job
  BY DEF Begins, Idle
<1>3. UNCHANGED job => (JobsDone' <=> JobsDone) /\ \A i \in Job : Idle(i)' <=> Idle(i)
  BY DEF JobsDone, Idle
<1>4. ASSUME NEW b \in Engine, ClickConnect(b)
      PROVE  /\ UNCHANGED <<phase, job, queue, consent>>
             /\ pending' = {b} /\ queue = {} /\ consent = None /\ JobsDone
  BY <1>4 DEF ClickConnect, Settled
<1>5. ASSUME NEW b \in Engine, Resolve(b)
      PROVE  /\ pending' = {} /\ JobsDone
             /\ consent' = None \/ queue' = {}
             /\ Begins => queue' = {} /\ consent' = None
  <2>1. pending' = {} /\ JobsDone /\ queue = {} /\ consent = None
    BY <1>5 DEF Resolve
  <2>2. consent' = None \/ queue' = {}
    BY <1>5, <2>1 DEF Resolve, Forward
  <2>3. Begins => queue' = {} /\ consent' = None
    BY <1>2, <1>5, <2>1 DEF Resolve, Forward
  <2> QED
    BY <2>1, <2>2, <2>3
<1>6. CASE Consent
  <2>1. consent' = None /\ pending' = {} /\ JobsDone /\ queue = {}
    BY <1>6 DEF Consent
  <2>2. Begins => queue' = {}
    BY <1>2, <1>6, <2>1 DEF Consent, Forward
  <2> QED
    BY <1>1, <1>2, <1>3, <2>1, <2>2
<1>7. CASE ServiceConnected
  <2>1. queue' = {} /\ UNCHANGED <<pending, consent>> /\ (queue = {} => UNCHANGED job)
    BY <1>7 DEF ServiceConnected
  <2> QED
    BY <1>1, <1>2, <1>3, <2>1
<1>8. CASE ClickDisconnect
  <2>1. UNCHANGED <<pending, queue, consent>> /\ JobsDone /\ pending = {} /\ queue = {} /\ consent = None
    BY <1>8 DEF ClickDisconnect, Settled, ui
  <2> QED
    BY <1>1, <1>2, <1>3, <2>1
<1>9. CASE SyncRuntime
  <2>1. UNCHANGED <<pending, queue, consent, phase, job>>
    BY <1>9 DEF SyncRuntime
  <2> QED
    BY <1>1, <1>2, <1>3, <2>1
<1>10. CASE Relaunch
  <2>1. pending' = {} /\ queue' = {} /\ consent' = None /\ UNCHANGED <<phase, job>>
    BY <1>10 DEF Relaunch
  <2> QED
    BY <1>1, <1>2, <1>3, <2>1
<1>11. ASSUME NEW b \in Engine, ClickConnect(b)
       PROVE  /\ Begins => JobsDone /\ pending' = {} /\ queue' = {} /\ consent' = None
              /\ UNCHANGED job => SoloInv'
  <2>1. UNCHANGED <<phase, job, queue, consent>> /\ pending' = {b} /\ queue = {} /\ consent = None /\ JobsDone
    BY <1>4, <1>11
  <2> QED
    BY <1>2, <1>3, <2>1
<1>12. ASSUME NEW b \in Engine, Resolve(b)
       PROVE  /\ Begins => JobsDone /\ pending' = {} /\ queue' = {} /\ consent' = None
              /\ UNCHANGED job => SoloInv'
  <2>1. /\ pending' = {} /\ JobsDone
        /\ consent' = None \/ queue' = {}
        /\ Begins => queue' = {} /\ consent' = None
    BY <1>5, <1>12
  <2> QED
    BY <1>1, <1>2, <1>3, <2>1
<1> QED
  BY <1>6, <1>7, <1>8, <1>9, <1>10, <1>11, <1>12
\* The first call of a start is one of its engine.
LEMMA FirstCall ==
  ASSUME IInv, Begins,
         \/ \E b \in Engine : ClickConnect(b) \/ Resolve(b)
         \/ ClickDisconnect \/ Consent \/ ServiceConnected \/ SyncRuntime \/ Relaunch,
         NEW j \in Job, Idle(j)
  PROVE  /\ job'[j].at = "prepare" => backend' # "xray"
         /\ job'[j].at = "stopold" => backend' = "xray"
<1>0. TypeOK /\ ~UNCHANGED job
  BY DEF IInv, Begins, Idle
<1>1. ASSUME NEW b \in Engine, StartTunnel(b)
      PROVE  /\ job'[j].at = "prepare" => backend' # "xray"
             /\ job'[j].at = "stopold" => backend' = "xray"
  BY <1>0, <1>1, StartMoves DEF Idle
<1>2. CASE ClickDisconnect
  BY <1>0, <1>2, StopMoves DEF ClickDisconnect, Idle
<1>3. CASE ServiceConnected
  BY <1>0, <1>1, <1>3 DEF ServiceConnected, TypeOK
<1>4. CASE Consent
  <2>1. consent \in Engine /\ Forward(consent)
    BY <1>0, <1>4 DEF Consent, TypeOK
  <2> QED
    BY <1>0, <1>1, <2>1 DEF Forward
<1>5. ASSUME NEW b \in Engine, Resolve(b)
      PROVE  StartTunnel(b)
  BY <1>0, <1>5 DEF Resolve, Forward
<1> QED
  BY <1>0, <1>1, <1>2, <1>3, <1>4, <1>5 DEF ClickConnect, SyncRuntime, Relaunch

\* Every step of a user who waits keeps to one thing at a time, and what it has achieved.
LEMMA PatientStep ==
  ASSUME AndroidAssumption, Patient, ~Revocable, IInv, PatientInv, [Next]_vars
  PROVE  PatientInv'
<1>0. TypeOK /\ SoloInv /\ StartInv /\ ConnectedMeansUp
  BY DEF IInv, PatientInv
<1>1. ASSUME NEW j \in Job, RuntimeStep(j)
      PROVE  PatientInv'
  <2>1. /\ UNCHANGED <<pending, queue, consent, phase>> /\ ~Idle(j)
        /\ \A i \in Job : i # j => job'[i] = job[i]
        /\ job'[j].at # "free"
    BY <1>0, <1>1, RuntimeMoves DEF IInv, ui, Idle
  <2>2. SoloInv' /\ ~JobsDone'
    BY <1>0, <2>1 DEF SoloInv, Idle, JobsDone
  <2> QED
    BY <1>1, <2>2, StartCalls DEF PatientInv, ConnectedMeansUp
<1>2. ASSUME NEW j \in Job, StartEnds(j) \/ StopEnds(j)
      PROVE  PatientInv'
  <2>1. /\ UNCHANGED <<pending, queue, consent, server, boxes, xray>> /\ ~Idle(j)
        /\ \A i \in Job : i # j => job'[i] = job[i]
        /\ job'[j].at = "free"
    BY <1>0, <1>2, EndMoves DEF ui, Idle
  <2>2. \A i \in Job : job'[i].at = "free"
    BY <1>0, <2>1 DEF SoloInv, Idle
  <2>3. SoloInv'
    BY <1>0, <2>1, <2>2 DEF SoloInv, Idle, JobsDone
  <2>4. StartInv'
    BY <2>2 DEF StartInv
  <2>5. phase' = "Connected" => /\ job[j].at = "connected" /\ backend' = backend /\ tun' = tun
    <3>1. phase # "Connected"
      BY <1>0, <2>1 DEF SoloInv, JobsDone
    <3> QED
      BY <1>0, <1>2, <3>1 DEF StartEnds, StopEnds, StartInv, Up, TypeOK
  <2>6. ConnectedMeansUp'
    BY <1>0, <2>1, <2>5 DEF ConnectedMeansUp, StartInv, Up
  <2> QED
    BY <2>3, <2>4, <2>6 DEF PatientInv
<1>3. CASE \/ \E b \in Engine : ClickConnect(b) \/ Resolve(b)
           \/ ClickDisconnect \/ Consent \/ ServiceConnected \/ SyncRuntime \/ Relaunch
  <2>1. /\ UNCHANGED <<tun, tunOpened, server, boxes, xray>>
        /\ UNCHANGED <<phase, backend, job>> \/ Begins
    BY <1>3, ScreenMoves DEF rt
  <2>2. /\ Begins => JobsDone /\ pending' = {} /\ queue' = {} /\ consent' = None
        /\ UNCHANGED job => SoloInv'
    BY <1>3, SoloScreen
  <2>3. CASE UNCHANGED <<phase, backend, job>>
    BY <1>0, <2>1, <2>2, <2>3 DEF PatientInv, StartInv, ConnectedMeansUp, Up, JobsDone, Idle
  <2>4. CASE Begins
    <3>1. PICK j \in Job : /\ job'[j].at \in {"prepare", "stopold", "closebox", "stopxray"}
                           /\ \A i \in Job : i # j => job'[i] = job[i]
      BY <2>4 DEF Begins
    <3>2. phase' # "Connected" /\ \A i \in Job : i # j => job'[i].at = "free"
      BY <2>2, <2>4, <3>1 DEF Begins, JobsDone, Idle
    <3>3. /\ job'[j].at = "prepare" => backend' # "xray"
          /\ job'[j].at = "stopold" => backend' = "xray"
      <4>1. Idle(j)
        BY <2>2, <2>4 DEF JobsDone
      <4> QED
        BY <1>3, <2>4, <4>1, FirstCall
    <3>4. SoloInv'
      BY <2>2, <2>4, <3>2 DEF SoloInv, Idle
    <3>5. StartInv'
      BY <3>1, <3>2, <3>3 DEF StartInv
    <3> QED
      BY <3>2, <3>4, <3>5 DEF PatientInv, ConnectedMeansUp
  <2> QED
    BY <2>1, <2>3, <2>4
<1>4. CASE Destroy
  BY <1>0, <1>4 DEF Destroy, ui, rt, PatientInv, SoloInv, StartInv, ConnectedMeansUp, Up, JobsDone, Idle
<1>5. CASE UNCHANGED vars
  BY <1>0, <1>5 DEF vars, ui, rt, PatientInv, SoloInv, StartInv, ConnectedMeansUp, Up, JobsDone, Idle
<1> QED
  BY <1>1, <1>2, <1>3, <1>4, <1>5 DEF Next, Step, RuntimeStep, Revoke

\* Once the coroutines have ended, an open tun interface is published as Connected,
\* whatever starts, stops and revocations have crossed, and a service is never left in
\* Connecting or Disconnecting without a coroutine that will publish the outcome.
THEOREM ServicePublishes ==
  ASSUME AndroidAssumption
  PROVE  Spec => [](TypeOK /\ TunPublished /\ NeverStuck)
<1>1. IInv => TypeOK /\ TunPublished /\ NeverStuck
  BY DEF IInv
<1> QED
  BY <1>1, InvariantHolds, PTL

\* For a user who waits for the outcome of one step before the next, and without another VPN
\* application, Connected means that the tun interface is open and the engine runs.
THEOREM ConnectedIsUp ==
  ASSUME AndroidAssumption, Patient, ~Revocable
  PROVE  Spec => []ConnectedMeansUp
<1>1. Init => PatientInv
  BY DEF Init, PatientInv, SoloInv, StartInv, ConnectedMeansUp, JobsDone, Idle
<1>2. IInv /\ PatientInv /\ [Next]_vars => PatientInv'
  BY PatientStep
<1>3. PatientInv => ConnectedMeansUp
  BY DEF PatientInv
<1> QED
  BY <1>1, <1>2, <1>3, InvariantHolds, PTL DEF Spec

=============================================================================
