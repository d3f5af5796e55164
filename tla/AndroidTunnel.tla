----------------------------- MODULE AndroidTunnel -----------------------------
(***************************************************************************)
(* The Android tunnel: the primary button (TunnelHomeStore), the connect   *)
(* request that resolves its profile and asks for VPN consent              *)
(* (MainActivity), the connector that binds the service and queues what    *)
(* it cannot deliver yet (TunnelServiceConnector), the service             *)
(* (TunnelVpnService) and its two runtimes (RealSingboxRuntime,            *)
(* RealXrayRuntime).                                                       *)
(*                                                                         *)
(* The service and the screen run on the main thread, where one callback   *)
(* is one step; the runtimes work on IO threads, where every call is a     *)
(* step of its own.  libbox, libXray and Android are modelled by what the  *)
(* code uses of them: a command server goes on serving the start that      *)
(* holds it after it was closed, libXray keeps one instance, and the       *)
(* system keeps a service alive while a client created it by binding or    *)
(* a tun interface of its own is open.  One instance of the service is     *)
(* followed to its destruction.                                            *)
(***************************************************************************)
EXTENDS Naturals, FiniteSets

CONSTANTS Engine,     \* the engines of the configured profiles
          Job,        \* bound: coroutines of the service at one time
          Server,     \* bound: command servers in use at one time
          MaxPending, \* bound: connect requests before they reach the service
          None,
          Patient,    \* the user waits until everything has settled
          Revocable   \* another VPN application may take over

AndroidAssumption ==
  /\ Engine \subseteq {"singbox", "xray"} /\ None \notin Server \cup Engine
  /\ MaxPending \in Nat \ {0}

VARIABLES shown,     \* the phase in the state of the store
          synced,    \* the phase of the snapshot the screen has last applied
          pending,   \* connect requests that resolve their profile
          consent,   \* the request that waits for VPN consent, or None
          queue,     \* connects that wait for the binder
          conn,      \* the binding: none, weak (no AUTO_CREATE) or strong
          binder,    \* whether the connector has the binder
          granted,   \* whether the VPN permission is ours
          service,   \* none, running or destroyed
          stopped,   \* whether the service is no longer a started one
          phase,     \* the phase of the service's snapshot
          backend,   \* activeBackend
          tun,       \* whether tunInterface is open
          tunOpened, \* the flag of the sing-box runtime
          server,    \* commandServer
          boxes,     \* the command servers whose sing-box runs
          xray,      \* whether Xray runs
          job,       \* the coroutines: what they do next, and the server held
          wish       \* the last thing the user asked for

ui   == <<shown, synced, pending, consent, queue>>
link == <<conn, binder, granted, service, stopped>>
rt   == <<tun, tunOpened, server, boxes, xray>>
vars == <<ui, link, phase, backend, rt, job, wish>>

Phases == {"Disconnected", "PermissionRequired", "Connecting", "Connected",
           "Disconnecting", "Error"}
Stages == {"free", "prepare", "server", "service", "wait", "fail", "stopold", "tun",
           "run", "failxray", "closebox", "closeserver", "closetun", "stopxray",
           "closexraytun", "connected", "error", "ended"}

Idle(j) == job[j].at = "free"
JobsDone == \A j \in Job : Idle(j)
Settled == JobsDone /\ pending = {} /\ queue = {} /\ consent = None /\ synced = phase

At(j, a) == job' = [job EXCEPT ![j].at = a]
Free(j)  == job' = [job EXCEPT ![j] = [at |-> "free", srv |-> None]]

-----------------------------------------------------------------------------
(* The service, on the main thread.                                        *)

StartTunnel(b) ==
  \/ phase \in {"Connecting", "Connected"} /\ UNCHANGED <<phase, backend, job>>
  \/ /\ phase \notin {"Connecting", "Connected"}
     /\ phase' = "Connecting" /\ backend' = b
     /\ \E j \in Job : Idle(j) /\ At(j, IF b = "xray" THEN "stopold" ELSE "prepare")

StopTunnel ==
  \/ phase \in {"Disconnected", "Disconnecting"} /\ UNCHANGED <<phase, job>>
  \/ /\ phase \notin {"Disconnected", "Disconnecting"}
     /\ phase' = "Disconnecting"
     /\ \E j \in Job : Idle(j) /\ At(j, IF backend = "xray" THEN "stopxray" ELSE "closebox")

\* Mutant: a failed start leaves the tun interface to the runtime.
StartEndsKeeping(j) ==
  /\ job[j].at \in {"connected", "error"} /\ Free(j)
  /\ IF service = "running"
     THEN /\ phase' = IF job[j].at = "connected" THEN "Connected" ELSE "Error"
          /\ backend' = IF job[j].at = "connected" THEN backend ELSE None
     ELSE UNCHANGED <<phase, backend>>
  /\ UNCHANGED <<ui, link, rt, wish>>

\* Mutant: the snapshot of a failed start is not published.
StartEndsSilently(j) ==
  /\ job[j].at \in {"connected", "error"} /\ Free(j)
  /\ phase' = IF job[j].at = "connected" THEN "Connected" ELSE phase
  /\ UNCHANGED <<backend, ui, link, rt, wish>>

\* What follows singboxRuntime.start or xrayRuntime.start.  A scope that is
\* cancelled by onDestroy drops it.
StartEnds(j) ==
  /\ job[j].at \in {"connected", "error"} /\ Free(j)
  /\ IF service = "running"
     THEN /\ phase' = IF job[j].at = "connected" THEN "Connected" ELSE "Error"
          /\ backend' = IF job[j].at = "connected" THEN backend ELSE None
          /\ tun' = (tun /\ job[j].at = "connected")
     ELSE UNCHANGED <<phase, backend, tun>>
  /\ UNCHANGED <<ui, link, tunOpened, server, boxes, xray, wish>>

\* What follows stop: closeTunInterface, stopForeground, stopSelf.
StopEnds(j) ==
  /\ job[j].at = "ended" /\ Free(j)
  /\ IF service = "running"
     THEN phase' = "Disconnected" /\ backend' = None /\ tun' = FALSE /\ stopped' = TRUE
     ELSE UNCHANGED <<phase, backend, tun, stopped>>
  /\ UNCHANGED <<ui, conn, binder, granted, service, tunOpened, server, boxes, xray, wish>>

\* Another VPN application takes over; onRevoke is called while our tun is open.
Revoke ==
  /\ Revocable /\ granted /\ granted' = FALSE
  /\ IF tun /\ service = "running"
     THEN tun' = FALSE /\ phase' = "Disconnected" /\ stopped' = TRUE
     ELSE UNCHANGED <<tun, phase, stopped>>
  /\ UNCHANGED <<ui, conn, binder, service, backend, tunOpened, server, boxes, xray,
                 job, wish>>

\* onDestroy: nobody holds the service any more.
Destroy ==
  /\ service = "running" /\ stopped /\ conn # "strong" /\ ~tun
  /\ service' = "destroyed" /\ binder' = FALSE
  /\ UNCHANGED <<ui, conn, granted, stopped, phase, backend, rt, job, wish>>

-----------------------------------------------------------------------------
(* The sing-box runtime, on an IO thread.                                  *)

\* Mutant: the flag of the last session stays.
PrepareKeepsFlag(j) ==
  /\ job[j].at = "prepare"
  /\ At(j, "server") \/ At(j, "fail")
  /\ UNCHANGED <<ui, link, phase, backend, rt, wish>>

Prepare(j) ==
  /\ job[j].at = "prepare" /\ tunOpened' = FALSE
  /\ At(j, "server") \/ At(j, "fail")
  /\ UNCHANGED <<ui, link, phase, backend, tun, server, boxes, xray, wish>>

EnsureCommandServer(j) ==
  /\ job[j].at = "server"
  /\ \/ /\ server # None /\ UNCHANGED server
        /\ job' = [job EXCEPT ![j] = [at |-> "service", srv |-> server]]
     \/ /\ server = None
        /\ server' \in Server \ (boxes \cup {job[i].srv : i \in Job})
        /\ job' = [job EXCEPT ![j] = [at |-> "service", srv |-> server']]
     \/ server = None /\ At(j, "fail") /\ UNCHANGED server
  /\ UNCHANGED <<ui, link, phase, backend, tun, tunOpened, boxes, xray, wish>>

\* startOrReloadService: libbox ends the running sing-box and starts another,
\* which calls openTun if its configuration has a tun inbound.
StartOrReloadService(j) ==
  /\ job[j].at = "service"
  /\ \/ /\ granted /\ tun' = TRUE /\ tunOpened' = TRUE
        /\ \/ At(j, "wait") /\ boxes' = boxes \cup {job[j].srv}
           \/ At(j, "fail") /\ boxes' = boxes \ {job[j].srv}
     \/ /\ UNCHANGED <<tun, tunOpened>>
        /\ \/ At(j, "wait") /\ boxes' = boxes \cup {job[j].srv}
           \/ At(j, "fail") /\ boxes' = boxes \ {job[j].srv}
     \/ /\ ~granted /\ tun' = FALSE /\ UNCHANGED tunOpened
        /\ At(j, "fail") /\ boxes' = boxes \ {job[j].srv}
  /\ UNCHANGED <<ui, link, phase, backend, server, xray, wish>>

\* waitForTunOpen and the fold; cancellation by onDestroy ends the wait as an error.
WaitForTunOpen(j) ==
  /\ job[j].at = "wait"
  /\ \/ tunOpened /\ At(j, "connected") /\ UNCHANGED tun
     \/ ~tunOpened /\ service = "running" /\ At(j, "error") /\ tun' = FALSE
     \/ ~tunOpened /\ service = "destroyed" /\ At(j, "fail") /\ UNCHANGED tun
  /\ UNCHANGED <<ui, link, phase, backend, tunOpened, server, boxes, xray, wish>>

StartFails(j) ==
  /\ job[j].at = "fail" /\ At(j, "error")
  /\ tun' = FALSE /\ server' = None
  /\ UNCHANGED <<ui, link, phase, backend, tunOpened, boxes, xray, wish>>

CloseService(j) ==
  /\ job[j].at = "closebox" /\ At(j, "closeserver")
  /\ boxes' = boxes \ {server}
  /\ UNCHANGED <<ui, link, phase, backend, tun, tunOpened, server, xray, wish>>

CloseCommandServer(j) ==
  /\ job[j].at = "closeserver" /\ At(j, "closetun")
  /\ server' = None
  /\ UNCHANGED <<ui, link, phase, backend, tun, tunOpened, boxes, xray, wish>>

StopClosesTun(j) ==
  /\ job[j].at = "closetun" /\ At(j, "ended")
  /\ tun' = FALSE /\ tunOpened' = FALSE
  /\ UNCHANGED <<ui, link, phase, backend, server, boxes, xray, wish>>

-----------------------------------------------------------------------------
(* The Xray runtime, on an IO thread.                                      *)

StopOldXray(j) ==
  /\ job[j].at = "stopold" /\ At(j, "tun")
  /\ xray' = FALSE
  /\ UNCHANGED <<ui, link, phase, backend, tun, tunOpened, server, boxes, wish>>

OpenTun(j) ==
  /\ job[j].at = "tun"
  /\ \/ granted /\ tun' = TRUE /\ At(j, "run")
     \/ tun' = FALSE /\ At(j, "failxray")
  /\ UNCHANGED <<ui, link, phase, backend, tunOpened, server, boxes, xray, wish>>

RunXray(j) ==
  /\ job[j].at = "run"
  /\ \/ xray' = TRUE /\ At(j, "connected")
     \/ UNCHANGED xray /\ At(j, "failxray")
  /\ UNCHANGED <<ui, link, phase, backend, tun, tunOpened, server, boxes, wish>>

XrayFails(j) ==
  /\ job[j].at = "failxray" /\ At(j, "error")
  /\ xray' = FALSE /\ tun' = FALSE
  /\ UNCHANGED <<ui, link, phase, backend, tunOpened, server, boxes, wish>>

StopXray(j) ==
  /\ job[j].at = "stopxray" /\ At(j, "closexraytun")
  /\ xray' = FALSE
  /\ UNCHANGED <<ui, link, phase, backend, tun, tunOpened, server, boxes, wish>>

StopXrayClosesTun(j) ==
  /\ job[j].at = "closexraytun" /\ At(j, "ended")
  /\ tun' = FALSE
  /\ UNCHANGED <<ui, link, phase, backend, tunOpened, server, boxes, xray, wish>>

-----------------------------------------------------------------------------
(* The screen and the connector, on the main thread.                       *)

\* handlePrimaryClick on anything but Connecting and Connected.
ClickConnect(b) ==
  /\ service # "destroyed" /\ (Patient => Settled)
  /\ shown \notin {"Connecting", "Connected"}
  /\ b \notin pending /\ Cardinality(pending) + Cardinality(queue) < MaxPending
  /\ pending' = pending \cup {b} /\ wish' = "up"
  /\ UNCHANGED <<shown, synced, consent, queue, link, phase, backend, rt, job>>

\* handlePrimaryClick while Connecting or Connected is shown, which only a
\* snapshot that came through the binder shows.
ClickDisconnect ==
  /\ service # "destroyed" /\ (Patient => Settled)
  /\ shown \in {"Connecting", "Connected"} /\ binder
  /\ wish' = "down" /\ StopTunnel
  /\ UNCHANGED <<ui, link, backend, rt>>

\* bind: at once with the binder, else queued; the service is started.  A
\* bindService that fails drops the queue.
Forward(b) ==
  \/ binder /\ StartTunnel(b) /\ UNCHANGED <<shown, queue, conn, service, stopped>>
  \/ /\ ~binder /\ service' = "running" /\ stopped' = FALSE
     /\ \/ /\ queue' = queue \cup {b} /\ UNCHANGED shown
           /\ conn' = IF conn = "none" THEN "strong" ELSE conn
        \/ conn = "none" /\ queue' = {} /\ shown' = "Error" /\ UNCHANGED conn
     /\ UNCHANGED <<phase, backend, job>>

\* Mutant: the missing consent is published as the phase of the service.
ResolvePublishes(b) ==
  /\ b \in pending /\ service # "destroyed" /\ pending' = pending \ {b}
  /\ ~granted /\ consent' = b /\ phase' = "PermissionRequired"
  /\ UNCHANGED <<shown, synced, queue, link, backend, rt, job, wish>>

Resolve(b) ==
  /\ b \in pending /\ service # "destroyed" /\ pending' = pending \ {b}
  /\ \/ /\ shown' = "Error"
        /\ UNCHANGED <<consent, queue, conn, service, stopped, phase, backend, job>>
     \/ granted /\ Forward(b) /\ UNCHANGED consent
     \/ /\ ~granted /\ consent' = b /\ shown' = "PermissionRequired"
        /\ UNCHANGED <<queue, conn, service, stopped, phase, backend, job>>
  /\ UNCHANGED <<synced, binder, granted, rt, wish>>

\* The result of the consent dialog.
Consent ==
  /\ consent # None /\ service # "destroyed" /\ consent' = None
  /\ \/ granted' = TRUE /\ Forward(consent)
     \/ /\ shown' = "Disconnected"
        /\ UNCHANGED <<granted, queue, conn, service, stopped, phase, backend, job>>
  /\ UNCHANGED <<synced, pending, binder, rt, wish>>

\* onServiceConnected: the first callback starts, the others find Connecting.
ServiceConnected ==
  /\ conn # "none" /\ service = "running" /\ ~binder
  /\ binder' = TRUE /\ queue' = {}
  /\ IF queue = {} THEN UNCHANGED <<phase, backend, job>>
                   ELSE \E b \in queue : StartTunnel(b)
  /\ UNCHANGED <<shown, synced, pending, consent, conn, granted, service, stopped, rt, wish>>

\* LaunchedEffect(snapshot): the store takes over the phase.
SyncRuntime ==
  /\ binder /\ synced # phase
  /\ synced' = phase /\ shown' = phase
  /\ UNCHANGED <<pending, consent, queue, link, phase, backend, rt, job, wish>>

\* The activity is recreated: release, then a new connector that binds to a
\* service that runs already.
Relaunch ==
  /\ service # "destroyed" /\ (Patient => Settled)
  /\ shown' = "Disconnected" /\ synced' = "Disconnected"
  /\ pending' = {} /\ consent' = None /\ queue' = {}
  /\ binder' = FALSE
  /\ \/ conn' = "weak"
     \/ service = "none" /\ conn' = "none"
  /\ UNCHANGED <<granted, service, stopped, phase, backend, rt, job, wish>>

-----------------------------------------------------------------------------
Init ==
  /\ shown = "Disconnected" /\ synced = "Disconnected"
  /\ pending = {} /\ consent = None /\ queue = {}
  /\ conn \in {"none", "weak"} /\ binder = FALSE /\ granted \in BOOLEAN
  /\ service = "none" /\ stopped = FALSE
  /\ phase = "Disconnected" /\ backend = None
  /\ tun = FALSE /\ tunOpened = FALSE /\ server = None /\ boxes = {} /\ xray = FALSE
  /\ job = [j \in Job |-> [at |-> "free", srv |-> None]]
  /\ wish = "none"

Step(j) ==
  \/ Prepare(j) \/ EnsureCommandServer(j) \/ StartOrReloadService(j)
  \/ WaitForTunOpen(j) \/ StartFails(j)
  \/ CloseService(j) \/ CloseCommandServer(j) \/ StopClosesTun(j)
  \/ StopOldXray(j) \/ OpenTun(j) \/ RunXray(j) \/ XrayFails(j)
  \/ StopXray(j) \/ StopXrayClosesTun(j)
  \/ StartEnds(j) \/ StopEnds(j)

Next ==
  \/ \E j \in Job : Step(j)
  \/ \E b \in Engine : ClickConnect(b) \/ Resolve(b)
  \/ ClickDisconnect \/ Consent \/ ServiceConnected \/ SyncRuntime \/ Relaunch
  \/ Revoke \/ Destroy

Spec == Init /\ [][Next]_vars

-----------------------------------------------------------------------------
TypeOK ==
  /\ shown \in Phases /\ synced \in Phases /\ phase \in Phases \ {"PermissionRequired"}
  /\ pending \subseteq Engine /\ queue \subseteq Engine /\ consent \in Engine \cup {None}
  /\ conn \in {"none", "weak", "strong"} /\ binder \in BOOLEAN /\ granted \in BOOLEAN
  /\ service \in {"none", "running", "destroyed"} /\ stopped \in BOOLEAN
  /\ backend \in Engine \cup {None}
  /\ tun \in BOOLEAN /\ tunOpened \in BOOLEAN /\ xray \in BOOLEAN
  /\ server \in Server \cup {None} /\ boxes \subseteq Server
  /\ job \in [Job -> [at : Stages, srv : Server \cup {None}]]
  /\ wish \in {"none", "up", "down"}

\* Whatever starts, stops and revocations have crossed, once the coroutines of
\* the service have ended an open tun interface is published as Connected
\* (TunnelVpnService, the ends of startTunnel and stopTunnel, onRevoke).
TunPublished ==
  service = "running" /\ JobsDone /\ tun => phase = "Connected"

\* For a user who waits, and without another VPN application, Connected means
\* that the tun interface is open and the engine of the session runs, whatever
\* failed starts and sessions of the other engine came before.
ConnectedMeansUp ==
  JobsDone /\ phase = "Connected" =>
    tun /\ IF backend = "xray" THEN xray ELSE server \in boxes

\* A service that says Connecting or Disconnecting has a coroutine that will
\* publish how it ended, whatever starts, stops and revocations have crossed:
\* it is never left there (startTunnel, stopTunnel).
NeverStuck ==
  service = "running" /\ phase \in {"Connecting", "Disconnecting"} => ~JobsDone

-----------------------------------------------------------------------------
(* What a document, a comment or an error message of the repository says   *)
(* and the model refutes: see "What the code does not keep" in README.md.  *)

\* After the user's disconnect, when nothing is under way any more, the tunnel
\* is not up ("routes device traffic through that tunnel until the user
\* disconnects it").
DisconnectWins == Settled /\ wish = "down" => phase # "Connected"

\* After a disconnect that has come to its end no engine runs any more
\* ("service stops sing-box", "service closes the TUN interface").
DisconnectEndsEngines ==
  Settled /\ wish = "down" /\ phase = "Disconnected" => boxes = {} /\ ~xray

\* While the tunnel is up and the screen is bound to the service, its button
\* disconnects ("remain user-stoppable at any time").
StoppableWhenUp ==
  Settled /\ binder /\ tun => shown \in {"Connecting", "Connected"}

\* A service that was destroyed leaves no tun interface open once its last
\* coroutine has ended.
DestroyClosesTun == service = "destroyed" /\ JobsDone => ~tun

=============================================================================
