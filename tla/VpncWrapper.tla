---------------------------- MODULE VpncWrapper ----------------------------
(***************************************************************************)
(* The script-wrapper.sh that openconnect runs for every tunnel event      *)
(* (scriptDiagnosticsWrapperScript), the resolver files and routes it      *)
(* writes, and the three readers of its traces: the start that waits until *)
(* the log shows the connect hook finished, the stop that waits until the  *)
(* hook's files are gone, and the cleanup of orphaned files.  A domain is  *)
(* the sequence of its labels.  A shell function is one step; a hook that  *)
(* lost its openconnect runs on, and so does one whose commands on the     *)
(* resolver files fail.  UseScutilState is never set, so the wrapper's     *)
(* scutil functions return at once and are left out.                       *)
(***************************************************************************)
EXTENDS Naturals, Sequences, SequencesExt, FiniteSets

CONSTANTS Sessions,         \* how many sessions are started, one after the other
          MaxReconnect,     \* bound: reconnect hooks of a session
          VPNDomains, ServerDomains, BypassSuffixes,  \* sets of domains
          Entries,          \* what search.tailscale may list
          Machines,         \* what is special about the machine: see others
          NoFile

WrapperAssumption ==
  /\ Sessions \in Nat /\ MaxReconnect \in Nat
  /\ VPNDomains \cup ServerDomains \cup BypassSuffixes \subseteq Seq(STRING)

Session == 1..Sessions

VARIABLES
  resolver,   \* /etc/resolver/<domain>: "none", with a mark, or "user" (without one)
  failed,     \* the resolver files that a hook has last failed to write or to remove
  search,     \* the entries of search.tailscale, or NoFile
  owned,      \* what the owner of search.tailscale last wrote
  unsanitized,  \* a hook has last failed to sanitize search.tailscale
  defroute,   \* there is a default route
  pinned,     \* there is a host route to the VPN gateway
  tun,        \* the session that has the tunnel interface, or 0
  routes,     \* what is routed through that interface
  backup, gateway, nameservers,  \* the files of each session's helper directory
  oc,         \* openconnect's phase
  intr,       \* it was sent INT or TERM
  hook,       \* the running hook: [reason, todo, rc]
  reconnects, warm,  \* hooks run so far; warmup processes running
  log,        \* what readConnectConvergenceState makes of the session's log
  go,         \* the start or stop command of the session
  others      \* the programs beside it, "tailscale" and "foreign" ones; "full": a disk
              \* where what a hook does to files may fail

resolvers == <<resolver, failed>>
searches  == <<search, owned, unsanitized>>
files  == <<resolvers, searches>>
net    == <<defroute, pinned, tun, routes>>
helper == <<backup, gateway, nameservers>>
proc   == <<oc, intr, reconnects>>
vars   == <<files, net, helper, proc, hook, warm, log, go, others>>

ShellFunctions ==
  {"captureRoute", "captureNs", "base", "pin", "unpin", "unscope", "override", "shim", "unshim",
   "bypass", "unbypass", "warmup", "unprobe", "exit"}
Reason == {"pre-init", "connect", "reconnect", "attempt-reconnect", "disconnect"}
Alive  == {"boot", "inited", "up", "ending"}
\* "left": it ran its disconnect hook to the end; "dead": killed or failed before.
Gone   == {"left", "dead"}
Finished == {"failed", "stopped", "unwaited", "timeout", "stale"}
-----------------------------------------------------------------------------
(* The resolver specification of a split-include session *)

Covered(d, S) == \E s \in S : IsSuffix(s, d)

\* Mutant: domains under a bypass suffix are not filtered out.
ShimUnfiltered == VPNDomains \cup ServerDomains

Shim    == {d \in VPNDomains \cup ServerDomains : ~Covered(d, BypassSuffixes)}
Cleanup == {d \in VPNDomains \cup ServerDomains : ~Covered(d, BypassSuffixes)}
Files   == Shim \cup BypassSuffixes

\* What macOS does with a name: the file of the longest matching domain decides.
Lookup(n) ==
  LET match == {d \in Files : resolver[d] # "none" /\ IsSuffix(d, n)}
  IN  IF match = {} THEN "public"
      ELSE resolver[CHOOSE d \in match : \A e \in match : Len(e) <= Len(d)]

Name == VPNDomains \cup ServerDomains \cup BypassSuffixes
-----------------------------------------------------------------------------
IsFile(f) == f = NoFile \/ f \subseteq Entries

LogState == [event : BOOLEAN, active : BOOLEAN, route : BOOLEAN, shim : BOOLEAN,
             exit : {"none", "ok", "failed"}]

Content == {"none", "shim", "bypass", "user"}

TypeOK ==
  /\ resolver \in [Files -> Content] /\ failed \subseteq Files
  /\ unsanitized \in BOOLEAN
  /\ IsFile(search) /\ IsFile(owned) /\ \A s \in Session : IsFile(backup[s])
  /\ defroute \in BOOLEAN /\ pinned \in BOOLEAN /\ tun \in Session \cup {0}
  /\ routes \subseteq {"default", "net", "probe"} /\ (tun = 0 => routes = {})
  /\ DOMAIN backup = Session
  /\ gateway \in [Session -> BOOLEAN] /\ nameservers \in [Session -> BOOLEAN]
  /\ oc \in [Session -> Alive \cup Gone \cup {"idle"}] /\ intr \in [Session -> BOOLEAN]
  /\ hook \in [Session -> [reason : Reason, todo : Seq(ShellFunctions), rc : {0, 1}]]
  /\ reconnects \in [Session -> 0..MaxReconnect] /\ warm \in [Session -> 0..MaxReconnect + 1]
  /\ log \in [Session -> LogState]
  /\ go \in [Session -> {"idle", "conv", "warm", "connected", "undo", "stopping", "cleanup"}
                        \cup Finished]

Nothing == [event |-> FALSE, active |-> FALSE, route |-> FALSE, shim |-> FALSE, exit |-> "none"]

Init ==
  /\ resolver = [d \in Files |-> "none"] /\ failed = {} /\ unsanitized = FALSE
  /\ search \in (SUBSET Entries) \cup {NoFile} /\ owned = search
  /\ defroute = TRUE /\ pinned = FALSE /\ tun = 0 /\ routes = {}
  /\ backup = [s \in Session |-> NoFile]
  /\ gateway = [s \in Session |-> FALSE] /\ nameservers = [s \in Session |-> FALSE]
  /\ oc = [s \in Session |-> "idle"] /\ intr = [s \in Session |-> FALSE]
  /\ hook = [s \in Session |-> [reason |-> "pre-init", todo |-> <<>>, rc |-> 0]]
  /\ reconnects = [s \in Session |-> 0] /\ warm = [s \in Session |-> 0]
  /\ log = [s \in Session |-> Nothing]
  /\ go = [s \in Session |-> "idle"]
  /\ others \in Machines

\* The order in which the wrapper calls its functions for a reason.
Calls(reason) ==
  CASE reason = "pre-init"   -> <<"captureRoute", "captureNs", "base", "pin", "exit">>
    [] reason = "disconnect" -> <<"base", "unpin", "unprobe", "unbypass", "unshim", "exit">>
    [] OTHER -> <<"base", "pin", "unscope", "override", "shim", "bypass", "warmup", "exit">>

Connecting(reason) == reason \in {"connect", "reconnect", "attempt-reconnect"}

At(s, step)  == hook[s].todo # <<>> /\ Head(hook[s].todo) = step
Return(s)    == hook' = [hook EXCEPT ![s].todo = Tail(@)]

\* A line of the hook, as the reader of the log takes it: a connect event starts
\* afresh, any other event stops the reading, an exit line ends it.
ReadReason(st, reason) ==
  IF Connecting(reason) THEN [Nothing EXCEPT !.event = TRUE, !.active = TRUE]
                        ELSE [st EXCEPT !.active = FALSE]
ReadRoute(st)    == IF st.active THEN [st EXCEPT !.route = TRUE] ELSE st
ReadShim(st)     == IF st.active THEN [st EXCEPT !.shim = TRUE] ELSE st
ReadExit(st, rc) ==
  IF st.active THEN [st EXCEPT !.exit = IF rc = 0 THEN "ok" ELSE "failed", !.active = FALSE] ELSE st
-----------------------------------------------------------------------------
(* Files.  The wrapper tests none of its cp, mv and rm, and a failed mktemp *)
(* or mkdir ends a loop or a function without an error.                     *)

Failing == "full" \in others

\* The files of D that a hook fails to write or to remove.
Spoilt(D) == IF Failing THEN SUBSET D ELSE {{}}

\* What is left of a file, or of a copy of it, when the disk fills up.
Parts(file) == IF Failing /\ file # NoFile THEN SUBSET file ELSE {file}

\* The loop that writes the files of D with a mark.  One that fails leaves the file as it
\* was, or puts an incomplete one there, with the mark or without.
Written(mark, D) ==
  \E bad \in Spoilt(D) :
    /\ \E left \in [bad -> {"old", mark, "user"}] :
         resolver' = [d \in Files |-> IF d \in bad /\ left[d] # "old" THEN left[d]
                                     ELSE IF d \in D \ bad THEN mark ELSE resolver[d]]
    /\ failed' = (failed \ D) \cup bad

Without(mark, D) ==
  [d \in Files |-> IF d \in D /\ resolver[d] = mark THEN "none" ELSE resolver[d]]

\* The loop that removes the files of D that have the mark.
Removed(mark, D) ==
  \E bad \in Spoilt(D) :
    /\ resolver' = Without(mark, D \ bad)
    /\ failed' = (failed \ D) \cup bad

\* backup_search_resolver
Saved(s) ==
  IF search = NoFile \/ backup[s] # NoFile THEN {backup[s]}
  ELSE Parts(search) \cup IF Failing THEN {NoFile} ELSE {}

\* restore_search_resolver, from that backup
Restored(saved) ==
  IF saved = NoFile THEN {search} ELSE Parts(saved) \cup IF Failing THEN {search} ELSE {}

\* sanitize_search_resolver
Sanitized(file) ==
  IF file = NoFile \/ Cleanup = {} THEN file
  ELSE {e \in file : Covered(e, BypassSuffixes) \/ ~Covered(e, Cleanup)}

\* Mutant: the search file is sanitized before it is restored.
SearchHandledSwapped(s) ==
  /\ \E saved \in Saved(s) :
       /\ backup' = [backup EXCEPT ![s] = saved]
       /\ search' \in Restored(saved)
  /\ unsanitized' = FALSE
  /\ UNCHANGED owned

SearchHandled(s) ==
  /\ \E saved \in Saved(s) :
       /\ backup' = [backup EXCEPT ![s] = saved]
       /\ \E file \in Restored(saved) :
            /\ search' \in Parts(Sanitized(file)) \cup IF Failing THEN {file} ELSE {}
            /\ unsanitized' = (search' = file /\ file # Sanitized(file))
  /\ UNCHANGED owned
-----------------------------------------------------------------------------
(* The hook, function by function *)

CaptureDefaultRoute(s) ==
  /\ At(s, "captureRoute") /\ Return(s)
  /\ \E found \in {defroute} \cup IF Failing THEN {FALSE} ELSE {} :
       gateway' = [gateway EXCEPT ![s] = @ \/ found]
  /\ UNCHANGED <<files, net, backup, nameservers, proc, warm, log, go>>

\* scutil --dns may show no resolver of the default interface.
CapturePublicNameservers(s) ==
  /\ At(s, "captureNs") /\ Return(s)
  /\ \E found \in BOOLEAN :
        nameservers' = [nameservers EXCEPT ![s] = @ \/ (found /\ (gateway[s] \/ defroute))]
  /\ UNCHANGED <<files, net, backup, gateway, proc, warm, log, go>>

\* Mutant: a failed base command ends the disconnect hook as well.
BaseCommandStrict(s) ==
  /\ At(s, "base")
  /\ \E rc \in {0, 1} :
       hook' = [hook EXCEPT ![s].rc = rc, ![s].todo = IF rc = 0 THEN Tail(@) ELSE <<"exit">>]
  /\ UNCHANGED <<files, net, helper, proc, warm, log, go>>

\* vpnc-script or vpn-slice; only a disconnect goes on after a failure.
BaseCommand(s) ==
  /\ At(s, "base")
  /\ \E rc \in {0, 1} :
       /\ hook' = [hook EXCEPT ![s].rc = rc,
                               ![s].todo = IF rc = 0 \/ hook[s].reason = "disconnect"
                                           THEN Tail(@) ELSE <<"exit">>]
       /\ \E r \in {routes, routes \cup {"default"}} :
            routes' = IF tun = s /\ rc = 0 /\ Connecting(hook[s].reason) THEN r ELSE routes
  /\ UNCHANGED <<files, defroute, pinned, tun, helper, proc, warm, log, go>>

PinVpnGatewayRoute(s) ==
  /\ At(s, "pin") /\ Return(s)
  /\ pinned' = (pinned \/ gateway[s] \/ defroute)
  /\ UNCHANGED <<files, defroute, tun, routes, helper, proc, warm, log, go>>

RemoveScopedDefaultRoute(s) ==
  /\ At(s, "unscope") /\ Return(s)
  /\ \E r \in {routes, routes \ {"default"}} : routes' = r
  /\ UNCHANGED <<files, defroute, pinned, tun, helper, proc, warm, log, go>>

EnforceRouteOverrides(s) ==
  /\ At(s, "override") /\ Return(s)
  /\ routes' = IF tun = 0 THEN routes ELSE routes \cup {"net"}
  /\ log' = [log EXCEPT ![s] = ReadRoute(@)]
  /\ UNCHANGED <<files, defroute, pinned, tun, helper, proc, warm, go>>

\* Its line is logged before any file is written; only a failed mkdir keeps it back.
ApplyDnsShim(s) ==
  /\ At(s, "shim") /\ Return(s)
  /\ \/ /\ Written("shim", Shim)
        /\ SearchHandled(s)
        /\ log' = [log EXCEPT ![s] = ReadShim(@)]
     \/ /\ Failing /\ failed' = failed \cup Shim
        /\ UNCHANGED <<resolver, searches, backup, log>>
  /\ UNCHANGED <<net, gateway, nameservers, proc, warm, go>>

ApplyPublicBypassShim(s) ==
  /\ At(s, "bypass") /\ Return(s)
  /\ IF nameservers[s] THEN Written("bypass", BypassSuffixes) ELSE UNCHANGED resolvers
  /\ UNCHANGED <<searches, net, helper, proc, warm, log, go>>

LaunchProbeHostRouteWarmup(s) ==
  /\ At(s, "warmup") /\ Return(s)
  /\ warm' = [warm EXCEPT ![s] = @ + 1]
  /\ UNCHANGED <<files, net, helper, proc, log, go>>

\* A warmup resolves the probe hosts, with retries, and routes them through the
\* interface named TUNDEV, which may be a later session's by then.
Warmup(s) ==
  /\ warm[s] > 0
  /\ warm' = [warm EXCEPT ![s] = @ - 1]
  /\ \E resolved \in BOOLEAN :
        routes' = IF resolved /\ tun # 0 THEN routes \cup {"probe"} ELSE routes
  /\ UNCHANGED <<files, defroute, pinned, tun, helper, proc, hook, log, go>>

RemoveVpnGatewayRoute(s) ==
  /\ At(s, "unpin") /\ Return(s)
  /\ pinned' = FALSE
  /\ UNCHANGED <<files, defroute, tun, routes, helper, proc, warm, log, go>>

\* The hosts are resolved again: without an answer the routes stay.
SyncProbeRemove(s) ==
  /\ At(s, "unprobe") /\ Return(s)
  /\ \E r \in {routes, routes \ {"probe"}} : routes' = r
  /\ UNCHANGED <<files, defroute, pinned, tun, helper, proc, warm, log, go>>

RemovePublicBypassShim(s) ==
  /\ At(s, "unbypass") /\ Return(s)
  /\ Removed("bypass", BypassSuffixes)
  /\ UNCHANGED <<searches, net, helper, proc, warm, log, go>>

RemoveDnsShim(s) ==
  /\ At(s, "unshim") /\ Return(s)
  /\ Removed("shim", Shim)
  /\ SearchHandled(s)
  /\ UNCHANGED <<net, gateway, nameservers, proc, warm, log, go>>

BaseExit(s) ==
  /\ At(s, "exit") /\ Return(s)
  /\ log' = [log EXCEPT ![s] = ReadExit(@, hook[s].rc)]
  /\ UNCHANGED <<files, net, helper, proc, warm, go>>
-----------------------------------------------------------------------------
(* openconnect: it waits for each hook before it does anything else *)

RunHook(s, reason) ==
  /\ hook[s].todo = <<>>
  /\ hook' = [hook EXCEPT ![s] = [reason |-> reason, todo |-> Calls(reason), rc |-> 0]]
  /\ log' = [log EXCEPT ![s] = ReadReason(@, reason)]
  /\ UNCHANGED <<files, defroute, pinned, routes, helper, warm, go>>

PreInit(s) ==
  /\ oc[s] = "boot" /\ RunHook(s, "pre-init")
  /\ oc' = [oc EXCEPT ![s] = "inited"]
  /\ UNCHANGED <<tun, intr, reconnects>>

ConnectHook(s) ==
  /\ oc[s] = "inited" /\ RunHook(s, "connect")
  /\ oc' = [oc EXCEPT ![s] = "up"] /\ tun' = s
  /\ UNCHANGED <<intr, reconnects>>

ReconnectHook(s) ==
  /\ oc[s] = "up" /\ ~intr[s] /\ reconnects[s] < MaxReconnect
  /\ \E r \in {"reconnect", "attempt-reconnect"} : RunHook(s, r)
  /\ reconnects' = [reconnects EXCEPT ![s] = @ + 1]
  /\ UNCHANGED <<tun, oc, intr>>

\* After a signal, or when the gateway ends the session.
DisconnectHook(s) ==
  /\ oc[s] = "up" /\ RunHook(s, "disconnect")
  /\ oc' = [oc EXCEPT ![s] = "ending"]
  /\ UNCHANGED <<tun, intr, reconnects>>

\* Mutant: the routes outlive the interface.
EndsKeepingRoutes(s, phase) ==
  /\ oc' = [oc EXCEPT ![s] = phase]
  /\ tun' = (IF tun = s THEN 0 ELSE tun)
  /\ UNCHANGED <<defroute, pinned, routes, intr, reconnects>>

\* The interface goes with the process, and its routes with the interface.
Ends(s, phase) ==
  /\ oc' = [oc EXCEPT ![s] = phase]
  /\ tun' = (IF tun = s THEN 0 ELSE tun)
  /\ routes' = (IF tun = s THEN {} ELSE routes)
  /\ UNCHANGED <<defroute, pinned, intr, reconnects>>

Exit(s) ==
  /\ oc[s] \in Alive \ {"up"} /\ hook[s].todo = <<>>
  /\ Ends(s, IF oc[s] = "ending" THEN "left" ELSE "dead")
  /\ UNCHANGED <<files, helper, hook, warm, log, go>>
-----------------------------------------------------------------------------
(* The commands *)

Latest(s) == \A t \in Session : t > s => go[t] = "idle"
Step(s, to) == go' = [go EXCEPT ![s] = to]

Start(s) ==
  /\ go[s] = "idle"
  /\ s > 1 => /\ go[s - 1] \in Finished \cup {"connected"}
              /\ oc[s - 1] \in Gone
  /\ Step(s, "conv")
  /\ oc' = [oc EXCEPT ![s] = "boot"]
  /\ UNCHANGED <<files, net, helper, intr, reconnects, hook, warm, log>>

\* Mutant: ready once the hook has announced its route overrides.
ReadyEarly(st) == st.event /\ st.route

Ready(st) == st.event /\ st.exit = "ok" /\ st.route /\ (Shim # {} => st.shim)

\* waitForPostConnectConvergence: the log says ready, or the start is undone
\* because openconnect is gone, the hook failed, or 20 seconds have passed.
Converge(s) ==
  /\ go[s] = "conv"
  /\ IF oc[s] \in Alive /\ Ready(log[s]) THEN Step(s, "warm") /\ UNCHANGED intr
                                         ELSE Step(s, "undo") /\ intr' = [intr EXCEPT ![s] = TRUE]
  /\ UNCHANGED <<files, net, helper, oc, reconnects, hook, warm, log>>

\* waitForProbeRouteWarmup: none of its outcomes, not even an exit, fails the start.
WarmupWait(s) ==
  /\ go[s] = "warm" /\ Step(s, "connected")
  /\ UNCHANGED <<files, net, helper, proc, hook, warm, log>>

Stop(s) ==
  /\ go[s] = "connected" /\ Latest(s) /\ oc[s] \in Alive
  /\ Step(s, "stopping")
  /\ intr' = [intr EXCEPT ![s] = TRUE]
  /\ UNCHANGED <<files, net, helper, oc, reconnects, hook, warm, log>>

\* The deadline for INT and TERM has passed.
Kill(s) ==
  /\ go[s] \in {"stopping", "undo"} /\ oc[s] \in Alive
  /\ Ends(s, "dead")
  /\ UNCHANGED <<files, helper, hook, warm, log, go>>

\* A stop waits for the hook to clean up, unless it has no time left.
SeenGone(s) ==
  /\ oc[s] \in Gone
  /\ \/ go[s] = "undo" /\ Step(s, "failed")
     \/ go[s] = "stopping" /\ \E to \in {"cleanup", "unwaited"} : Step(s, to)
  /\ UNCHANGED <<files, net, helper, proc, hook, warm, log>>

\* Mutant: a hook that is still running is not looked for.
PendingFiles(s) == \E d \in Shim : resolver[d] # "none"

Pending(s) == hook[s].todo # <<>> \/ warm[s] > 0 \/ \E d \in Shim : resolver[d] # "none"

\* The wait ends with nothing pending, or fails at its deadline.
CleanupWait(s) ==
  /\ go[s] = "cleanup"
  /\ Step(s, IF Pending(s) THEN "timeout" ELSE "stopped")
  /\ UNCHANGED <<files, net, helper, proc, hook, warm, log>>

\* The files of D without those that have a mark of openconnect-tun.
Unmarked(D) ==
  [d \in Files |-> IF d \in D /\ resolver[d] \in {"shim", "bypass"} THEN "none" ELSE resolver[d]]

\* stop when the recorded process is gone: the orphaned files are removed, unless Cisco's
\* own client is connected; the removal may fail half way.
StaleStop(s) ==
  /\ go[s] \in {"connected", "failed", "timeout", "unwaited"}
  /\ Latest(s) /\ oc[s] \in Gone
  /\ \/ Step(s, "stale") /\ resolver' \in {resolver, Unmarked(Files)}
     \/ /\ Unmarked(Files) # resolver /\ Step(s, "failed")
        /\ \E D \in SUBSET Files : resolver' = Unmarked(D)
  /\ UNCHANGED <<failed, searches, net, helper, proc, hook, warm, log>>
-----------------------------------------------------------------------------
(* Others on the machine *)

Roam ==
  /\ defroute' = ~defroute
  /\ UNCHANGED <<files, pinned, tun, routes, helper, proc, hook, warm, log, go>>

TailscaleWrites ==
  /\ "tailscale" \in others
  /\ \E file \in (SUBSET Entries) \cup {NoFile} : search' = file /\ owned' = file
  /\ UNCHANGED <<resolvers, unsanitized, net, helper, proc, hook, warm, log, go>>

ForeignWrites ==
  /\ "foreign" \in others
  /\ \E d \in Files : resolver[d] # "user" /\ resolver' = [resolver EXCEPT ![d] = "user"]
  /\ UNCHANGED <<failed, searches, net, helper, proc, hook, warm, log, go>>

Hook(s) ==
  \/ CaptureDefaultRoute(s) \/ CapturePublicNameservers(s) \/ BaseCommand(s)
  \/ PinVpnGatewayRoute(s) \/ RemoveScopedDefaultRoute(s) \/ EnforceRouteOverrides(s)
  \/ ApplyDnsShim(s) \/ ApplyPublicBypassShim(s) \/ LaunchProbeHostRouteWarmup(s)
  \/ RemoveVpnGatewayRoute(s) \/ SyncProbeRemove(s) \/ RemovePublicBypassShim(s)
  \/ RemoveDnsShim(s) \/ BaseExit(s) \/ Warmup(s)

OpenConnect(s) ==
  PreInit(s) \/ ConnectHook(s) \/ ReconnectHook(s) \/ DisconnectHook(s) \/ Exit(s)

Command(s) ==
  \/ Start(s) \/ Converge(s) \/ WarmupWait(s) \/ Stop(s) \/ Kill(s)
  \/ SeenGone(s) \/ CleanupWait(s) \/ StaleStop(s)

Next ==
  /\ UNCHANGED others
  /\ \/ \E s \in Session : Hook(s) \/ OpenConnect(s) \/ Command(s)
     \/ Roam \/ TailscaleWrites \/ ForeignWrites

Spec == Init /\ [][Next]_vars
-----------------------------------------------------------------------------
(* Properties *)

Connected(s) == go[s] \in {"warm", "connected"} /\ oc[s] = "up"
Untouched    == \A d \in Files \ failed : resolver[d] # "user"

\* While a start that trusted the hook's log holds the tunnel open, every name of
\* the VPN domains that no bypass suffix covers is looked up at the VPN's servers,
\* unless a file that matches it is one the hook failed to write.
VpnNamesOnVpn ==
  \A s \in Session : Connected(s) /\ Untouched =>
    \A n \in Name :
      Covered(n, VPNDomains \cup ServerDomains) /\ ~Covered(n, BypassSuffixes \cup failed) =>
        Lookup(n) = "shim"

\* The bypass suffixes stay on the public path while the tunnel is up, as far as
\* the pre-init hook found the public name servers and the file of one was written.
BypassWhenCaptured ==
  \A s \in Session : Connected(s) /\ Untouched /\ nameservers[s] =>
    \A n \in Name : Covered(n, BypassSuffixes \ failed) => Lookup(n) # "shim"

\* A stop that waited and reports success leaves no shim file, no hook and no warmup; it
\* never looks at the bypass files, but leaves none unless the hooks failed on a file.
StoppedClean ==
  \A s \in Session : go[s] = "stopped" /\ Latest(s) =>
    /\ \A d \in Files : resolver[d] # "shim" /\ (resolver[d] = "bypass" => failed # {})
    /\ hook[s].todo = <<>> /\ warm[s] = 0

\* An openconnect that ran its disconnect hook leaves no file but those the hook failed
\* to remove, and not the route to the gateway, even when the hook's base command failed.
DisconnectCleans ==
  \A s \in Session : oc[s] = "left" /\ Latest(s) =>
    /\ \A d \in Files \ failed : resolver[d] \notin {"shim", "bypass"}
    /\ ~pinned

\* While the tunnel is up, search.tailscale is as its owner wrote it or lists
\* nothing that the VPN's resolvers answer, unless the hook failed to sanitize it.
SearchClean ==
  \A s \in Session : Connected(s) /\ search # NoFile =>
    \/ search = owned
    \/ \A e \in search : Covered(e, Cleanup) => Covered(e, BypassSuffixes)
    \/ unsanitized

-----------------------------------------------------------------------------
(* What a document, a comment or an error message of the repository says   *)
(* and the model refutes: see "What the code does not keep" in README.md.  *)

\* A start is connected only with its split-DNS resolvers in place: the hook's log says so.
ShimsInPlace ==
  \A s \in Session : Connected(s) /\ Untouched => \A d \in Shim : resolver[d] = "shim"

\* A stop that reports success leaves no file with a marker.
StopLeavesNothing ==
  \A s \in Session : go[s] = "stopped" /\ Latest(s) =>
    \A d \in Files : resolver[d] \notin {"shim", "bypass"}

\* The bypass suffixes stay on the public path (README), captured or not.
BypassPublic ==
  \A s \in Session : Connected(s) /\ Untouched =>
    \A n \in Name : Covered(n, BypassSuffixes) => Lookup(n) # "shim"

\* Entries of search.tailscale that the bypass suffixes cover are preserved (README).
SearchPreserved ==
  \A s \in Session : Connected(s) /\ owned # NoFile =>
    \A e \in owned : Covered(e, BypassSuffixes) => search # NoFile /\ e \in search

\* Only files with the marker of openconnect-tun count as present (README): a stop
\* fails over pending cleanup only if such a file, or a hook, is really left.
StopIgnoresForeignFiles ==
  [][\A s \in Session : go[s] = "cleanup" /\ go'[s] = "timeout" =>
       hook[s].todo # <<>> \/ warm[s] > 0 \/ \E d \in Shim : resolver[d] = "shim"]_vars

=============================================================================
