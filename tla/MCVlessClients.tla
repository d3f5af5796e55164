---------------------------- MODULE MCVlessClients ----------------------------
(***************************************************************************)
(* The parts of the vless clients that do not call each other while they   *)
(* work, explored side by side in one run: part names the one that moves,  *)
(* the others stay in their initial state.                                 *)
(***************************************************************************)
EXTENDS Naturals, FiniteSets, TLC

CONSTANTS None, Empty, Damaged,
          Servers, Profiles, Selectors, \* names and selectors a user may give
          Suffixes,            \* what bypass lists are made of
          Files,               \* configuration files to begin with
          Proc,                \* commands that read and write a cache
          Source, CacheOf,     \* subscriptions of the servers and their cache directories
          MaxVersion, MaxRuns, \* bounds: what a provider publishes, and commands
          Job, Server,         \* Android: coroutines and command servers
          PatientJob, PatientServer

---------------------------------------------------------------------------
(* Configuration files: two servers, the first with none to two profiles,  *)
(* every scope of the bypass list absent, empty or filled.                 *)

DefaultBypass == {"ru"}
Prof(selector, match, bypass) ==
  [selector |-> selector, transport |-> None, match |-> match,
   pick |-> IF match = None THEN None ELSE "first", bypass |-> bypass, routes |-> None]
Bare == Prof(None, None, None)
ProfileMaps ==
  {<<>>} \cup {"q" :> p : p \in {Bare, Prof(None, "m", {"c"})}}
  \cup {("p" :> p) @@ ("q" :> Bare) : p \in {Prof("x", None, {}), Prof(None, "m", {"c"})}}
  \cup {("default" :> Prof("x", None, {})) @@ ("q" :> Prof("y", None, None))}
ServerOf(bypass, profiles) ==
  [engine |-> "sing-box", bypass |-> bypass, routes |-> None, profiles |-> profiles]

\* The older form, without servers.
FlatFiles ==
  {[current |-> None, default |-> default, selected |-> selected, bypass |-> bypass,
    routes |-> None, maxLines |-> None, servers |-> <<>>] :
     default \in {None, [selector |-> None, transport |-> "tcp"]}, selected \in {None, "x"},
     bypass \in {None, {}, {"a"}}}
ServerFiles ==
  {[current |-> current, default |-> IF two THEN None ELSE default, selected |-> None,
    bypass |-> IF two THEN {"a"} ELSE None, routes |-> None, maxLines |-> 0,
    servers |-> ("s" :> ServerOf(own, profiles))
                @@ (IF two THEN "t" :> ServerOf(None, "p" :> Prof("y", None, None)) ELSE <<>>)] :
     current \in {None, [server |-> "s", profile |-> "p"], [server |-> "t", profile |-> "p"]},
     default \in {None, [selector |-> "x", transport |-> "tcp"]},
     own \in {{}, {"b"}}, profiles \in ProfileMaps, two \in BOOLEAN}
\* Files no command can load: match and selector together.
RefusedFiles ==
  {[f EXCEPT !.servers["s"].profiles = "q" :> [Prof("x", "m", None) EXCEPT !.pick = None]] :
     f \in {g \in ServerFiles : g.bypass = None}}
ConfigFiles == {None} \cup FlatFiles \cup ServerFiles \cup RefusedFiles

---------------------------------------------------------------------------
(* Selections: every selector, transport and pick.                         *)

Listed ==
  [id : {0}, fits : {"no", "part", "exact"}, transport : {"tcp", "grpc"}, accepted : BOOLEAN]
Lists(S) == UNION {[1..k -> S] : k \in 0..3}
Input(profiles, selector, transport, match, pick, sessions) ==
  [profiles |-> profiles, selector |-> selector, transport |-> transport, match |-> match,
   pick |-> pick, sessions |-> sessions]
SelectInputs ==
  {Input(l, s, t, None, "only", {}) :
     l \in Lists({p \in Listed : p.accepted}), s \in BOOLEAN, t \in {None, "tcp"}}
Up(same, id)   == [alive |-> TRUE, same |-> same, id |-> id]
Dead(id)       == [alive |-> FALSE, same |-> TRUE, id |-> id]
MatchInputs ==
  {Input(l, FALSE, t, m, pick, s) :
     l \in Lists({p \in Listed : p.fits = "no"}), t \in {None, "tcp"},
     m \in {"any", "grpc"}, pick \in {"only", "first", "probe"},
     s \in {{}, {Up(TRUE, 2)}, {Up(TRUE, 1), Up(FALSE, 2)}, {Dead(2), Up(FALSE, 1)}, {Dead(2)}}}
Inputs == SelectInputs \cup MatchInputs
NoInput == Input(<<>>, FALSE, None, None, "only", {})

---------------------------------------------------------------------------
(* Subscriptions: each server has a cache directory of its own.             *)

OwnDirectories == [s \in Source |-> s]

---------------------------------------------------------------------------
VARIABLE part

\* The configuration of two servers.
VARIABLES file, last
configVars == <<file, last>>
Config == INSTANCE VlessConfig WITH
  DefaultLines <- 1000

\* Servers with their subscriptions and cache directories.
VARIABLES provider, snap, pc, cmd, got, out, hist, runs
subscriptionVars == <<provider, snap, pc, cmd, got, out, hist, runs>>
Subscription == INSTANCE Subscription WITH
  Procs <- Proc, Sources <- Source

\* Subscriptions of up to three profiles.
VARIABLES input, at, cand, dials, sent, chan, count, best, expired, result
profileVars == <<input, at, cand, dials, sent, chan, count, best, expired, result>>
Resolution == INSTANCE ProfileResolution WITH
  pc <- at, queue <- chan, Inputs <- Inputs, Durations <- {1, 2}, MaxProfiles <- 3

\* Android: a start and the stop that crosses it, and another VPN application.
VARIABLES shown, synced, pending, consent, queue, conn, binder, granted, service, stopped,
          phase, backend, tun, tunOpened, server, boxes, xray, job, wish
androidVars == <<shown, synced, pending, consent, queue, conn, binder, granted, service,
                 stopped, phase, backend, tun, tunOpened, server, boxes, xray, job, wish>>
Android == INSTANCE AndroidTunnel WITH
  Engine <- {"singbox"}, MaxPending <- 1, Patient <- FALSE, Revocable <- TRUE

\* Android: starts and stops that cross with either engine.
Engines == INSTANCE AndroidTunnel WITH
  Engine <- {"singbox", "xray"}, MaxPending <- 1, Patient <- FALSE, Revocable <- FALSE

\* Android: a user who waits for the outcome of one step before the next.
Careful == INSTANCE AndroidTunnel WITH
  Engine <- {"singbox", "xray"}, Job <- PatientJob, Server <- PatientServer,
  MaxPending <- 1, Patient <- TRUE, Revocable <- FALSE

vars == <<part, configVars, subscriptionVars, profileVars, androidVars>>

ASSUME ClientsAssumption ==
  /\ Config!DefaultsAssumption /\ Subscription!BoundsAssumption
  /\ Resolution!InputsAssumption
  /\ Android!AndroidAssumption /\ Engines!AndroidAssumption /\ Careful!AndroidAssumption

Init ==
  /\ part \in {"config", "subscription", "profile", "android", "engines", "patient"}
  /\ Config!Init /\ (part # "config" => file = None)
  /\ Resolution!Init /\ (part # "profile" => input = NoInput)
  /\ Subscription!Init
  /\ IF part = "patient" THEN Careful!Init ELSE Engines!Init

Next ==
  \/ part = "config" /\ Config!Next
     /\ UNCHANGED <<part, subscriptionVars, profileVars, androidVars>>
  \/ part = "subscription" /\ Subscription!Next
     /\ UNCHANGED <<part, configVars, profileVars, androidVars>>
  \/ part = "profile" /\ Resolution!Next
     /\ UNCHANGED <<part, configVars, subscriptionVars, androidVars>>
  \/ part = "android" /\ Android!Next
     /\ UNCHANGED <<part, configVars, subscriptionVars, profileVars>>
  \/ part = "engines" /\ Engines!Next
     /\ UNCHANGED <<part, configVars, subscriptionVars, profileVars>>
  \/ part = "patient" /\ Careful!Next
     /\ UNCHANGED <<part, configVars, subscriptionVars, profileVars>>

Spec == Init /\ [][Next]_vars

---------------------------------------------------------------------------
\* Left out is what no step reads: wish, which phase the button does not tell
\* apart, the screen and the binding of a service that is destroyed, and which of the
\* coroutines, interchangeable as they are, does what.
Coroutines ==
  {<<job[j], Cardinality({k \in DOMAIN job : job[k] = job[j]})>> : j \in DOMAIN job}
AndroidView ==
  <<IF service = "destroyed" THEN <<>>
    ELSE <<shown \in {"Connecting", "Connected"}, synced, pending, consent, queue, conn, binder>>,
    granted, service, stopped, phase, backend, tun, tunOpened, server, boxes, xray, Coroutines>>

View ==
  <<part, CASE part = "config"       -> configVars
            [] part = "subscription" -> subscriptionVars
            [] part = "profile"      -> profileVars
            [] part \in {"android", "engines"} -> AndroidView
            [] part = "patient"      -> androidVars>>

---------------------------------------------------------------------------
(* What must hold of each part: its types, and                              *)

\* The configuration of vless-tun.  set-current and setup: the next command without
\* arguments resolves what they reported, and what setup was given is in force.  The
\* profile of a server is its own, never the current one of another; one criterion
\* selects; the scopes of the bypass list add up unless one is explicitly empty.
ConfigCorrect ==
  part = "config" =>
    /\ Config!TypeOK
    /\ Config!SelectionSticks /\ Config!SetupUsable
    /\ Config!NoForeignProfile /\ Config!OneCriterion /\ Config!BypassAdditive

\* The subscription cache.  A command uses only a snapshot that was written whole,
\* although others truncate and rewrite the file; what a refresh reports is what the
\* provider served; an old one is used only when the provider is down; and it is the
\* one of the server asked for.
CacheCorrect ==
  part = "subscription" =>
    /\ Subscription!TypeOK
    /\ Subscription!OnlyWhole /\ Subscription!RefreshedIsCurrent
    /\ Subscription!StaleOnlyWhenDown /\ Subscription!OwnCache

\* The choice of a profile.  It fits selector, transport and match; it depends on the
\* order of the list only where the first is meant; it stays with the one that is up;
\* and the probe returns the fastest of the results it has received, also when the
\* deadline ends it before all have answered.
ChoiceCorrect ==
  part = "profile" =>
    /\ Resolution!TypeOK
    /\ Resolution!ChosenFits /\ Resolution!OrderIndependent
    /\ Resolution!StickyWhileUp /\ Resolution!FastestReceived

\* The Android service.  Whatever starts, stops and revocations have crossed, once the
\* coroutines have ended an open tun interface is published as Connected, and before
\* that the service is in Connecting or Disconnecting only while one of them is left to
\* publish its end.  For a user who waits, Connected means an open tun and a running
\* engine.
AndroidCorrect ==
  /\ part = "android" => Android!TypeOK /\ Android!TunPublished /\ Android!NeverStuck
  /\ part = "engines" => Engines!TypeOK /\ Engines!TunPublished /\ Engines!NeverStuck
  /\ part = "patient" => Careful!TypeOK /\ Careful!ConnectedMeansUp
=============================================================================
