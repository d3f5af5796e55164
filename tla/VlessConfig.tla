----------------------------- MODULE VlessConfig -----------------------------
(***************************************************************************)
(* The configuration file of vless-tun (vless/config/config.go) and the    *)
(* commands that read and rewrite it: setup, set-current and every command *)
(* that resolves a server and a profile.                                   *)
(*                                                                         *)
(* A setting that a JSON object does not have is None; an explicit empty   *)
(* list is {}, and max_lines 0 is 0.  `routes` stands for every ordinary   *)
(* setting (routes, bypass_exclude_suffixes, and each field of the engine, *)
(* Xray, sing-box, sniff and TLS objects, which are merged field by field),*)
(* which the more specific scope replaces.  --transport is left out:       *)
(* it takes precedence over the transports as --selector does.             *)
(***************************************************************************)
EXTENDS Naturals

CONSTANTS None,         \* a field that is not there, a name that is not given
          DefaultBypass, \* routing.bypass_suffixes of a new configuration
          DefaultLines,  \* logging.max_lines of a new configuration
          Servers, Profiles, Selectors, \* names and selectors a user may give
          Suffixes,      \* what bypass lists are made of
          Files          \* the files a user may have written

(* What the files decode to.                                                 *)

BypassType(x) == x.bypass = None \/ x.bypass \subseteq Suffixes

IsProfile(x) ==
  /\ x = [selector |-> x.selector, transport |-> x.transport, match |-> x.match,
          pick |-> x.pick, bypass |-> x.bypass, routes |-> x.routes]
  /\ BypassType(x)

IsServer(x) ==
  /\ x = [engine |-> x.engine, bypass |-> x.bypass, routes |-> x.routes,
          profiles |-> [p \in DOMAIN x.profiles |-> x.profiles[p]]]
  /\ BypassType(x)
  /\ DOMAIN x.profiles \subseteq Profiles
  /\ \A p \in DOMAIN x.profiles : IsProfile(x.profiles[p])

IsConfig(f) ==
  /\ f = [current |-> f.current, default |-> f.default, selected |-> f.selected,
          bypass |-> f.bypass, routes |-> f.routes, maxLines |-> f.maxLines,
          servers |-> [s \in DOMAIN f.servers |-> f.servers[s]]]
  /\ BypassType(f)
  /\ f.current \in {None} \cup [server : Servers, profile : Profiles \cup {None}]
  /\ f.default # None =>
       f.default = [selector |-> f.default.selector, transport |-> f.default.transport]
  /\ DOMAIN f.servers \subseteq Servers
  /\ \A s \in DOMAIN f.servers : IsServer(f.servers[s])

DefaultsAssumption ==
  /\ DefaultBypass # {} /\ DefaultBypass \subseteq Suffixes /\ DefaultLines \in Nat \ {0}
  /\ None \notin {"sing-box"} \cup Servers \cup Profiles \cup Selectors
  /\ \A list \in SUBSET Suffixes : list # None
  /\ \A f \in Files : f # None => IsConfig(f)

VARIABLES file,   \* the configuration on disk, None when there is none
          last    \* the last command: its name, options and what it resolved

vars == <<file, last>>

Options == [server : Servers \cup {None}, profile : Profiles \cup {None},
            selector : Selectors \cup {None}]

NoOptions == [server |-> None, profile |-> None, selector |-> None]

firstNonEmpty(a, b) == IF a # None THEN a ELSE b

---------------------------------------------------------------------------
(* JSON in both directions.  Unmarshal keeps the default of a field that is  *)
(* absent; omitempty leaves out an empty list, a zero and an empty string.   *)

Unmarshal(f) ==
  [f EXCEPT !.bypass = firstNonEmpty(@, DefaultBypass),
            !.maxLines = firstNonEmpty(@, DefaultLines)]

OmitEmpty(v) == IF v = {} THEN None ELSE v

OmitScope(x) == [x EXCEPT !.bypass = OmitEmpty(@), !.routes = OmitEmpty(@)]

ServerJSON(x) ==
  [OmitScope(x) EXCEPT !.profiles = [p \in DOMAIN x.profiles |-> OmitScope(x.profiles[p])]]

writeJSON(c) ==
  [OmitScope(c) EXCEPT
     !.maxLines = IF @ = 0 THEN None ELSE @,
     !.servers = [s \in DOMAIN c.servers |-> ServerJSON(c.servers[s])]]

---------------------------------------------------------------------------
(* Resolution of a server and a profile.                                     *)

\* Mutant: the values of the more specific scope replace those of the broader one.
mergeBypassReplaced(base, override) == firstNonEmpty(override, base)

mergeBypassSuffixes(base, override) ==
  IF override = None THEN base
  ELSE IF override = {} \/ base = None THEN override
  ELSE base \cup override

\* Also mergeEngineConfig, mergeXrayEngineConfig, mergeSingboxConfig, mergeSniffConfig
\* and mergeTLSClientConfig, whose fields are all like `routes`.
mergeRoutingConfig(base, override) ==
  [bypass |-> mergeBypassSuffixes(base.bypass, override.bypass),
   routes |-> firstNonEmpty(override.routes, base.routes)]

legacyDefaultProfileSelector(c) ==
  IF c.default = None THEN c.selected ELSE firstNonEmpty(c.default.selector, c.selected)

legacyDefaultProfileTransport(c) == IF c.default = None THEN None ELSE c.default.transport

CurrentServer(c) == IF c.current = None THEN None ELSE c.current.server
CurrentProfile(c) == IF c.current = None THEN None ELSE c.current.profile

IsSingleton(S) == \E x \in S : S = {x}
Only(S) == CHOOSE x \in S : TRUE

\* The server a command means; None when there is none or no such one.
resolveServerConfig(c, override) ==
  LET name == firstNonEmpty(override, CurrentServer(c))
  IN IF name # None THEN IF name \in DOMAIN c.servers THEN name ELSE None
     ELSE IF IsSingleton(DOMAIN c.servers) THEN Only(DOMAIN c.servers) ELSE None

\* Mutant: the current profile is taken for every server.
resolveProfileConfigAny(c, server, override, useCurrent, allowMissing) ==
  LET names == DOMAIN c.servers[server].profiles
      name  == firstNonEmpty(override, CurrentProfile(c))
  IN IF name \in names THEN [ok |-> TRUE, name |-> name]
     ELSE IF IsSingleton(names) THEN [ok |-> TRUE, name |-> Only(names)]
     ELSE [ok |-> names = {} \/ allowMissing, name |-> None]

resolveProfileConfig(c, server, override, useCurrent, allowMissing) ==
  LET names == DOMAIN c.servers[server].profiles
      name  == firstNonEmpty(override, IF useCurrent THEN CurrentProfile(c) ELSE None)
  IN IF names = {} THEN [ok |-> TRUE, name |-> None]
     ELSE IF name # None THEN [ok |-> name \in names, name |-> name]
     ELSE IF IsSingleton(names) THEN [ok |-> TRUE, name |-> Only(names)]
     ELSE [ok |-> allowMissing, name |-> None]

\* Effective copies the configuration and sets the selector and the transport it
\* has resolved as the defaults of the copy; when there is a `default` object the
\* copy shares it with the original, which changes with it (`base`).
SharedDefault(c, selector, transport) ==
  IF c.default = None THEN c
  ELSE [c EXCEPT !.default = [selector |-> selector, transport |-> transport]]

\* Mutant: a selector of the command line does not put aside the match.
EffectiveBoth(c, o, s, q) ==
  LET prof     == c.servers[s].profiles[q]
      scope    == mergeRoutingConfig(mergeRoutingConfig(c, c.servers[s]), prof)
      selector == firstNonEmpty(o.selector, firstNonEmpty(prof.selector, legacyDefaultProfileSelector(c)))
      trans    == firstNonEmpty(prof.transport, legacyDefaultProfileTransport(c))
  IN [base |-> SharedDefault(c, selector, trans), server |-> s, profile |-> q,
      selector |-> selector, transport |-> trans, match |-> prof.match, pick |-> prof.pick,
      bypass |-> scope.bypass, routes |-> scope.routes]

EffectiveProfile(c, o, s, q) ==
  LET prof     == c.servers[s].profiles[q]
      scope    == mergeRoutingConfig(mergeRoutingConfig(c, c.servers[s]), prof)
      chosen   == firstNonEmpty(o.selector, firstNonEmpty(prof.selector, legacyDefaultProfileSelector(c)))
      match    == IF o.selector # None THEN None ELSE prof.match
      selector == IF match # None THEN None ELSE chosen
      trans    == firstNonEmpty(prof.transport, legacyDefaultProfileTransport(c))
  IN [base |-> SharedDefault(c, selector, trans), server |-> s, profile |-> q,
      selector |-> selector, transport |-> trans, match |-> match,
      pick |-> IF o.selector # None THEN None ELSE prof.pick,
      bypass |-> scope.bypass, routes |-> scope.routes]

\* No profile: the selector and the transport of the command or the defaults.
EffectiveServer(c, o, s, scope) ==
  LET selector == firstNonEmpty(o.selector, legacyDefaultProfileSelector(c))
      trans    == legacyDefaultProfileTransport(c)
  IN [base |-> SharedDefault(c, selector, trans), server |-> s, profile |-> None,
      selector |-> selector, transport |-> trans, match |-> None, pick |-> None,
      bypass |-> scope.bypass, routes |-> scope.routes]

Effective(c, o, allowMissing) ==
  IF DOMAIN c.servers = {}
  THEN EffectiveServer(c, [o EXCEPT !.selector = firstNonEmpty(@, o.profile)], None, c)
  ELSE LET s == resolveServerConfig(c, o.server)
           p == resolveProfileConfig(c, s, o.profile, o.server \in {None, CurrentServer(c)},
                                     allowMissing)
       IN IF s = None THEN None
          ELSE IF ~p.ok THEN None
          ELSE IF p.name = None
          THEN EffectiveServer(c, o, s, mergeRoutingConfig(c, c.servers[s]))
          ELSE EffectiveProfile(c, o, s, p.name)

Valid(c) ==
  /\ \A s \in DOMAIN c.servers :
       /\ c.servers[s].engine # None
       /\ \A p \in DOMAIN c.servers[s].profiles :
            LET prof == c.servers[s].profiles[p]
            IN /\ prof.match = None \/ prof.selector = None
               /\ prof.pick = None \/ prof.match # None
  /\ Effective(c, NoOptions, TRUE) # None

\* Load validates with Effective, and so returns a configuration that it has changed.
Load(f) ==
  IF f = None THEN None
  ELSE IF ~Valid(Unmarshal(f)) THEN None
  ELSE Effective(Unmarshal(f), NoOptions, TRUE).base

\* loadEffectiveConfig: what a command other than setup and set-current works with.
Resolve(f, o, allowMissing) ==
  LET c == Load(f)
  IN IF c = None THEN None ELSE Effective(c, o, allowMissing)

---------------------------------------------------------------------------
Outcome(cmd, o, r) ==
  last' = [cmd |-> cmd, opts |-> o,
           res |-> IF r = None THEN None ELSE [x \in DOMAIN r \ {"base"} |-> r[x]]]

\* start, reconnect and render want a profile; refresh, list and status do without.
Run(o) ==
  /\ \E allowMissing \in BOOLEAN :
       Outcome(IF allowMissing THEN "list" ELSE "start", o, Resolve(file, o, allowMissing))
  /\ UNCHANGED file

\* Mutant: a name is stored without a look at the servers.
resolveCurrentUpdateBlind(c, o) ==
  [server |-> firstNonEmpty(o.server, CurrentServer(c)), profile |-> o.profile]

\* Mutant: an omitted profile keeps the one that is current.
resolveCurrentUpdateKept(c, o) ==
  LET s == firstNonEmpty(o.server, CurrentServer(c))
  IN IF s \notin DOMAIN c.servers THEN None
     ELSE [server |-> s, profile |-> firstNonEmpty(o.profile, CurrentProfile(c))]

resolveCurrentUpdate(c, o) ==
  LET named == firstNonEmpty(o.server, CurrentServer(c))
      s     == IF named # None \/ ~IsSingleton(DOMAIN c.servers) THEN named
               ELSE Only(DOMAIN c.servers)
      names == DOMAIN c.servers[s].profiles
      p     == IF o.profile # None THEN o.profile
               ELSE IF "default" \in names THEN "default"
               ELSE IF IsSingleton(names) THEN Only(names) ELSE None
  IN IF s \notin DOMAIN c.servers THEN None
     ELSE IF names = {}
     THEN IF o.profile # None THEN None ELSE [server |-> s, profile |-> None]
     ELSE IF p \notin names THEN None ELSE [server |-> s, profile |-> p]

SetCurrent(o) ==
  LET c == Load(file)
      u == IF c = None THEN None ELSE resolveCurrentUpdate(c, o)
      r == IF u = None THEN None ELSE Effective([c EXCEPT !.current = u], NoOptions, FALSE)
  IN /\ o.selector = None
     /\ Outcome("set-current", o, r)
     /\ file' = IF r = None THEN file ELSE writeJSON(r.base)

\* Mutant: the selector is left in the object that setup clears.
withDefaultServerProfileBare(o) ==
  [current |-> [server |-> o.server, profile |-> o.profile], default |-> None,
   selected |-> None, bypass |-> None, routes |-> None, maxLines |-> DefaultLines,
   servers |-> [s \in {o.server} |->
     [engine |-> "sing-box", bypass |-> DefaultBypass, routes |-> None,
      profiles |-> [p \in {o.profile} |->
        [selector |-> None, transport |-> None, match |-> None, pick |-> None,
         bypass |-> None, routes |-> None]]]]]

\* A new configuration moves the defaults into its one server.
withDefaultServerProfile(o) ==
  [current |-> [server |-> o.server, profile |-> o.profile], default |-> None,
   selected |-> None, bypass |-> None, routes |-> None, maxLines |-> DefaultLines,
   servers |-> [s \in {o.server} |->
     [engine |-> "sing-box", bypass |-> DefaultBypass, routes |-> None,
      profiles |-> [p \in {o.profile} |->
        [selector |-> o.selector, transport |-> None, match |-> None, pick |-> None,
         bypass |-> None, routes |-> None]]]]]

Setup(o, force) ==
  LET c == withDefaultServerProfile(o)
  IN /\ o.server # None /\ o.profile # None
     /\ IF file # None /\ ~force THEN Outcome("setup", o, None) /\ UNCHANGED file
        ELSE Outcome("setup", o, Effective(c, NoOptions, FALSE)) /\ file' = writeJSON(c)

Init == file \in Files /\ last = [cmd |-> "none", opts |-> NoOptions, res |-> None]

Next ==
  \E o \in Options :
    \/ Run(o)
    \/ SetCurrent(o)
    \/ \E force \in BOOLEAN : Setup(o, force)

Spec == Init /\ [][Next]_vars

---------------------------------------------------------------------------
(* What must hold.                                                           *)

TypeOK ==
  /\ file # None => IsConfig(file)
  /\ last.cmd \in {"none", "start", "list", "set-current", "setup"}
  /\ last.opts \in Options

Asked(o, r) == (o.server # None => r.server = o.server) /\ (o.profile # None => r.profile = o.profile)

\* What set-current or setup has reported is what the next command without
\* arguments resolves from the file: the server and profile asked for, and the
\* selector, transport and match reported (README: "so later no-argument commands
\* use that selection").
SelectionSticks ==
  last.cmd \in {"set-current", "setup"} /\ last.res # None =>
    LET r == Resolve(file, NoOptions, FALSE)
    IN /\ Asked(last.opts, last.res)
       /\ r # None
       /\ \A x \in {"server", "profile", "selector", "transport", "match", "pick"} :
            r[x] = last.res[x]

\* A setup is usable as it stands: the selector it was given is in force and the
\* bypass list of a new configuration is.
SetupUsable ==
  last.cmd = "setup" /\ last.res # None =>
    LET r == Resolve(file, NoOptions, FALSE)
    IN r # None /\ r.selector = last.opts.selector /\ r.bypass = DefaultBypass

\* A profile of the result is one of the result's own server, named by the command,
\* current for that very server, or its only one; never the current one of another.
NoForeignProfile ==
  last.cmd \in {"start", "list"} /\ last.res # None =>
    LET r == last.res
    IN r.profile # None =>
         /\ r.profile \in DOMAIN file.servers[r.server].profiles
         /\ \/ r.profile = last.opts.profile
            \/ file.current = [server |-> r.server, profile |-> r.profile]
            \/ DOMAIN file.servers[r.server].profiles = {r.profile}

\* A selector and a match never direct one selection, and a selector on the
\* command line is obeyed.
OneCriterion ==
  last.cmd \in {"start", "list"} /\ last.res # None =>
    /\ last.res.selector = None \/ last.res.match = None
    /\ last.opts.selector # None => last.res.selector = last.opts.selector
    /\ last.res.pick # None => last.res.match # None

\* Bypass suffixes of all scopes add up, unless a more specific scope has an explicit
\* empty list (README: "a machine-wide bypass cannot be suppressed by a selected
\* server/profile").
BypassAdditive ==
  last.cmd \in {"start", "list"} /\ last.res # None /\ last.res.server # None =>
    LET r       == last.res
        server  == file.servers[r.server].bypass
        profile == IF r.profile = None THEN None
                   ELSE file.servers[r.server].profiles[r.profile].bypass
        machine == firstNonEmpty(file.bypass, DefaultBypass)
    IN /\ server # {} /\ profile # {} => machine \subseteq r.bypass
       /\ server # None /\ profile # {} => server \subseteq r.bypass
       /\ profile # None => profile \subseteq r.bypass
       /\ profile = {} => r.bypass = {}

-----------------------------------------------------------------------------
(* What a document, a comment or an error message of the repository says   *)
(* and the model refutes: see "What the code does not keep" in README.md.  *)

\* set-current changes the selection and nothing else: explicit empty lists and a
\* log bound of 0 keep their meaning for every server and profile (README:
\* "Updates `current.server` and `current.profile`").
ExplicitEmptyKept ==
  [][last'.cmd = "set-current" /\ last'.res # None =>
       /\ Unmarshal(file').maxLines = Unmarshal(file).maxLines
       /\ \A s \in Servers, p \in Profiles :
            LET o      == [NoOptions EXCEPT !.server = s, !.profile = p]
                before == Resolve(file, o, FALSE)
                after  == Resolve(file', o, FALSE)
            IN before # None /\ after # None => after.bypass = before.bypass]_vars

\* set-current leaves the default selector and transport as the user wrote them.
DefaultKept ==
  [][last'.cmd = "set-current" /\ last'.res # None => file'.default = file.default]_vars

=============================================================================
