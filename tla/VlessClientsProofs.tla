------------------------- MODULE VlessClientsProofs -------------------------
(***************************************************************************)
(* Proofs about the parts of the vless clients that MCVlessClients          *)
(* explores, for every value of its constants.                              *)
(***************************************************************************)
EXTENDS MCVlessClients, TLAPS

\* A step of one part leaves which part it is.
LEMMA PartKept == [Next]_vars => part' = part
  BY DEF Next, vars

-----------------------------------------------------------------------------
(* The subscription cache                                                   *)

Outcomes ==
  [done : BOOLEAN, use : Subscription!Snapshots \cup {None}, fresh : BOOLEAN]

\* What a command has fetched or used, and what was true when it began.
OutcomeType ==
  /\ out \in [Proc -> Outcomes]
  /\ hist \in [Proc -> [ver : 1..MaxVersion, cached : BOOLEAN,
                        answer : Subscription!Answers \cup {None}]]

\* A command that is under way has no outcome, and is where its options lead it.
CommandInv ==
  \A p \in Proc :
    /\ pc[p] # "idle" => cmd[p] # None /\ ~out[p].done
    /\ out[p].done => cmd[p] # None
    /\ pc[p] = "load" => ~cmd[p].refresh
    /\ pc[p] = "fallback" =>
         cmd[p].name = "start" /\ cmd[p].refresh /\ hist[p].answer = "down"

\* Nothing is newer than what the provider serves, and what a command has fetched is at
\* least what was served when it began.
VersionInv ==
  /\ \A d \in Subscription!Dirs : snap[d] \in Subscription!Snapshots =>
       snap[d].ver <= provider[snap[d].src] /\ CacheOf[snap[d].src] = d
  /\ \A p \in Proc :
       /\ cmd[p] # None => hist[p].ver <= provider[cmd[p].source]
       /\ got[p] # None =>
            /\ got[p].src = cmd[p].source
            /\ hist[p].ver <= got[p].ver /\ got[p].ver <= provider[got[p].src]

CacheInv ==
  /\ Subscription!TypeOK /\ OutcomeType /\ CommandInv /\ VersionInv
  /\ Subscription!OnlyWhole /\ Subscription!RefreshedIsCurrent
  /\ Subscription!StaleOnlyWhenDown /\ Subscription!OwnCache

LEMMA CacheInit == Subscription!Init => CacheInv
<1> SUFFICES ASSUME Subscription!Init PROVE CacheInv
  OBVIOUS
<1> USE ClientsAssumption DEF Subscription!BoundsAssumption, Subscription!Init
<1>1. snap \in [Subscription!Dirs -> Subscription!Snapshots \cup {None}]
  BY DEF Subscription!Dirs, Subscription!Snapshots
<1>2. Subscription!TypeOK
  BY <1>1 DEF Subscription!TypeOK
<1>3. OutcomeType /\ CommandInv
  BY DEF OutcomeType, Outcomes, CommandInv
<1>4. VersionInv
  BY DEF VersionInv, Subscription!Dirs, Subscription!Snapshots
<1> QED
  BY <1>2, <1>3, <1>4 DEF CacheInv, Subscription!OnlyWhole, Subscription!RefreshedIsCurrent,
     Subscription!StaleOnlyWhenDown, Subscription!OwnCache, Subscription!Used
\* The cache directory of a command that is under way is one of the directories.
LEMMA CommandDir ==
  ASSUME CacheInv, NEW p \in Proc, cmd[p] # None
  PROVE  /\ cmd[p] \in Subscription!Commands /\ cmd[p].source \in Source
         /\ Subscription!Dir(p) \in Subscription!Dirs
<1>1. cmd[p] \in Subscription!Commands
  BY DEF CacheInv, Subscription!TypeOK
<1>2. cmd[p].source \in Source
  BY <1>1 DEF Subscription!Commands
<1> QED
  BY <1>1, <1>2 DEF Subscription!Dir, Subscription!Dirs

LEMMA CacheTypeStep == CacheInv /\ Subscription!Next => Subscription!TypeOK'
<1> SUFFICES ASSUME CacheInv, Subscription!Next PROVE Subscription!TypeOK'
  OBVIOUS
<1> USE ClientsAssumption
    DEF Subscription!BoundsAssumption, CacheInv, Subscription!TypeOK, Subscription!Goto,
        Subscription!Finish, Subscription!Fail, Subscription!CacheDir
<1>1. ASSUME NEW s \in Source, Subscription!Publish(s)
      PROVE  Subscription!TypeOK'
  BY <1>1 DEF Subscription!Publish
<1>2. ASSUME NEW p \in Proc, NEW c \in Subscription!Commands, Subscription!Begin(p, c)
      PROVE  Subscription!TypeOK'
  <2>1. c.source \in Source
    BY DEF Subscription!Commands
  <2> QED
    BY <1>2, <2>1 DEF Subscription!Begin, Subscription!Whole
<1>3. ASSUME NEW p \in Proc, Subscription!Load(p) \/ Subscription!Fallback(p)
      PROVE  Subscription!TypeOK'
  <2>1. cmd[p] # None
    BY <1>3 DEF CommandInv, Subscription!Load, Subscription!Fallback
  <2> QED
    BY <1>3, <2>1, CommandDir
       DEF Subscription!Load, Subscription!Fallback, Subscription!LoadCache, Subscription!Whole
<1>4. ASSUME NEW p \in Proc, NEW answer \in Subscription!Answers, Subscription!Fetch(p, answer)
      PROVE  Subscription!TypeOK'
  <2>1. cmd[p] # None
    BY <1>4 DEF CommandInv, Subscription!Fetch
  <2>2. Subscription!Received(p) \in Subscription!Snapshots
    BY <2>1, CommandDir DEF Subscription!Received, Subscription!Snapshots
  <2> QED
    BY <1>4, <2>2 DEF Subscription!Fetch
<1>5. ASSUME NEW p \in Proc, Subscription!SaveRaw(p) \/ Subscription!Truncate(p)
      PROVE  Subscription!TypeOK'
  BY <1>5 DEF Subscription!SaveRaw, Subscription!Truncate
<1>6. ASSUME NEW p \in Proc, Subscription!Write(p) \/ Subscription!Interrupt(p)
      PROVE  Subscription!TypeOK'
  BY <1>6 DEF Subscription!Write, Subscription!Interrupt
<1> QED
  BY <1>1, <1>2, <1>3, <1>4, <1>5, <1>6 DEF Subscription!Next

LEMMA FinishType ==
  ASSUME OutcomeType, NEW p \in Proc, NEW use \in Subscription!Snapshots \cup {None},
         NEW fresh \in BOOLEAN, Subscription!Finish(p, use, fresh)
  PROVE  out' \in [Proc -> Outcomes]
<1>1. [done |-> TRUE, use |-> use, fresh |-> fresh] \in Outcomes
  BY DEF Outcomes
<1>2. out \in [Proc -> Outcomes]
  BY DEF OutcomeType, Outcomes
<1> QED
  BY <1>1, <1>2 DEF Subscription!Finish

LEMMA OutcomeStep == CacheInv /\ Subscription!Next => OutcomeType'
<1> SUFFICES ASSUME CacheInv, Subscription!Next PROVE OutcomeType'
  OBVIOUS
<1>a. OutcomeType /\ Subscription!TypeOK /\ CommandInv
  BY DEF CacheInv
<1>b. out \in [Proc -> Outcomes]
  BY <1>a DEF OutcomeType, Outcomes
<1>c. ASSUME out' \in [Proc -> Outcomes], UNCHANGED hist PROVE OutcomeType'
  BY <1>a, <1>c DEF OutcomeType, Outcomes
<1>d. ASSUME NEW p \in Proc, Subscription!Fail(p) PROVE out' \in [Proc -> Outcomes]
  BY <1>a, <1>d, FinishType DEF Subscription!Fail
<1>1. ASSUME NEW s \in Source, Subscription!Publish(s)
      PROVE  OutcomeType'
  BY <1>b, <1>c, <1>1 DEF Subscription!Publish
<1>2. ASSUME NEW p \in Proc, NEW c \in Subscription!Commands, Subscription!Begin(p, c)
      PROVE  OutcomeType'
  <2>1. c.source \in Source
    BY DEF Subscription!Commands
  <2> QED
    BY <1>2, <1>a, <2>1, ClientsAssumption DEF Subscription!Begin, Subscription!Whole,
       OutcomeType, Outcomes, Subscription!TypeOK, Subscription!BoundsAssumption
<1>3. ASSUME NEW p \in Proc, Subscription!Load(p) \/ Subscription!Fallback(p)
      PROVE  OutcomeType'
  <2>1. cmd[p] # None
    BY <1>3, <1>a DEF CommandInv, Subscription!Load, Subscription!Fallback
  <2>2. Subscription!LoadCache(snap[Subscription!Dir(p)]).ok =>
          snap[Subscription!Dir(p)] \in Subscription!Snapshots
    BY DEF Subscription!LoadCache, Subscription!Whole
  <2>3. out' \in [Proc -> Outcomes]
    BY <1>3, <1>a, <1>b, <1>d, <2>2, FinishType DEF Subscription!Load, Subscription!Fallback
  <2> QED
    BY <1>3, <1>c, <2>3 DEF Subscription!Load, Subscription!Fallback
<1>4. ASSUME NEW p \in Proc, NEW answer \in Subscription!Answers, Subscription!Fetch(p, answer)
      PROVE  OutcomeType'
  <2>1. out' \in [Proc -> Outcomes]
    BY <1>4, <1>b, <1>d DEF Subscription!Fetch
  <2> QED
    BY <1>4, <1>a, <2>1 DEF Subscription!Fetch, OutcomeType, Outcomes
<1>5. ASSUME NEW p \in Proc, Subscription!SaveRaw(p) \/ Subscription!Truncate(p)
      PROVE  OutcomeType'
  BY <1>5, <1>b, <1>c, <1>d DEF Subscription!SaveRaw, Subscription!Truncate
<1>6. ASSUME NEW p \in Proc, Subscription!Write(p) \/ Subscription!Interrupt(p)
      PROVE  OutcomeType'
  <2>1. got[p] \in Subscription!Snapshots \cup {None}
    BY <1>a DEF Subscription!TypeOK
  <2>2. out' \in [Proc -> Outcomes]
    BY <1>6, <1>a, <1>b, <1>d, <2>1, FinishType DEF Subscription!Write, Subscription!Interrupt
  <2> QED
    BY <1>6, <1>c, <2>2 DEF Subscription!Write, Subscription!Interrupt
<1> QED
  BY <1>1, <1>2, <1>3, <1>4, <1>5, <1>6 DEF Subscription!Next

LEMMA CommandStep == CacheInv /\ Subscription!Next => CommandInv'
<1> SUFFICES ASSUME CacheInv, Subscription!Next PROVE CommandInv'
  OBVIOUS
<1> USE ClientsAssumption
    DEF Subscription!BoundsAssumption, CacheInv, Subscription!TypeOK, OutcomeType, Outcomes, CommandInv,
        Subscription!Goto, Subscription!Finish, Subscription!Fail
<1>1. ASSUME NEW s \in Source, Subscription!Publish(s) PROVE CommandInv'
  BY <1>1 DEF Subscription!Publish
<1>2. ASSUME NEW p \in Proc, NEW c \in Subscription!Commands, Subscription!Begin(p, c)
      PROVE  CommandInv'
  BY <1>2 DEF Subscription!Begin
<1>3. ASSUME NEW p \in Proc, Subscription!Load(p) \/ Subscription!Fallback(p)
      PROVE  CommandInv'
  BY <1>3 DEF Subscription!Load, Subscription!Fallback
<1>4. ASSUME NEW p \in Proc, NEW answer \in Subscription!Answers, Subscription!Fetch(p, answer)
      PROVE  CommandInv'
  BY <1>4 DEF Subscription!Fetch, Subscription!IsTransientFetchError
<1>5. ASSUME NEW p \in Proc,
             Subscription!SaveRaw(p) \/ Subscription!Truncate(p) \/ Subscription!Write(p)
             \/ Subscription!Interrupt(p)
      PROVE  CommandInv'
  BY <1>5 DEF Subscription!SaveRaw, Subscription!Truncate, Subscription!Write,
     Subscription!Interrupt
<1> QED
  BY <1>1, <1>2, <1>3, <1>4, <1>5 DEF Subscription!Next
LEMMA VersionStep == CacheInv /\ Subscription!Next => VersionInv'
<1> SUFFICES ASSUME CacheInv, Subscription!Next PROVE VersionInv'
  OBVIOUS
<1> USE ClientsAssumption
    DEF Subscription!BoundsAssumption, CacheInv, Subscription!TypeOK, OutcomeType, VersionInv
<1>1. ASSUME NEW s \in Source, Subscription!Publish(s) PROVE VersionInv'
  BY <1>1 DEF Subscription!Publish, Subscription!Commands, Subscription!Snapshots
<1>2. ASSUME NEW p \in Proc, NEW c \in Subscription!Commands, Subscription!Begin(p, c)
      PROVE  VersionInv'
  <2>1. c.source \in Source /\ got[p] = None
    BY <1>2 DEF Subscription!Begin, Subscription!Commands
  <2> QED
    BY <1>2, <2>1 DEF Subscription!Begin
<1>3. ASSUME NEW p \in Proc, Subscription!Load(p) \/ Subscription!Fallback(p)
      PROVE  VersionInv'
  BY <1>3 DEF Subscription!Load, Subscription!Fallback
<1>4. ASSUME NEW p \in Proc, NEW answer \in Subscription!Answers, Subscription!Fetch(p, answer)
      PROVE  VersionInv'
  <2>1. cmd[p] # None
    BY <1>4 DEF CommandInv, Subscription!Fetch
  <2>2. cmd[p].source \in Source
    BY <2>1, CommandDir
  <2> QED
    BY <1>4, <2>1, <2>2 DEF Subscription!Fetch, Subscription!Received, Subscription!Snapshots
<1>5. ASSUME NEW p \in Proc, Subscription!SaveRaw(p) \/ Subscription!Truncate(p)
      PROVE  VersionInv'
  BY <1>5 DEF Subscription!SaveRaw, Subscription!Truncate
<1>6. ASSUME NEW p \in Proc, Subscription!Write(p) PROVE VersionInv'
  <2>1. cmd[p] # None /\ got[p] # None
    BY <1>6 DEF CommandInv, Subscription!Write
  <2>2. CacheOf[got[p].src] = Subscription!CacheDir(p)
    BY <2>1 DEF Subscription!CacheDir, Subscription!Dir
  <2>3. snap' = [snap EXCEPT ![Subscription!CacheDir(p)] = snap'[Subscription!CacheDir(p)]]
    BY <1>6 DEF Subscription!Write
  <2>4. snap'[Subscription!CacheDir(p)] \in {got[p], Damaged}
    BY <1>6, <2>1, CommandDir DEF Subscription!Write, Subscription!CacheDir
  <2> QED
    BY <1>6, <2>1, <2>2, <2>3, <2>4, SMTT(60) DEF Subscription!Write
<1>7. ASSUME NEW p \in Proc, Subscription!Interrupt(p) PROVE VersionInv'
  BY <1>7 DEF Subscription!Interrupt
<1> QED
  BY <1>1, <1>2, <1>3, <1>4, <1>5, <1>6, <1>7 DEF Subscription!Next

\* What must hold of what a command uses, its outcome being r.
UseOk(p, r) ==
  r.done /\ r.use # None =>
    /\ r.use \in Subscription!Snapshots /\ r.use.ver <= provider[r.use.src]
    /\ r.fresh \/ (cmd[p].name # "start" /\ cmd[p].refresh) =>
         r.fresh /\ r.use.src = cmd[p].source /\ r.use.ver >= hist[p].ver
    /\ cmd[p].refresh /\ ~r.fresh => cmd[p].name = "start" /\ hist[p].answer = "down"
    /\ (\A s, t \in Source : s # t => CacheOf[s] # CacheOf[t]) => r.use.src = cmd[p].source

LEMMA UseOkDef ==
  (\A p \in Proc : UseOk(p, out[p])) <=>
    /\ Subscription!OnlyWhole /\ Subscription!RefreshedIsCurrent
    /\ Subscription!StaleOnlyWhenDown /\ Subscription!OwnCache
  BY DEF UseOk, Subscription!OnlyWhole, Subscription!RefreshedIsCurrent,
     Subscription!StaleOnlyWhenDown, Subscription!OwnCache, Subscription!Used, Subscription!Whole

LEMMA UseStep == CacheInv /\ Subscription!Next => \A p \in Proc : UseOk(p, out[p])'
<1> SUFFICES ASSUME CacheInv, Subscription!Next, NEW q \in Proc PROVE UseOk(q, out[q])'
  OBVIOUS
<1>a. \A p \in Proc : UseOk(p, out[p])
  BY UseOkDef DEF CacheInv
<1> USE ClientsAssumption
    DEF Subscription!BoundsAssumption, CacheInv, Subscription!TypeOK, OutcomeType, Outcomes, VersionInv,
        CommandInv, Subscription!Goto
<1>1. ASSUME NEW s \in Source, Subscription!Publish(s) PROVE UseOk(q, out[q])'
  BY <1>a, <1>1 DEF Subscription!Publish, UseOk, Subscription!Snapshots
<1>2. ASSUME NEW p \in Proc, NEW c \in Subscription!Commands, Subscription!Begin(p, c)
      PROVE  UseOk(q, out[q])'
  BY <1>a, <1>2 DEF Subscription!Begin, UseOk
<1>3. ASSUME NEW p \in Proc, Subscription!Fail(p), UNCHANGED <<provider, cmd>>,
             \A r \in Proc : r # p => hist'[r] = hist[r]
      PROVE  UseOk(q, out[q])'
  BY <1>a, <1>3 DEF Subscription!Fail, Subscription!Finish, UseOk
<1>4. ASSUME NEW p \in Proc, UNCHANGED <<provider, cmd, out>>, cmd[p] # None, ~out[p].done,
             \A r \in Proc : r # p => hist'[r] = hist[r]
      PROVE  UseOk(q, out[q])'
  BY <1>a, <1>4 DEF UseOk
<1>5. ASSUME NEW p \in Proc, UNCHANGED <<provider, cmd, hist>>, pc[p] \in {"load", "fallback"},
             Subscription!Finish(p, snap[Subscription!Dir(p)], FALSE),
             snap[Subscription!Dir(p)] \in Subscription!Snapshots
      PROVE  UseOk(q, out[q])'
  <2>1. cmd[p] # None
    BY <1>5
  <2>2. snap[Subscription!Dir(p)].src \in Source
    BY <1>5 DEF Subscription!Snapshots
  <2>3. /\ cmd[p].source \in Source /\ Subscription!Dir(p) \in Subscription!Dirs
        /\ CacheOf[snap[Subscription!Dir(p)].src] = CacheOf[cmd[p].source]
    BY <1>5, <2>1, CommandDir DEF Subscription!Dir
  <2> QED
    BY <1>a, <1>5, <2>1, <2>2, <2>3 DEF Subscription!Finish, UseOk
<1>6. ASSUME NEW p \in Proc, UNCHANGED <<provider, cmd, hist>>, pc[p] = "write",
             Subscription!Finish(p, got[p], TRUE)
      PROVE  UseOk(q, out[q])'
  BY <1>a, <1>6 DEF Subscription!Finish, UseOk
<1>7. ASSUME NEW p \in Proc, Subscription!Load(p) \/ Subscription!Fallback(p)
      PROVE  UseOk(q, out[q])'
  BY <1>3, <1>4, <1>5, <1>7 DEF Subscription!Load, Subscription!Fallback,
     Subscription!LoadCache, Subscription!Whole
<1>8. ASSUME NEW p \in Proc, NEW answer \in Subscription!Answers, Subscription!Fetch(p, answer)
      PROVE  UseOk(q, out[q])'
  BY <1>3, <1>4, <1>8 DEF Subscription!Fetch
<1>9. ASSUME NEW p \in Proc,
             Subscription!SaveRaw(p) \/ Subscription!Truncate(p) \/ Subscription!Write(p)
             \/ Subscription!Interrupt(p)
      PROVE  UseOk(q, out[q])'
  BY <1>3, <1>4, <1>6, <1>9 DEF Subscription!SaveRaw, Subscription!Truncate,
     Subscription!Write, Subscription!Interrupt
<1> QED
  BY <1>1, <1>2, <1>7, <1>8, <1>9 DEF Subscription!Next

\* CacheCorrect, of any number of commands, subscriptions and versions, whichever
\* commands are interrupted: a command works with a snapshot that was written whole
\* and that the provider has served; a refresh with what it served since the command
\* began; an old one only when the provider is down; and with that of its own server when
\* the servers have cache directories of their own.
THEOREM CacheIsCorrect == Spec => []CacheCorrect
<1> DEFINE I == part = "subscription" => CacheInv
<1>1. Init => I
  BY CacheInit DEF Init
<1>2. I /\ [Next]_vars => I'
  <2> SUFFICES ASSUME I, [Next]_vars, part' = "subscription" PROVE CacheInv'
    OBVIOUS
  <2>1. part = "subscription" /\ CacheInv
    BY PartKept
  <2>2. CASE Subscription!Next
    <3>1. (\A p \in Proc : UseOk(p, out[p]))'
      BY <2>1, <2>2, UseStep
    <3>2. (/\ Subscription!OnlyWhole /\ Subscription!RefreshedIsCurrent
           /\ Subscription!StaleOnlyWhenDown /\ Subscription!OwnCache)'
      BY <3>1, UseOkDef, PTL
    <3> QED
      BY <2>1, <2>2, <3>2, CacheTypeStep, OutcomeStep, CommandStep, VersionStep DEF CacheInv
  <2>3. CASE UNCHANGED vars
    BY <2>1, <2>3 DEF vars, subscriptionVars, CacheInv, Subscription!TypeOK, OutcomeType, CommandInv,
       VersionInv, Subscription!OnlyWhole, Subscription!RefreshedIsCurrent,
       Subscription!StaleOnlyWhenDown, Subscription!OwnCache, Subscription!Used
  <2> QED
    BY <2>1, <2>2, <2>3 DEF Next
<1>3. I => CacheCorrect
  BY DEF CacheInv, CacheCorrect
<1> QED
  BY <1>1, <1>2, <1>3, PTL DEF Spec

-----------------------------------------------------------------------------
(* The configuration                                                        *)

\* None, which stands for what is absent, is none of the records of a configuration or of
\* a resolution.
NoneIsNoRecord ==
  /\ \A a, b : None # [server |-> a, profile |-> b]
  /\ \A a, b : None # [selector |-> a, transport |-> b]
  /\ \A a, b, c, d, e, f, g :
       None # [current |-> a, default |-> b, selected |-> c, bypass |-> d, routes |-> e,
               maxLines |-> f, servers |-> g]
  /\ \A a, b, c, d, e, f, g, h, i :
       None # [base |-> a, server |-> b, profile |-> c, selector |-> d, transport |-> e,
               match |-> f, pick |-> g, bypass |-> h, routes |-> i]

\* The selection of a configuration is complete.
Pinned(c, s, p) ==
  /\ Config!IsConfig(c)
  /\ c.current = [server |-> s, profile |-> p]
  /\ s \in DOMAIN c.servers
  /\ \/ p = None /\ DOMAIN c.servers[s].profiles = {}
     \/ p \in DOMAIN c.servers[s].profiles

\* What a command without arguments then resolves.
At(c, s, p) ==
  IF p = None
  THEN Config!EffectiveServer(c, Config!NoOptions, s, Config!mergeRoutingConfig(c, c.servers[s]))
  ELSE Config!EffectiveProfile(c, Config!NoOptions, s, p)

ValidServers(c) ==
  \A s \in DOMAIN c.servers :
    /\ c.servers[s].engine # None
    /\ \A p \in DOMAIN c.servers[s].profiles :
         LET prof == c.servers[s].profiles[p]
         IN /\ prof.match = None \/ prof.selector = None
            /\ prof.pick = None \/ prof.match # None

LEMMA NamesAreNames ==
  /\ None \notin Servers /\ None \notin Profiles /\ None \notin Selectors
  /\ None # "sing-box" /\ None # {} /\ DefaultBypass # {} /\ DefaultBypass # None
  /\ DefaultBypass \subseteq Suffixes /\ \A list \in SUBSET Suffixes : list # None
<1>1. /\ None \notin Servers /\ None \notin Profiles /\ None \notin Selectors
      /\ None # "sing-box" /\ DefaultBypass \subseteq Suffixes /\ DefaultBypass # {}
      /\ \A list \in SUBSET Suffixes : list # None
  <2>1. Config!DefaultsAssumption
    BY ClientsAssumption
  <2>2. DefaultBypass \in SUBSET Suffixes /\ DefaultBypass # {}
    BY <2>1 DEF Config!DefaultsAssumption
  <2>3. \A list \in SUBSET Suffixes : list # None
    BY <2>1 DEF Config!DefaultsAssumption
  <2>4. None \notin {"sing-box"} \cup Servers \cup Profiles \cup Selectors
    BY <2>1 DEF Config!DefaultsAssumption
  <2> QED
    BY <2>2, <2>3, <2>4
<1> QED
  BY <1>1

\* A complete selection is what is resolved.
LEMMA PinnedResolves ==
  ASSUME NoneIsNoRecord, NEW c, NEW s, NEW p, Pinned(c, s, p), NEW a \in BOOLEAN
  PROVE  Config!Effective(c, Config!NoOptions, a) = At(c, s, p)
<1>1. /\ s \in Servers /\ s # None /\ DOMAIN c.servers # {}
      /\ p # None => p \in Profiles
      /\ None \notin DOMAIN c.servers[s].profiles
  BY NamesAreNames DEF Pinned, Config!IsConfig, Config!IsServer
<1>2. /\ Config!CurrentServer(c) = s /\ Config!CurrentProfile(c) = p
  BY DEF NoneIsNoRecord, Pinned, Config!CurrentServer, Config!CurrentProfile
<1>3. Config!NoOptions.server = None /\ Config!NoOptions.profile = None
  BY DEF Config!NoOptions
<1>4. Config!resolveServerConfig(c, None) = s
  BY <1>1, <1>2 DEF Config!resolveServerConfig, Config!firstNonEmpty, Pinned
<1>5. Config!resolveProfileConfig(c, s, None, TRUE, a) = [ok |-> TRUE, name |-> p]
  BY <1>1, <1>2 DEF Config!resolveProfileConfig, Config!firstNonEmpty, Pinned
<1>6. (Config!NoOptions.server \in {None, Config!CurrentServer(c)}) = TRUE
  BY <1>3
<1>7. Config!resolveProfileConfig(c, Config!resolveServerConfig(c, Config!NoOptions.server),
        Config!NoOptions.profile, Config!NoOptions.server \in {None, Config!CurrentServer(c)}, a)
      = [ok |-> TRUE, name |-> p]
  BY <1>3, <1>4, <1>5, <1>6
<1>8. CASE p = None
  BY <1>1, <1>3, <1>4, <1>7, <1>8 DEF Config!Effective, At
<1>9. CASE p # None
  BY <1>1, <1>3, <1>4, <1>7, <1>9 DEF Config!Effective, At
<1> QED
  BY <1>8, <1>9

\* A record with other defaults.
LEMMA SharedFields ==
  ASSUME NoneIsNoRecord, NEW c, Config!IsConfig(c), NEW x, NEW y,
         NEW d, d = Config!SharedDefault(c, x, y)
  PROVE  /\ Config!IsConfig(d)
         /\ d.current = c.current /\ d.selected = c.selected /\ d.servers = c.servers
         /\ d.bypass = c.bypass /\ d.routes = c.routes /\ d.maxLines = c.maxLines
         /\ c.default = None => d.default = None
         /\ c.default # None => /\ d.default # None
                                /\ d.default.selector = x /\ d.default.transport = y
<1>1. CASE c.default = None
  BY <1>1 DEF Config!SharedDefault
<1>2. CASE c.default # None
  <2>1. d = [c EXCEPT !.default = [selector |-> x, transport |-> y]]
    BY <1>2 DEF Config!SharedDefault
  <2>2. d = [current |-> c.current, default |-> [selector |-> x, transport |-> y],
             selected |-> c.selected, bypass |-> c.bypass, routes |-> c.routes,
             maxLines |-> c.maxLines, servers |-> c.servers]
    BY <2>1 DEF Config!IsConfig
  <2>3. c.servers = [s \in DOMAIN c.servers |-> c.servers[s]]
    BY DEF Config!IsConfig
  <2> QED
    BY <1>2, <2>2, <2>3 DEF Config!IsConfig, Config!BypassType, NoneIsNoRecord
<1> QED
  BY <1>1, <1>2

SelectorAt(c, s, p) ==
  IF p = None THEN Config!legacyDefaultProfileSelector(c)
  ELSE IF c.servers[s].profiles[p].match # None THEN None
  ELSE Config!firstNonEmpty(c.servers[s].profiles[p].selector,
                            Config!legacyDefaultProfileSelector(c))
TransportAt(c, s, p) ==
  IF p = None THEN Config!legacyDefaultProfileTransport(c)
  ELSE Config!firstNonEmpty(c.servers[s].profiles[p].transport,
                            Config!legacyDefaultProfileTransport(c))
MatchAt(c, s, p) == IF p = None THEN None ELSE c.servers[s].profiles[p].match
PickAt(c, s, p) == IF p = None THEN None ELSE c.servers[s].profiles[p].pick
ScopeAt(c, s, p) ==
  LET scope == Config!mergeRoutingConfig(c, c.servers[s])
  IN IF p = None THEN scope ELSE Config!mergeRoutingConfig(scope, c.servers[s].profiles[p])

\* What is resolved, field by field.
LEMMA AtFields ==
  ASSUME NEW c, NEW s, NEW p
  PROVE  At(c, s, p) =
           [base |-> Config!SharedDefault(c, SelectorAt(c, s, p), TransportAt(c, s, p)),
            server |-> s, profile |-> p,
            selector |-> SelectorAt(c, s, p), transport |-> TransportAt(c, s, p),
            match |-> MatchAt(c, s, p), pick |-> PickAt(c, s, p),
            bypass |-> ScopeAt(c, s, p).bypass, routes |-> ScopeAt(c, s, p).routes]
<1>1. Config!NoOptions.selector = None
  BY DEF Config!NoOptions
<1>2. \A v : Config!firstNonEmpty(Config!NoOptions.selector, v) = v
  BY <1>1 DEF Config!firstNonEmpty
<1>3. CASE p = None
  BY <1>2, <1>3 DEF At, Config!EffectiveServer, SelectorAt, TransportAt, MatchAt, PickAt, ScopeAt
<1>4. CASE p # None
  BY <1>1, <1>2, <1>4 DEF At, Config!EffectiveProfile, SelectorAt, TransportAt, MatchAt, PickAt,
     ScopeAt
<1> QED
  BY <1>3, <1>4

LEMMA AtField ==
  ASSUME NEW c, NEW s, NEW p
  PROVE  /\ At(c, s, p).server = s /\ At(c, s, p).profile = p
         /\ At(c, s, p).selector = SelectorAt(c, s, p)
         /\ At(c, s, p).transport = TransportAt(c, s, p)
         /\ At(c, s, p).match = MatchAt(c, s, p) /\ At(c, s, p).pick = PickAt(c, s, p)
         /\ At(c, s, p).bypass = ScopeAt(c, s, p).bypass
  BY AtFields

\* Resolving once more what the defaults then say gives the same.
LEMMA SharedSticks ==
  ASSUME NoneIsNoRecord, NEW c, NEW s, NEW p, Pinned(c, s, p),
         NEW d, d = Config!SharedDefault(c, SelectorAt(c, s, p), TransportAt(c, s, p))
  PROVE  /\ Pinned(d, s, p)
         /\ SelectorAt(d, s, p) = SelectorAt(c, s, p)
         /\ TransportAt(d, s, p) = TransportAt(c, s, p)
         /\ MatchAt(d, s, p) = MatchAt(c, s, p) /\ PickAt(d, s, p) = PickAt(c, s, p)
<1>1. /\ Config!IsConfig(d)
      /\ d.current = c.current /\ d.selected = c.selected /\ d.servers = c.servers
      /\ c.default = None => d.default = None
      /\ c.default # None => /\ d.default # None
                             /\ d.default.selector = SelectorAt(c, s, p)
                             /\ d.default.transport = TransportAt(c, s, p)
  BY SharedFields DEF Pinned
<1>2. Pinned(d, s, p) /\ MatchAt(d, s, p) = MatchAt(c, s, p) /\ PickAt(d, s, p) = PickAt(c, s, p)
  BY <1>1 DEF Pinned, MatchAt, PickAt
<1>3. SelectorAt(d, s, p) = SelectorAt(c, s, p)
  BY <1>1 DEF SelectorAt, Config!legacyDefaultProfileSelector, Config!firstNonEmpty
<1>4. TransportAt(d, s, p) = TransportAt(c, s, p)
  BY <1>1 DEF TransportAt, Config!legacyDefaultProfileTransport, Config!firstNonEmpty
<1> QED
  BY <1>2, <1>3, <1>4

\* What writeJSON makes of a profile and of a server.
LEMMA OmitType ==
  ASSUME NEW v, v = None \/ v \subseteq Suffixes
  PROVE  Config!OmitEmpty(v) = None \/ Config!OmitEmpty(v) \subseteq Suffixes
  BY DEF Config!OmitEmpty

LEMMA OmitTwice ==
  ASSUME NEW x
  PROVE  Config!OmitScope(x) =
           [[x EXCEPT !.bypass = Config!OmitEmpty(x.bypass)] EXCEPT
              !.routes = Config!OmitEmpty(x.routes)]
  BY DEF Config!OmitScope

LEMMA ProfileWritten ==
  ASSUME NEW x, Config!IsProfile(x)
  PROVE  Config!OmitScope(x) =
           [selector |-> x.selector, transport |-> x.transport, match |-> x.match,
            pick |-> x.pick, bypass |-> Config!OmitEmpty(x.bypass),
            routes |-> Config!OmitEmpty(x.routes)]
<1> DEFINE b == Config!OmitEmpty(x.bypass)
           r == Config!OmitEmpty(x.routes)
<1> HIDE DEF b, r
<1>1. [x EXCEPT !.bypass = b] =
        [selector |-> x.selector, transport |-> x.transport, match |-> x.match,
         pick |-> x.pick, bypass |-> b, routes |-> x.routes]
  BY DEF Config!IsProfile
<1> DEFINE y == [x EXCEPT !.bypass = b]
<1> HIDE DEF y
<1>2. y = [selector |-> x.selector, transport |-> x.transport, match |-> x.match,
           pick |-> x.pick, bypass |-> b, routes |-> x.routes]
  BY <1>1 DEF y
<1>3. [y EXCEPT !.routes = r] =
        [selector |-> x.selector, transport |-> x.transport, match |-> x.match,
         pick |-> x.pick, bypass |-> b, routes |-> r]
  BY <1>2
<1> QED
  BY <1>3, OmitTwice DEF b, r, y

LEMMA ServerWritten ==
  ASSUME NEW x, Config!IsServer(x)
  PROVE  /\ Config!ServerJSON(x) =
              [engine |-> x.engine, bypass |-> Config!OmitEmpty(x.bypass),
               routes |-> Config!OmitEmpty(x.routes),
               profiles |-> [p \in DOMAIN x.profiles |-> Config!OmitScope(x.profiles[p])]]
         /\ Config!IsServer(Config!ServerJSON(x))
<1>1. x = [engine |-> x.engine, bypass |-> x.bypass, routes |-> x.routes,
           profiles |-> x.profiles]
  BY DEF Config!IsServer
<1>2. Config!OmitScope(x) = [engine |-> x.engine, bypass |-> Config!OmitEmpty(x.bypass),
        routes |-> Config!OmitEmpty(x.routes), profiles |-> x.profiles]
  <2>1. [x EXCEPT !.bypass = Config!OmitEmpty(x.bypass)] =
          [engine |-> x.engine, bypass |-> Config!OmitEmpty(x.bypass),
           routes |-> x.routes, profiles |-> x.profiles]
    BY <1>1
  <2> QED
    BY <2>1, OmitTwice
<1>3. \A p \in DOMAIN x.profiles : Config!IsProfile(Config!OmitScope(x.profiles[p]))
  BY ProfileWritten, OmitType DEF Config!IsProfile, Config!IsServer, Config!BypassType
<1> QED
  BY <1>2, <1>3, OmitType DEF Config!ServerJSON, Config!IsServer, Config!BypassType

\* What it makes of a configuration: the selection, the defaults and every criterion stay.
LEMMA ConfigWritten ==
  ASSUME NEW c, Config!IsConfig(c), NEW f, f = Config!writeJSON(c)
  PROVE  /\ Config!IsConfig(f)
         /\ f.current = c.current /\ f.default = c.default /\ f.selected = c.selected
         /\ f.bypass = Config!OmitEmpty(c.bypass)
         /\ f.servers = [s \in DOMAIN c.servers |-> Config!ServerJSON(c.servers[s])]
<1>1. c = [current |-> c.current, default |-> c.default, selected |-> c.selected,
           bypass |-> c.bypass, routes |-> c.routes, maxLines |-> c.maxLines,
           servers |-> c.servers]
  BY DEF Config!IsConfig
<1>2. Config!OmitScope(c) =
        [current |-> c.current, default |-> c.default, selected |-> c.selected,
         bypass |-> Config!OmitEmpty(c.bypass), routes |-> Config!OmitEmpty(c.routes),
         maxLines |-> c.maxLines, servers |-> c.servers]
  <2>1. [c EXCEPT !.bypass = Config!OmitEmpty(c.bypass)] =
          [current |-> c.current, default |-> c.default, selected |-> c.selected,
           bypass |-> Config!OmitEmpty(c.bypass), routes |-> c.routes,
           maxLines |-> c.maxLines, servers |-> c.servers]
    BY <1>1
  <2> QED
    BY <2>1, OmitTwice
<1> DEFINE lines == IF c.maxLines = 0 THEN None ELSE c.maxLines
           omit  == Config!OmitScope(c)
           json  == [s \in DOMAIN c.servers |-> Config!ServerJSON(c.servers[s])]
<1>3. f = [current |-> c.current, default |-> c.default, selected |-> c.selected,
           bypass |-> Config!OmitEmpty(c.bypass), routes |-> Config!OmitEmpty(c.routes),
           maxLines |-> lines,
           servers |-> json]
  <2>1. f = [[omit EXCEPT !.maxLines = lines] EXCEPT !.servers = json]
    <3>1. omit.maxLines = c.maxLines
      BY <1>2
    <3> QED
      BY <3>1 DEF Config!writeJSON
  <2> HIDE DEF lines, json
  <2>2. [omit EXCEPT !.maxLines = lines] =
          [current |-> c.current, default |-> c.default, selected |-> c.selected,
           bypass |-> Config!OmitEmpty(c.bypass), routes |-> Config!OmitEmpty(c.routes),
           maxLines |-> lines, servers |-> c.servers]
    BY <1>2
  <2> QED
    BY <2>1, <2>2
<1>4. \A s \in DOMAIN c.servers : Config!IsServer(Config!ServerJSON(c.servers[s]))
  BY ServerWritten DEF Config!IsConfig
<1> HIDE DEF lines
<1> QED
  BY <1>3, <1>4, OmitType DEF Config!IsConfig, Config!BypassType

LEMMA ConfigRead ==
  ASSUME NEW f, Config!IsConfig(f), NEW c, c = Config!Unmarshal(f)
  PROVE  /\ Config!IsConfig(c)
         /\ c.current = f.current /\ c.default = f.default /\ c.selected = f.selected
         /\ c.bypass = Config!firstNonEmpty(f.bypass, DefaultBypass)
         /\ c.servers = f.servers
<1>1. f = [current |-> f.current, default |-> f.default, selected |-> f.selected,
           bypass |-> f.bypass, routes |-> f.routes, maxLines |-> f.maxLines,
           servers |-> f.servers]
  BY DEF Config!IsConfig
<1>2. c = [current |-> f.current, default |-> f.default, selected |-> f.selected,
           bypass |-> Config!firstNonEmpty(f.bypass, DefaultBypass), routes |-> f.routes,
           maxLines |-> Config!firstNonEmpty(f.maxLines, 1000), servers |-> f.servers]
  <2> DEFINE b == Config!firstNonEmpty(f.bypass, DefaultBypass)
             m == Config!firstNonEmpty(f.maxLines, 1000)
  <2>1. c = [[f EXCEPT !.bypass = b] EXCEPT !.maxLines = m]
    BY DEF Config!Unmarshal
  <2> HIDE DEF b, m
  <2>2. [f EXCEPT !.bypass = b] =
          [current |-> f.current, default |-> f.default, selected |-> f.selected,
           bypass |-> b, routes |-> f.routes, maxLines |-> f.maxLines, servers |-> f.servers]
    BY <1>1
  <2>3. c = [current |-> f.current, default |-> f.default, selected |-> f.selected,
             bypass |-> b, routes |-> f.routes, maxLines |-> m, servers |-> f.servers]
    BY <2>1, <2>2
  <2> QED
    BY <2>3 DEF b, m
<1>3. f.servers = [s \in DOMAIN f.servers |-> f.servers[s]]
  BY DEF Config!IsConfig
<1> QED
  BY <1>2, <1>3, NamesAreNames DEF Config!IsConfig, Config!BypassType, Config!firstNonEmpty

\* A configuration that is written and read again resolves to the same.
LEMMA WrittenSticks ==
  ASSUME NEW c, NEW s, NEW p, Pinned(c, s, p), NEW f, f = Config!writeJSON(c),
         NEW d, d = Config!Unmarshal(f)
  PROVE  /\ Config!IsConfig(f) /\ Pinned(d, s, p)
         /\ SelectorAt(d, s, p) = SelectorAt(c, s, p)
         /\ TransportAt(d, s, p) = TransportAt(c, s, p)
         /\ MatchAt(d, s, p) = MatchAt(c, s, p) /\ PickAt(d, s, p) = PickAt(c, s, p)
         /\ ValidServers(c) => ValidServers(d)
<1>1. Config!IsConfig(c)
  BY DEF Pinned
<1>2. /\ Config!IsConfig(f) /\ Config!IsConfig(d)
      /\ d.current = c.current /\ d.default = c.default /\ d.selected = c.selected
      /\ d.servers = [t \in DOMAIN c.servers |-> Config!ServerJSON(c.servers[t])]
  BY <1>1, ConfigWritten, ConfigRead
<1>3. ASSUME NEW t \in DOMAIN c.servers
      PROVE  /\ d.servers[t].engine = c.servers[t].engine
             /\ DOMAIN d.servers[t].profiles = DOMAIN c.servers[t].profiles
             /\ \A q \in DOMAIN c.servers[t].profiles :
                  /\ d.servers[t].profiles[q].selector = c.servers[t].profiles[q].selector
                  /\ d.servers[t].profiles[q].transport = c.servers[t].profiles[q].transport
                  /\ d.servers[t].profiles[q].match = c.servers[t].profiles[q].match
                  /\ d.servers[t].profiles[q].pick = c.servers[t].profiles[q].pick
  <2>1. Config!IsServer(c.servers[t]) /\ d.servers[t] = Config!ServerJSON(c.servers[t])
    BY <1>1, <1>2 DEF Config!IsConfig
  <2>2. /\ d.servers[t].engine = c.servers[t].engine
        /\ d.servers[t].profiles =
             [q \in DOMAIN c.servers[t].profiles |-> Config!OmitScope(c.servers[t].profiles[q])]
    BY <2>1, ServerWritten
  <2> QED
    BY <2>1, <2>2, ProfileWritten DEF Config!IsServer
<1>4. Pinned(d, s, p)
  BY <1>2, <1>3 DEF Pinned
<1>5. /\ MatchAt(d, s, p) = MatchAt(c, s, p) /\ PickAt(d, s, p) = PickAt(c, s, p)
      /\ SelectorAt(d, s, p) = SelectorAt(c, s, p)
      /\ TransportAt(d, s, p) = TransportAt(c, s, p)
  <2>1. /\ Config!legacyDefaultProfileSelector(d) = Config!legacyDefaultProfileSelector(c)
        /\ Config!legacyDefaultProfileTransport(d) = Config!legacyDefaultProfileTransport(c)
    BY <1>2 DEF Config!legacyDefaultProfileSelector, Config!legacyDefaultProfileTransport
  <2>2. CASE p = None
    BY <2>1, <2>2 DEF MatchAt, PickAt, SelectorAt, TransportAt
  <2>3. CASE p # None
    <3>1. s \in DOMAIN c.servers /\ p \in DOMAIN c.servers[s].profiles
      BY <2>3 DEF Pinned
    <3> QED
      BY <1>3, <2>1, <2>3, <3>1 DEF MatchAt, PickAt, SelectorAt, TransportAt
  <2> QED
    BY <2>2, <2>3
<1>6. ValidServers(c) => ValidServers(d)
  <2>1. DOMAIN d.servers = DOMAIN c.servers
    BY <1>2
  <2> QED
    BY <1>3, <2>1 DEF ValidServers
<1> QED
  BY <1>2, <1>4, <1>5, <1>6

LEMMA ConfigIsNotNone == ASSUME NoneIsNoRecord, NEW c, Config!IsConfig(c) PROVE c # None
<1>1. c = [current |-> c.current, default |-> c.default, selected |-> c.selected,
           bypass |-> c.bypass, routes |-> c.routes, maxLines |-> c.maxLines,
           servers |-> c.servers]
  BY DEF Config!IsConfig
<1> QED
  BY <1>1 DEF NoneIsNoRecord

LEMMA AtIsNotNone == ASSUME NoneIsNoRecord, NEW c, NEW s, NEW p PROVE At(c, s, p) # None
<1> DEFINE b == Config!SharedDefault(c, SelectorAt(c, s, p), TransportAt(c, s, p))
<1>1. At(c, s, p) = [base |-> b, server |-> s, profile |-> p,
            selector |-> SelectorAt(c, s, p), transport |-> TransportAt(c, s, p),
            match |-> MatchAt(c, s, p), pick |-> PickAt(c, s, p),
            bypass |-> ScopeAt(c, s, p).bypass, routes |-> ScopeAt(c, s, p).routes]
  BY AtFields
<1> HIDE DEF b
<1> QED
  BY <1>1 DEF NoneIsNoRecord

\* A complete selection is loaded, with its outcome as the defaults.
LEMMA LoadPinned ==
  ASSUME NoneIsNoRecord, NEW f, Config!IsConfig(f), NEW c, c = Config!Unmarshal(f),
         NEW s, NEW p, Pinned(c, s, p), ValidServers(c)
  PROVE  Config!Load(f) = Config!SharedDefault(c, SelectorAt(c, s, p), TransportAt(c, s, p))
<1>1. f # None
  BY ConfigIsNotNone
<1>2. Config!Effective(c, Config!NoOptions, TRUE) = At(c, s, p)
  BY PinnedResolves
<1>3. Config!Valid(c)
  BY <1>2, AtIsNotNone DEF Config!Valid, ValidServers
<1>4. At(c, s, p).base = Config!SharedDefault(c, SelectorAt(c, s, p), TransportAt(c, s, p))
  BY AtFields
<1> QED
  BY <1>1, <1>2, <1>3, <1>4 DEF Config!Load

\* What a command reports is what the next one without arguments resolves.
Stored(c, s, p) == Config!writeJSON(At(c, s, p).base)
Again(c, s, p)  == Config!Resolve(Stored(c, s, p), Config!NoOptions, FALSE)

LEMMA Persists ==
  ASSUME NoneIsNoRecord, NEW c, NEW s, NEW p, Pinned(c, s, p), ValidServers(c)
  PROVE  /\ Config!IsConfig(Stored(c, s, p)) /\ Again(c, s, p) # None
         /\ Again(c, s, p).server = s /\ Again(c, s, p).profile = p
         /\ Again(c, s, p).selector = At(c, s, p).selector
         /\ Again(c, s, p).transport = At(c, s, p).transport
         /\ Again(c, s, p).match = At(c, s, p).match
         /\ Again(c, s, p).pick = At(c, s, p).pick
         /\ Again(c, s, p).bypass = ScopeAt(Config!Unmarshal(Stored(c, s, p)), s, p).bypass
<1> DEFINE r == At(c, s, p)
           f == Stored(c, s, p)
           q == Again(c, s, p)
           d == Config!Unmarshal(f)
           b == Config!SharedDefault(c, SelectorAt(c, s, p), TransportAt(c, s, p))
           e == Config!SharedDefault(d, SelectorAt(d, s, p), TransportAt(d, s, p))
<1>0. /\ r = At(c, s, p) /\ f = Config!writeJSON(r.base)
      /\ q = Config!Resolve(f, Config!NoOptions, FALSE) /\ d = Config!Unmarshal(f)
  BY DEF Stored, Again
<1> HIDE DEF r, f, q, d
<1>1. r.base = b
  BY <1>0, AtFields
<1>2. /\ Pinned(b, s, p)
      /\ SelectorAt(b, s, p) = SelectorAt(c, s, p)
      /\ TransportAt(b, s, p) = TransportAt(c, s, p)
      /\ MatchAt(b, s, p) = MatchAt(c, s, p) /\ PickAt(b, s, p) = PickAt(c, s, p)
  BY SharedSticks
<1>3. ValidServers(b)
  <2>1. b.servers = c.servers
    BY SharedFields DEF Pinned
  <2> QED
    BY <2>1 DEF ValidServers
<1> HIDE DEF b
<1>4. /\ Config!IsConfig(f) /\ Pinned(d, s, p) /\ ValidServers(d)
      /\ SelectorAt(d, s, p) = SelectorAt(b, s, p)
      /\ TransportAt(d, s, p) = TransportAt(b, s, p)
      /\ MatchAt(d, s, p) = MatchAt(b, s, p) /\ PickAt(d, s, p) = PickAt(b, s, p)
  BY <1>0, <1>1, <1>2, <1>3, WrittenSticks
<1>5. Config!Load(f) = e
  BY <1>0, <1>4, LoadPinned
<1>6. /\ Pinned(e, s, p)
      /\ SelectorAt(e, s, p) = SelectorAt(d, s, p)
      /\ TransportAt(e, s, p) = TransportAt(d, s, p)
      /\ MatchAt(e, s, p) = MatchAt(d, s, p) /\ PickAt(e, s, p) = PickAt(d, s, p)
  BY <1>4, SharedSticks
<1>7. e.servers = d.servers /\ e.bypass = d.bypass /\ e.routes = d.routes
  BY <1>4, SharedFields DEF Pinned
<1> HIDE DEF e
<1>8. q = At(e, s, p)
  <2>1. e # None
    BY <1>6, ConfigIsNotNone DEF Pinned
  <2> QED
    BY <1>0, <1>5, <1>6, <2>1, PinnedResolves DEF Config!Resolve
<1>9. ScopeAt(e, s, p) = ScopeAt(d, s, p)
  BY <1>7 DEF ScopeAt, Config!mergeRoutingConfig
<1>10. /\ q.server = s /\ q.profile = p /\ q.selector = SelectorAt(e, s, p)
       /\ q.transport = TransportAt(e, s, p) /\ q.match = MatchAt(e, s, p)
       /\ q.pick = PickAt(e, s, p) /\ q.bypass = ScopeAt(e, s, p).bypass
  <2>1. \A x : /\ At(x, s, p).server = s /\ At(x, s, p).profile = p
               /\ At(x, s, p).selector = SelectorAt(x, s, p)
               /\ At(x, s, p).transport = TransportAt(x, s, p)
               /\ At(x, s, p).match = MatchAt(x, s, p) /\ At(x, s, p).pick = PickAt(x, s, p)
               /\ At(x, s, p).bypass = ScopeAt(x, s, p).bypass
    BY AtField
  <2> QED
    BY <1>8, <2>1
<1>11. /\ r.server = s /\ r.profile = p /\ r.selector = SelectorAt(c, s, p)
       /\ r.transport = TransportAt(c, s, p) /\ r.match = MatchAt(c, s, p)
       /\ r.pick = PickAt(c, s, p)
  BY <1>0, AtField
<1>12. q # None
  BY <1>8, AtIsNotNone
<1>13. /\ q.selector = r.selector /\ q.transport = r.transport
       /\ q.match = r.match /\ q.pick = r.pick /\ q.bypass = ScopeAt(d, s, p).bypass
  BY <1>2, <1>4, <1>6, <1>9, <1>10, <1>11
<1> QED
  BY <1>4, <1>10, <1>12, <1>13 DEF r, f, q, d

\* The server, the profile and the scope of a resolution, and where it takes them from.
LEMMA Resolved ==
  ASSUME NoneIsNoRecord, NEW c, Config!IsConfig(c), NEW o \in Config!Options,
         NEW a \in BOOLEAN, NEW r, r = Config!Effective(c, o, a), r # None
  PROVE  /\ r.base = Config!SharedDefault(c, r.selector, r.transport)
         /\ \/ /\ r.server = None /\ r.profile = None /\ r.match = None /\ r.pick = None
               /\ o.selector # None => r.selector = o.selector
            \/ /\ r.server \in DOMAIN c.servers /\ r.profile = None
               /\ r.match = None /\ r.pick = None
               /\ o.selector # None => r.selector = o.selector
               /\ r.bypass = ScopeAt(c, r.server, None).bypass
            \/ /\ r.server \in DOMAIN c.servers
               /\ r.profile \in DOMAIN c.servers[r.server].profiles
               /\ \/ r.profile = o.profile
                  \/ c.current = [server |-> r.server, profile |-> r.profile]
                  \/ DOMAIN c.servers[r.server].profiles = {r.profile}
               /\ LET prof == c.servers[r.server].profiles[r.profile]
                  IN /\ r.match \in {None, prof.match}
                     /\ r.match # None => r.selector = None
                     /\ r.pick \in {None, prof.pick}
                     /\ r.match = None /\ prof.match # None => r.pick = None
               /\ o.selector # None => r.selector = o.selector /\ r.match = None
               /\ r.bypass = ScopeAt(c, r.server, r.profile).bypass
<1> DEFINE s == Config!resolveServerConfig(c, o.server)
           p == Config!resolveProfileConfig(c, s, o.profile,
                  o.server \in {None, Config!CurrentServer(c)}, a)
<1>1. CASE DOMAIN c.servers = {}
  <2> DEFINE o2 == [o EXCEPT !.selector = Config!firstNonEmpty(@, o.profile)]
  <2>1. r = Config!EffectiveServer(c, o2, None, c)
    BY <1>1 DEF Config!Effective
  <2>2. o.selector # None => o2.selector = o.selector
    BY DEF Config!firstNonEmpty, Config!Options
  <2> HIDE DEF o2
  <2> QED
    BY <2>1, <2>2 DEF Config!EffectiveServer, Config!firstNonEmpty
<1>2. CASE DOMAIN c.servers # {}
  <2>1. s # None /\ p.ok
    BY <1>2 DEF Config!Effective
  <2>2. s \in DOMAIN c.servers
    BY <1>2, <2>1 DEF Config!resolveServerConfig, Config!IsSingleton, Config!Only
  <2>3. r = IF p.name = None
            THEN Config!EffectiveServer(c, o, s, Config!mergeRoutingConfig(c, c.servers[s]))
            ELSE Config!EffectiveProfile(c, o, s, p.name)
    BY <1>2, <2>1 DEF Config!Effective
  <2>4. CASE p.name = None
    BY <2>2, <2>3, <2>4 DEF Config!EffectiveServer, ScopeAt, Config!firstNonEmpty
  <2>5. CASE p.name # None
    <3> DEFINE names == DOMAIN c.servers[s].profiles
               cur   == Config!CurrentProfile(c)
    <3>1. /\ p.name \in names
          /\ \/ p.name = o.profile
             \/ /\ o.profile = None /\ o.server \in {None, Config!CurrentServer(c)}
                /\ p.name = cur
             \/ names = {p.name}
      BY <2>1, <2>5 DEF Config!resolveProfileConfig, Config!firstNonEmpty, Config!IsSingleton,
         Config!Only
    <3>2. ASSUME o.server \in {None, Config!CurrentServer(c)}, p.name = cur
          PROVE  c.current = [server |-> s, profile |-> p.name]
      <4>1. c.current # None
        BY <2>5, <3>2 DEF Config!CurrentProfile
      <4>2. /\ c.current \in [server : Servers, profile : Profiles \cup {None}]
            /\ c.current.server # None
        BY <4>1, NamesAreNames DEF Config!IsConfig
      <4>3. Config!CurrentServer(c) = c.current.server /\ cur = c.current.profile
        BY <4>1 DEF Config!CurrentServer, Config!CurrentProfile
      <4>4. s = c.current.server
        BY <2>1, <3>2, <4>2, <4>3 DEF Config!resolveServerConfig, Config!firstNonEmpty
      <4> QED
        BY <3>2, <4>2, <4>3, <4>4
    <3> DEFINE n == p.name
               prof == c.servers[s].profiles[n]
    <3>3. r = Config!EffectiveProfile(c, o, s, n)
      BY <2>3, <2>5
    <3>4. n # None /\ n \in names
      BY <2>5, <3>1
    <3>5. /\ n = o.profile \/ c.current = [server |-> s, profile |-> n] \/ names = {n}
      BY <3>1, <3>2
    <3> HIDE DEF n
    <3> HIDE DEF s, p
    <3>6. /\ r.server = s /\ r.profile = n
          /\ r.base = Config!SharedDefault(c, r.selector, r.transport)
          /\ r.bypass = ScopeAt(c, s, n).bypass
      BY <3>3, <3>4 DEF Config!EffectiveProfile, ScopeAt
    <3>7. /\ r.match = IF o.selector # None THEN None ELSE prof.match
          /\ r.pick = IF o.selector # None THEN None ELSE prof.pick
          /\ r.match # None => r.selector = None
          /\ o.selector # None => r.selector = o.selector
      BY <3>3 DEF Config!EffectiveProfile, Config!firstNonEmpty
    <3> QED
      BY <2>2, <3>4, <3>5, <3>6, <3>7
  <2> QED
    BY <2>4, <2>5
<1> QED
  BY <1>1, <1>2

\* What a command works with.
LEMMA Loaded ==
  ASSUME NoneIsNoRecord, NEW f, f # None => Config!IsConfig(f),
         NEW c, c = Config!Load(f), c # None
  PROVE  /\ f # None /\ Config!IsConfig(c) /\ ValidServers(c)
         /\ c.current = f.current /\ c.servers = f.servers
         /\ c.bypass = Config!firstNonEmpty(f.bypass, DefaultBypass)
<1> DEFINE g == Config!Unmarshal(f)
           r == Config!Effective(g, Config!NoOptions, TRUE)
<1>1. f # None /\ Config!Valid(g) /\ c = r.base
  BY DEF Config!Load
<1>2. /\ Config!IsConfig(g) /\ g.current = f.current /\ g.servers = f.servers
      /\ g.bypass = Config!firstNonEmpty(f.bypass, DefaultBypass)
  BY <1>1, ConfigRead
<1>3. ValidServers(g) /\ r # None
  BY <1>1 DEF Config!Valid, ValidServers
<1>4. Config!NoOptions \in Config!Options
  BY DEF Config!NoOptions, Config!Options
<1> HIDE DEF g
<1>5. c = Config!SharedDefault(g, r.selector, r.transport)
  BY <1>1, <1>2, <1>3, <1>4, Resolved
<1> HIDE DEF r
<1>6. /\ Config!IsConfig(c) /\ c.current = g.current /\ c.servers = g.servers
      /\ c.bypass = g.bypass
  BY <1>2, <1>5, SharedFields
<1> QED
  BY <1>1, <1>2, <1>3, <1>6 DEF ValidServers

\* What a command leaves in last.
LEMMA OutcomeFields ==
  ASSUME NEW name, NEW o \in Config!Options, NEW r, Config!Outcome(name, o, r),
         r # None => r = [base |-> r.base, server |-> r.server, profile |-> r.profile,
                          selector |-> r.selector, transport |-> r.transport, match |-> r.match,
                          pick |-> r.pick, bypass |-> r.bypass, routes |-> r.routes]
  PROVE  /\ last'.cmd = name /\ last'.opts = o
         /\ last'.res # None =>
              /\ r # None
              /\ last'.res.server = r.server /\ last'.res.profile = r.profile
              /\ last'.res.selector = r.selector /\ last'.res.transport = r.transport
              /\ last'.res.match = r.match /\ last'.res.pick = r.pick
              /\ last'.res.bypass = r.bypass
<1>1. CASE r = None
  BY <1>1 DEF Config!Outcome
<1>2. CASE r # None
  <2> DEFINE q == [x \in DOMAIN r \ {"base"} |-> r[x]]
  <2>1. DOMAIN r = {"base", "server", "profile", "selector", "transport", "match", "pick",
                    "bypass", "routes"}
    BY <1>2
  <2>2. /\ q.server = r.server /\ q.profile = r.profile
        /\ q.selector = r.selector /\ q.transport = r.transport
        /\ q.match = r.match /\ q.pick = r.pick /\ q.bypass = r.bypass
    BY <2>1
  <2>3. last' = [cmd |-> name, opts |-> o, res |-> q]
    BY <1>2 DEF Config!Outcome
  <2> HIDE DEF q
  <2> QED
    BY <1>2, <2>2, <2>3
<1> QED
  BY <1>1, <1>2

LEMMA EffectiveRecord ==
  ASSUME NEW c, NEW o, NEW a, NEW r, r = Config!Effective(c, o, a), r # None
  PROVE  r = [base |-> r.base, server |-> r.server, profile |-> r.profile,
              selector |-> r.selector, transport |-> r.transport, match |-> r.match,
              pick |-> r.pick, bypass |-> r.bypass, routes |-> r.routes]
  BY DEF Config!Effective, Config!EffectiveServer, Config!EffectiveProfile

RunOk == Config!NoForeignProfile /\ Config!OneCriterion /\ Config!BypassAdditive
SetOk == Config!SelectionSticks /\ Config!SetupUsable

\* A command that only reads.
LEMMA RunStep ==
  ASSUME NoneIsNoRecord, Config!TypeOK, NEW o \in Config!Options, Config!Run(o)
  PROVE  (Config!TypeOK /\ RunOk /\ SetOk)'
<1>1. PICK a \in BOOLEAN :
        Config!Outcome(IF a THEN "list" ELSE "start", o, Config!Resolve(file, o, a))
  BY DEF Config!Run
<1> DEFINE r == Config!Resolve(file, o, a)
           c == Config!Load(file)
<1>2. file' = file
  BY DEF Config!Run
<1>3. r # None => c # None /\ r = Config!Effective(c, o, a)
  BY DEF Config!Resolve
<1>4. r # None => r = [base |-> r.base, server |-> r.server, profile |-> r.profile,
                       selector |-> r.selector, transport |-> r.transport, match |-> r.match,
                       pick |-> r.pick, bypass |-> r.bypass, routes |-> r.routes]
  BY <1>3, EffectiveRecord
<1> HIDE DEF r
<1>5. /\ last'.cmd \in {"list", "start"} /\ last'.opts = o
      /\ last'.res # None =>
           /\ r # None
           /\ last'.res.server = r.server /\ last'.res.profile = r.profile
           /\ last'.res.selector = r.selector
           /\ last'.res.match = r.match /\ last'.res.pick = r.pick
           /\ last'.res.bypass = r.bypass
  <2>1. Config!Outcome(IF a THEN "list" ELSE "start", o, r)
    BY <1>1 DEF r
  <2> QED
    BY <1>4, <2>1, OutcomeFields
<1>6. Config!TypeOK' /\ SetOk'
  BY <1>2, <1>5 DEF Config!TypeOK, SetOk, Config!SelectionSticks, Config!SetupUsable
<1>7. ASSUME last'.res # None PROVE RunOk'
  <2>1. /\ file # None /\ Config!IsConfig(c) /\ ValidServers(c)
        /\ c.current = file.current /\ c.servers = file.servers
        /\ c.bypass = Config!firstNonEmpty(file.bypass, DefaultBypass)
    BY <1>3, <1>5, <1>7, Loaded DEF Config!TypeOK
  <2>2. r # None /\ r = Config!Effective(c, o, a)
    BY <1>3, <1>5, <1>7
  <2> HIDE DEF c
  <2> DEFINE prof == c.servers[r.server].profiles[r.profile]
  <2>3. \/ /\ r.server = None /\ r.profile = None /\ r.match = None /\ r.pick = None
           /\ o.selector # None => r.selector = o.selector
        \/ /\ r.server \in DOMAIN c.servers /\ r.profile = None
           /\ r.match = None /\ r.pick = None
           /\ o.selector # None => r.selector = o.selector
           /\ r.bypass = ScopeAt(c, r.server, None).bypass
        \/ /\ r.server \in DOMAIN c.servers
           /\ r.profile \in DOMAIN c.servers[r.server].profiles
           /\ \/ r.profile = o.profile
              \/ c.current = [server |-> r.server, profile |-> r.profile]
              \/ DOMAIN c.servers[r.server].profiles = {r.profile}
           /\ r.match \in {None, prof.match}
           /\ r.match # None => r.selector = None
           /\ r.pick \in {None, prof.pick}
           /\ r.match = None /\ prof.match # None => r.pick = None
           /\ o.selector # None => r.selector = o.selector /\ r.match = None
           /\ r.bypass = ScopeAt(c, r.server, r.profile).bypass
    BY <2>1, <2>2, Resolved
  <2>4. Config!NoForeignProfile'
    BY <1>2, <1>5, <1>7, <2>1, <2>3 DEF Config!NoForeignProfile
  <2>5. r.pick # None => r.match # None
    BY <2>1, <2>3 DEF ValidServers
  <2>6. Config!OneCriterion'
    BY <1>5, <1>7, <2>3, <2>5 DEF Config!OneCriterion
  <2>7. Config!BypassAdditive'
    <3> SUFFICES ASSUME r.server # None
                 PROVE  LET onServer  == file.servers[r.server].bypass
                            onProfile == IF r.profile = None THEN None
                                       ELSE file.servers[r.server].profiles[r.profile].bypass
                            machine == Config!firstNonEmpty(file.bypass, DefaultBypass)
                        IN /\ onServer # {} /\ onProfile # {} => machine \subseteq r.bypass
                           /\ onServer # None /\ onProfile # {} => onServer \subseteq r.bypass
                           /\ onProfile # None => onProfile \subseteq r.bypass
                           /\ onProfile = {} => r.bypass = {}
      BY <1>2, <1>5, <1>7 DEF Config!BypassAdditive
    <3>1. r.bypass = ScopeAt(c, r.server, r.profile).bypass
      BY <2>3
    <3>2. None # {}
      BY NamesAreNames
    <3> DEFINE sb == c.servers[r.server].bypass
               pb == IF r.profile = None THEN None ELSE prof.bypass
               mb == c.bypass
               scope == Config!mergeBypassSuffixes(mb, sb)
    <3>3. r.bypass = IF r.profile = None THEN scope ELSE Config!mergeBypassSuffixes(scope, pb)
      BY <3>1 DEF ScopeAt, Config!mergeRoutingConfig
    <3>4. mb # None
      BY <2>1, NamesAreNames DEF Config!firstNonEmpty
    <3>5. /\ sb = None => scope = mb
          /\ sb = {} => scope = {}
          /\ sb # None /\ sb # {} => scope = mb \cup sb
      BY <3>2, <3>4 DEF Config!mergeBypassSuffixes
    <3> HIDE DEF scope
    <3>6. /\ pb = None => r.bypass = scope
          /\ pb = {} => r.bypass = {}
          /\ pb # None /\ pb # {} => r.bypass = pb \/ r.bypass = scope \cup pb
          /\ pb # None /\ pb # {} /\ scope # None => r.bypass = scope \cup pb
      BY <3>2, <3>3 DEF Config!mergeBypassSuffixes
    <3>7. scope # None
      <4>1. mb \subseteq Suffixes
        BY <2>1, <3>4 DEF Config!IsConfig, Config!BypassType
      <4>2. sb = None \/ sb \subseteq Suffixes
        BY <2>1, <2>3 DEF Config!IsConfig, Config!IsServer, Config!BypassType
      <4>3. mb \cup sb \subseteq Suffixes \/ sb = None
        BY <4>1, <4>2
      <4> QED
        BY <3>2, <3>4, <3>5, <4>3, NamesAreNames
    <3> QED
      BY <2>1, <3>2, <3>4, <3>5, <3>6, <3>7
  <2> QED
    BY <2>4, <2>6, <2>7 DEF RunOk
<1>8. ASSUME last'.res = None PROVE RunOk'
  BY <1>8 DEF RunOk, Config!NoForeignProfile, Config!OneCriterion, Config!BypassAdditive
<1> QED
  BY <1>6, <1>7, <1>8

\* set-current stores a selection that is complete.
LEMMA UpdatePinned ==
  ASSUME NoneIsNoRecord, NEW c, Config!IsConfig(c), NEW o \in Config!Options,
         NEW u, u = Config!resolveCurrentUpdate(c, o), u # None,
         NEW d, d = [c EXCEPT !.current = u]
  PROVE  /\ Pinned(d, u.server, u.profile) /\ d.servers = c.servers
         /\ o.server # None => u.server = o.server
         /\ o.profile # None => u.profile = o.profile
<1> DEFINE named == Config!firstNonEmpty(o.server, Config!CurrentServer(c))
           s     == IF named # None \/ ~Config!IsSingleton(DOMAIN c.servers) THEN named
                    ELSE Config!Only(DOMAIN c.servers)
           names == DOMAIN c.servers[s].profiles
           p     == IF o.profile # None THEN o.profile
                    ELSE IF "default" \in names THEN "default"
                    ELSE IF Config!IsSingleton(names) THEN Config!Only(names) ELSE None
<1>1. o.server # None => s = o.server
  BY DEF Config!firstNonEmpty
<1>2. o.profile # None => p = o.profile
  OBVIOUS
<1> HIDE DEF s, p
<1>3. /\ s \in DOMAIN c.servers
      /\ \/ names = {} /\ o.profile = None /\ u = [server |-> s, profile |-> None]
         \/ p \in names /\ u = [server |-> s, profile |-> p]
  BY DEF Config!resolveCurrentUpdate, s, p
<1>4. /\ u.server = s /\ u = [server |-> u.server, profile |-> u.profile]
      /\ \/ u.profile = None /\ names = {}
         \/ u.profile \in names
      /\ o.profile # None => u.profile = o.profile
  BY <1>2, <1>3
<1>5. s \in Servers /\ (u.profile = None \/ u.profile \in Profiles)
  BY <1>3, <1>4 DEF Config!IsConfig, Config!IsServer
<1>6. u \in [server : Servers, profile : Profiles \cup {None}]
  BY <1>4, <1>5
<1>7. d = [current |-> u, default |-> c.default, selected |-> c.selected,
           bypass |-> c.bypass, routes |-> c.routes, maxLines |-> c.maxLines,
           servers |-> c.servers]
  BY DEF Config!IsConfig
<1>8. Config!IsConfig(d)
  BY <1>6, <1>7 DEF Config!IsConfig, Config!BypassType
<1> QED
  BY <1>1, <1>3, <1>4, <1>7, <1>8 DEF Pinned

\* set-current
LEMMA SetCurrentStep ==
  ASSUME NoneIsNoRecord, Config!TypeOK, NEW o \in Config!Options, Config!SetCurrent(o)
  PROVE  (Config!TypeOK /\ RunOk /\ SetOk)'
<1> DEFINE c == Config!Load(file)
           u == IF c = None THEN None ELSE Config!resolveCurrentUpdate(c, o)
           d == [c EXCEPT !.current = u]
           r == IF u = None THEN None ELSE Config!Effective(d, Config!NoOptions, FALSE)
<1>1. /\ Config!Outcome("set-current", o, r)
      /\ file' = IF r = None THEN file ELSE Config!writeJSON(r.base)
  BY DEF Config!SetCurrent
<1>3. r # None => c # None /\ u # None /\ r = Config!Effective(d, Config!NoOptions, FALSE)
  OBVIOUS
<1>4. c # None /\ u # None => u = Config!resolveCurrentUpdate(c, o)
  OBVIOUS
<1> HIDE DEF u, r
<1>2. r # None => r = [base |-> r.base, server |-> r.server, profile |-> r.profile,
                       selector |-> r.selector, transport |-> r.transport, match |-> r.match,
                       pick |-> r.pick, bypass |-> r.bypass, routes |-> r.routes]
  <2> HIDE DEF d
  <2> QED
    BY <1>3, EffectiveRecord
<1>5. /\ last'.cmd = "set-current" /\ last'.opts = o
      /\ last'.res # None =>
           /\ r # None
           /\ last'.res.server = r.server /\ last'.res.profile = r.profile
           /\ last'.res.selector = r.selector /\ last'.res.transport = r.transport
           /\ last'.res.match = r.match /\ last'.res.pick = r.pick
  BY <1>1, <1>2, OutcomeFields
<1>6. RunOk'
  BY <1>5 DEF RunOk, Config!NoForeignProfile, Config!OneCriterion, Config!BypassAdditive
<1>7. CASE r = None
  BY <1>1, <1>5, <1>6, <1>7 DEF Config!TypeOK, SetOk, Config!SelectionSticks, Config!SetupUsable
<1>8. CASE r # None
  <2>1. Config!IsConfig(c) /\ ValidServers(c)
    BY <1>3, <1>8, Loaded DEF Config!TypeOK
  <2>2. /\ Pinned(d, u.server, u.profile) /\ d.servers = c.servers
        /\ o.server # None => u.server = o.server
        /\ o.profile # None => u.profile = o.profile
    BY <1>3, <1>4, <1>8, <2>1, UpdatePinned
  <2> HIDE DEF c, d
  <2>3. r = At(d, u.server, u.profile) /\ ValidServers(d)
    BY <1>3, <1>8, <2>1, <2>2, PinnedResolves DEF ValidServers
  <2>4. file' = Config!writeJSON(r.base)
    BY <1>1, <1>8
  <2> DEFINE f == Stored(d, u.server, u.profile)
             q == Again(d, u.server, u.profile)
  <2>5. /\ Config!IsConfig(f) /\ q # None
        /\ q.server = u.server /\ q.profile = u.profile /\ q.selector = r.selector
        /\ q.transport = r.transport /\ q.match = r.match /\ q.pick = r.pick
    BY <2>2, <2>3, Persists
  <2>6. r.server = u.server /\ r.profile = u.profile
    BY <2>3, AtField
  <2>7. Config!Resolve(file, Config!NoOptions, FALSE)' = q
    BY <2>3, <2>4 DEF Config!Resolve, Config!Load, Again, Stored
  <2> HIDE DEF q
  <2>8. Config!SelectionSticks'
    <3> SUFFICES ASSUME last'.res # None
                 PROVE  /\ Config!Asked(last.opts, last.res)'
                        /\ q # None
                        /\ \A x \in {"server", "profile", "selector", "transport", "match",
                                     "pick"} : q[x] = last'.res[x]
      BY <2>7 DEF Config!SelectionSticks
    <3>1. Config!Asked(last.opts, last.res)'
      BY <1>5, <2>2, <2>6 DEF Config!Asked
    <3> QED
      BY <1>5, <2>5, <2>6, <3>1
  <2>9. Config!SetupUsable' /\ Config!TypeOK'
    BY <1>5, <2>3, <2>4, <2>5 DEF Config!SetupUsable, Config!TypeOK, Stored
  <2> QED
    BY <1>6, <2>8, <2>9 DEF SetOk
<1> QED
  BY <1>7, <1>8

\* setup
LEMMA SetupStep ==
  ASSUME NoneIsNoRecord, Config!TypeOK, NEW o \in Config!Options, NEW force \in BOOLEAN,
         Config!Setup(o, force)
  PROVE  (Config!TypeOK /\ RunOk /\ SetOk)'
<1> DEFINE c == Config!withDefaultServerProfile(o)
           s == o.server
           p == o.profile
           r == Config!Effective(c, Config!NoOptions, FALSE)
<1>1. s # None /\ p # None /\ s \in Servers /\ p \in Profiles
  BY DEF Config!Setup, Config!Options
<1>2. CASE file # None /\ ~force
  <2>1. Config!Outcome("setup", o, None) /\ UNCHANGED file
    BY <1>2 DEF Config!Setup
  <2>2. last'.cmd = "setup" /\ last'.opts = o /\ last'.res = None
    BY <2>1 DEF Config!Outcome
  <2> QED
    BY <2>1, <2>2 DEF Config!TypeOK, RunOk, SetOk, Config!NoForeignProfile, Config!OneCriterion,
       Config!BypassAdditive, Config!SelectionSticks, Config!SetupUsable
<1>3. CASE ~(file # None /\ ~force)
  <2>1. Config!Outcome("setup", o, r) /\ file' = Config!writeJSON(c)
    BY <1>3 DEF Config!Setup
  <2> DEFINE prof == [selector |-> o.selector, transport |-> None, match |-> None, pick |-> None,
                      bypass |-> None, routes |-> None]
             srv  == [engine |-> "sing-box", bypass |-> DefaultBypass, routes |-> None,
                      profiles |-> [n \in {p} |-> prof]]
  <2>2. c = [current |-> [server |-> s, profile |-> p], default |-> None,
             selected |-> None, bypass |-> None, routes |-> None, maxLines |-> 1000,
             servers |-> [n \in {s} |-> srv]]
    BY DEF Config!withDefaultServerProfile
  <2> HIDE DEF c
  <2>3. Config!IsProfile(prof)
    BY DEF Config!IsProfile, Config!BypassType
  <2> HIDE DEF prof
  <2>4. Config!IsServer(srv)
    BY <1>1, <2>3, NamesAreNames DEF Config!IsServer, Config!BypassType
  <2> HIDE DEF srv
  <2>5. Config!IsConfig(c)
    BY <1>1, <2>2, <2>4 DEF Config!IsConfig, Config!BypassType
  <2>6. /\ c.servers[s] = srv /\ srv.profiles[p] = prof /\ DOMAIN srv.profiles = {p}
        /\ DOMAIN c.servers = {s} /\ c.bypass = None /\ c.default = None /\ c.selected = None
        /\ srv.bypass = DefaultBypass /\ prof.bypass = None /\ prof.match = None
        /\ prof.pick = None /\ prof.selector = o.selector
    BY <2>2 DEF srv, prof
  <2>7. Pinned(c, s, p)
    BY <2>2, <2>5, <2>6 DEF Pinned
  <2>8. ValidServers(c)
    <3>1. srv.engine # None
      BY NamesAreNames DEF srv
    <3> QED
      BY <2>6, <3>1 DEF ValidServers
  <2>9. r = At(c, s, p) /\ At(c, s, p).base = c
    <3>1. At(c, s, p).base = Config!SharedDefault(c, SelectorAt(c, s, p), TransportAt(c, s, p))
      BY AtFields
    <3> QED
      BY <2>6, <2>7, <3>1, PinnedResolves DEF Config!SharedDefault
  <2>10. r # None => r = [base |-> r.base, server |-> r.server, profile |-> r.profile,
                         selector |-> r.selector, transport |-> r.transport, match |-> r.match,
                         pick |-> r.pick, bypass |-> r.bypass, routes |-> r.routes]
    <3> HIDE DEF r, s, p
    <3> QED
      BY <2>9, AtFields
  <2> HIDE DEF r
  <2>11. /\ last'.cmd = "setup" /\ last'.opts = o
         /\ last'.res # None =>
              /\ r # None
              /\ last'.res.server = r.server /\ last'.res.profile = r.profile
              /\ last'.res.selector = r.selector /\ last'.res.transport = r.transport
              /\ last'.res.match = r.match /\ last'.res.pick = r.pick
    BY <2>1, <2>10, OutcomeFields
  <2> DEFINE f == Stored(c, s, p)
             q == Again(c, s, p)
             g == Config!Unmarshal(f)
  <2>12. /\ Config!IsConfig(f) /\ q # None
         /\ q.server = s /\ q.profile = p /\ q.selector = r.selector
         /\ q.transport = r.transport /\ q.match = r.match /\ q.pick = r.pick
         /\ q.bypass = ScopeAt(g, s, p).bypass
    BY <2>7, <2>8, <2>9, Persists
  <2>13. f = Config!writeJSON(c)
    BY <2>9 DEF Stored
  <2>14. Config!Resolve(file, Config!NoOptions, FALSE)' = q
    BY <2>1, <2>13 DEF Config!Resolve, Config!Load, Again
  <2>15. r.server = s /\ r.profile = p /\ r.selector = SelectorAt(c, s, p)
    BY <2>9, AtField
  <2>16. r.selector = o.selector
    BY <1>1, <2>6, <2>15 DEF SelectorAt, Config!legacyDefaultProfileSelector, Config!firstNonEmpty
  <2>17. ScopeAt(g, s, p).bypass = DefaultBypass
    <3>1. /\ Config!OmitEmpty(None) = None /\ Config!OmitEmpty(DefaultBypass) = DefaultBypass
      BY NamesAreNames DEF Config!OmitEmpty
    <3> HIDE DEF f
    <3>2. /\ Config!IsConfig(f) /\ f.bypass = None
          /\ f.servers = [n \in DOMAIN c.servers |-> Config!ServerJSON(c.servers[n])]
      BY <2>5, <2>6, <2>13, <3>1, ConfigWritten
    <3>3. g.bypass = DefaultBypass /\ g.servers = f.servers
      BY <3>2, ConfigRead DEF Config!firstNonEmpty
    <3> HIDE DEF g
    <3>4. g.servers[s] = Config!ServerJSON(srv)
      BY <2>6, <3>2, <3>3
    <3>5. /\ g.servers[s].bypass = DefaultBypass
          /\ g.servers[s].profiles[p] = Config!OmitScope(prof)
      BY <2>4, <2>6, <3>1, <3>4, ServerWritten
    <3>6. g.servers[s].profiles[p].bypass = None
      BY <2>3, <2>6, <3>1, <3>5, ProfileWritten
    <3> QED
      BY <1>1, <3>3, <3>5, <3>6, NamesAreNames
         DEF ScopeAt, Config!mergeRoutingConfig, Config!mergeBypassSuffixes
  <2> HIDE DEF q, g
  <2>18. Config!SelectionSticks'
    <3> SUFFICES ASSUME last'.res # None
                 PROVE  /\ Config!Asked(last.opts, last.res)'
                        /\ q # None
                        /\ \A x \in {"server", "profile", "selector", "transport", "match",
                                     "pick"} : q[x] = last'.res[x]
      BY <2>14 DEF Config!SelectionSticks
    <3>1. Config!Asked(last.opts, last.res)'
      BY <2>11, <2>15 DEF Config!Asked
    <3> QED
      BY <2>11, <2>12, <2>15, <3>1
  <2>19. Config!SetupUsable'
    BY <2>11, <2>12, <2>14, <2>16, <2>17 DEF Config!SetupUsable
  <2>20. Config!TypeOK'
    <3>1. Config!IsConfig(file)'
      BY <2>1, <2>12, <2>13
    <3> QED
      BY <2>11, <3>1 DEF Config!TypeOK
  <2> QED
    BY <2>11, <2>18, <2>19, <2>20 DEF SetOk, RunOk, Config!NoForeignProfile,
       Config!OneCriterion, Config!BypassAdditive
<1> QED
  BY <1>2, <1>3

\* ConfigCorrect, of any files, servers, profiles and selectors and any sequence of
\* commands: the selection that set-current and setup have reported is the one the next
\* command resolves, and every resolution keeps to its own server, to one criterion and to
\* the bypass lists of all scopes.
THEOREM ConfigIsCorrect == ASSUME NoneIsNoRecord PROVE Spec => []ConfigCorrect
<1> DEFINE I == part = "config" => Config!TypeOK /\ RunOk /\ SetOk
<1>1. Init => I
  <2> SUFFICES ASSUME Config!Init PROVE Config!TypeOK /\ RunOk /\ SetOk
    BY DEF Init
  <2>1. file # None => Config!IsConfig(file)
    BY ClientsAssumption DEF Config!DefaultsAssumption, Config!Init
  <2> QED
    BY <2>1 DEF Config!Init, Config!TypeOK, Config!NoOptions, Config!Options, RunOk, SetOk,
       Config!NoForeignProfile, Config!OneCriterion, Config!BypassAdditive,
       Config!SelectionSticks, Config!SetupUsable
<1>2. I /\ [Next]_vars => I'
  <2> SUFFICES ASSUME I, [Next]_vars, part' = "config"
               PROVE  (Config!TypeOK /\ RunOk /\ SetOk)'
    OBVIOUS
  <2>1. part = "config" /\ Config!TypeOK /\ RunOk /\ SetOk
    BY PartKept
  <2>2. CASE Config!Next
    BY <2>1, <2>2, RunStep, SetCurrentStep, SetupStep DEF Config!Next
  <2>3. CASE UNCHANGED vars
    BY <2>1, <2>3 DEF vars, configVars, Config!TypeOK, RunOk, SetOk, Config!NoForeignProfile,
       Config!OneCriterion, Config!BypassAdditive, Config!SelectionSticks, Config!SetupUsable,
       Config!Asked, Config!Resolve, Config!Load
  <2> QED
    BY <2>1, <2>2, <2>3 DEF Next
<1>3. I => ConfigCorrect
  BY DEF RunOk, SetOk, ConfigCorrect
<1> QED
  BY <1>1, <1>2, <1>3, PTL DEF Spec

-----------------------------------------------------------------------------
(* The Android service: AndroidTunnelProofs for each of its three instances *)

AndroidProofs == INSTANCE AndroidTunnelProofs WITH
  Engine <- {"singbox"}, MaxPending <- 1, Patient <- FALSE, Revocable <- TRUE
EnginesProofs == INSTANCE AndroidTunnelProofs WITH
  Engine <- {"singbox", "xray"}, MaxPending <- 1, Patient <- FALSE, Revocable <- FALSE
CarefulProofs == INSTANCE AndroidTunnelProofs WITH
  Engine <- {"singbox", "xray"}, Job <- PatientJob, Server <- PatientServer,
  MaxPending <- 1, Patient <- TRUE, Revocable <- FALSE

\* The instance of the run is the one that was proved about.
LEMMA AndroidProofsSame ==
  /\ Android!Init => AndroidProofs!Init
  /\ [Android!Next]_androidVars => [AndroidProofs!Next]_AndroidProofs!vars
  /\ AndroidProofs!TypeOK /\ AndroidProofs!TunPublished /\ AndroidProofs!NeverStuck
     => Android!TypeOK /\ Android!TunPublished /\ Android!NeverStuck
  /\ AndroidProofs!ConnectedMeansUp => Android!ConnectedMeansUp
<1>1. Android!Init => AndroidProofs!Init
  BY DEF Android!Init, AndroidProofs!Init
<1>2. ASSUME NEW j \in Job,
             Android!Prepare(j) \/ Android!EnsureCommandServer(j) \/
                Android!StartOrReloadService(j) \/ Android!WaitForTunOpen(j) \/
                Android!StartFails(j)
      PROVE  AndroidProofs!Step(j)
  BY <1>2 DEF AndroidProofs!Step, Android!Prepare, AndroidProofs!Prepare,
     Android!EnsureCommandServer, AndroidProofs!EnsureCommandServer,
     Android!StartOrReloadService, AndroidProofs!StartOrReloadService,
     Android!WaitForTunOpen, AndroidProofs!WaitForTunOpen, Android!StartFails,
     AndroidProofs!StartFails, Android!At, AndroidProofs!At, Android!ui, AndroidProofs!ui,
     Android!link, AndroidProofs!link, Android!rt, AndroidProofs!rt
<1>3. ASSUME NEW j \in Job,
             Android!CloseService(j) \/ Android!CloseCommandServer(j) \/
                Android!StopClosesTun(j) \/ Android!StopOldXray(j) \/ Android!OpenTun(j)
      PROVE  AndroidProofs!Step(j)
  BY <1>3 DEF AndroidProofs!Step, Android!CloseService, AndroidProofs!CloseService,
     Android!CloseCommandServer, AndroidProofs!CloseCommandServer, Android!StopClosesTun,
     AndroidProofs!StopClosesTun, Android!StopOldXray, AndroidProofs!StopOldXray,
     Android!OpenTun, AndroidProofs!OpenTun, Android!At, AndroidProofs!At, Android!ui,
     AndroidProofs!ui, Android!link, AndroidProofs!link, Android!rt, AndroidProofs!rt
<1>4. ASSUME NEW j \in Job,
             Android!RunXray(j) \/ Android!XrayFails(j) \/ Android!StopXray(j) \/
                Android!StopXrayClosesTun(j)
      PROVE  AndroidProofs!Step(j)
  BY <1>4 DEF AndroidProofs!Step, Android!RunXray, AndroidProofs!RunXray, Android!XrayFails,
     AndroidProofs!XrayFails, Android!StopXray, AndroidProofs!StopXray,
     Android!StopXrayClosesTun, AndroidProofs!StopXrayClosesTun, Android!At,
     AndroidProofs!At, Android!ui, AndroidProofs!ui, Android!link, AndroidProofs!link,
     Android!rt, AndroidProofs!rt
<1>5. ASSUME NEW j \in Job,
             Android!StartEnds(j) \/ Android!StopEnds(j)
      PROVE  AndroidProofs!Step(j)
  BY <1>5 DEF AndroidProofs!Step, Android!StartEnds, AndroidProofs!StartEnds,
     Android!StopEnds, AndroidProofs!StopEnds, Android!Free, AndroidProofs!Free, Android!ui,
     AndroidProofs!ui, Android!link, AndroidProofs!link, Android!rt, AndroidProofs!rt
<1>6. ASSUME NEW S PROVE Android!Cardinality(S) = AndroidProofs!Cardinality(S)
  BY DEF Android!Cardinality, AndroidProofs!Cardinality, Android!IsFiniteSet,
     AndroidProofs!IsFiniteSet
<1>7. ASSUME NEW b, Android!ClickConnect(b) PROVE AndroidProofs!ClickConnect(b)
  BY <1>6, <1>7, SMT DEF Android!ClickConnect, AndroidProofs!ClickConnect, Android!Settled,
     AndroidProofs!Settled, Android!JobsDone, AndroidProofs!JobsDone, Android!Idle,
     AndroidProofs!Idle, Android!link, AndroidProofs!link, Android!rt, AndroidProofs!rt
<1>8. ASSUME NEW b, Android!Resolve(b) PROVE AndroidProofs!Resolve(b)
  BY <1>8 DEF Android!Resolve, AndroidProofs!Resolve, Android!StartTunnel,
     AndroidProofs!StartTunnel, Android!StopTunnel, AndroidProofs!StopTunnel,
     Android!Forward, AndroidProofs!Forward, Android!Settled, AndroidProofs!Settled,
     Android!JobsDone, AndroidProofs!JobsDone, Android!Idle, AndroidProofs!Idle, Android!At,
     AndroidProofs!At, Android!ui, AndroidProofs!ui, Android!link, AndroidProofs!link,
     Android!rt, AndroidProofs!rt
<1>9. ASSUME Android!Revoke \/ Android!Destroy \/ Android!ClickDisconnect \/ Android!Consent
      PROVE  AndroidProofs!Next
  BY <1>9 DEF AndroidProofs!Next, Android!Revoke, AndroidProofs!Revoke, Android!Destroy,
     AndroidProofs!Destroy, Android!ClickDisconnect, AndroidProofs!ClickDisconnect,
     Android!Consent, AndroidProofs!Consent, Android!StartTunnel, AndroidProofs!StartTunnel,
     Android!StopTunnel, AndroidProofs!StopTunnel, Android!Forward, AndroidProofs!Forward,
     Android!Settled, AndroidProofs!Settled, Android!JobsDone, AndroidProofs!JobsDone,
     Android!Idle, AndroidProofs!Idle, Android!At, AndroidProofs!At, Android!ui,
     AndroidProofs!ui, Android!link, AndroidProofs!link, Android!rt, AndroidProofs!rt
<1>10. ASSUME Android!ServiceConnected \/ Android!SyncRuntime \/ Android!Relaunch
      PROVE  AndroidProofs!Next
  BY <1>10 DEF AndroidProofs!Next, Android!ServiceConnected, AndroidProofs!ServiceConnected,
     Android!SyncRuntime, AndroidProofs!SyncRuntime, Android!Relaunch,
     AndroidProofs!Relaunch, Android!StartTunnel, AndroidProofs!StartTunnel,
     Android!StopTunnel, AndroidProofs!StopTunnel, Android!Forward, AndroidProofs!Forward,
     Android!Settled, AndroidProofs!Settled, Android!JobsDone, AndroidProofs!JobsDone,
     Android!Idle, AndroidProofs!Idle, Android!At, AndroidProofs!At, Android!ui,
     AndroidProofs!ui, Android!link, AndroidProofs!link, Android!rt, AndroidProofs!rt
<1>11. [Android!Next]_androidVars => [AndroidProofs!Next]_AndroidProofs!vars
  <2>1. Android!Next => AndroidProofs!Next
    BY <1>2, <1>3, <1>4, <1>5, <1>7, <1>8, <1>9, <1>10 DEF Android!Next, Android!Step,
       AndroidProofs!Next
  <2>2. UNCHANGED androidVars => UNCHANGED AndroidProofs!vars
    BY DEF androidVars, AndroidProofs!vars, AndroidProofs!ui, AndroidProofs!link,
       AndroidProofs!rt
  <2> QED
    BY <2>1, <2>2
<1> QED
  BY <1>1, <1>11 DEF Android!TypeOK, AndroidProofs!TypeOK, Android!Phases,
     AndroidProofs!Phases, Android!Stages, AndroidProofs!Stages, Android!TunPublished,
     AndroidProofs!TunPublished, Android!NeverStuck, AndroidProofs!NeverStuck,
     Android!ConnectedMeansUp, AndroidProofs!ConnectedMeansUp, Android!JobsDone,
     AndroidProofs!JobsDone, Android!Idle, AndroidProofs!Idle

LEMMA EnginesProofsSame ==
  /\ Engines!Init => EnginesProofs!Init
  /\ [Engines!Next]_androidVars => [EnginesProofs!Next]_EnginesProofs!vars
  /\ EnginesProofs!TypeOK /\ EnginesProofs!TunPublished /\ EnginesProofs!NeverStuck
     => Engines!TypeOK /\ Engines!TunPublished /\ Engines!NeverStuck
  /\ EnginesProofs!ConnectedMeansUp => Engines!ConnectedMeansUp
<1>1. Engines!Init => EnginesProofs!Init
  BY DEF Engines!Init, EnginesProofs!Init
<1>2. ASSUME NEW j \in Job,
             Engines!Prepare(j) \/ Engines!EnsureCommandServer(j) \/
                Engines!StartOrReloadService(j) \/ Engines!WaitForTunOpen(j) \/
                Engines!StartFails(j)
      PROVE  EnginesProofs!Step(j)
  BY <1>2 DEF EnginesProofs!Step, Engines!Prepare, EnginesProofs!Prepare,
     Engines!EnsureCommandServer, EnginesProofs!EnsureCommandServer,
     Engines!StartOrReloadService, EnginesProofs!StartOrReloadService,
     Engines!WaitForTunOpen, EnginesProofs!WaitForTunOpen, Engines!StartFails,
     EnginesProofs!StartFails, Engines!At, EnginesProofs!At, Engines!ui, EnginesProofs!ui,
     Engines!link, EnginesProofs!link, Engines!rt, EnginesProofs!rt
<1>3. ASSUME NEW j \in Job,
             Engines!CloseService(j) \/ Engines!CloseCommandServer(j) \/
                Engines!StopClosesTun(j) \/ Engines!StopOldXray(j) \/ Engines!OpenTun(j)
      PROVE  EnginesProofs!Step(j)
  BY <1>3 DEF EnginesProofs!Step, Engines!CloseService, EnginesProofs!CloseService,
     Engines!CloseCommandServer, EnginesProofs!CloseCommandServer, Engines!StopClosesTun,
     EnginesProofs!StopClosesTun, Engines!StopOldXray, EnginesProofs!StopOldXray,
     Engines!OpenTun, EnginesProofs!OpenTun, Engines!At, EnginesProofs!At, Engines!ui,
     EnginesProofs!ui, Engines!link, EnginesProofs!link, Engines!rt, EnginesProofs!rt
<1>4. ASSUME NEW j \in Job,
             Engines!RunXray(j) \/ Engines!XrayFails(j) \/ Engines!StopXray(j) \/
                Engines!StopXrayClosesTun(j)
      PROVE  EnginesProofs!Step(j)
  BY <1>4 DEF EnginesProofs!Step, Engines!RunXray, EnginesProofs!RunXray, Engines!XrayFails,
     EnginesProofs!XrayFails, Engines!StopXray, EnginesProofs!StopXray,
     Engines!StopXrayClosesTun, EnginesProofs!StopXrayClosesTun, Engines!At,
     EnginesProofs!At, Engines!ui, EnginesProofs!ui, Engines!link, EnginesProofs!link,
     Engines!rt, EnginesProofs!rt
<1>5. ASSUME NEW j \in Job,
             Engines!StartEnds(j) \/ Engines!StopEnds(j)
      PROVE  EnginesProofs!Step(j)
  BY <1>5 DEF EnginesProofs!Step, Engines!StartEnds, EnginesProofs!StartEnds,
     Engines!StopEnds, EnginesProofs!StopEnds, Engines!Free, EnginesProofs!Free, Engines!ui,
     EnginesProofs!ui, Engines!link, EnginesProofs!link, Engines!rt, EnginesProofs!rt
<1>6. ASSUME NEW S PROVE Engines!Cardinality(S) = EnginesProofs!Cardinality(S)
  BY DEF Engines!Cardinality, EnginesProofs!Cardinality, Engines!IsFiniteSet,
     EnginesProofs!IsFiniteSet
<1>7. ASSUME NEW b, Engines!ClickConnect(b) PROVE EnginesProofs!ClickConnect(b)
  BY <1>6, <1>7, SMT DEF Engines!ClickConnect, EnginesProofs!ClickConnect, Engines!Settled,
     EnginesProofs!Settled, Engines!JobsDone, EnginesProofs!JobsDone, Engines!Idle,
     EnginesProofs!Idle, Engines!link, EnginesProofs!link, Engines!rt, EnginesProofs!rt
<1>8. ASSUME NEW b, Engines!Resolve(b) PROVE EnginesProofs!Resolve(b)
  BY <1>8 DEF Engines!Resolve, EnginesProofs!Resolve, Engines!StartTunnel,
     EnginesProofs!StartTunnel, Engines!StopTunnel, EnginesProofs!StopTunnel,
     Engines!Forward, EnginesProofs!Forward, Engines!Settled, EnginesProofs!Settled,
     Engines!JobsDone, EnginesProofs!JobsDone, Engines!Idle, EnginesProofs!Idle, Engines!At,
     EnginesProofs!At, Engines!ui, EnginesProofs!ui, Engines!link, EnginesProofs!link,
     Engines!rt, EnginesProofs!rt
<1>9. ASSUME Engines!Revoke \/ Engines!Destroy \/ Engines!ClickDisconnect \/ Engines!Consent
      PROVE  EnginesProofs!Next
  BY <1>9 DEF EnginesProofs!Next, Engines!Revoke, EnginesProofs!Revoke, Engines!Destroy,
     EnginesProofs!Destroy, Engines!ClickDisconnect, EnginesProofs!ClickDisconnect,
     Engines!Consent, EnginesProofs!Consent, Engines!StartTunnel, EnginesProofs!StartTunnel,
     Engines!StopTunnel, EnginesProofs!StopTunnel, Engines!Forward, EnginesProofs!Forward,
     Engines!Settled, EnginesProofs!Settled, Engines!JobsDone, EnginesProofs!JobsDone,
     Engines!Idle, EnginesProofs!Idle, Engines!At, EnginesProofs!At, Engines!ui,
     EnginesProofs!ui, Engines!link, EnginesProofs!link, Engines!rt, EnginesProofs!rt
<1>10. ASSUME Engines!ServiceConnected \/ Engines!SyncRuntime \/ Engines!Relaunch
      PROVE  EnginesProofs!Next
  BY <1>10 DEF EnginesProofs!Next, Engines!ServiceConnected, EnginesProofs!ServiceConnected,
     Engines!SyncRuntime, EnginesProofs!SyncRuntime, Engines!Relaunch,
     EnginesProofs!Relaunch, Engines!StartTunnel, EnginesProofs!StartTunnel,
     Engines!StopTunnel, EnginesProofs!StopTunnel, Engines!Forward, EnginesProofs!Forward,
     Engines!Settled, EnginesProofs!Settled, Engines!JobsDone, EnginesProofs!JobsDone,
     Engines!Idle, EnginesProofs!Idle, Engines!At, EnginesProofs!At, Engines!ui,
     EnginesProofs!ui, Engines!link, EnginesProofs!link, Engines!rt, EnginesProofs!rt
<1>11. [Engines!Next]_androidVars => [EnginesProofs!Next]_EnginesProofs!vars
  <2>1. Engines!Next => EnginesProofs!Next
    BY <1>2, <1>3, <1>4, <1>5, <1>7, <1>8, <1>9, <1>10 DEF Engines!Next, Engines!Step,
       EnginesProofs!Next
  <2>2. UNCHANGED androidVars => UNCHANGED EnginesProofs!vars
    BY DEF androidVars, EnginesProofs!vars, EnginesProofs!ui, EnginesProofs!link,
       EnginesProofs!rt
  <2> QED
    BY <2>1, <2>2
<1> QED
  BY <1>1, <1>11 DEF Engines!TypeOK, EnginesProofs!TypeOK, Engines!Phases,
     EnginesProofs!Phases, Engines!Stages, EnginesProofs!Stages, Engines!TunPublished,
     EnginesProofs!TunPublished, Engines!NeverStuck, EnginesProofs!NeverStuck,
     Engines!ConnectedMeansUp, EnginesProofs!ConnectedMeansUp, Engines!JobsDone,
     EnginesProofs!JobsDone, Engines!Idle, EnginesProofs!Idle

LEMMA CarefulProofsSame ==
  /\ Careful!Init => CarefulProofs!Init
  /\ [Careful!Next]_androidVars => [CarefulProofs!Next]_CarefulProofs!vars
  /\ CarefulProofs!TypeOK /\ CarefulProofs!TunPublished /\ CarefulProofs!NeverStuck
     => Careful!TypeOK /\ Careful!TunPublished /\ Careful!NeverStuck
  /\ CarefulProofs!ConnectedMeansUp => Careful!ConnectedMeansUp
<1>1. Careful!Init => CarefulProofs!Init
  BY DEF Careful!Init, CarefulProofs!Init
<1>2. ASSUME NEW j \in PatientJob,
             Careful!Prepare(j) \/ Careful!EnsureCommandServer(j) \/
                Careful!StartOrReloadService(j) \/ Careful!WaitForTunOpen(j) \/
                Careful!StartFails(j)
      PROVE  CarefulProofs!Step(j)
  BY <1>2 DEF CarefulProofs!Step, Careful!Prepare, CarefulProofs!Prepare,
     Careful!EnsureCommandServer, CarefulProofs!EnsureCommandServer,
     Careful!StartOrReloadService, CarefulProofs!StartOrReloadService,
     Careful!WaitForTunOpen, CarefulProofs!WaitForTunOpen, Careful!StartFails,
     CarefulProofs!StartFails, Careful!At, CarefulProofs!At, Careful!ui, CarefulProofs!ui,
     Careful!link, CarefulProofs!link, Careful!rt, CarefulProofs!rt
<1>3. ASSUME NEW j \in PatientJob,
             Careful!CloseService(j) \/ Careful!CloseCommandServer(j) \/
                Careful!StopClosesTun(j) \/ Careful!StopOldXray(j) \/ Careful!OpenTun(j)
      PROVE  CarefulProofs!Step(j)
  BY <1>3 DEF CarefulProofs!Step, Careful!CloseService, CarefulProofs!CloseService,
     Careful!CloseCommandServer, CarefulProofs!CloseCommandServer, Careful!StopClosesTun,
     CarefulProofs!StopClosesTun, Careful!StopOldXray, CarefulProofs!StopOldXray,
     Careful!OpenTun, CarefulProofs!OpenTun, Careful!At, CarefulProofs!At, Careful!ui,
     CarefulProofs!ui, Careful!link, CarefulProofs!link, Careful!rt, CarefulProofs!rt
<1>4. ASSUME NEW j \in PatientJob,
             Careful!RunXray(j) \/ Careful!XrayFails(j) \/ Careful!StopXray(j) \/
                Careful!StopXrayClosesTun(j)
      PROVE  CarefulProofs!Step(j)
  BY <1>4 DEF CarefulProofs!Step, Careful!RunXray, CarefulProofs!RunXray, Careful!XrayFails,
     CarefulProofs!XrayFails, Careful!StopXray, CarefulProofs!StopXray,
     Careful!StopXrayClosesTun, CarefulProofs!StopXrayClosesTun, Careful!At,
     CarefulProofs!At, Careful!ui, CarefulProofs!ui, Careful!link, CarefulProofs!link,
     Careful!rt, CarefulProofs!rt
<1>5. ASSUME NEW j \in PatientJob,
             Careful!StartEnds(j) \/ Careful!StopEnds(j)
      PROVE  CarefulProofs!Step(j)
  BY <1>5 DEF CarefulProofs!Step, Careful!StartEnds, CarefulProofs!StartEnds,
     Careful!StopEnds, CarefulProofs!StopEnds, Careful!Free, CarefulProofs!Free, Careful!ui,
     CarefulProofs!ui, Careful!link, CarefulProofs!link, Careful!rt, CarefulProofs!rt
<1>6. ASSUME NEW S PROVE Careful!Cardinality(S) = CarefulProofs!Cardinality(S)
  BY DEF Careful!Cardinality, CarefulProofs!Cardinality, Careful!IsFiniteSet,
     CarefulProofs!IsFiniteSet
<1>7. ASSUME NEW b, Careful!ClickConnect(b) PROVE CarefulProofs!ClickConnect(b)
  BY <1>6, <1>7, SMT DEF Careful!ClickConnect, CarefulProofs!ClickConnect, Careful!Settled,
     CarefulProofs!Settled, Careful!JobsDone, CarefulProofs!JobsDone, Careful!Idle,
     CarefulProofs!Idle, Careful!link, CarefulProofs!link, Careful!rt, CarefulProofs!rt
<1>8. ASSUME NEW b, Careful!Resolve(b) PROVE CarefulProofs!Resolve(b)
  BY <1>8 DEF Careful!Resolve, CarefulProofs!Resolve, Careful!StartTunnel,
     CarefulProofs!StartTunnel, Careful!StopTunnel, CarefulProofs!StopTunnel,
     Careful!Forward, CarefulProofs!Forward, Careful!Settled, CarefulProofs!Settled,
     Careful!JobsDone, CarefulProofs!JobsDone, Careful!Idle, CarefulProofs!Idle, Careful!At,
     CarefulProofs!At, Careful!ui, CarefulProofs!ui, Careful!link, CarefulProofs!link,
     Careful!rt, CarefulProofs!rt
<1>9. ASSUME Careful!Revoke \/ Careful!Destroy \/ Careful!ClickDisconnect \/ Careful!Consent
      PROVE  CarefulProofs!Next
  BY <1>9 DEF CarefulProofs!Next, Careful!Revoke, CarefulProofs!Revoke, Careful!Destroy,
     CarefulProofs!Destroy, Careful!ClickDisconnect, CarefulProofs!ClickDisconnect,
     Careful!Consent, CarefulProofs!Consent, Careful!StartTunnel, CarefulProofs!StartTunnel,
     Careful!StopTunnel, CarefulProofs!StopTunnel, Careful!Forward, CarefulProofs!Forward,
     Careful!Settled, CarefulProofs!Settled, Careful!JobsDone, CarefulProofs!JobsDone,
     Careful!Idle, CarefulProofs!Idle, Careful!At, CarefulProofs!At, Careful!ui,
     CarefulProofs!ui, Careful!link, CarefulProofs!link, Careful!rt, CarefulProofs!rt
<1>10. ASSUME Careful!ServiceConnected \/ Careful!SyncRuntime \/ Careful!Relaunch
      PROVE  CarefulProofs!Next
  BY <1>10 DEF CarefulProofs!Next, Careful!ServiceConnected, CarefulProofs!ServiceConnected,
     Careful!SyncRuntime, CarefulProofs!SyncRuntime, Careful!Relaunch,
     CarefulProofs!Relaunch, Careful!StartTunnel, CarefulProofs!StartTunnel,
     Careful!StopTunnel, CarefulProofs!StopTunnel, Careful!Forward, CarefulProofs!Forward,
     Careful!Settled, CarefulProofs!Settled, Careful!JobsDone, CarefulProofs!JobsDone,
     Careful!Idle, CarefulProofs!Idle, Careful!At, CarefulProofs!At, Careful!ui,
     CarefulProofs!ui, Careful!link, CarefulProofs!link, Careful!rt, CarefulProofs!rt
<1>11. [Careful!Next]_androidVars => [CarefulProofs!Next]_CarefulProofs!vars
  <2>1. Careful!Next => CarefulProofs!Next
    BY <1>2, <1>3, <1>4, <1>5, <1>7, <1>8, <1>9, <1>10 DEF Careful!Next, Careful!Step,
       CarefulProofs!Next
  <2>2. UNCHANGED androidVars => UNCHANGED CarefulProofs!vars
    BY DEF androidVars, CarefulProofs!vars, CarefulProofs!ui, CarefulProofs!link,
       CarefulProofs!rt
  <2> QED
    BY <2>1, <2>2
<1> QED
  BY <1>1, <1>11 DEF Careful!TypeOK, CarefulProofs!TypeOK, Careful!Phases,
     CarefulProofs!Phases, Careful!Stages, CarefulProofs!Stages, Careful!TunPublished,
     CarefulProofs!TunPublished, Careful!NeverStuck, CarefulProofs!NeverStuck,
     Careful!ConnectedMeansUp, CarefulProofs!ConnectedMeansUp, Careful!JobsDone,
     CarefulProofs!JobsDone, Careful!Idle, CarefulProofs!Idle

\* AndroidCorrect, of any number of coroutines and command servers: whatever starts, stops
\* and revocations have crossed, once the coroutines have ended an open tun interface is
\* published as Connected, and the service is in Connecting or Disconnecting only while a
\* coroutine is left; and Connected means an open tun interface and a running engine when
\* the user waits for the outcome of a step before the next.
THEOREM AndroidIsCorrect == Spec => []AndroidCorrect
<1>1. /\ AndroidProofs!AndroidAssumption /\ EnginesProofs!AndroidAssumption
      /\ CarefulProofs!AndroidAssumption
  BY ClientsAssumption
     DEF AndroidProofs!AndroidAssumption, Android!AndroidAssumption,
         EnginesProofs!AndroidAssumption, Engines!AndroidAssumption,
         CarefulProofs!AndroidAssumption, Careful!AndroidAssumption
<1>2. AndroidProofs!Spec
      => [](AndroidProofs!TypeOK /\ AndroidProofs!TunPublished /\ AndroidProofs!NeverStuck)
  BY <1>1, AndroidProofs!ServicePublishes
<1>3. EnginesProofs!Spec
      => [](EnginesProofs!TypeOK /\ EnginesProofs!TunPublished /\ EnginesProofs!NeverStuck)
  BY <1>1, EnginesProofs!ServicePublishes
<1>4. CarefulProofs!Spec
      => [](CarefulProofs!TypeOK /\ CarefulProofs!TunPublished /\ CarefulProofs!NeverStuck)
  BY <1>1, CarefulProofs!ServicePublishes
<1>5. CarefulProofs!Spec => []CarefulProofs!ConnectedMeansUp
  BY <1>1, CarefulProofs!ConnectedIsUp
<1>6. Init /\ part = "android" => AndroidProofs!Init
  BY AndroidProofsSame, Zenon DEF Init, Engines!Init, Android!Init
<1>7. Init /\ part = "engines" => EnginesProofs!Init
  BY EnginesProofsSame DEF Init
<1>8. Init /\ part = "patient" => CarefulProofs!Init
  BY CarefulProofsSame DEF Init
<1>9. part = "android" /\ [Next]_vars => [AndroidProofs!Next]_AndroidProofs!vars
  <2>1. part = "android" /\ [Next]_vars => [Android!Next]_androidVars
    BY DEF Next, vars
  <2> QED
    BY <2>1, AndroidProofsSame
<1>10. part = "engines" /\ [Next]_vars => [EnginesProofs!Next]_EnginesProofs!vars
  <2>1. part = "engines" /\ [Next]_vars => [Engines!Next]_androidVars
    BY DEF Next, vars
  <2> QED
    BY <2>1, EnginesProofsSame
<1>11. part = "patient" /\ [Next]_vars => [CarefulProofs!Next]_CarefulProofs!vars
  <2>1. part = "patient" /\ [Next]_vars => [Careful!Next]_androidVars
    BY DEF Next, vars
  <2> QED
    BY <2>1, CarefulProofsSame
<1>13. Spec /\ part = "android" => []AndroidCorrect
  <2>1. part = "android" /\ [Next]_vars => (part = "android")'
    BY PartKept
  <2>2. part = "android" /\ AndroidProofs!TypeOK /\ AndroidProofs!TunPublished
        /\ AndroidProofs!NeverStuck => AndroidCorrect
    BY AndroidProofsSame DEF AndroidCorrect
  <2> QED
    BY <1>2, <1>6, <1>9, <2>1, <2>2, PTL DEF Spec, AndroidProofs!Spec
<1>14. Spec /\ part = "engines" => []AndroidCorrect
  <2>1. part = "engines" /\ [Next]_vars => (part = "engines")'
    BY PartKept
  <2>2. part = "engines" /\ EnginesProofs!TypeOK /\ EnginesProofs!TunPublished
        /\ EnginesProofs!NeverStuck => AndroidCorrect
    BY EnginesProofsSame DEF AndroidCorrect
  <2> QED
    BY <1>3, <1>7, <1>10, <2>1, <2>2, PTL DEF Spec, EnginesProofs!Spec
<1>15. Spec /\ part = "patient" => []AndroidCorrect
  <2>1. part = "patient" /\ [Next]_vars => (part = "patient")'
    BY PartKept
  <2>2. part = "patient" /\ CarefulProofs!TypeOK /\ CarefulProofs!TunPublished
        /\ CarefulProofs!NeverStuck /\ CarefulProofs!ConnectedMeansUp => AndroidCorrect
    BY CarefulProofsSame DEF AndroidCorrect
  <2> QED
    BY <1>4, <1>5, <1>8, <1>11, <2>1, <2>2, PTL DEF Spec, CarefulProofs!Spec
<1>16. Spec /\ part \notin {"android", "engines", "patient"} => []AndroidCorrect
  <2>1. part \notin {"android", "engines", "patient"} /\ [Next]_vars
        => (part \notin {"android", "engines", "patient"})'
    BY PartKept
  <2>2. part \notin {"android", "engines", "patient"} => AndroidCorrect
    BY DEF AndroidCorrect
  <2> QED
    BY <2>1, <2>2, PTL DEF Spec
<1>17. \/ part = "android" \/ part = "engines" \/ part = "patient"
       \/ part \notin {"android", "engines", "patient"}
  OBVIOUS
<1> QED
  BY <1>13, <1>14, <1>15, <1>16, <1>17, PTL
=============================================================================
