----------------------------- MODULE Subscription -----------------------------
(***************************************************************************)
(* The subscription of vless-tun (vless/subscription/fetch.go): what a     *)
(* provider serves, the snapshot kept in a cache directory, and the        *)
(* commands that fetch, save and read it (vless/cli/app.go).               *)
(*                                                                         *)
(* os.WriteFile truncates and then writes, and nothing locks the cache, so *)
(* the two are steps of their own: a snapshot file is absent (None),       *)
(* Empty since the last truncation, Damaged (a prefix, or two writes       *)
(* over each other) or a whole snapshot.  subscription.txt is written      *)
(* before it and read by nobody.                                           *)
(***************************************************************************)
EXTENDS Naturals

CONSTANTS None, Empty, Damaged,
          Procs,       \* command processes
          Sources,     \* subscription URLs of the configured servers
          CacheOf,     \* the cache directory of each
          MaxVersion,  \* bound: versions a provider publishes
          MaxRuns      \* bound: commands of a behaviour

VARIABLES provider, \* per source: the version it serves
          snap,     \* per cache directory: snapshot.json
          pc,       \* per process: the next step of its command
          cmd,      \* per process: [name, source, refresh], None before the first
          got,      \* per process: the snapshot fetched and not yet saved
          out,      \* per process: the outcome of its last command
          hist,     \* per process: what was true when it began, what it was answered
          runs

vars == <<provider, snap, pc, cmd, got, out, hist, runs>>

Dirs == {CacheOf[s] : s \in Sources}
Snapshots == [src : Sources, ver : 1..MaxVersion]
Answers == {"ok", "down", "refused", "garbage"}
Whole(f) == f \in Snapshots

\* Only start (and run, reconnect, render) has a fallback; list has none.
Commands == [name : {"start", "list"}, source : Sources, refresh : BOOLEAN]
            \cup [name : {"refresh"}, source : Sources, refresh : {TRUE}]

\* A file that is absent, empty or damaged is no snapshot.
BoundsAssumption ==
  /\ MaxVersion \in Nat \ {0} /\ MaxRuns \in Nat
  /\ None \notin Snapshots \cup Commands \cup Answers \cup {Empty, Damaged}
  /\ {Empty, Damaged} \cap Snapshots = {}

---------------------------------------------------------------------------
(* The provider changes its profiles; what it answers to a request ("down"  *)
(* for a network error, 5xx or 429, "refused" for another status, "garbage" *)
(* for a payload that does not parse) is up to it.                          *)

Publish(s) ==
  /\ provider[s] < MaxVersion
  /\ provider' = [provider EXCEPT ![s] = @ + 1]
  /\ UNCHANGED <<snap, pc, cmd, got, out, hist, runs>>

---------------------------------------------------------------------------
Dir(p) == CacheOf[cmd[p].source]
Goto(p, l) == pc' = [pc EXCEPT ![p] = l]

Finish(p, use, fresh) ==
  /\ Goto(p, "idle")
  /\ out' = [out EXCEPT ![p] = [done |-> TRUE, use |-> use, fresh |-> fresh]]

Fail(p) == Finish(p, None, FALSE)

Begin(p, c) ==
  /\ pc[p] = "idle" /\ runs < MaxRuns
  /\ runs' = runs + 1
  /\ cmd' = [cmd EXCEPT ![p] = c]
  /\ hist' = [hist EXCEPT ![p] = [ver |-> provider[c.source],
                                  cached |-> Whole(snap[CacheOf[c.source]]),
                                  answer |-> None]]
  /\ out' = [out EXCEPT ![p] = [done |-> FALSE, use |-> None, fresh |-> FALSE]]
  /\ Goto(p, IF c.refresh THEN "fetch" ELSE "load")
  /\ UNCHANGED <<provider, snap, got>>

\* Mutant: a file that does not parse is taken for a snapshot.
LoadCacheLenient(f) == [ok |-> f # None, missing |-> f = None]

LoadCache(f) == [ok |-> Whole(f), missing |-> f = None]

\* Without --refresh: the cache, or a fetch when there is none.
Load(p) ==
  LET r == LoadCache(snap[Dir(p)])
  IN /\ pc[p] = "load"
     /\ \/ r.ok /\ Finish(p, snap[Dir(p)], FALSE)
        \/ r.missing /\ Goto(p, "fetch") /\ UNCHANGED out
        \/ ~r.ok /\ ~r.missing /\ Fail(p)
     /\ UNCHANGED <<provider, snap, cmd, got, hist, runs>>

\* Mutant: every failed fetch is transient.
IsTransientFetchErrorAny(answer) == answer # "ok"

IsTransientFetchError(answer) == answer = "down"

\* Mutant: the snapshot does not name its source.
ReceivedUnnamed(p) == [src |-> None, ver |-> provider[cmd[p].source]]

\* Mutant: a snapshot of the cache spares the fetch.
ReceivedCached(p) ==
  IF Whole(snap[Dir(p)]) THEN snap[Dir(p)]
  ELSE [src |-> cmd[p].source, ver |-> provider[cmd[p].source]]

Received(p) == [src |-> cmd[p].source, ver |-> provider[cmd[p].source]]

Fetch(p, answer) ==
  LET covered == IsTransientFetchError(answer) /\ cmd[p].name = "start" /\ cmd[p].refresh
  IN /\ pc[p] = "fetch"
     /\ hist' = [hist EXCEPT ![p].answer = answer]
     /\ \/ /\ answer = "ok"
           /\ got' = [got EXCEPT ![p] = Received(p)]
           /\ Goto(p, "raw") /\ UNCHANGED out
        \/ /\ answer # "ok" /\ covered
           /\ Goto(p, "fallback") /\ UNCHANGED <<got, out>>
        \/ /\ answer # "ok" /\ ~covered
           /\ Fail(p) /\ UNCHANGED got
     /\ UNCHANGED <<provider, snap, cmd, runs>>

\* The original error is reported when the cache cannot serve either.
Fallback(p) ==
  /\ pc[p] = "fallback"
  /\ IF LoadCache(snap[Dir(p)]).ok THEN Finish(p, snap[Dir(p)], FALSE) ELSE Fail(p)
  /\ UNCHANGED <<provider, snap, cmd, got, hist, runs>>

\* SaveCache, first file: subscription.txt.
SaveRaw(p) ==
  /\ pc[p] = "raw"
  /\ \/ Goto(p, "truncate") /\ UNCHANGED <<out, got>>
     \/ Fail(p) /\ got' = [got EXCEPT ![p] = None]
  /\ UNCHANGED <<provider, snap, cmd, hist, runs>>

\* Mutant: one cache for all servers.
CacheDirShared(p) == CHOOSE d \in Dirs : TRUE

CacheDir(p) == Dir(p)

Truncate(p) ==
  /\ pc[p] = "truncate"
  /\ snap' = [snap EXCEPT ![CacheDir(p)] = Empty]
  /\ Goto(p, "write")
  /\ UNCHANGED <<provider, cmd, got, out, hist, runs>>

\* A write over what another process wrote since the truncation leaves the longer
\* one's tail behind unless it is at least as long.
Write(p) ==
  /\ pc[p] = "write"
  /\ \/ /\ snap' = [snap EXCEPT ![CacheDir(p)] = got[p]]
        /\ Finish(p, got[p], TRUE)
     \/ /\ snap[CacheDir(p)] # Empty
        /\ snap' = [snap EXCEPT ![CacheDir(p)] = Damaged]
        /\ Finish(p, got[p], TRUE)
     \/ /\ snap' = [snap EXCEPT ![CacheDir(p)] = Damaged]
        /\ Fail(p)
  /\ got' = [got EXCEPT ![p] = None]
  /\ UNCHANGED <<provider, cmd, hist, runs>>

\* The process ends at any point of its command; a write may have got part of the way.
Interrupt(p) ==
  /\ pc[p] # "idle"
  /\ \/ UNCHANGED snap
     \/ pc[p] = "write" /\ snap' = [snap EXCEPT ![CacheDir(p)] = Damaged]
  /\ Goto(p, "idle")
  /\ got' = [got EXCEPT ![p] = None]
  /\ UNCHANGED <<provider, cmd, out, hist, runs>>

Init ==
  /\ provider = [s \in Sources |-> 1]
  /\ \/ snap = [d \in Dirs |-> None]
     \/ snap = [d \in Dirs |-> [src |-> CHOOSE s \in Sources : CacheOf[s] = d, ver |-> 1]]
  /\ pc = [p \in Procs |-> "idle"] /\ cmd = [p \in Procs |-> None]
  /\ got = [p \in Procs |-> None]
  /\ out = [p \in Procs |-> [done |-> FALSE, use |-> None, fresh |-> FALSE]]
  /\ hist = [p \in Procs |-> [ver |-> 1, cached |-> FALSE, answer |-> None]]
  /\ runs = 0

Next ==
  \/ \E s \in Sources : Publish(s)
  \/ \E p \in Procs :
       \/ \E c \in Commands : Begin(p, c)
       \/ Load(p) \/ Fallback(p) \/ \E answer \in Answers : Fetch(p, answer)
       \/ SaveRaw(p) \/ Truncate(p) \/ Write(p) \/ Interrupt(p)

Spec == Init /\ [][Next]_vars

---------------------------------------------------------------------------
(* What must hold.                                                           *)

TypeOK ==
  /\ provider \in [Sources -> 1..MaxVersion]
  /\ snap \in [Dirs -> Snapshots \cup {None, Empty, Damaged}]
  /\ pc \in [Procs -> {"idle", "load", "fetch", "fallback", "raw", "truncate", "write"}]
  /\ cmd \in [Procs -> Commands \cup {None}]
  /\ got \in [Procs -> Snapshots \cup {None}]
  /\ \A p \in Procs : pc[p] \in {"raw", "truncate", "write"} <=> got[p] # None
  /\ runs \in 0..MaxRuns

Used(p) == out[p].done /\ out[p].use # None

\* A command never works with a file that another process is writing, has left half
\* written or has overwritten: what it uses is a snapshot some provider has served.
OnlyWhole ==
  \A p \in Procs : Used(p) =>
    Whole(out[p].use) /\ out[p].use.ver <= provider[out[p].use.src]

\* A refresh picks up what the provider served when the command began, or something
\* newer, whatever the cache holds and other commands save meanwhile (README: "so
\* provider-side endpoint, SNI, fingerprint, and profile changes are picked up").
RefreshedIsCurrent ==
  \A p \in Procs : Used(p) /\ (out[p].fresh \/ (cmd[p].name # "start" /\ cmd[p].refresh)) =>
    out[p].fresh /\ out[p].use.src = cmd[p].source /\ out[p].use.ver >= hist[p].ver

\* A start that asked for a refresh works from the cache only after a transient
\* failure; a refused or unparsable subscription is never covered by stale credentials.
StaleOnlyWhenDown ==
  \A p \in Procs : Used(p) /\ cmd[p].refresh /\ ~out[p].fresh =>
    cmd[p].name = "start" /\ hist[p].answer = "down"

\* Servers with cache directories of their own never work with each other's profiles.
OwnCache ==
  (\A s, t \in Sources : s # t => CacheOf[s] # CacheOf[t]) =>
     \A p \in Procs : Used(p) => out[p].use.src = cmd[p].source

-----------------------------------------------------------------------------
(* What a document, a comment or an error message of the repository says   *)
(* and the model refutes: see "What the code does not keep" in README.md.  *)

\* A transient failure does not fail a start that the cache can serve (loadStartSnapshot:
\* "a flaky provider endpoint does not block a start or reconnect that the cache can
\* still serve").
FallbackServes ==
  \A p \in Procs :
    cmd[p] # None /\ cmd[p].name = "start" /\ cmd[p].refresh
      /\ hist[p].answer = "down" /\ hist[p].cached /\ out[p].done => out[p].use # None

=============================================================================
