--------------------------- MODULE ProfileResolution ---------------------------
(***************************************************************************)
(* Which profile of a subscription a command uses: by selector and         *)
(* transport, or by match and pick, with the concurrent probe of the       *)
(* candidates (vless/subscription/parse.go, vless/cli/run_stop.go).        *)
(*                                                                         *)
(* Text is abstracted to what the comparisons tell apart: how the selector *)
(* fits a profile (`fits`: an exact key, part of one, or not at all) and   *)
(* whether country, name pattern and exclusions accept it (`accepted`).    *)
(* A profile's id is its place in the subscription.                        *)
(***************************************************************************)
EXTENDS Naturals, Sequences, FiniteSets, SequencesExt

CONSTANTS None,
          Inputs,     \* subscriptions with the options and sessions of a command
          Durations,  \* what a dial may take
          MaxProfiles \* bound: profiles of a subscription

InputsAssumption == \A i \in Inputs : Len(i.profiles) <= MaxProfiles

VARIABLES input,   \* [profiles, selector, transport, match, pick, sessions]
          pc,      \* "resolve", "probe", "done"
          cand,    \* the candidates of the probe
          dials,   \* per candidate: "dialing", "sending", "ended"
          sent,    \* per candidate: its result, once the dial is over
          queue,   \* the results channel
          count,   \* results received
          best,    \* the best of them
          expired, \* the probe's budget is over
          result

vars == <<input, pc, cand, dials, sent, queue, count, best, expired, result>>

Numbered(i) == [k \in DOMAIN i.profiles |-> [i.profiles[k] EXCEPT !.id = k]]
Failed == [ok |-> FALSE, id |-> 0]
Chosen(p) == [ok |-> TRUE, id |-> p.id]

\* Mutant: the first of several is as good as the only one.
OnlyOfFirst(s) == IF s # <<>> THEN Chosen(s[1]) ELSE Failed

OnlyOf(s) == IF Len(s) = 1 THEN Chosen(s[1]) ELSE Failed

---------------------------------------------------------------------------
(* Selector and transport.                                                   *)

filterProfilesByTransport(profiles, transport) ==
  SelectSeq(profiles, LAMBDA p : transport = None \/ p.transport = transport)

selectProfileFromCandidates(profiles) ==
  LET exactMatches    == SelectSeq(profiles, LAMBDA p : p.fits = "exact")
      containsMatches == SelectSeq(profiles, LAMBDA p : p.fits = "part")
  IN IF exactMatches # <<>> THEN OnlyOf(exactMatches) ELSE OnlyOf(containsMatches)

Select(profiles, i) ==
  LET candidates == filterProfilesByTransport(profiles, i.transport)
  IN IF i.selector THEN selectProfileFromCandidates(candidates) ELSE OnlyOf(candidates)

---------------------------------------------------------------------------
(* Match, pick and the sessions that are up.                                 *)

\* Mutant: the transport of the command is not looked at.
profileMatchesAny(p, i) == p.accepted /\ i.match \in {"any", p.transport}

profileMatches(p, i) ==
  /\ p.accepted
  /\ i.match \in {"any", p.transport}
  /\ i.transport \in {None, p.transport}

Candidates(profiles, i) == SelectSeq(profiles, LAMBDA p : profileMatches(p, i))

\* probeSelectionPolicy: any session that is up suppresses the probe; one of the same
\* server and alias gives the sticky profile.  The caches are visited in no order.
StickyIds(i) ==
  LET same == {s \in i.sessions : s.alive /\ s.same}
  IN IF same = {} THEN {0} ELSE {s.id : s \in same}

skipProbe(i) == \E s \in i.sessions : s.alive

\* Mutant: the profile of the session is used though the subscription has dropped it.
SkippedPickBlind(candidates, sticky) ==
  IF sticky # 0 THEN [candidates[1] EXCEPT !.id = sticky] ELSE candidates[1]

\* Mutant: a tunnel that is up does not keep its profile.
SkippedPickFirst(candidates, sticky) == candidates[1]

SkippedPick(candidates, sticky) ==
  IF \E k \in DOMAIN candidates : candidates[k].id = sticky
  THEN candidates[CHOOSE k \in DOMAIN candidates : candidates[k].id = sticky]
  ELSE candidates[1]

Finish(r) == pc' = "done" /\ result' = r

resolveMatchedProfile ==
  LET candidates == Candidates(Numbered(input), input)
  IN \/ candidates = <<>> /\ Finish(Failed) /\ UNCHANGED <<cand, dials, sent>>
     \/ /\ candidates # <<>> /\ input.pick # "probe"
        /\ Finish(IF input.pick = "only" THEN OnlyOf(candidates) ELSE Chosen(candidates[1]))
        /\ UNCHANGED <<cand, dials, sent>>
     \/ /\ candidates # <<>> /\ input.pick = "probe" /\ skipProbe(input)
        /\ \E sticky \in StickyIds(input) : Finish(Chosen(SkippedPick(candidates, sticky)))
        /\ UNCHANGED <<cand, dials, sent>>
     \/ /\ candidates # <<>> /\ input.pick = "probe" /\ ~skipProbe(input)
        /\ pc' = "probe" /\ cand' = candidates
        /\ dials' = [k \in DOMAIN candidates |-> "dialing"]
        /\ sent' = [k \in DOMAIN candidates |-> None]
        /\ UNCHANGED result

ResolveProfileWithOptions ==
  /\ pc = "resolve"
  /\ \/ /\ input.profiles = <<>> \/ input.match = None
        /\ Finish(IF input.profiles = <<>> THEN Failed ELSE Select(Numbered(input), input))
        /\ UNCHANGED <<cand, dials, sent>>
     \/ input.profiles # <<>> /\ input.match # None /\ resolveMatchedProfile
  /\ UNCHANGED <<input, queue, count, best, expired>>

---------------------------------------------------------------------------
(* probeProfiles: one goroutine per candidate, a channel with room for all   *)
(* results, and a deadline that cancels the dials.                           *)

\* Mutant: an unbuffered channel; a send waits for the receiver.
CapacityNone == IF pc = "probe" THEN 1 ELSE 0

Capacity == Len(cand)

\* A dial that the deadline or the return of the probe cancels fails.
Dial(k) ==
  /\ pc \in {"probe", "done"} /\ dials[k] = "dialing"
  /\ \E ok \in BOOLEAN, d \in Durations :
       /\ ok => pc = "probe" /\ ~expired
       /\ sent' = [sent EXCEPT ![k] = [k |-> k, ok |-> ok, duration |-> d]]
  /\ dials' = [dials EXCEPT ![k] = "sending"]
  /\ UNCHANGED <<input, pc, cand, queue, count, best, expired, result>>

Send(k) ==
  /\ dials[k] = "sending" /\ Len(queue) < Capacity
  /\ queue' = Append(queue, sent[k])
  /\ dials' = [dials EXCEPT ![k] = "ended"]
  /\ UNCHANGED <<input, pc, cand, sent, count, best, expired, result>>

\* Mutant: of two equal durations the one that comes later in the channel stays.
BetterLate(r, b) == r.ok /\ (b = None \/ r.duration <= b.duration)

Better(r, b) ==
  r.ok /\ IF b = None THEN TRUE
          ELSE r.duration < b.duration \/ (r.duration = b.duration /\ r.k < b.k)

Answer(b) == IF b = None THEN Failed ELSE Chosen(cand[b.k])

Receive ==
  LET b == IF Better(Head(queue), best) THEN Head(queue) ELSE best
  IN /\ pc = "probe" /\ queue # <<>>
     /\ queue' = Tail(queue) /\ best' = b /\ count' = count + 1
     /\ IF count + 1 = Len(cand) THEN Finish(Answer(b)) ELSE UNCHANGED <<pc, result>>
     /\ UNCHANGED <<input, cand, dials, sent, expired>>

Expire ==
  /\ pc = "probe" /\ ~expired /\ expired' = TRUE
  /\ UNCHANGED <<input, pc, cand, dials, sent, queue, count, best, result>>

\* Mutant: the deadline is reported although a candidate has answered.
GiveUpEmpty ==
  /\ pc = "probe" /\ expired /\ Finish(Failed)
  /\ UNCHANGED <<input, cand, dials, sent, queue, count, best, expired>>

\* The select may take the deadline while results are waiting.
GiveUp ==
  /\ pc = "probe" /\ expired /\ Finish(Answer(best))
  /\ UNCHANGED <<input, cand, dials, sent, queue, count, best, expired>>

Init ==
  /\ input \in Inputs
  /\ pc = "resolve" /\ cand = <<>> /\ dials = <<>> /\ sent = <<>> /\ queue = <<>>
  /\ count = 0 /\ best = None /\ expired = FALSE /\ result = Failed

Next ==
  \/ ResolveProfileWithOptions \/ Receive \/ Expire \/ GiveUp
  \/ \E k \in DOMAIN dials : Dial(k) \/ Send(k)

Spec == Init /\ [][Next]_vars

\* The scheduler runs every goroutine; the deadline passes.
Fairness ==
  /\ WF_vars(ResolveProfileWithOptions) /\ WF_vars(Receive) /\ WF_vars(Expire) /\ WF_vars(GiveUp)
  /\ \A k \in 1..MaxProfiles : WF_vars(k \in DOMAIN dials /\ Dial(k)) /\ WF_vars(k \in DOMAIN dials /\ Send(k))

FairSpec == Spec /\ Fairness

---------------------------------------------------------------------------
(* What must hold.                                                           *)

TypeOK ==
  /\ pc \in {"resolve", "probe", "done"}
  /\ Len(queue) <= Len(cand) /\ count + Len(queue) <= Len(cand)
  /\ result.id \in 0..Len(input.profiles) /\ (result.ok <=> result.id # 0)

\* What is chosen satisfies everything that was asked: the selector or the match, and
\* the transport.
ChosenFits ==
  pc = "done" /\ result.ok =>
    LET p == input.profiles[result.id]
    IN /\ input.transport \in {None, p.transport}
       /\ IF input.match # None THEN p.accepted /\ input.match \in {"any", p.transport}
          ELSE input.selector => p.fits # "no"

\* A selection that is not "first" or "probe" is unambiguous: the same profile is chosen
\* from the subscription in the opposite order (a provider may reorder its list), and
\* there is a choice in one order exactly when there is in the other.
OrderIndependent ==
  pc = "done" /\ (input.match = None \/ input.pick = "only") =>
    LET n == Len(input.profiles)
        r == IF input.match = None THEN Select(Numbered([input EXCEPT !.profiles = Reverse(@)]), input)
             ELSE OnlyOf(Candidates(Numbered([input EXCEPT !.profiles = Reverse(@)]), input))
    IN result.ok = r.ok /\ (result.ok => result.id = n + 1 - r.id)

\* While the tunnel of the same server and alias is up, its profile is kept as long as
\* it still matches, and no candidate is dialled.
StickyWhileUp ==
  pc # "resolve" /\ input.match # None /\ input.pick = "probe" /\ skipProbe(input) =>
    /\ cand = <<>>
    /\ LET up   == {s.id : s \in {t \in input.sessions : t.alive /\ t.same}}
           fits == {k \in up \cap DOMAIN input.profiles :
                      profileMatches(input.profiles[k], input)}
       IN Cardinality(up) = 1 /\ fits # {} => result.id \in fits

\* The results that the probe has taken from the channel; those it leaves there when the
\* deadline ends the select, and those sent afterwards, are not among them.
Received == {sent[k] : k \in {j \in DOMAIN cand : dials[j] = "ended"}} \ Range(queue)

\* Of the results that the probe has received the fastest is chosen, equal ones by
\* subscription order, in whatever order the goroutines finish and whether the last of
\* them or the deadline ends the probe; it fails only if no good one was received.
FastestReceived ==
  pc = "done" /\ cand # <<>> =>
    LET good == {r \in Received : r.ok}
    IN /\ result.ok <=> good # {}
       /\ result.ok => \E r \in good :
            /\ result.id = cand[r.k].id
            /\ \A q \in good : r.duration < q.duration \/ (r.duration = q.duration /\ r.k <= q.k)

\* The probe answers, and every goroutine of it ends, also those that are still dialling
\* when the probe has returned.
ProbeEnds == <>(pc = "done" /\ \A k \in DOMAIN dials : dials[k] = "ended")

-----------------------------------------------------------------------------
(* What a document, a comment or an error message of the repository says   *)
(* and the model refutes: see "What the code does not keep" in README.md.  *)

\* "probe selects the fastest successful endpoint": a connection that was made and
\* reported before the probe returned is not passed over for a slower one or for an error.
FastestSuccessful ==
  [][pc = "probe" /\ pc' = "done" =>
       \A k \in DOMAIN cand : dials[k] = "ended" /\ sent[k].ok =>
         /\ result'.ok
         /\ \E j \in DOMAIN cand : result'.id = cand[j].id /\ sent[j].duration <= sent[k].duration]_vars

=============================================================================
