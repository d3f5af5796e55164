---------------------- MODULE MaintenanceInstallProofs ----------------------
(***************************************************************************)
(* Proofs about MaintenanceInstall, for any number of operators, legacy     *)
(* services and tokens and any lease time: the primary daemon keeps the     *)
(* promise of MaintenanceLease, a replacement that leaves a lease behind    *)
(* says so, and a bootout spares tunnels while the runtime directory, which *)
(* keeps the lease over a restart, is not removed.                          *)
(***************************************************************************)
EXTENDS MaintenanceInstall, TLAPS

\* An operator before its first bootout, waiting for a lease, at one service, at the
\* replacement of the primary service, and after its report.
Early     == {"idle", "drain", "drain?", "sudo", "files", "verify"}
Asking    == {"drain?", "probe?"}
Probing   == {"probe?", "renew", "renew?", "bootout"}
Replacing == {"enable", "ready", "undrain", "undrain?", "status"}
Tail      == {"release", "release?", "done"}

Own(o) == guard[o][Primary]

\* The lease in force was granted to the installer o.
Owns(o) == Live(Primary) /\ lease[Primary].token \in mine[o]

\* A lease keeps tunnels out, and vice versa.
ExclusionInv == \A l \in Label : tunnel[l] => ~Live(l)

\* Only the primary daemon grants leases, each to one installer, who alone knows the token.
TokenInv ==
  /\ \A l \in Legacy : lease[l] = NoLease /\ \A o \in Operator : guard[o][l] = NoLease
  /\ lease[Primary].left > 0 => lease[Primary].token \in issued
  /\ \A o \in Operator : mine[o] \subseteq issued /\ Own(o).token \in mine[o] \cup {None}
  /\ \A o, p \in Operator : o # p => mine[o] \cap mine[p] = {}
  /\ \A m \in inbox : m.token \in issued \cup {None}

\* A request that is waited for is the one its sender is at, and the only one.
CallInv ==
  /\ \A m \in inbox : m.from # None =>
       /\ reply[m.from].kind = "none"
       /\ m.action = "drain" => pc[m.from] \in Asking /\ m.label = at[m.from]
       /\ m.action = "renew" => /\ pc[m.from] = "renew?" /\ m.label = at[m.from]
                                /\ m.token = guard[m.from][m.label].token
       /\ m.action = "undrain" => pc[m.from] \in {"undrain?", "release?"}
  /\ \A m, n \in inbox : m.from = n.from /\ m.from # None => m = n
  /\ \A o \in Operator : pc[o] \in Asking /\ reply[o].kind = "ok" =>
       at[o] = Primary /\ reply[o].token \in mine[o]

\* Where an operator is, and what that says of its choices.
FlowInv ==
  \A o \in Operator :
    /\ pc[o] \in Early \cup Probing => ~forgot[o]
    /\ pc[o] \in Replacing => Replaces(o)
    /\ pc[o] = "paths" => ~Replaces(o)
    /\ pc[o] = "drain?" => Primary \notin todo[o]
    /\ pc[o] \in Asking \cup {"drain", "renew", "renew?"} => ~job[o].override
    /\ pc[o] \in {"renew", "renew?"} => Held(o, at[o])

\* An installer has at most one token, and keeps it until it is given back.
MineInv ==
  \A o \in Operator :
    /\ job[o].override \/ pc[o] = "idle" \/ (pc[o] = "drain" /\ Primary \in todo[o]) => mine[o] = {}
    /\ pc[o] \in Asking /\ at[o] = Primary => Own(o).token = None
    /\ job[o].kind = "install" /\ pc[o] \notin Tail \cup {"status"} =>
         \A t \in mine[o] : t = Own(o).token \/ (pc[o] \in Asking /\ reply[o] = [kind |-> "ok", token |-> t])

\* A request that its sender has given up on comes too late to matter.
StaleInv ==
  \A m \in inbox, o \in Operator : m.token \in mine[o] =>
    /\ m.action = "renew" => \/ pc[o] = "renew?" /\ (m.from = o \/ reply[o].kind = "error")
                             \/ pc[o] \in Tail /\ ~forgot[o]
    /\ m.action = "undrain" => pc[o] \in {"undrain?", "status"} \cup Tail

\* What an installer says of its lease once the primary service is forgotten.
WarnInv ==
  \A o \in Operator : Owns(o) /\ Replaces(o) =>
    /\ pc[o] \in {"bootout", "enable", "ready", "undrain", "undrain?"} => Own(o).left >= lease[Primary].left
    /\ pc[o] = "undrain?" => reply[o].kind # "ok"
    /\ pc[o] # "status"
    /\ pc[o] \in Tail /\ forgot[o] => result[o].kind = "warned" /\ result[o].left >= lease[Primary].left

IInv == TypeOK /\ ExclusionInv /\ TokenInv /\ CallInv /\ FlowInv /\ MineInv /\ StaleInv /\ WarnInv

\* The lease in force lasts as long as the renewal for the service at hand.
Covered(o) ==
  /\ cover[o].token = guard[o][at[o]].token
  /\ \/ cover[o].left = 0
     \/ lease[at[o]].token = cover[o].token /\ lease[at[o]].left >= cover[o].left

\* The operator o has renewed its lease of the service that it is about to boot out.
Renewing(o) ==
  /\ pc[o] = "bootout" \/ (pc[o] = "renew?" /\ reply[o].kind = "ok")
  /\ ~job[o].override /\ Held(o, at[o])

CoverInv == \A o \in Operator : Renewing(o) => Covered(o)

\* No uninstall has removed a runtime directory.
RuntimeKept == \A l \in Label : saved[l]

\* The lease file of o is gone, and so is everybody who could load the service again.
Gone(o) == ~loaded[Primary] /\ \A p \in Operator \ {o} : pc[p] \in Tail

\* What launchd has not loaded does not run, and requests wait only where a daemon runs.
RunInv ==
  /\ running[Primary] => loaded[Primary]
  /\ tunnel[Primary] => running[Primary]
  /\ \A m \in inbox : m.label = Primary => running[Primary]

\* The primary service is the last one, and when it is loaded again behind the back of
\* an uninstall, then by an operator that is past its own bootout.
PathsInv ==
  \A p \in Operator :
    /\ pc[p] \in Probing \cup {"paths"} /\ at[p] = Primary => todo[p] = {}
    /\ pc[p] = "paths" /\ at[p] = Primary /\ forgot[p] /\ loaded[Primary] =>
         \A q \in Operator \ {p} : pc[q] \in {"ready", "undrain", "undrain?", "status"} \cup Tail

KeptInv ==
  \A o \in Operator : Renewing(o) => Gone(o) \/ (Covered(o) /\ (cover[o].left > 0 => saved[Primary]))

PairInv == RunInv /\ PathsInv /\ KeptInv

-----------------------------------------------------------------------------
(* Values and types *)

\* What a tick makes of a number.
LEMMA LessIs ==
  ASSUME NEW n \in 0..TTL
  PROVE  /\ Less(n) \in 0..TTL
         /\ Less(n) > 0 => n > 0
         /\ \A k \in 0..TTL : n >= k => Less(n) >= Less(k)
         /\ n = 0 => Less(n) = 0
  BY InstallAssumption DEF Less

\* Leases, answers and reports are well formed.
LEMMA Values ==
  /\ NoLease \in Lease /\ NoLease.token = None /\ NoLease.left = 0
  /\ Elapse(NoLease) = NoLease
  /\ \A t \in Token \cup {None}, n \in 0..TTL :
       /\ [token |-> t, left |-> n] \in Lease
       /\ [token |-> t, left |-> n].token = t /\ [token |-> t, left |-> n].left = n
  /\ \A x \in Lease : /\ x.token \in Token \cup {None} /\ x.left \in 0..TTL
                      /\ Elapse(x) \in Lease /\ Elapse(x).token = x.token /\ Elapse(x).left = Less(x.left)
  /\ \A x \in Outcome : Later(x) \in Outcome /\ Later(x).kind = x.kind /\ Later(x).left = Less(x.left)
  /\ TTL \in 0..TTL /\ 0 \in 0..TTL /\ TTL > 0
<1>1. TTL \in 0..TTL /\ 0 \in 0..TTL /\ TTL > 0
  BY InstallAssumption
<1>2. Less(0) = 0
  BY DEF Less
<1> QED
  BY <1>1, <1>2, LessIs, InstallAssumption DEF NoLease, Lease, Elapse, Later, Outcome

\* The same of answers.
LEMMA Answers ==
  /\ Waiting \in Answer /\ Waiting.kind = "none"
  /\ \A k \in {"none", "ok", "unavailable", "error"} :
       Say(k) \in Answer /\ Say(k).kind = k /\ Say(k).token = None
  /\ \A t \in Token \cup {None} :
       /\ [kind |-> "ok", token |-> t] \in Answer
       /\ [kind |-> "ok", token |-> t].kind = "ok" /\ [kind |-> "ok", token |-> t].token = t
  BY DEF Waiting, Answer, Say

\* A request that its sender has given up on is otherwise the same.
LEMMA GivenUp ==
  ASSUME NEW m \in Message
  PROVE  LET n == [m EXCEPT !.from = None] IN
           n \in Message /\ n.from = None /\ n.label = m.label /\ n.action = m.action /\ n.token = m.token
<1>1. [m EXCEPT !.from = None] = [from |-> None, label |-> m.label, action |-> m.action, token |-> m.token]
  BY DEF Message
<1> QED
  BY <1>1 DEF Message

\* Nothing is drained or sent at first.
LEMMA InitIInv == Init => IInv
<1> SUFFICES ASSUME Init PROVE IInv
  OBVIOUS
<1> USE Values, Answers, InstallAssumption DEF Init
<1>1. TypeOK
  <2>1. [kind |-> "install", override |-> FALSE] \in Job /\ [kind |-> "none", left |-> 0] \in Outcome
    BY DEF Job, Outcome
  <2>2. Primary \in Label
    BY DEF Label
  <2> QED
    BY <2>1, <2>2 DEF TypeOK, Step
<1>2. ExclusionInv /\ TokenInv
  BY DEF ExclusionInv, TokenInv, Own, Label
<1>3. CallInv /\ FlowInv /\ MineInv /\ StaleInv
  BY DEF CallInv, FlowInv, MineInv, StaleInv, Asking, Replacing
<1>4. WarnInv
  BY DEF WarnInv, Owns
<1> QED
  BY <1>1, <1>2, <1>3, <1>4 DEF IInv

\* A call puts a request into the inbox or answers at once.
LEMMA CallIs ==
  ASSUME TypeOK, NEW o \in Operator, NEW l \in Label, NEW a \in {"drain", "renew", "undrain"},
         NEW t \in Token \cup {None}, Call(o, l, a, t)
  PROVE  /\ inbox' \subseteq Message /\ reply' \in [Operator -> Answer]
         /\ \A p \in Operator \ {o} : reply'[p] = reply[p]
         /\ \/ /\ inbox' = inbox \cup {[from |-> o, label |-> l, action |-> a, token |-> t]}
               /\ reply'[o] = Waiting
            \/ inbox' = inbox /\ reply'[o] = Say("unavailable")
<1>1. [from |-> o, label |-> l, action |-> a, token |-> t] \in Message
  BY DEF Message
<1>2. inbox \subseteq Message /\ reply \in [Operator -> Answer]
  BY DEF TypeOK
<1>3. CASE running[l]
  BY <1>1, <1>2, <1>3, Answers DEF Call
<1>4. CASE ~running[l]
  BY <1>2, <1>4, Answers DEF Call
<1> QED
  BY <1>3, <1>4

\* What happens to requests and answers when a daemon ends.
LEMMA HangupIs ==
  ASSUME TypeOK, NEW l \in Label, Hangup(l)
  PROVE  /\ inbox' \subseteq inbox /\ reply' \in [Operator -> Answer]
         /\ \A m \in inbox : m \in inbox' <=> m.label # l
         /\ \A o \in Operator : \/ reply'[o] = Say("error") /\ \E m \in inbox : m.label = l /\ m.from = o
                                \/ reply'[o] = reply[o] /\ ~\E m \in inbox : m.label = l /\ m.from = o
  BY Answers DEF TypeOK, Hangup

\* The commands that call a daemon, and those that read its answer.
Calls(o) == DrainNext(o) \/ ProbeNext(o) \/ Renew(o) \/ Undrain(o) \/ ReleaseNext(o)
Reads(o) == Drained(o) \/ Probed(o) \/ Renewed(o) \/ Undrained(o) \/ Released(o)

\* What an operator does to requests and answers.
LEMMA OperatorRpc ==
  ASSUME IInv, NEW o \in Operator, Begin(o) \/ OperatorStep(o)
  PROVE  \/ inbox' = inbox /\ reply' = reply
         \/ Reads(o) /\ inbox' = inbox /\ reply' = [reply EXCEPT ![o] = Waiting]
         \/ Bootout(o) /\ Hangup(at[o])
         \/ DrainNext(o) /\ Call(o, at'[o], "drain", None) /\ at'[o] \in Label
         \/ ProbeNext(o) /\ ~job[o].override /\ ~Held(o, at'[o]) /\ Call(o, at'[o], "drain", None) /\ at'[o] \in Label
         \/ Renew(o) /\ Call(o, at[o], "renew", guard[o][at[o]].token)
         \/ Undrain(o) /\ Call(o, Primary, "undrain", Own(o).token)
         \/ ReleaseNext(o) /\ \E l \in ToRelease(o) : Call(o, l, "undrain", guard[o][l].token)
<1>0. at \in [Operator -> Label] /\ todo \in [Operator -> SUBSET Label]
  BY DEF IInv, TypeOK
<1>1. CASE DrainNext(o)
  <2>1. PICK l \in First(todo[o]) : at' = [at EXCEPT ![o] = l] /\ Call(o, l, "drain", None)
    BY <1>1 DEF DrainNext
  <2>2. l \in Label
    BY <1>0, <2>1 DEF First
  <2>3. at'[o] = l
    BY <1>0, <2>1
  <2> QED
    BY <1>1, <2>1, <2>2, <2>3
<1>2. CASE ProbeNext(o)
  <2>1. PICK l \in Last(todo[o]) :
          /\ at' = [at EXCEPT ![o] = l]
          /\ IF job[o].override THEN Goto(o, "bootout") /\ UNCHANGED rpcVars
             ELSE IF Held(o, l) THEN Goto(o, "renew") /\ UNCHANGED rpcVars
             ELSE Goto(o, "probe?") /\ Call(o, l, "drain", None)
    BY <1>2 DEF ProbeNext
  <2>2. at'[o] = l /\ l \in Label
    BY <1>0, <2>1 DEF Last
  <2> QED
    BY <1>2, <2>1, <2>2 DEF rpcVars
<1>3. CASE Renew(o) \/ Undrain(o) \/ ReleaseNext(o)
  BY <1>3 DEF Renew, Undrain, ReleaseNext, Own
<1>4. CASE Reads(o)
  BY <1>4 DEF Reads, Drained, Probed, Renewed, Undrained, Released
<1>5. CASE Bootout(o)
  BY <1>5 DEF Bootout, rpcVars
<1>6. CASE ~Calls(o) /\ ~Reads(o) /\ ~Bootout(o)
  BY <1>6 DEF OperatorStep, Calls, Reads, Begin, Authenticate, SudoRefused, CopyFiles, Verify,
     ParentRefused, RemovePaths, RemoveLegacyPaths, Bootstrap, BootstrapFails, Ready, PingFails, Status,
     End, rpcVars
<1> QED
  BY <1>1, <1>2, <1>3, <1>4, <1>5, <1>6 DEF Calls

\* What an operator does, variable by variable.
LEMMA OperatorType ==
  ASSUME IInv, NEW o \in Operator, Begin(o) \/ OperatorStep(o)
  PROVE  TypeOK'
<1>0. TypeOK
  BY DEF IInv
<1>1. \A l \in Label : guard[o][l] \in Lease /\ guard[o][l].token \in Token \cup {None} /\ guard[o][l].left \in 0..TTL
  BY <1>0, Values DEF TypeOK
<1>2. Primary \in Label /\ at[o] \in Label /\ at \in [Operator -> Label]
  BY <1>0 DEF TypeOK, Label
<1>3. loaded' \in [Label -> BOOLEAN] /\ running' \in [Label -> BOOLEAN] /\ tunnel' \in [Label -> BOOLEAN]
  BY <1>0, <1>2 DEF OperatorStep, Begin, DrainNext, Drained, Authenticate, SudoRefused, CopyFiles, Verify,
     ProbeNext, ParentRefused, Probed, Renew, Renewed, Bootout, RemovePaths, RemoveLegacyPaths, Bootstrap,
     BootstrapFails, Ready, PingFails, Undrain, Undrained, Status, ReleaseNext, Released, End, TypeOK,
     serviceVars
<1>4. saved' \in [Label -> BOOLEAN] /\ package' \in {"absent", "partial", "installed"} /\ issued' \subseteq Token
  BY <1>0, <1>2 DEF OperatorStep, Begin, DrainNext, Drained, Authenticate, SudoRefused, CopyFiles, Verify,
     ProbeNext, ParentRefused, Probed, Renew, Renewed, Bootout, RemovePaths, RemoveLegacyPaths, Bootstrap,
     BootstrapFails, Ready, PingFails, Undrain, Undrained, Status, ReleaseNext, Released, End, TypeOK,
     serviceVars, leaseVars
<1>5. lease' \in [Label -> Lease]
  BY <1>0, <1>2, Values, SMTT(60) DEF OperatorStep, Begin, DrainNext, Drained, Authenticate, SudoRefused,
     CopyFiles, Verify, ProbeNext, ParentRefused, Probed, Renew, Renewed, Bootout, RemovePaths,
     RemoveLegacyPaths, Bootstrap, BootstrapFails, Ready, PingFails, Undrain, Undrained, Status,
     ReleaseNext, Released, End, LoseMemory, TypeOK, leaseVars
<1>6. inbox' \subseteq Message /\ reply' \in [Operator -> Answer]
  <2>1. inbox \subseteq Message /\ reply \in [Operator -> Answer]
    BY <1>0 DEF TypeOK
  <2>2. \A l \in ToRelease(o) : l \in Label
    BY DEF ToRelease
  <2> QED
    BY <1>0, <1>1, <1>2, <2>1, <2>2, OperatorRpc, CallIs, HangupIs, Answers DEF Own
<1>7. pc' \in [Operator -> Step]
  <2>1. CASE Begin(o) \/ DrainNext(o) \/ Drained(o) \/ Authenticate(o) \/ SudoRefused(o) \/ CopyFiles(o)
             \/ Verify(o) \/ ProbeNext(o) \/ ParentRefused(o) \/ Probed(o) \/ Renew(o) \/ Renewed(o)
             \/ Bootout(o)
    <3>1. \E x \in Step : pc' = [pc EXCEPT ![o] = x]
      BY <2>1 DEF Begin, DrainNext, Drained, Authenticate, SudoRefused, CopyFiles, Verify, ProbeNext,
         ParentRefused, Probed, Renew, Renewed, Bootout, Goto, Report, Step
    <3> QED
      BY <1>0, <3>1 DEF TypeOK
  <2>2. CASE RemovePaths(o) \/ RemoveLegacyPaths(o) \/ Bootstrap(o) \/ BootstrapFails(o) \/ Ready(o)
             \/ PingFails(o) \/ Undrain(o) \/ Undrained(o) \/ Status(o) \/ ReleaseNext(o) \/ Released(o)
             \/ End(o)
    <3>1. \E x \in Step : pc' = [pc EXCEPT ![o] = x]
      BY <2>2 DEF RemovePaths, RemoveLegacyPaths, Bootstrap, BootstrapFails, Ready, PingFails, Undrain,
         Undrained, Status, ReleaseNext, Released, End, Goto, Report, Warn, NextService, Step
    <3> QED
      BY <1>0, <3>1 DEF TypeOK
  <2> QED
    BY <2>1, <2>2 DEF OperatorStep
<1>8. job' \in [Operator -> Job] /\ forgot' \in [Operator -> BOOLEAN] /\ failed' \in [Operator -> BOOLEAN]
  BY <1>0, ZenonT(60) DEF OperatorStep, Begin, DrainNext, Drained, Authenticate, SudoRefused, CopyFiles,
     Verify, ProbeNext, ParentRefused, Probed, Renew, Renewed, Bootout, RemovePaths, RemoveLegacyPaths,
     Bootstrap, BootstrapFails, Ready, PingFails, Undrain, Undrained, Status, ReleaseNext, Released, End,
     TypeOK, flowVars
<1>9. todo' \in [Operator -> SUBSET Label] /\ at' \in [Operator -> Label]
  <2>1. todo' = todo \/ \E S \in SUBSET Label : todo' = [todo EXCEPT ![o] = S]
    <3>1. todo[o] \subseteq Label
      BY <1>0 DEF TypeOK
    <3>2. CASE Begin(o) \/ DrainNext(o) \/ Authenticate(o) \/ ProbeNext(o) \/ ParentRefused(o)
      BY <3>1, <3>2 DEF Begin, DrainNext, Authenticate, ProbeNext, ParentRefused
    <3>3. CASE ~(Begin(o) \/ DrainNext(o) \/ Authenticate(o) \/ ProbeNext(o) \/ ParentRefused(o))
      BY <3>3 DEF OperatorStep, Drained, SudoRefused, CopyFiles, Verify, Probed, Renew, Renewed, Bootout,
         RemovePaths, RemoveLegacyPaths, Bootstrap, BootstrapFails, Ready, PingFails, Undrain, Undrained,
         Status, ReleaseNext, Released, End, flowVars
    <3> QED
      BY <3>2, <3>3
  <2>2. at' = at \/ \E l \in Label : at' = [at EXCEPT ![o] = l]
    <3>1. First(todo[o]) \subseteq Label /\ Last(todo[o]) \subseteq Label
      BY <1>0, <1>2 DEF First, Last, TypeOK
    <3>2. CASE DrainNext(o) \/ ProbeNext(o)
      BY <3>1, <3>2 DEF DrainNext, ProbeNext
    <3>3. CASE ~DrainNext(o) /\ ~ProbeNext(o)
      BY <3>3 DEF OperatorStep, Begin, Drained, Authenticate, SudoRefused, CopyFiles, Verify, ParentRefused,
         Probed, Renew, Renewed, Bootout, RemovePaths, RemoveLegacyPaths, Bootstrap, BootstrapFails, Ready,
         PingFails, Undrain, Undrained, Status, ReleaseNext, Released, End, flowVars
    <3> QED
      BY <3>2, <3>3
  <2> QED
    BY <1>0, <2>1, <2>2, ZenonT(60) DEF TypeOK
<1>10. guard' \in [Operator -> [Label -> Lease]]
  <2>0. guard \in [Operator -> [Label -> Lease]]
    BY <1>0 DEF TypeOK
  <2>1. \A r \in Answer : [token |-> r.token, left |-> TTL] \in Lease
    BY Values DEF Answer
  <2>2. /\ [token |-> guard[o][at[o]].token, left |-> TTL] \in Lease
        /\ [token |-> reply[o].token, left |-> TTL] \in Lease
    BY <1>0, <1>1, <1>2, <2>1, Values, ZenonT(60) DEF TypeOK
  <2>3. \/ guard' = guard
        \/ guard' = [guard EXCEPT ![o] = [l \in Label |-> NoLease]]
        \/ \E l \in Label, x \in Lease : guard' = [guard EXCEPT ![o][l] = x]
    <3>1. CASE Drained(o) \/ Probed(o) \/ Bootout(o)
      BY <1>2, <2>2, <3>1, Values DEF Drained, Probed, Bootout
    <3>2. CASE Renewed(o)
      <4>1. guard' = guard
            \/ guard' = [guard EXCEPT ![o][at[o]] = [token |-> guard[o][at[o]].token, left |-> TTL]]
        BY <1>2, <2>0, <3>2 DEF Renewed
      <4> QED
        BY <1>2, <2>2, <4>1
    <3>3. CASE Undrained(o) \/ ReleaseNext(o) \/ End(o)
      BY <1>2, <3>3, Values DEF Undrained, ReleaseNext, End, ToRelease
    <3>4. CASE ~(Drained(o) \/ Probed(o) \/ Renewed(o) \/ Bootout(o) \/ Undrained(o) \/ ReleaseNext(o)
                 \/ End(o))
      BY <3>4 DEF OperatorStep, Begin, DrainNext, Authenticate, SudoRefused, CopyFiles, Verify, ProbeNext,
         ParentRefused, Renew, RemovePaths, RemoveLegacyPaths, Bootstrap, BootstrapFails, Ready, PingFails,
         Undrain, Status, Released, flowVars
    <3> QED
      BY <3>1, <3>2, <3>3, <3>4
  <2>4. CASE guard' = [guard EXCEPT ![o] = [l \in Label |-> NoLease]]
    BY <2>0, <2>4, Values
  <2>5. ASSUME NEW l \in Label, NEW x \in Lease, guard' = [guard EXCEPT ![o][l] = x]
        PROVE  guard' \in [Operator -> [Label -> Lease]]
    BY <2>0, <2>5
  <2> QED
    BY <2>0, <2>3, <2>4, <2>5
<1>11. result' \in [Operator -> Outcome]
  <2>1. \A k \in {"none", "failed", "removed", "installed", "blocked", "warned", "unverified"}, n \in 0..TTL :
          [kind |-> k, left |-> n] \in Outcome
    BY DEF Outcome
  <2>2. 0 \in 0..TTL /\ lease[Primary].left \in 0..TTL /\ guard[o][Primary].left \in 0..TTL
    BY <1>0, <1>1, <1>2, Values DEF TypeOK
  <2>3. result' = result \/ \E k \in {"none", "failed", "removed", "installed", "blocked", "warned", "unverified"} :
          \E n \in {0, lease[Primary].left, guard[o][Primary].left} :
            result' = [result EXCEPT ![o] = [kind |-> k, left |-> n]]
    BY DEF OperatorStep, Begin, DrainNext, Drained, Authenticate, SudoRefused, CopyFiles, Verify, ProbeNext,
       ParentRefused, Probed, Renew, Renewed, Bootout, RemovePaths, RemoveLegacyPaths, Bootstrap,
       BootstrapFails, Ready, PingFails, Undrain, Undrained, Status, ReleaseNext, Released, End, Report,
       Warn, NextService, flowVars
  <2>4. ASSUME NEW x \in Outcome, result' = [result EXCEPT ![o] = x]
        PROVE  result' \in [Operator -> Outcome]
    BY <1>0, <2>4 DEF TypeOK
  <2> QED
    BY <1>0, <2>1, <2>2, <2>3, <2>4 DEF TypeOK
<1>12. cover' \in [Operator -> Lease] /\ mine' \in [Operator -> SUBSET Token]
  <2>1. mine' = mine /\ (cover' = cover \/ cover' = [cover EXCEPT ![o] = NoLease])
    BY DEF OperatorStep, Begin, DrainNext, Drained, Authenticate, SudoRefused, CopyFiles, Verify, ProbeNext,
       ParentRefused, Probed, Renew, Renewed, Bootout, RemovePaths, RemoveLegacyPaths, Bootstrap,
       BootstrapFails, Ready, PingFails, Undrain, Undrained, Status, ReleaseNext, Released, End, leaseVars
  <2>2. NoLease \in Lease /\ cover \in [Operator -> Lease] /\ mine \in [Operator -> SUBSET Token]
    BY <1>0, Values DEF TypeOK
  <2>3. CASE cover' = [cover EXCEPT ![o] = NoLease]
    BY <2>1, <2>2, <2>3
  <2> QED
    BY <2>1, <2>2, <2>3
<1> QED
  BY <1>3, <1>4, <1>5, <1>6, <1>7, <1>8, <1>9, <1>10, <1>11, <1>12 DEF TypeOK

\* What the daemons, launchd and time do keeps the types.
LEMMA ServeType ==
  ASSUME IInv, NEW m \in inbox, Serve(m) \/ TimeOut(m)
  PROVE  TypeOK'
<1>0. TypeOK
  BY DEF IInv
<1>1. m \in Message /\ m.from \in Operator \cup {None} /\ m.label \in Label /\ m.token \in Token \cup {None}
  BY <1>0 DEF TypeOK, Message
<1>2. /\ inbox \subseteq Message /\ reply \in [Operator -> Answer] /\ lease \in [Label -> Lease]
      /\ cover \in [Operator -> Lease] /\ mine \in [Operator -> SUBSET Token] /\ saved \in [Label -> BOOLEAN]
  BY <1>0 DEF TypeOK
<1>3. /\ UNCHANGED <<loaded, running, tunnel, package, pc, job, todo, at, guard, forgot, failed, result>>
  BY DEF Serve, ServeDrain, ServeRenew, ServeUndrain, ServeError, TimeOut, serviceVars, flowVars
<1>4. inbox' \subseteq Message
  <2>1. [m EXCEPT !.from = None] \in Message
    BY <1>1, GivenUp
  <2> QED
    BY <1>1, <1>2, <2>1 DEF Serve, ServeDrain, ServeRenew, ServeUndrain, ServeError, TimeOut, Deliver
<1>5. reply' \in [Operator -> Answer]
  <2>1. reply' = reply \/ \E x \in Answer : m.from # None /\ reply' = [reply EXCEPT ![m.from] = x]
    BY <1>1, Answers DEF Serve, ServeDrain, ServeRenew, ServeUndrain, ServeError, TimeOut, Deliver
  <2> QED
    BY <1>1, <1>2, <2>1
<1>6. lease' \in [Label -> Lease]
  <2>1. lease' = lease \/ \E x \in Lease : lease' = [lease EXCEPT ![m.label] = x]
    BY <1>1, Values DEF Serve, ServeDrain, ServeRenew, ServeUndrain, ServeError, TimeOut, leaseVars
  <2> QED
    BY <1>1, <1>2, <2>1
<1>7. cover' \in [Operator -> Lease]
  <2>1. cover' = cover \/ \E x \in Lease : m.from # None /\ cover' = [cover EXCEPT ![m.from] = x]
    BY <1>1, Values DEF Serve, ServeDrain, ServeRenew, ServeUndrain, ServeError, TimeOut, leaseVars
  <2> QED
    BY <1>1, <1>2, <2>1
<1>8. saved' \in [Label -> BOOLEAN]
  BY <1>1, <1>2 DEF Serve, ServeDrain, ServeRenew, ServeUndrain, ServeError, TimeOut, leaseVars
<1>9. issued' \subseteq Token /\ mine' \in [Operator -> SUBSET Token]
  <2>1. issued \subseteq Token
    BY <1>0 DEF TypeOK
  <2>2. CASE ServeDrain(m)
    BY <1>1, <1>2, <2>1, <2>2 DEF ServeDrain
  <2>3. CASE ~ServeDrain(m)
    BY <1>2, <2>1, <2>3 DEF Serve, ServeRenew, ServeUndrain, ServeError, TimeOut, leaseVars
  <2> QED
    BY <2>2, <2>3
<1> QED
  BY <1>0, <1>3, <1>4, <1>5, <1>6, <1>7, <1>8, <1>9 DEF TypeOK

\* Every step keeps the types.
LEMMA TypeStep == IInv /\ [Next]_vars => TypeOK'
<1> SUFFICES ASSUME IInv, [Next]_vars PROVE TypeOK'
  OBVIOUS
<1>0. TypeOK
  BY DEF IInv
<1>1. CASE Next
  <2>1. CASE \E o \in Operator : Begin(o) \/ OperatorStep(o)
    BY <2>1, OperatorType
  <2>2. CASE \E m \in inbox : Serve(m) \/ TimeOut(m)
    BY <2>2, ServeType
  <2>3. ASSUME NEW l \in Label, Restart(l) \/ Crash(l) \/ StartTunnel(l) \/ StopTunnel(l) PROVE TypeOK'
    <3>1. CASE Crash(l)
      <4>1. inbox' \subseteq Message /\ reply' \in [Operator -> Answer]
        BY <1>0, <3>1, HangupIs DEF Crash, TypeOK
      <4>2. lease' \in [Label -> Lease]
        BY <1>0, <3>1, Values DEF Crash, LoseMemory, TypeOK
      <4> QED
        BY <1>0, <3>1, <4>1, <4>2 DEF Crash, TypeOK, flowVars
    <3> QED
      BY <1>0, <2>3, <3>1 DEF Restart, StartTunnel, StopTunnel, TypeOK, serviceVars, rpcVars, leaseVars,
         flowVars
  <2>4. CASE Tick
    <3>1. lease' \in [Label -> Lease] /\ guard' \in [Operator -> [Label -> Lease]]
      BY <1>0, <2>4, Values DEF Tick, TypeOK
    <3>2. cover' \in [Operator -> Lease] /\ result' \in [Operator -> Outcome]
      BY <1>0, <2>4, Values DEF Tick, TypeOK
    <3> QED
      BY <1>0, <2>4, <3>1, <3>2 DEF Tick, TypeOK, serviceVars, rpcVars
  <2> QED
    BY <1>1, <2>1, <2>2, <2>3, <2>4 DEF Next
<1>2. CASE UNCHANGED vars
  BY <1>0, <1>2 DEF TypeOK, vars, serviceVars, rpcVars, leaseVars, flowVars
<1> QED
  BY <1>1, <1>2

-----------------------------------------------------------------------------
(* Leases, tunnels and tokens *)

\* How the lease of a service may change: it ends, time passes, it is renewed with its own
\* token, or a fresh one is granted.
LEMMA LeaseMoves ==
  ASSUME IInv, [Next]_vars, NEW l \in Label
  PROVE  \/ lease'[l] = lease[l]
         \/ lease'[l] = NoLease
         \/ Tick /\ lease'[l] = Elapse(lease[l])
         \/ \E m \in inbox : /\ ServeDrain(m) /\ m.label = l /\ l = Primary
                             /\ ~Live(l) /\ ~tunnel[l]
                             /\ \E t \in Token \ issued :
                                  lease'[l] = [token |-> t, left |-> TTL] /\ issued' = issued \cup {t}
         \/ \E m \in inbox : /\ ServeRenew(m) /\ m.label = l /\ Live(l)
                             /\ m.token = lease[l].token /\ lease'[l] = [token |-> m.token, left |-> TTL]
<1>0. lease \in [Label -> Lease] /\ at \in [Operator -> Label] /\ Primary \in Label /\ inbox \subseteq Message
  BY DEF IInv, TypeOK, Label
<1>1. ASSUME NEW o \in Operator, Begin(o) \/ OperatorStep(o) PROVE lease'[l] = lease[l] \/ lease'[l] = NoLease
  <2>1. lease' = lease \/ \E k \in Label : lease' = [lease EXCEPT ![k] = NoLease]
    BY <1>0, <1>1 DEF OperatorStep, Begin, DrainNext, Drained, Authenticate, SudoRefused, CopyFiles, Verify,
       ProbeNext, ParentRefused, Probed, Renew, Renewed, Bootout, RemovePaths, RemoveLegacyPaths, Bootstrap,
       BootstrapFails, Ready, PingFails, Undrain, Undrained, Status, ReleaseNext, Released, End, LoseMemory,
       leaseVars
  <2> QED
    BY <1>0, <2>1
<1>2. ASSUME NEW m \in inbox, ServeUndrain(m) \/ ServeError(m) \/ TimeOut(m)
      PROVE  lease'[l] = lease[l] \/ lease'[l] = NoLease
  BY <1>0, <1>2 DEF ServeUndrain, ServeError, TimeOut, leaseVars, Message
<1>3. ASSUME NEW m \in inbox, ServeDrain(m), lease'[l] # lease[l]
      PROVE  /\ m.label = l /\ l = Primary /\ ~Live(l) /\ ~tunnel[l]
             /\ \E t \in Token \ issued :
                                  lease'[l] = [token |-> t, left |-> TTL] /\ issued' = issued \cup {t}
  <2>1. m.label \in Label
    BY <1>0 DEF Message
  <2>2. PICK t \in Token \ issued : /\ lease' = [lease EXCEPT ![m.label] = [token |-> t, left |-> TTL]]
                                    /\ issued' = issued \cup {t}
    BY <1>3 DEF ServeDrain
  <2>3. m.label = l
    BY <1>0, <1>3, <2>1, <2>2
  <2>4. lease'[l] = [token |-> t, left |-> TTL]
    BY <1>0, <2>2, <2>3
  <2> QED
    BY <1>3, <2>2, <2>3, <2>4 DEF ServeDrain, Label
<1>4. ASSUME NEW m \in inbox, ServeRenew(m), lease'[l] # lease[l]
      PROVE  /\ m.label = l /\ Live(l)
             /\ m.token = lease[l].token /\ lease'[l] = [token |-> m.token, left |-> TTL]
  BY <1>0, <1>4 DEF ServeRenew, Message
<1>5. ASSUME NEW k \in Label, Restart(k) \/ Crash(k) \/ StartTunnel(k) \/ StopTunnel(k)
      PROVE  lease'[l] = lease[l] \/ lease'[l] = NoLease
  BY <1>0, <1>5 DEF Restart, Crash, StartTunnel, StopTunnel, LoseMemory, leaseVars
<1>6. CASE Tick
  BY <1>6 DEF Tick
<1>7. CASE UNCHANGED vars
  BY <1>7 DEF vars, leaseVars
<1> QED
  BY <1>1, <1>2, <1>3, <1>4, <1>5, <1>6, <1>7 DEF Next, Serve

\* A tunnel starts only where no lease is in force.
LEMMA TunnelMoves ==
  ASSUME IInv, [Next]_vars, NEW l \in Label, tunnel'[l]
  PROVE  tunnel[l] \/ (~Live(l) /\ lease' = lease)
<1>0. tunnel \in [Label -> BOOLEAN] /\ at \in [Operator -> Label]
  BY DEF IInv, TypeOK
<1>1. ASSUME NEW o \in Operator, Begin(o) \/ OperatorStep(o) PROVE tunnel[l]
  BY <1>0, <1>1 DEF OperatorStep, Begin, DrainNext, Drained, Authenticate, SudoRefused, CopyFiles, Verify,
     ProbeNext, ParentRefused, Probed, Renew, Renewed, Bootout, RemovePaths, RemoveLegacyPaths, Bootstrap,
     BootstrapFails, Ready, PingFails, Undrain, Undrained, Status, ReleaseNext, Released, End, serviceVars
<1>2. ASSUME NEW m \in inbox, Serve(m) \/ TimeOut(m) PROVE tunnel[l]
  BY <1>2 DEF Serve, ServeDrain, ServeRenew, ServeUndrain, ServeError, TimeOut, serviceVars
<1>3. ASSUME NEW k \in Label, Restart(k) \/ Crash(k) \/ StartTunnel(k) \/ StopTunnel(k)
      PROVE  tunnel[l] \/ (~Live(l) /\ lease' = lease)
  BY <1>0, <1>3 DEF Restart, Crash, StartTunnel, StopTunnel, leaseVars
<1>4. CASE Tick \/ UNCHANGED vars
  BY <1>4 DEF Tick, vars, serviceVars
<1> QED
  BY <1>1, <1>2, <1>3, <1>4 DEF Next

\* A lease and a tunnel exclude each other after every step.
LEMMA ExclusionStep == IInv /\ [Next]_vars => ExclusionInv'
<1> SUFFICES ASSUME IInv, [Next]_vars, NEW l \in Label, tunnel'[l] PROVE ~(lease'[l].left > 0)
  BY DEF ExclusionInv, Live
<1>0. lease[l] \in Lease
  BY DEF IInv, TypeOK
<1>1. ~Live(l)
  BY TunnelMoves DEF IInv, ExclusionInv
<1>2. lease[l].left = 0
  BY <1>0, <1>1, Values, InstallAssumption DEF Live
<1>3. CASE lease' = lease
  BY <1>2, <1>3
<1>4. CASE tunnel[l]
  <2>1. \/ lease'[l] = lease[l] \/ lease'[l] = NoLease \/ lease'[l] = Elapse(lease[l])
    BY <1>1, <1>4, LeaseMoves
  <2>2. Less(0) = 0
    BY DEF Less
  <2> QED
    BY <1>0, <1>2, <2>1, <2>2, Values
<1> QED
  BY <1>3, <1>4, TunnelMoves

-----------------------------------------------------------------------------
(* Who changes what *)

\* An operator leaves what belongs to the others alone; a bootout may take an answer away.
LEMMA OperatorOthers ==
  ASSUME IInv, NEW o \in Operator, Begin(o) \/ OperatorStep(o), NEW p \in Operator, p # o
  PROVE  /\ pc'[p] = pc[p] /\ job'[p] = job[p] /\ todo'[p] = todo[p] /\ at'[p] = at[p]
         /\ guard'[p] = guard[p] /\ forgot'[p] = forgot[p] /\ result'[p] = result[p] /\ cover'[p] = cover[p]
         /\ \/ reply'[p] = reply[p]
            \/ reply'[p] = Say("error") /\ \E m \in inbox : m.from = p /\ m.label = at[o] /\ m \notin inbox'
<1>0. TypeOK
  BY DEF IInv
<1>1. pc'[p] = pc[p]
  <2> USE DEF Goto, Warn, NextService, End, Report, TypeOK
  <2>1. CASE Begin(o) \/ DrainNext(o) \/ Drained(o) \/ Authenticate(o) \/ SudoRefused(o) \/ CopyFiles(o)
    BY <1>0, <2>1 DEF Begin, DrainNext, Drained, Authenticate, SudoRefused, CopyFiles
  <2>2. CASE Verify(o) \/ ProbeNext(o) \/ ParentRefused(o) \/ Probed(o) \/ Renew(o) \/ Renewed(o)
    BY <1>0, <2>2 DEF Verify, ProbeNext, ParentRefused, Probed, Renew, Renewed
  <2>3. CASE Bootout(o) \/ RemovePaths(o) \/ RemoveLegacyPaths(o) \/ Bootstrap(o) \/ BootstrapFails(o)
    BY <1>0, <2>3 DEF Bootout, RemovePaths, RemoveLegacyPaths, Bootstrap, BootstrapFails
  <2>4. CASE Ready(o) \/ PingFails(o) \/ Undrain(o) \/ Undrained(o) \/ Status(o) \/ ReleaseNext(o)
             \/ Released(o) \/ End(o)
    BY <1>0, <2>4 DEF Ready, PingFails, Undrain, Undrained, Status, ReleaseNext, Released
  <2> QED
    BY <2>1, <2>2, <2>3, <2>4 DEF OperatorStep
<1>2. job'[p] = job[p] /\ forgot'[p] = forgot[p]
  BY <1>0 DEF OperatorStep, Begin, DrainNext, Drained, Authenticate, SudoRefused, CopyFiles, Verify,
     ProbeNext, ParentRefused, Probed, Renew, Renewed, Bootout, RemovePaths, RemoveLegacyPaths, Bootstrap,
     BootstrapFails, Ready, PingFails, Undrain, Undrained, Status, ReleaseNext, Released, End, TypeOK,
     flowVars
<1>3. todo'[p] = todo[p] /\ at'[p] = at[p]
  BY <1>0 DEF OperatorStep, Begin, DrainNext, Drained, Authenticate, SudoRefused, CopyFiles, Verify,
     ProbeNext, ParentRefused, Probed, Renew, Renewed, Bootout, RemovePaths, RemoveLegacyPaths, Bootstrap,
     BootstrapFails, Ready, PingFails, Undrain, Undrained, Status, ReleaseNext, Released, End, TypeOK,
     flowVars
<1>4. guard'[p] = guard[p]
  BY <1>0 DEF OperatorStep, Begin, DrainNext, Drained, Authenticate, SudoRefused, CopyFiles, Verify,
     ProbeNext, ParentRefused, Probed, Renew, Renewed, Bootout, RemovePaths, RemoveLegacyPaths, Bootstrap,
     BootstrapFails, Ready, PingFails, Undrain, Undrained, Status, ReleaseNext, Released, End, TypeOK,
     flowVars
<1>5. result'[p] = result[p]
  BY <1>0 DEF OperatorStep, Begin, DrainNext, Drained, Authenticate, SudoRefused, CopyFiles, Verify,
     ProbeNext, ParentRefused, Probed, Renew, Renewed, Bootout, RemovePaths, RemoveLegacyPaths, Bootstrap,
     BootstrapFails, Ready, PingFails, Undrain, Undrained, Status, ReleaseNext, Released, End, Report, Warn,
     NextService, TypeOK, flowVars
<1>6. cover'[p] = cover[p]
  BY <1>0 DEF OperatorStep, Begin, DrainNext, Drained, Authenticate, SudoRefused, CopyFiles, Verify,
     ProbeNext, ParentRefused, Probed, Renew, Renewed, Bootout, RemovePaths, RemoveLegacyPaths, Bootstrap,
     BootstrapFails, Ready, PingFails, Undrain, Undrained, Status, ReleaseNext, Released, End, TypeOK,
     leaseVars
<1>7. \/ reply'[p] = reply[p]
      \/ reply'[p] = Say("error") /\ \E m \in inbox : m.from = p /\ m.label = at[o] /\ m \notin inbox'
  <2>1. at[o] \in Label /\ reply \in [Operator -> Answer] /\ Primary \in Label
    BY <1>0 DEF TypeOK, Label
  <2>2. \A l \in Label : guard[o][l].token \in Token \cup {None}
    BY <1>0, Values DEF TypeOK
  <2>3. CASE Bootout(o) /\ Hangup(at[o])
    BY <1>0, <2>1, <2>3, HangupIs
  <2>4. ASSUME NEW l \in Label, NEW a \in {"drain", "renew", "undrain"}, NEW t \in Token \cup {None}, Call(o, l, a, t)
        PROVE  reply'[p] = reply[p]
    BY <1>0, <2>4, CallIs
  <2>5. ToRelease(o) \subseteq Label
    BY DEF ToRelease
  <2> QED
    BY <2>1, <2>2, <2>3, <2>4, <2>5, OperatorRpc DEF Own
<1> QED
  BY <1>1, <1>2, <1>3, <1>4, <1>5, <1>6, <1>7

\* Operators draw no tokens, and a request of an operator that moves is over.
LEMMA OperatorAlone ==
  ASSUME IInv, NEW o \in Operator, Begin(o) \/ OperatorStep(o)
  PROVE  issued' = issued /\ mine' = mine /\ ~\E m \in inbox : m.from = o
<1>1. issued' = issued /\ mine' = mine
  BY DEF OperatorStep, Begin, DrainNext, Drained, Authenticate, SudoRefused, CopyFiles, Verify, ProbeNext,
     ParentRefused, Probed, Renew, Renewed, Bootout, RemovePaths, RemoveLegacyPaths, Bootstrap,
     BootstrapFails, Ready, PingFails, Undrain, Undrained, Status, ReleaseNext, Released, End, leaseVars
<1>2. pc[o] \notin {"drain?", "probe?", "renew?", "undrain?", "release?"} \/ reply[o].kind # "none"
  BY DEF OperatorStep, Begin, DrainNext, Drained, Authenticate, SudoRefused, CopyFiles, Verify, ProbeNext,
     ParentRefused, Probed, Renew, Renewed, Bootout, RemovePaths, RemoveLegacyPaths, Bootstrap,
     BootstrapFails, Ready, PingFails, Undrain, Undrained, Status, ReleaseNext, Released, End
<1>3. \A m \in inbox : m.action \in {"drain", "renew", "undrain"}
  BY DEF IInv, TypeOK, Message
<1>4. o # None
  BY InstallAssumption
<1>5. \A m \in inbox : m.from = o =>
        reply[o].kind = "none" /\ pc[o] \in {"drain?", "probe?", "renew?", "undrain?", "release?"}
  BY <1>3, <1>4 DEF IInv, CallInv, Asking
<1> QED
  BY <1>1, <1>2, <1>5

\* A request that an operator sends is the one it waits for.
LEMMA OperatorSends ==
  ASSUME IInv, NEW o \in Operator, Begin(o) \/ OperatorStep(o), NEW m \in inbox', m \notin inbox
  PROVE  /\ m.from = o /\ reply'[o].kind = "none" /\ inbox' = inbox \cup {m}
         /\ \/ /\ m.action = "drain" /\ m.label = at'[o] /\ m.token = None
               /\ \/ DrainNext(o)
                  \/ ProbeNext(o) /\ ~job[o].override /\ ~Held(o, at'[o])
            \/ /\ m.action = "renew" /\ m.label = at[o] /\ m.token = guard[o][at[o]].token /\ Renew(o)
            \/ /\ m.action = "undrain" /\ m.token = Own(o).token /\ Undrain(o)
            \/ /\ m.action = "undrain" /\ ReleaseNext(o)
               /\ m.label \in ToRelease(o) /\ m.token = guard[o][m.label].token
<1>0. TypeOK
  BY DEF IInv
<1>1. at[o] \in Label /\ Primary \in Label /\ ToRelease(o) \subseteq Label
  BY <1>0 DEF TypeOK, Label, ToRelease
<1>2. \A l \in Label : guard[o][l].token \in Token \cup {None}
  BY <1>0, Values DEF TypeOK
<1>3. ASSUME NEW l \in Label, NEW a \in {"drain", "renew", "undrain"}, NEW t \in Token \cup {None}, Call(o, l, a, t)
      PROVE  /\ m.from = o /\ m.label = l /\ m.action = a /\ m.token = t
             /\ reply'[o].kind = "none" /\ inbox' = inbox \cup {m}
  <2>1. inbox' = inbox \cup {[from |-> o, label |-> l, action |-> a, token |-> t]} /\ reply'[o] = Waiting
    BY <1>0, <1>3, CallIs
  <2>2. m = [from |-> o, label |-> l, action |-> a, token |-> t]
    BY <2>1
  <2> QED
    BY <2>1, <2>2, Answers
<1>4. ~(Bootout(o) /\ Hangup(at[o])) /\ inbox' # inbox
  BY <1>0, <1>1, HangupIs
<1>5. CASE DrainNext(o) /\ Call(o, at'[o], "drain", None) /\ at'[o] \in Label
  <2>1. /\ m.from = o /\ m.label = at'[o] /\ m.action = "drain" /\ m.token = None
        /\ reply'[o].kind = "none" /\ inbox' = inbox \cup {m}
    BY <1>3, <1>5
  <2> QED
    BY <1>5, <2>1
<1>6. CASE ProbeNext(o) /\ ~job[o].override /\ ~Held(o, at'[o]) /\ Call(o, at'[o], "drain", None) /\ at'[o] \in Label
  BY <1>3, <1>6
<1>7. CASE Renew(o) /\ Call(o, at[o], "renew", guard[o][at[o]].token)
  BY <1>1, <1>2, <1>3, <1>7
<1>8. CASE Undrain(o) /\ Call(o, Primary, "undrain", Own(o).token)
  BY <1>1, <1>2, <1>3, <1>8 DEF Own
<1>9. ASSUME ReleaseNext(o), NEW l \in ToRelease(o), Call(o, l, "undrain", guard[o][l].token)
      PROVE  /\ m.from = o /\ reply'[o].kind = "none" /\ inbox' = inbox \cup {m}
             /\ m.action = "undrain" /\ m.label = l /\ m.token = guard[o][l].token
  BY <1>1, <1>2, <1>3, <1>9
<1> QED
  BY <1>4, <1>5, <1>6, <1>7, <1>8, <1>9, OperatorRpc

\* What becomes of the leases an operator holds.
LEMMA GuardMoves ==
  ASSUME IInv, NEW o \in Operator, Begin(o) \/ OperatorStep(o), NEW l \in Label
  PROVE  \/ guard'[o][l] = guard[o][l]
         \/ guard'[o][l] = NoLease /\ pc'[o] = "paths" /\ ~Replaces(o) /\ l = at[o]
         \/ guard'[o][l] = NoLease /\ Undrained(o) /\ reply[o].kind = "ok"
         \/ guard'[o][l] = NoLease /\ pc'[o] \in {"release?", "done"}
         \/ /\ Drained(o) \/ Probed(o)
            /\ pc[o] \in Asking /\ reply[o].kind = "ok" /\ l = at[o]
            /\ guard'[o][l] = [token |-> reply[o].token, left |-> TTL]
         \/ /\ Renewed(o) /\ l = at[o]
            /\ guard'[o][l] = [token |-> guard[o][l].token, left |-> TTL]
<1>0. guard \in [Operator -> [Label -> Lease]] /\ at[o] \in Label /\ reply[o] \in Answer /\ pc \in [Operator -> Step]
  BY DEF IInv, TypeOK
<1>1. Primary \in Label /\ ToRelease(o) \subseteq Label
  BY DEF Label, ToRelease
<1>2. ASSUME NEW k \in Label, NEW x, guard' = [guard EXCEPT ![o][k] = x]
      PROVE  (l = k /\ guard'[o][l] = x) \/ guard'[o][l] = guard[o][l]
  BY <1>0, <1>2
<1>3. reply[o].kind \in {"none", "ok", "unavailable", "error"}
  BY <1>0 DEF Answer
<1>4. CASE Drained(o) \/ Probed(o)
  <2>1. \/ guard' = guard
        \/ /\ guard' = [guard EXCEPT ![o][at[o]] = [token |-> reply[o].token, left |-> TTL]]
           /\ reply[o].kind = "ok" /\ pc[o] \in Asking
    BY <1>3, <1>4 DEF Drained, Probed, Asking
  <2> QED
    BY <1>0, <1>2, <1>4, <2>1
<1>5. CASE Renewed(o)
  <2>1. guard' = guard \/ guard' = [guard EXCEPT ![o][at[o]] = [token |-> guard[o][at[o]].token, left |-> TTL]]
    BY <1>0, <1>5 DEF Renewed
  <2> QED
    BY <1>0, <1>2, <1>5, <2>1
<1>6. CASE Bootout(o)
  <2>1. \/ guard' = guard
        \/ /\ guard' = [guard EXCEPT ![o][at[o]] = NoLease] /\ ~Replaces(o)
           /\ pc' = [pc EXCEPT ![o] = "paths"]
    BY <1>6 DEF Bootout, Goto
  <2> QED
    BY <1>0, <1>2, <2>1
<1>7. CASE Undrained(o)
  <2>1. CASE reply[o].kind = "ok"
    <3>1. guard' = [guard EXCEPT ![o][Primary] = NoLease]
      BY <1>7, <2>1 DEF Undrained
    <3> QED
      BY <1>0, <1>1, <1>2, <1>7, <2>1, <3>1
  <2>2. CASE reply[o].kind # "ok"
    BY <1>7, <2>2 DEF Undrained
  <2> QED
    BY <2>1, <2>2
<1>8. CASE ReleaseNext(o)
  <2>1. PICK k \in ToRelease(o) : guard' = [guard EXCEPT ![o][k] = NoLease]
    BY <1>8 DEF ReleaseNext
  <2>2. pc'[o] = "release?"
    BY <1>0, <1>8 DEF ReleaseNext, Goto
  <2> QED
    BY <1>0, <1>1, <1>2, <2>1, <2>2
<1>9. CASE End(o)
  BY <1>0, <1>9 DEF End, Goto
<1>10. CASE ~(Drained(o) \/ Probed(o) \/ Renewed(o) \/ Bootout(o) \/ Undrained(o) \/ ReleaseNext(o) \/ End(o))
  <2>1. guard' = guard
    BY <1>10 DEF OperatorStep, Begin, DrainNext, Authenticate, SudoRefused, CopyFiles, Verify, ProbeNext,
       ParentRefused, Renew, RemovePaths, RemoveLegacyPaths, Bootstrap, BootstrapFails, Ready, PingFails,
       Undrain, Status, Released, flowVars
  <2> QED
    BY <2>1
<1> QED
  BY <1>4, <1>5, <1>6, <1>7, <1>8, <1>9, <1>10

\* What a daemon leaves alone, and what it tells whom.
LEMMA ServeKeeps ==
  ASSUME IInv, NEW m \in inbox, Serve(m) \/ TimeOut(m)
  PROVE  /\ UNCHANGED <<pc, job, todo, at, guard, forgot, result>>
         /\ \A o \in Operator : m.from # o => reply'[o] = reply[o] /\ cover'[o] = cover[o]
         /\ ServeDrain(m) \/ (issued' = issued /\ mine' = mine)
         /\ \/ inbox' = inbox \ {m}
            \/ /\ m.from # None /\ inbox' = (inbox \ {m}) \cup {[m EXCEPT !.from = None]}
               /\ lease' = lease /\ \A o \in Operator : m.from = o => reply'[o].kind = "error"
<1>0. /\ reply \in [Operator -> Answer] /\ cover \in [Operator -> Lease]
      /\ m.from \in Operator \cup {None}
  BY DEF IInv, TypeOK, Message
<1>1. UNCHANGED <<pc, job, todo, at, guard, forgot, result>>
  BY DEF Serve, ServeDrain, ServeRenew, ServeUndrain, ServeError, TimeOut, flowVars
<1>2. \A o \in Operator : m.from # o => reply'[o] = reply[o]
  BY <1>0 DEF Serve, ServeDrain, ServeRenew, ServeUndrain, ServeError, TimeOut, Deliver
<1>3. \A o \in Operator : m.from # o => cover'[o] = cover[o]
  BY <1>0 DEF Serve, ServeDrain, ServeRenew, ServeUndrain, ServeError, TimeOut, leaseVars
<1>4. ServeDrain(m) \/ (issued' = issued /\ mine' = mine)
  BY DEF Serve, ServeRenew, ServeUndrain, ServeError, TimeOut, leaseVars
<1>5. CASE Serve(m)
  <2>1. inbox' = inbox \ {m}
    BY <1>5 DEF Serve, ServeDrain, ServeRenew, ServeUndrain, ServeError, Deliver
  <2> QED
    BY <1>1, <1>2, <1>3, <1>4, <2>1
<1>6. CASE TimeOut(m)
  <2>1. m.from # None /\ inbox' = (inbox \ {m}) \cup {[m EXCEPT !.from = None]} /\ lease' = lease
    BY <1>6 DEF TimeOut, leaseVars
  <2>2. \A o \in Operator : m.from = o => reply'[o] = Say("error")
    BY <1>0, <1>6 DEF TimeOut
  <2> QED
    BY <1>1, <1>2, <1>3, <1>4, <2>1, <2>2, Answers
<1> QED
  BY <1>5, <1>6

\* A lease is granted by the primary daemon, with a fresh token, to an operator that asks.
LEMMA GrantIs ==
  ASSUME IInv, NEW m \in inbox, ServeDrain(m)
  PROVE  /\ m.action = "drain" /\ m.label = Primary /\ inbox' = inbox \ {m}
         /\ \E t \in Token \ issued :
              /\ issued' = issued \cup {t} /\ lease'[Primary] = [token |-> t, left |-> TTL]
              /\ \A o \in Operator :
                   IF m.from = o
                   THEN /\ reply'[o] = [kind |-> "ok", token |-> t] /\ mine'[o] = mine[o] \cup {t}
                        /\ reply[o].kind = "none" /\ pc[o] \in Asking /\ at[o] = Primary
                   ELSE reply'[o] = reply[o] /\ mine'[o] = mine[o]
<1>0. /\ reply \in [Operator -> Answer] /\ mine \in [Operator -> SUBSET Token] /\ lease \in [Label -> Lease]
      /\ m.from \in Operator \cup {None} /\ m.label \in Label /\ Primary \in Label
  BY DEF IInv, TypeOK, Message, Label
<1>1. m.action = "drain" /\ m.label = Primary
  BY <1>0 DEF ServeDrain, Label
<1>2. PICK t \in Token \ issued :
        /\ issued' = issued \cup {t} /\ lease' = [lease EXCEPT ![m.label] = [token |-> t, left |-> TTL]]
        /\ Deliver(m, [kind |-> "ok", token |-> t])
        /\ mine' = IF m.from = None THEN mine ELSE [mine EXCEPT ![m.from] = @ \cup {t}]
  BY DEF ServeDrain
<1>3. lease'[Primary] = [token |-> t, left |-> TTL] /\ inbox' = inbox \ {m}
  BY <1>0, <1>1, <1>2 DEF Deliver
<1>4. ASSUME NEW o \in Operator, m.from = o
      PROVE  /\ reply'[o] = [kind |-> "ok", token |-> t] /\ mine'[o] = mine[o] \cup {t}
             /\ reply[o].kind = "none" /\ pc[o] \in Asking /\ at[o] = Primary
  <2>1. m.from # None
    BY <1>4, InstallAssumption
  <2>2. reply'[o] = [kind |-> "ok", token |-> t] /\ mine'[o] = mine[o] \cup {t}
    BY <1>0, <1>2, <1>4, <2>1 DEF Deliver
  <2>3. reply[o].kind = "none" /\ pc[o] \in Asking /\ at[o] = Primary
    BY <1>1, <1>4, <2>1 DEF IInv, CallInv
  <2> QED
    BY <2>2, <2>3
<1>5. ASSUME NEW o \in Operator, m.from # o PROVE reply'[o] = reply[o] /\ mine'[o] = mine[o]
  BY <1>0, <1>2, <1>5 DEF Deliver
<1> QED
  BY <1>1, <1>2, <1>3, <1>4, <1>5

\* Steps of neither an operator nor a daemon that serves.
Rest == (\E l \in Label : Restart(l) \/ Crash(l) \/ StartTunnel(l) \/ StopTunnel(l)) \/ Tick \/ UNCHANGED vars

\* They leave operators where they are; a crash may take an answer away.
LEMMA RestKeeps ==
  ASSUME IInv, Rest
  PROVE  /\ UNCHANGED <<pc, job, todo, at, forgot, issued, mine>>
         /\ inbox' \subseteq inbox
         /\ \A o \in Operator :
              /\ \/ guard'[o] = guard[o] /\ result'[o] = result[o] /\ cover'[o] = cover[o]
                 \/ /\ Tick /\ result'[o] = Later(result[o]) /\ cover'[o] = Elapse(cover[o])
                    /\ \A l \in Label : guard'[o][l] = Elapse(guard[o][l])
              /\ \/ reply'[o] = reply[o]
                 \/ reply'[o] = Say("error") /\ \E m \in inbox : m.from = o /\ m \notin inbox'
<1>0. TypeOK
  BY DEF IInv
<1>1. CASE \E l \in Label : Crash(l)
  <2>1. PICK l \in Label : Crash(l)
    BY <1>1
  <2>2. UNCHANGED <<pc, job, todo, at, forgot, issued, mine, guard, result, cover>> /\ Hangup(l)
    BY <2>1 DEF Crash, flowVars
  <2> QED
    BY <1>0, <2>2, HangupIs
<1>2. CASE \E l \in Label : Restart(l) \/ StartTunnel(l) \/ StopTunnel(l)
  BY <1>2 DEF Restart, StartTunnel, StopTunnel, leaseVars, rpcVars, flowVars
<1>3. CASE Tick
  BY <1>0, <1>3 DEF Tick, rpcVars, TypeOK
<1>4. CASE UNCHANGED vars
  BY <1>4 DEF vars, leaseVars, rpcVars, flowVars
<1> QED
  BY <1>1, <1>2, <1>3, <1>4 DEF Rest

\* Every step is one of three kinds.
LEMMA Kinds ==
  ASSUME [Next]_vars
  PROVE  \/ \E o \in Operator : Begin(o) \/ OperatorStep(o)
         \/ \E m \in inbox : Serve(m) \/ TimeOut(m)
         \/ Rest
  BY DEF Next, Rest

\* What becomes of the token that an operator holds for a service.
LEMMA GuardTokens ==
  ASSUME IInv, [Next]_vars, NEW o \in Operator, NEW l \in Label
  PROVE  \/ guard'[o][l].token = guard[o][l].token
         \/ guard'[o][l] = NoLease
         \/ /\ l = Primary /\ l = at[o] /\ pc[o] \in Asking /\ reply[o].kind = "ok" /\ reply[o].token \in mine[o]
            /\ guard'[o][l] = [token |-> reply[o].token, left |-> TTL]
            /\ Drained(o) \/ Probed(o)
<1>0. guard[o][l] \in Lease
  BY DEF IInv, TypeOK
<1>1. [token |-> guard[o][l].token, left |-> TTL].token = guard[o][l].token
  OBVIOUS
<1>2. ASSUME NEW p \in Operator, Begin(p) \/ OperatorStep(p), p # o PROVE guard'[o][l] = guard[o][l]
  BY <1>2, OperatorOthers
<1>3. CASE Begin(o) \/ OperatorStep(o)
  <2>1. pc[o] \in Asking /\ reply[o].kind = "ok" => at[o] = Primary /\ reply[o].token \in mine[o]
    BY DEF IInv, CallInv
  <2> QED
    BY <1>1, <1>3, <2>1, GuardMoves
<1>4. ASSUME NEW m \in inbox, Serve(m) \/ TimeOut(m) PROVE guard'[o][l] = guard[o][l]
  BY <1>4, ServeKeeps
<1>5. CASE Rest
  BY <1>0, <1>5, RestKeeps, Values
<1> QED
  BY <1>2, <1>3, <1>4, <1>5, Kinds

\* Who has been given which tokens.
LEMMA TokenMoves ==
  ASSUME IInv, [Next]_vars
  PROVE  \/ issued' = issued /\ mine' = mine
         \/ \E m \in inbox, t \in Token \ issued :
              /\ ServeDrain(m) /\ issued' = issued \cup {t}
              /\ lease'[Primary] = [token |-> t, left |-> TTL]
              /\ \A o \in Operator : mine'[o] = IF m.from = o THEN mine[o] \cup {t} ELSE mine[o]
<1>1. ASSUME NEW o \in Operator, Begin(o) \/ OperatorStep(o) PROVE issued' = issued /\ mine' = mine
  BY <1>1, OperatorAlone
<1>2. ASSUME NEW m \in inbox, Serve(m) \/ TimeOut(m), ~ServeDrain(m) PROVE issued' = issued /\ mine' = mine
  BY <1>2, ServeKeeps
<1>3. ASSUME NEW m \in inbox, ServeDrain(m)
      PROVE  \E t \in Token \ issued :
               /\ issued' = issued \cup {t} /\ lease'[Primary] = [token |-> t, left |-> TTL]
               /\ \A o \in Operator : mine'[o] = IF m.from = o THEN mine[o] \cup {t} ELSE mine[o]
  <2>1. PICK t \in Token \ issued :
          /\ issued' = issued \cup {t} /\ lease'[Primary] = [token |-> t, left |-> TTL]
          /\ \A o \in Operator :
               IF m.from = o
               THEN /\ reply'[o] = [kind |-> "ok", token |-> t] /\ mine'[o] = mine[o] \cup {t}
                    /\ reply[o].kind = "none" /\ pc[o] \in Asking /\ at[o] = Primary
               ELSE reply'[o] = reply[o] /\ mine'[o] = mine[o]
    BY <1>3, GrantIs
  <2>2. \A o \in Operator : mine'[o] = IF m.from = o THEN mine[o] \cup {t} ELSE mine[o]
    BY <2>1
  <2> QED
    BY <2>1, <2>2
<1>4. CASE Rest
  BY <1>4, RestKeeps
<1> QED
  BY <1>1, <1>2, <1>3, <1>4, Kinds, ZenonT(60)

\* The tokens of new requests are those of the guard.
LEMMA TokenStep == IInv /\ [Next]_vars => TokenInv'
<1> SUFFICES ASSUME IInv, [Next]_vars PROVE TokenInv'
  OBVIOUS
<1>0. TypeOK /\ TokenInv /\ TypeOK'
  BY TypeStep DEF IInv
<1>1. ASSUME NEW l \in Legacy PROVE lease'[l] = NoLease /\ \A o \in Operator : guard'[o][l] = NoLease
  <2>0. l \in Label /\ l # Primary
    BY InstallAssumption DEF Label
  <2>1. lease[l] = NoLease /\ \A o \in Operator : guard[o][l] = NoLease
    BY <1>0 DEF TokenInv
  <2>2. lease'[l] = NoLease
    <3>1. ~Live(l) /\ Elapse(lease[l]) = NoLease
      BY <2>1, Values DEF Live
    <3> QED
      BY <2>0, <2>1, <3>1, LeaseMoves, Zenon
  <2>3. ASSUME NEW o \in Operator PROVE guard'[o][l] = NoLease
    <3>1. CASE Begin(o) \/ OperatorStep(o)
      <4>1. ~Renewed(o) \/ l # at[o]
        <5>1. pc[o] = "renew?" => Held(o, at[o])
          BY DEF IInv, FlowInv
        <5> QED
          BY <2>1, <5>1, Values DEF Renewed, Held
      <4>2. pc[o] \in Asking /\ reply[o].kind = "ok" => at[o] = Primary
        BY DEF IInv, CallInv
      <4> QED
        <5>1. ~(pc[o] \in Asking /\ reply[o].kind = "ok" /\ l = at[o]) /\ ~(Renewed(o) /\ l = at[o])
          BY <2>0, <4>1, <4>2
        <5>2. guard'[o][l] = guard[o][l] \/ guard'[o][l] = NoLease
          BY <2>0, <3>1, <5>1, GuardMoves
        <5> QED
          BY <2>1, <5>2
    <3>2. ASSUME NEW p \in Operator, Begin(p) \/ OperatorStep(p), p # o PROVE guard'[o][l] = NoLease
      BY <2>1, <3>2, OperatorOthers
    <3>3. ASSUME NEW m \in inbox, Serve(m) \/ TimeOut(m) PROVE guard'[o][l] = NoLease
      BY <2>1, <3>3, ServeKeeps
    <3>4. CASE Rest
      BY <2>0, <2>1, <3>4, RestKeeps, Values
    <3> QED
      BY <3>1, <3>2, <3>3, <3>4, Kinds
  <2> QED
    BY <2>2, <2>3
<1>2. issued \subseteq issued'
  BY TokenMoves
<1>3. lease'[Primary].left > 0 => lease'[Primary].token \in issued'
  <2>1. Primary \in Label /\ lease[Primary] \in Lease
    BY <1>0 DEF Label, TypeOK
  <2>2. NoLease.left = 0 /\ ~(0 > 0)
    BY Values
  <2>3. lease[Primary].left > 0 => lease[Primary].token \in issued
    BY <1>0 DEF TokenInv
  <2>4. Less(lease[Primary].left) > 0 => lease[Primary].left > 0
    BY <2>1, LessIs, Values
  <2>5. \A t : [token |-> t, left |-> TTL].token = t
    OBVIOUS
  <2> QED
    <3>1. CASE lease'[Primary] = lease[Primary] \/ lease'[Primary] = NoLease
      BY <1>2, <2>2, <2>3, <3>1
    <3>2. CASE lease'[Primary] = Elapse(lease[Primary])
      BY <1>2, <2>1, <2>3, <2>4, <3>2, Values
    <3>3. ASSUME NEW t \in Token, lease'[Primary] = [token |-> t, left |-> TTL], issued' = issued \cup {t}
          PROVE  lease'[Primary].token \in issued'
      BY <2>5, <3>3
    <3>4. ASSUME Live(Primary), lease'[Primary] = [token |-> lease[Primary].token, left |-> TTL]
          PROVE  lease'[Primary].token \in issued'
      BY <1>2, <2>3, <2>5, <3>4 DEF Live
    <3> QED
      BY <2>1, <3>1, <3>2, <3>3, <3>4, LeaseMoves
<1>4. ASSUME NEW o \in Operator PROVE mine'[o] \subseteq issued' /\ Own(o).token' \in mine'[o] \cup {None}
  <2>1. mine[o] \subseteq issued /\ Own(o).token \in mine[o] \cup {None}
    BY <1>0 DEF TokenInv
  <2>2. mine'[o] \subseteq issued' /\ mine[o] \subseteq mine'[o]
    BY <1>2, <2>1, TokenMoves
  <2>3. Primary \in Label
    BY DEF Label
  <2>4. \A t : [token |-> t, left |-> TTL].token = t
    OBVIOUS
  <2> QED
    <3>1. NoLease.token = None
      BY Values
    <3>2. guard[o][Primary].token \in mine[o] \cup {None}
      BY <2>1 DEF Own
    <3>3. guard'[o][Primary].token \in mine[o] \cup {None}
      BY <2>3, <2>4, <3>1, <3>2, GuardTokens, ZenonT(60)
    <3> QED
      BY <2>2, <3>3 DEF Own
<1>5. ASSUME NEW o \in Operator, NEW p \in Operator, o # p PROVE mine'[o] \cap mine'[p] = {}
  <2>1. mine[o] \cap mine[p] = {} /\ mine[o] \subseteq issued /\ mine[p] \subseteq issued
    BY <1>0, <1>5 DEF TokenInv
  <2>2. ASSUME NEW m \in inbox, NEW t \in Token \ issued,
               \A q \in Operator : mine'[q] = IF m.from = q THEN mine[q] \cup {t} ELSE mine[q]
        PROVE  mine'[o] \cap mine'[p] = {}
    <3>1. mine'[o] = (IF m.from = o THEN mine[o] \cup {t} ELSE mine[o]) /\
          mine'[p] = (IF m.from = p THEN mine[p] \cup {t} ELSE mine[p])
      BY <2>2
    <3> QED
      BY <1>5, <2>1, <3>1
  <2> QED
    BY <2>1, <2>2, TokenMoves
<1>6. ASSUME NEW m \in inbox' PROVE m.token \in issued' \cup {None}
  <2>1. CASE m \in inbox
    BY <1>0, <1>2, <2>1 DEF TokenInv
  <2>2. CASE m \notin inbox
    <3>1. ASSUME NEW o \in Operator, Begin(o) \/ OperatorStep(o) PROVE m.token \in issued' \cup {None}
      <4>1. \A l \in Label : guard[o][l].token \in issued \cup {None}
        BY <1>0, Values DEF TokenInv, Label, Own
      <4>2. at[o] \in Label /\ Primary \in Label /\ ToRelease(o) \subseteq Label
        BY <1>0 DEF TypeOK, Label, ToRelease
      <4> QED
        BY <1>2, <2>2, <3>1, <4>1, <4>2, OperatorSends DEF Own
    <3>2. ASSUME NEW n \in inbox, Serve(n) \/ TimeOut(n) PROVE m.token \in issued' \cup {None}
      <4>1. n \in Message /\ n.token \in issued \cup {None}
        BY <1>0 DEF TypeOK, TokenInv
      <4>2. m = [n EXCEPT !.from = None]
        BY <2>2, <3>2, ServeKeeps
      <4> QED
        BY <1>2, <4>1, <4>2, GivenUp
    <3>3. ~Rest
      BY <2>2, RestKeeps
    <3> QED
      BY <3>1, <3>2, <3>3, Kinds
  <2> QED
    BY <2>1, <2>2
<1> QED
  BY <1>1, <1>3, <1>4, <1>5, <1>6 DEF TokenInv

\* The steps of an operator, by where they start and end.
LEMMA Steps ==
  ASSUME IInv, NEW o \in Operator
  PROVE  /\ Begin(o) => pc[o] = "idle" /\ pc'[o] \in {"sudo", "drain"}
         /\ DrainNext(o) => pc[o] = "drain" /\ pc'[o] = "drain?"
         /\ Drained(o) => pc[o] = "drain?" /\ pc'[o] \in {"release", "sudo", "drain"}
         /\ Authenticate(o) => pc[o] = "sudo" /\ pc'[o] \in {"files", "probe"}
         /\ SudoRefused(o) => pc[o] = "sudo" /\ pc'[o] = "release"
         /\ CopyFiles(o) => pc[o] = "files" /\ pc'[o] \in {"verify", "release"}
         /\ Verify(o) => pc[o] = "verify" /\ pc'[o] \in {"probe", "release"}
         /\ ProbeNext(o) => pc[o] = "probe" /\ pc'[o] \in {"bootout", "renew", "probe?"}
         /\ ParentRefused(o) => pc[o] = "probe" /\ pc'[o] = "release"
         /\ Probed(o) => pc[o] = "probe?" /\ pc'[o] \in {"release", "bootout", "renew"}
         /\ Renew(o) => pc[o] = "renew" /\ pc'[o] = "renew?"
         /\ Renewed(o) => pc[o] = "renew?" /\ pc'[o] \in {"bootout", "release"}
         /\ Bootout(o) => pc[o] = "bootout" /\ pc'[o] \in {"paths", "enable", "release"}
         /\ RemovePaths(o) => pc[o] = "paths" /\ pc'[o] \in {"probe", "release"}
         /\ RemoveLegacyPaths(o) => pc[o] = "paths" /\ pc'[o] \in {"probe", "release"}
         /\ Bootstrap(o) => pc[o] = "enable" /\ pc'[o] = "ready"
         /\ BootstrapFails(o) => pc[o] = "enable" /\ pc'[o] = "release"
         /\ Ready(o) => pc[o] = "ready" /\ pc'[o] \in {"undrain", "status"}
         /\ PingFails(o) => pc[o] \in {"ready", "status"} /\ pc'[o] = "release"
         /\ Undrain(o) => pc[o] = "undrain" /\ pc'[o] = "undrain?"
         /\ Undrained(o) => pc[o] = "undrain?" /\ pc'[o] \in {"status", "release"}
         /\ Status(o) => pc[o] = "status" /\ pc'[o] = "release"
         /\ ReleaseNext(o) => pc[o] = "release" /\ pc'[o] = "release?"
         /\ Released(o) => pc[o] = "release?" /\ pc'[o] = "release"
         /\ End(o) => pc[o] = "release" /\ pc'[o] = "done"
<1>0. pc \in [Operator -> Step]
  BY DEF IInv, TypeOK
<1>1. /\ Begin(o) => pc[o] = "idle" /\ pc'[o] \in {"sudo", "drain"}
      /\ DrainNext(o) => pc[o] = "drain" /\ pc'[o] = "drain?"
      /\ Drained(o) => pc[o] = "drain?" /\ pc'[o] \in {"release", "sudo", "drain"}
      /\ Authenticate(o) => pc[o] = "sudo" /\ pc'[o] \in {"files", "probe"}
      /\ SudoRefused(o) => pc[o] = "sudo" /\ pc'[o] = "release"
      /\ CopyFiles(o) => pc[o] = "files" /\ pc'[o] \in {"verify", "release"}
  BY <1>0, Zenon DEF Begin, DrainNext, Drained, Authenticate, SudoRefused, CopyFiles, Goto, Report
<1>2. /\ Verify(o) => pc[o] = "verify" /\ pc'[o] \in {"probe", "release"}
      /\ ProbeNext(o) => pc[o] = "probe" /\ pc'[o] \in {"bootout", "renew", "probe?"}
      /\ ParentRefused(o) => pc[o] = "probe" /\ pc'[o] = "release"
      /\ Probed(o) => pc[o] = "probe?" /\ pc'[o] \in {"release", "bootout", "renew"}
      /\ Renew(o) => pc[o] = "renew" /\ pc'[o] = "renew?"
      /\ Renewed(o) => pc[o] = "renew?" /\ pc'[o] \in {"bootout", "release"}
  BY <1>0, Zenon DEF Verify, ProbeNext, ParentRefused, Probed, Renew, Renewed, Goto, Report
<1>3. /\ Bootout(o) => pc[o] = "bootout" /\ pc'[o] \in {"paths", "enable", "release"}
      /\ RemovePaths(o) => pc[o] = "paths" /\ pc'[o] \in {"probe", "release"}
      /\ RemoveLegacyPaths(o) => pc[o] = "paths" /\ pc'[o] \in {"probe", "release"}
      /\ Bootstrap(o) => pc[o] = "enable" /\ pc'[o] = "ready"
      /\ BootstrapFails(o) => pc[o] = "enable" /\ pc'[o] = "release"
      /\ Ready(o) => pc[o] = "ready" /\ pc'[o] \in {"undrain", "status"}
  BY <1>0, Zenon DEF Bootout, RemovePaths, RemoveLegacyPaths, Bootstrap, BootstrapFails, Ready, Goto,
     Report, Warn, NextService
<1>4. /\ PingFails(o) => pc[o] \in {"ready", "status"} /\ pc'[o] = "release"
      /\ Undrain(o) => pc[o] = "undrain" /\ pc'[o] = "undrain?"
      /\ Undrained(o) => pc[o] = "undrain?" /\ pc'[o] \in {"status", "release"}
      /\ Status(o) => pc[o] = "status" /\ pc'[o] = "release"
      /\ ReleaseNext(o) => pc[o] = "release" /\ pc'[o] = "release?"
      /\ Released(o) => pc[o] = "release?" /\ pc'[o] = "release"
      /\ End(o) => pc[o] = "release" /\ pc'[o] = "done"
  BY <1>0, Zenon DEF PingFails, Undrain, Undrained, Status, ReleaseNext, Released, End, Goto, Report, Warn,
     NextService
<1> QED
  BY <1>1, <1>2, <1>3, <1>4

\* An operator that does not act stays where it is.
LEMMA Still ==
  ASSUME IInv, [Next]_vars, NEW p \in Operator, ~(Begin(p) \/ OperatorStep(p))
  PROVE  /\ pc'[p] = pc[p] /\ job'[p] = job[p] /\ todo'[p] = todo[p] /\ at'[p] = at[p] /\ forgot'[p] = forgot[p]
         /\ \A l \in Label : guard'[p][l].token = guard[p][l].token
         /\ \/ guard'[p] = guard[p] /\ result'[p] = result[p]
            \/ /\ Tick /\ result'[p] = Later(result[p])
               /\ \A l \in Label : guard'[p][l] = Elapse(guard[p][l])
<1>1. ASSUME NEW o \in Operator, Begin(o) \/ OperatorStep(o)
      PROVE  /\ pc'[p] = pc[p] /\ job'[p] = job[p] /\ todo'[p] = todo[p] /\ at'[p] = at[p] /\ forgot'[p] = forgot[p]
             /\ guard'[p] = guard[p] /\ result'[p] = result[p]
  <2>1. p # o
    BY <1>1
  <2> QED
    BY <1>1, <2>1, OperatorOthers
<1>2. ASSUME NEW m \in inbox, Serve(m) \/ TimeOut(m)
      PROVE  UNCHANGED <<pc, job, todo, at, guard, forgot, result>>
  BY <1>2, ServeKeeps
<1>3. CASE Rest
  <2>1. \A l \in Label : guard[p][l] \in Lease
    BY DEF IInv, TypeOK
  <2> QED
    BY <1>3, <2>1, RestKeeps, Values
<1> QED
  BY <1>1, <1>2, <1>3, Kinds

\* What an operator changes of its own place.
LEMMA OwnMoves ==
  ASSUME IInv, NEW o \in Operator, Begin(o) \/ OperatorStep(o)
  PROVE  /\ Begin(o) \/ job'[o] = job[o]
         /\ DrainNext(o) \/ ProbeNext(o) \/ at'[o] = at[o]
         /\ ProbeNext(o) \/ Bootout(o) \/ forgot'[o] = forgot[o]
         /\ Begin(o) \/ DrainNext(o) \/ Authenticate(o) \/ ProbeNext(o) \/ ParentRefused(o) \/ todo'[o] = todo[o]
<1>1. Begin(o) \/ job'[o] = job[o]
  BY DEF OperatorStep, DrainNext, Drained, Authenticate, SudoRefused, CopyFiles, Verify, ProbeNext,
     ParentRefused, Probed, Renew, Renewed, Bootout, RemovePaths, RemoveLegacyPaths, Bootstrap,
     BootstrapFails, Ready, PingFails, Undrain, Undrained, Status, ReleaseNext, Released, End, flowVars
<1>2. DrainNext(o) \/ ProbeNext(o) \/ at'[o] = at[o]
  BY DEF OperatorStep, Begin, Drained, Authenticate, SudoRefused, CopyFiles, Verify, ParentRefused, Probed,
     Renew, Renewed, Bootout, RemovePaths, RemoveLegacyPaths, Bootstrap, BootstrapFails, Ready, PingFails,
     Undrain, Undrained, Status, ReleaseNext, Released, End, flowVars
<1>3. ProbeNext(o) \/ Bootout(o) \/ forgot'[o] = forgot[o]
  BY DEF OperatorStep, Begin, DrainNext, Drained, Authenticate, SudoRefused, CopyFiles, Verify,
     ParentRefused, Probed, Renew, Renewed, RemovePaths, RemoveLegacyPaths, Bootstrap, BootstrapFails,
     Ready, PingFails, Undrain, Undrained, Status, ReleaseNext, Released, End, flowVars
<1>4. Begin(o) \/ DrainNext(o) \/ Authenticate(o) \/ ProbeNext(o) \/ ParentRefused(o) \/ todo'[o] = todo[o]
  BY DEF OperatorStep, Drained, SudoRefused, CopyFiles, Verify, Probed, Renew, Renewed, Bootout,
     RemovePaths, RemoveLegacyPaths, Bootstrap, BootstrapFails, Ready, PingFails, Undrain, Undrained,
     Status, ReleaseNext, Released, End, flowVars
<1> QED
  BY <1>1, <1>2, <1>3, <1>4

\* Where the loop over the services goes with a service.
LEMMA ProbeIs ==
  ASSUME IInv, NEW o \in Operator, ProbeNext(o)
  PROVE  /\ forgot'[o] = FALSE /\ job' = job /\ guard' = guard /\ at'[o] \in Label
         /\ IF job[o].override THEN pc'[o] = "bootout"
            ELSE IF Held(o, at'[o]) THEN pc'[o] = "renew" ELSE pc'[o] = "probe?"
<1>0. /\ pc \in [Operator -> Step] /\ at \in [Operator -> Label] /\ forgot \in [Operator -> BOOLEAN]
      /\ todo[o] \in SUBSET Label
  BY DEF IInv, TypeOK
<1>1. forgot'[o] = FALSE /\ job' = job /\ guard' = guard
  BY <1>0 DEF ProbeNext
<1>2. PICK l \in Last(todo[o]) :
        /\ at' = [at EXCEPT ![o] = l]
        /\ IF job[o].override THEN Goto(o, "bootout") /\ UNCHANGED rpcVars
           ELSE IF Held(o, l) THEN Goto(o, "renew") /\ UNCHANGED rpcVars
           ELSE Goto(o, "probe?") /\ Call(o, l, "drain", None)
  BY DEF ProbeNext
<1>3. at'[o] = l /\ l \in Label
  BY <1>0, <1>2 DEF Last
<1>4. IF job[o].override THEN pc'[o] = "bootout" ELSE IF Held(o, l) THEN pc'[o] = "renew" ELSE pc'[o] = "probe?"
  BY <1>0, <1>2 DEF Goto
<1> QED
  BY <1>1, <1>3, <1>4

\* After every step an operator's place says the same of its choices.
LEMMA FlowStep == IInv /\ [Next]_vars => FlowInv'
<1> SUFFICES ASSUME IInv, [Next]_vars, NEW o \in Operator
             PROVE  /\ pc'[o] \in Early \cup Probing => ~forgot'[o]
                    /\ pc'[o] \in Replacing => job'[o].kind = "install" /\ at'[o] = Primary
                    /\ pc'[o] = "paths" => ~(job'[o].kind = "install" /\ at'[o] = Primary)
                    /\ pc'[o] = "drain?" => Primary \notin todo'[o]
                    /\ pc'[o] \in Asking \cup {"drain", "renew", "renew?"} => ~job'[o].override
                    /\ pc'[o] \in {"renew", "renew?"} => guard'[o][at'[o]].token # None
  BY DEF FlowInv, Replaces, Held
<1>0. /\ pc[o] \in Early \cup Probing => ~forgot[o]
      /\ pc[o] \in Replacing => job[o].kind = "install" /\ at[o] = Primary
      /\ pc[o] = "paths" => ~(job[o].kind = "install" /\ at[o] = Primary)
      /\ pc[o] = "drain?" => Primary \notin todo[o]
      /\ pc[o] \in Asking \cup {"drain", "renew", "renew?"} => ~job[o].override
      /\ pc[o] \in {"renew", "renew?"} => guard[o][at[o]].token # None
  BY DEF IInv, FlowInv, Replaces, Held
<1>1. at[o] \in Label
  BY DEF IInv, TypeOK
<1>2. CASE ~(Begin(o) \/ OperatorStep(o))
  BY <1>0, <1>1, <1>2, Still
<1>3. CASE Begin(o) \/ OperatorStep(o)
  <2>1. pc'[o] \in Early \cup Probing => ~forgot'[o]
    BY <1>0, <1>3, Steps, OwnMoves, ProbeIs, ZenonT(60) DEF OperatorStep, Early, Probing
  <2>2. pc'[o] \in Replacing => job'[o].kind = "install" /\ at'[o] = Primary
    <3>1. Bootout(o) /\ pc'[o] = "enable" => job[o].kind = "install" /\ at[o] = Primary
      <4>1. pc \in [Operator -> Step]
        BY DEF IInv, TypeOK
      <4> QED
        BY <4>1 DEF Bootout, Goto, Report, Replaces
    <3> QED
      BY <1>0, <1>3, <3>1, Steps, OwnMoves DEF OperatorStep, Replacing
  <2>3. pc'[o] = "paths" => ~(job'[o].kind = "install" /\ at'[o] = Primary)
    <3>1. Bootout(o) /\ pc'[o] = "paths" => ~(job[o].kind = "install" /\ at[o] = Primary)
      <4>1. pc \in [Operator -> Step]
        BY DEF IInv, TypeOK
      <4> QED
        BY <4>1 DEF Bootout, Goto, Report, Replaces
    <3> QED
      BY <1>0, <1>3, <3>1, Steps, OwnMoves DEF OperatorStep
  <2>4. pc'[o] = "drain?" => Primary \notin todo'[o]
    <3>1. DrainNext(o) => Primary \notin todo'[o]
      <4>1. todo \in [Operator -> SUBSET Label]
        BY DEF IInv, TypeOK
      <4> QED
        BY <4>1 DEF DrainNext, First
    <3> QED
      BY <1>3, <3>1, Steps DEF OperatorStep
  <2>5. pc'[o] \in Asking \cup {"drain", "renew", "renew?"} => ~job'[o].override
    <3>1. Begin(o) /\ pc'[o] = "drain" => ~job'[o].override
      <4>1. pc \in [Operator -> Step] /\ job \in [Operator -> Job]
        BY DEF IInv, TypeOK
      <4> QED
        BY <4>1 DEF Begin, Goto
    <3> QED
      BY <1>0, <1>3, <3>1, Steps, OwnMoves, ProbeIs, ZenonT(60) DEF OperatorStep, Asking
  <2>6. pc'[o] \in {"renew", "renew?"} => guard'[o][at'[o]].token # None
    <3>1. ProbeNext(o) /\ pc'[o] = "renew" => guard'[o][at'[o]].token # None
      BY ProbeIs DEF Held
    <3>2. Probed(o) /\ pc'[o] = "renew" => guard'[o][at[o]].token # None
      <4> SUFFICES ASSUME Probed(o), pc'[o] = "renew" PROVE guard'[o][at[o]].token # None
        OBVIOUS
      <4>1. pc \in [Operator -> Step] /\ reply[o] \in Answer /\ guard \in [Operator -> [Label -> Lease]]
        BY DEF IInv, TypeOK
      <4>2. pc[o] = "probe?" /\ reply[o].kind = "ok"
        BY <4>1 DEF Probed, Goto, Report, Answer
      <4>3. reply[o].token \in mine[o]
        BY <4>2 DEF IInv, CallInv, Asking
      <4>4. reply[o].token # None
        BY <4>3, InstallAssumption DEF IInv, TypeOK
      <4>5. guard'[o][at[o]] = [token |-> reply[o].token, left |-> TTL]
        BY <1>1, <4>1, <4>2 DEF Probed
      <4> QED
        BY <4>4, <4>5
    <3>3. Renew(o) => guard' = guard
      BY DEF Renew, flowVars
    <3> QED
      BY <1>0, <1>3, <3>1, <3>2, <3>3, Steps, OwnMoves DEF OperatorStep
  <2> QED
    BY <2>1, <2>2, <2>3, <2>4, <2>5, <2>6
<1> QED
  BY <1>2, <1>3

-----------------------------------------------------------------------------
(* Calls *)

\* Who starts to ask for a lease has no answer yet.
LEMMA AskingStarts ==
  ASSUME IInv, NEW o \in Operator, Begin(o) \/ OperatorStep(o), pc'[o] \in Asking
  PROVE  /\ reply'[o].kind # "ok" /\ guard' = guard
         /\ DrainNext(o) \/ (ProbeNext(o) /\ ~Held(o, at'[o]))
<1>0. TypeOK
  BY DEF IInv
<1>1. DrainNext(o) \/ (ProbeNext(o) /\ pc'[o] = "probe?")
  BY Steps DEF OperatorStep, Asking
<1>2. ASSUME NEW l \in Label, Call(o, l, "drain", None) PROVE reply'[o].kind # "ok"
  BY <1>0, <1>2, CallIs, Answers
<1>3. CASE DrainNext(o)
  <2>1. PICK l \in First(todo[o]) : Call(o, l, "drain", None)
    BY <1>3 DEF DrainNext
  <2>2. l \in Label
    BY <1>0, <2>1 DEF First, TypeOK
  <2>3. guard' = guard
    BY <1>3 DEF DrainNext
  <2> QED
    BY <1>2, <1>3, <2>1, <2>2, <2>3
<1>4. CASE ProbeNext(o) /\ pc'[o] = "probe?"
  <2>1. ~job[o].override /\ ~Held(o, at'[o]) /\ guard' = guard
    BY <1>4, ProbeIs
  <2>2. PICK l \in Last(todo[o]) : at' = [at EXCEPT ![o] = l] /\ (Held(o, l) \/ Call(o, l, "drain", None))
    BY <1>4, <2>1 DEF ProbeNext
  <2>3. l \in Label /\ at'[o] = l
    BY <1>0, <2>2 DEF Last, TypeOK
  <2> QED
    BY <1>2, <1>4, <2>1, <2>2, <2>3
<1> QED
  BY <1>1, <1>3, <1>4

\* The answer of an operator that does not act changes only when one is due.
LEMMA ReplyStill ==
  ASSUME IInv, [Next]_vars, NEW p \in Operator, ~(Begin(p) \/ OperatorStep(p))
  PROVE  \/ reply'[p] = reply[p]
         \/ reply[p].kind = "none" /\ reply'[p] = Say("error") /\ \E m \in inbox : m.from = p /\ m \notin inbox'
         \/ reply[p].kind = "none" /\ \E m \in inbox : m.from = p /\ m \notin inbox' /\ (Serve(m) \/ TimeOut(m))
<1>0. p # None
  BY InstallAssumption
<1>1. \A m \in inbox : m.from = p => reply[p].kind = "none"
  BY <1>0 DEF IInv, CallInv
<1>2. ASSUME NEW o \in Operator, Begin(o) \/ OperatorStep(o)
      PROVE  \/ reply'[p] = reply[p]
             \/ reply'[p] = Say("error") /\ \E m \in inbox : m.from = p /\ m \notin inbox'
  <2>1. p # o
    BY <1>2
  <2> QED
    BY <1>2, <2>1, OperatorOthers
<1>3. ASSUME NEW m \in inbox, Serve(m) \/ TimeOut(m), m.from = p PROVE m \notin inbox'
  <2>1. m \in Message
    BY DEF IInv, TypeOK
  <2>2. [m EXCEPT !.from = None].from = None
    BY <2>1, GivenUp
  <2>3. m # [m EXCEPT !.from = None]
    BY <1>0, <1>3, <2>2
  <2> QED
    BY <1>3, <2>3, ServeKeeps
<1>4. ASSUME NEW m \in inbox, Serve(m) \/ TimeOut(m), m.from # p PROVE reply'[p] = reply[p]
  BY <1>4, ServeKeeps
<1>5. CASE Rest
  BY <1>1, <1>5, RestKeeps
<1> QED
  BY <1>1, <1>2, <1>3, <1>4, <1>5, Kinds

\* Requests in the inbox are old, sent by the operator that acts, or given up.
LEMMA InboxMoves ==
  ASSUME IInv, [Next]_vars, NEW m \in inbox'
  PROVE  \/ m \in inbox
         \/ \E o \in Operator : (Begin(o) \/ OperatorStep(o)) /\ m.from = o
         \/ \E n \in inbox : TimeOut(n) /\ m = [n EXCEPT !.from = None] /\ m.from = None
<1>1. ASSUME NEW o \in Operator, Begin(o) \/ OperatorStep(o), m \notin inbox PROVE m.from = o
  BY <1>1, OperatorSends
<1>2. ASSUME NEW n \in inbox, Serve(n) \/ TimeOut(n), m \notin inbox
      PROVE  TimeOut(n) /\ m = [n EXCEPT !.from = None] /\ m.from = None
  <2>1. n \in Message
    BY DEF IInv, TypeOK
  <2>2. m = [n EXCEPT !.from = None]
    BY <1>2, ServeKeeps
  <2>3. ~Serve(n)
    BY <1>2 DEF Serve, ServeDrain, ServeRenew, ServeUndrain, ServeError, Deliver
  <2> QED
    BY <1>2, <2>1, <2>2, <2>3, GivenUp
<1>3. CASE Rest
  BY <1>3, RestKeeps
<1> QED
  BY <1>1, <1>2, <1>3, Kinds

\* Calls stay matched with their senders.
LEMMA CallStep == IInv /\ [Next]_vars => CallInv'
<1> SUFFICES ASSUME IInv, [Next]_vars PROVE CallInv'
  OBVIOUS
<1>0. CallInv /\ TypeOK
  BY DEF IInv
<1>1. ASSUME NEW m \in inbox', m.from # None
      PROVE  /\ reply'[m.from].kind = "none"
             /\ m.action = "drain" => pc'[m.from] \in Asking /\ m.label = at'[m.from]
             /\ m.action = "renew" => /\ pc'[m.from] = "renew?" /\ m.label = at'[m.from]
                                      /\ m.token = guard'[m.from][m.label].token
             /\ m.action = "undrain" => pc'[m.from] \in {"undrain?", "release?"}
  <2>1. CASE m \in inbox
    <3>1. m.from \in Operator /\ m.label \in Label
      BY <1>0, <1>1, <2>1 DEF TypeOK, Message
    <3>2. ~(Begin(m.from) \/ OperatorStep(m.from))
      BY <2>1, <3>1, OperatorAlone
    <3>3. \A n \in inbox : n.from = m.from => n = m
      BY <1>0, <1>1, <2>1 DEF CallInv
    <3>4. reply'[m.from] = reply[m.from]
      BY <1>1, <3>1, <3>2, <3>3, ReplyStill
    <3>5. /\ pc'[m.from] = pc[m.from] /\ at'[m.from] = at[m.from]
          /\ guard'[m.from][m.label].token = guard[m.from][m.label].token
      BY <3>1, <3>2, Still
    <3> QED
      BY <1>0, <1>1, <2>1, <3>4, <3>5 DEF CallInv
  <2>2. ASSUME NEW o \in Operator, Begin(o) \/ OperatorStep(o), m.from = o, m \notin inbox
        PROVE  /\ reply'[o].kind = "none"
               /\ m.action = "drain" => pc'[o] \in Asking /\ m.label = at'[o]
               /\ m.action = "renew" => /\ pc'[o] = "renew?" /\ m.label = at'[o]
                                        /\ m.token = guard'[o][m.label].token
               /\ m.action = "undrain" => pc'[o] \in {"undrain?", "release?"}
    <3>1. Renew(o) => guard' = guard /\ at' = at
      BY DEF Renew, flowVars
    <3>2. ProbeNext(o) /\ ~job[o].override /\ ~Held(o, at'[o]) => pc'[o] = "probe?"
      BY ProbeIs
    <3> QED
      BY <2>2, <3>1, <3>2, OperatorSends, Steps DEF Asking
  <2> QED
    BY <1>1, <2>1, <2>2, InboxMoves
<1>2. ASSUME NEW m \in inbox', NEW n \in inbox', m.from = n.from, m.from # None PROVE m = n
  <2>1. CASE m \in inbox /\ n \in inbox
    BY <1>0, <1>2, <2>1 DEF CallInv
  <2>2. ASSUME NEW o \in Operator, Begin(o) \/ OperatorStep(o), m.from = o PROVE m = n
    <3>1. ~\E k \in inbox : k.from = o
      BY <2>2, OperatorAlone
    <3>2. m \notin inbox /\ n \notin inbox
      BY <1>2, <2>2, <3>1
    <3>3. inbox' = inbox \cup {m}
      BY <2>2, <3>2, OperatorSends
    <3> QED
      BY <3>2, <3>3
  <2> QED
    BY <1>2, <2>1, <2>2, InboxMoves
<1>3. ASSUME NEW o \in Operator, pc'[o] \in Asking, reply'[o].kind = "ok"
      PROVE  at'[o] = Primary /\ reply'[o].token \in mine'[o]
  <2>1. ~(Begin(o) \/ OperatorStep(o))
    BY <1>3, AskingStarts
  <2>2. pc[o] \in Asking /\ at'[o] = at[o]
    BY <1>3, <2>1, Still
  <2>3. CASE reply'[o] = reply[o]
    <3>1. at[o] = Primary /\ reply[o].token \in mine[o]
      BY <1>0, <1>3, <2>2, <2>3 DEF CallInv
    <3>2. mine[o] \subseteq mine'[o]
      BY TokenMoves
    <3> QED
      BY <2>2, <2>3, <3>1, <3>2
  <2>4. ASSUME NEW m \in inbox, m.from = o, Serve(m) \/ TimeOut(m)
        PROVE  at'[o] = Primary /\ reply'[o].token \in mine'[o]
    <3>0. m.from # None /\ m.action \in {"drain", "renew", "undrain"} /\ reply \in [Operator -> Answer]
      BY <1>0, <2>4, InstallAssumption DEF TypeOK, Message
    <3>1. m.action = "drain"
      BY <1>0, <2>2, <2>4, <3>0 DEF CallInv, Asking
    <3>2. ServeDrain(m)
      BY <1>3, <2>4, <3>0, <3>1, Answers DEF Serve, ServeRenew, ServeUndrain, ServeError, TimeOut, Deliver
    <3>3. PICK t \in Token \ issued :
            /\ reply'[o] = [kind |-> "ok", token |-> t] /\ mine'[o] = mine[o] \cup {t} /\ at[o] = Primary
      BY <2>4, <3>2, GrantIs
    <3> QED
      BY <2>2, <3>3
  <2>5. reply'[o] # Say("error")
    BY <1>3, Answers
  <2> QED
    BY <2>1, <2>3, <2>4, <2>5, ReplyStill
<1> QED
  BY <1>1, <1>2, <1>3 DEF CallInv

-----------------------------------------------------------------------------
(* What an installer holds *)

\* The tokens of an operator that does not act: one is added when the daemon serves its drain.
LEMMA MineStill ==
  ASSUME IInv, [Next]_vars, NEW o \in Operator
  PROVE  \/ mine'[o] = mine[o]
         \/ /\ pc[o] \in Asking /\ at[o] = Primary /\ reply[o].kind = "none" /\ ~(Begin(o) \/ OperatorStep(o))
            /\ \E t \in Token : /\ mine'[o] = mine[o] \cup {t} /\ reply'[o] = [kind |-> "ok", token |-> t]
                                /\ lease'[Primary] = [token |-> t, left |-> TTL] /\ t \notin issued
<1>1. CASE mine' = mine
  BY <1>1
<1>2. ASSUME NEW m \in inbox, ServeDrain(m), m.from # o PROVE mine'[o] = mine[o]
  BY <1>2, GrantIs
<1>3. ASSUME NEW m \in inbox, ServeDrain(m), m.from = o
      PROVE  /\ pc[o] \in Asking /\ at[o] = Primary /\ reply[o].kind = "none" /\ ~(Begin(o) \/ OperatorStep(o))
             /\ \E t \in Token : /\ mine'[o] = mine[o] \cup {t} /\ reply'[o] = [kind |-> "ok", token |-> t]
                                 /\ lease'[Primary] = [token |-> t, left |-> TTL] /\ t \notin issued
  <2>1. ~(Begin(o) \/ OperatorStep(o))
    BY <1>3, OperatorAlone
  <2> QED
    BY <1>3, <2>1, GrantIs
<1> QED
  BY <1>1, <1>2, <1>3, TokenMoves

\* An installer keeps track of its token.
LEMMA MineStep == IInv /\ [Next]_vars => MineInv'
<1> SUFFICES ASSUME IInv, [Next]_vars, NEW o \in Operator
             PROVE  /\ job'[o].override \/ pc'[o] = "idle" \/ (pc'[o] = "drain" /\ Primary \in todo'[o])
                         => mine'[o] = {}
                    /\ pc'[o] \in Asking /\ at'[o] = Primary => guard'[o][Primary].token = None
                    /\ job'[o].kind = "install" /\ pc'[o] \notin Tail \cup {"status"} =>
                         \A t \in mine'[o] : \/ t = guard'[o][Primary].token
                                             \/ pc'[o] \in Asking /\ reply'[o] = [kind |-> "ok", token |-> t]
  BY DEF MineInv, Own
<1>0. /\ job[o].override \/ pc[o] = "idle" \/ (pc[o] = "drain" /\ Primary \in todo[o]) => mine[o] = {}
      /\ pc[o] \in Asking /\ at[o] = Primary => guard[o][Primary].token = None
      /\ job[o].kind = "install" /\ pc[o] \notin Tail \cup {"status"} =>
           \A t \in mine[o] : \/ t = guard[o][Primary].token
                              \/ pc[o] \in Asking /\ reply[o] = [kind |-> "ok", token |-> t]
  BY DEF IInv, MineInv, Own
<1>1. Primary \in Label /\ mine[o] \subseteq Token /\ guard[o][Primary].token \in mine[o] \cup {None}
  BY DEF Label, IInv, TypeOK, TokenInv, Own
<1>2. /\ pc[o] \in Asking => ~job[o].override
      /\ pc[o] = "drain?" => Primary \notin todo[o]
      /\ pc[o] \in Asking /\ reply[o].kind = "ok" => at[o] = Primary
  BY DEF IInv, FlowInv, CallInv
<1>3. CASE Begin(o) \/ OperatorStep(o)
  <2>1. mine'[o] = mine[o]
    BY <1>3, OperatorAlone
  <2>2. Begin(o) => mine[o] = {}
    BY <1>0 DEF Begin
  <2>3. job'[o].override \/ pc'[o] = "idle" \/ (pc'[o] = "drain" /\ Primary \in todo'[o]) => mine'[o] = {}
    BY <1>0, <1>2, <1>3, <2>1, <2>2, Steps, OwnMoves DEF OperatorStep
  <2>4. pc'[o] \in Asking /\ at'[o] = Primary => guard'[o][Primary].token = None
    <3> SUFFICES ASSUME pc'[o] \in Asking, at'[o] = Primary PROVE guard'[o][Primary].token = None
      OBVIOUS
    <3>1. CASE ProbeNext(o) /\ ~Held(o, at'[o])
      BY <1>3, <3>1, AskingStarts DEF Held
    <3>2. CASE DrainNext(o)
      <4>1. todo \in [Operator -> SUBSET Label] /\ at \in [Operator -> Label]
        BY DEF IInv, TypeOK
      <4>2. Primary \in First(todo[o])
        BY <3>2, <4>1 DEF DrainNext
      <4>3. Primary \in todo[o] /\ pc[o] = "drain"
        BY <3>2, <4>2 DEF First, DrainNext
      <4>4. guard' = guard
        BY <1>3, AskingStarts
      <4> QED
        BY <1>0, <1>1, <4>3, <4>4
    <3> QED
      BY <1>3, <3>1, <3>2, AskingStarts
  <2>5. ASSUME job'[o].kind = "install", pc'[o] \notin Tail \cup {"status"}, NEW t \in mine'[o]
        PROVE  t = guard'[o][Primary].token
    <3>1. t \in mine[o] /\ t # None /\ ~Begin(o)
      BY <1>1, <2>1, <2>2, <2>5, InstallAssumption
    <3>2. job[o].kind = "install"
      BY <1>3, <2>5, <3>1, OwnMoves
    <3>3. pc[o] \notin Tail \cup {"status"}
      BY <1>3, <2>5, Steps DEF OperatorStep, Tail
    <3>4. CASE t = guard[o][Primary].token
      <4>1. ~(pc[o] \in Asking /\ at[o] = Primary)
        BY <1>0, <3>1, <3>4
      <4>2. ~(~Replaces(o) /\ Primary = at[o])
        BY <3>2 DEF Replaces
      <4>3. ~Undrained(o) /\ pc'[o] \notin {"release?", "done"}
        BY <2>5, Steps DEF Tail
      <4>4. [token |-> guard[o][Primary].token, left |-> TTL].token = guard[o][Primary].token
        OBVIOUS
      <4> QED
        BY <1>1, <1>3, <3>4, <4>1, <4>2, <4>3, <4>4, GuardMoves
    <3>5. CASE pc[o] \in Asking /\ reply[o] = [kind |-> "ok", token |-> t]
      <4>1. Drained(o) \/ Probed(o)
        BY <1>3, <3>5, Steps DEF OperatorStep, Asking
      <4>2. reply[o].kind = "ok" /\ reply[o].token = t /\ at[o] = Primary
        BY <1>2, <3>5
      <4>3. guard' = [guard EXCEPT ![o][at[o]] = [token |-> reply[o].token, left |-> TTL]]
        BY <4>1, <4>2 DEF Drained, Probed
      <4>4. guard'[o][Primary] = [token |-> t, left |-> TTL]
        BY <1>1, <4>2, <4>3 DEF IInv, TypeOK
      <4> QED
        BY <4>4
    <3> QED
      BY <1>0, <3>1, <3>2, <3>3, <3>4, <3>5
  <2> QED
    BY <2>3, <2>4, <2>5
<1>4. CASE ~(Begin(o) \/ OperatorStep(o))
  <2>1. /\ pc'[o] = pc[o] /\ job'[o] = job[o] /\ todo'[o] = todo[o] /\ at'[o] = at[o]
        /\ guard'[o][Primary].token = guard[o][Primary].token
    BY <1>1, <1>4, Still
  <2>2. reply'[o] = reply[o] \/ reply[o].kind = "none"
    BY <1>4, ReplyStill
  <2>3. \A t : [kind |-> "ok", token |-> t].kind # "none"
    OBVIOUS
  <2>4. CASE mine'[o] = mine[o]
    BY <1>0, <2>1, <2>2, <2>3, <2>4
  <2>5. ASSUME pc[o] \in Asking, reply[o].kind = "none", NEW t \in Token, mine'[o] = mine[o] \cup {t},
               reply'[o] = [kind |-> "ok", token |-> t]
        PROVE  \A u \in mine'[o] : \/ job[o].kind # "install" \/ u = guard'[o][Primary].token
                                   \/ pc'[o] \in Asking /\ reply'[o] = [kind |-> "ok", token |-> u]
    <3>1. pc[o] \notin Tail \cup {"status"}
      BY <2>5 DEF Asking, Tail
    <3>2. ASSUME NEW u \in mine[o], job[o].kind = "install"
          PROVE  u = guard[o][Primary].token
      <4>1. \/ u = guard[o][Primary].token
            \/ reply[o] = [kind |-> "ok", token |-> u]
        BY <1>0, <3>1, <3>2
      <4> QED
        BY <2>3, <2>5, <4>1
    <3>3. pc'[o] \in Asking /\ guard'[o][Primary].token = guard[o][Primary].token
      BY <2>1, <2>5
    <3> QED
      BY <2>5, <3>2, <3>3
  <2>6. CASE mine'[o] # mine[o]
    <3>1. pc[o] \in Asking
      BY <2>6, MineStill
    <3>2. ~(job[o].override \/ pc[o] = "idle" \/ pc[o] = "drain")
      BY <1>2, <3>1 DEF Asking
    <3> QED
      BY <1>0, <2>1, <2>5, <2>6, <3>2, MineStill
  <2> QED
    BY <2>4, <2>6
<1> QED
  BY <1>3, <1>4

\* An installer that is ahead of its own requests stays so.
LEMMA StaleStep == IInv /\ [Next]_vars => StaleInv'
<1> SUFFICES ASSUME IInv, [Next]_vars, NEW m \in inbox', NEW o \in Operator, m.token \in mine'[o]
             PROVE  /\ m.action = "renew" => \/ pc'[o] = "renew?" /\ (m.from = o \/ reply'[o].kind = "error")
                                             \/ pc'[o] \in Tail /\ ~forgot'[o]
                    /\ m.action = "undrain" => pc'[o] \in {"undrain?", "status"} \cup Tail
  BY DEF StaleInv
<1>0. TypeOK /\ TokenInv
  BY DEF IInv
<1>1. ASSUME NEW n \in inbox, n.token \in mine[o]
      PROVE  /\ n.action = "renew" => \/ pc[o] = "renew?" /\ (n.from = o \/ reply[o].kind = "error")
                                      \/ pc[o] \in Tail /\ ~forgot[o]
             /\ n.action = "undrain" => pc[o] \in {"undrain?", "status"} \cup Tail
  BY <1>1 DEF IInv, StaleInv
<1>2. ASSUME NEW n \in inbox, n.token \in mine'[o] PROVE n.token \in mine[o]
  <2>1. n.token \in issued \cup {None} /\ None \notin Token
    BY <1>0, InstallAssumption DEF TokenInv
  <2> QED
    BY <1>2, <2>1, MineStill, ZenonT(60)
<1>3. CASE m \in inbox
  <2>1. CASE Begin(o) \/ OperatorStep(o)
    <3>1. m.from # o
      BY <1>3, <2>1, OperatorAlone
    <3>2. pc[o] = "renew?" => ~forgot[o]
      BY DEF IInv, FlowInv, Probing
    <3>3. pc \in [Operator -> Step]
      BY <1>0 DEF TypeOK
    <3>4. Renewed(o) /\ reply[o].kind = "error" => pc'[o] = "release"
      BY <3>3 DEF Renewed, Goto, Report
    <3>5. forgot'[o] = forgot[o] \/ ProbeNext(o) \/ Bootout(o)
      BY <2>1, OwnMoves
    <3>6. m.action = "renew" => pc'[o] \in Tail /\ ~forgot'[o]
      BY <1>1, <1>2, <1>3, <2>1, <3>1, <3>2, <3>4, <3>5, Steps DEF OperatorStep, Tail
    <3>7. m.action = "undrain" => pc'[o] \in {"undrain?", "status"} \cup Tail
      BY <1>1, <1>2, <1>3, <2>1, Steps DEF OperatorStep, Tail
    <3> QED
      BY <3>6, <3>7
  <2>2. CASE ~(Begin(o) \/ OperatorStep(o))
    <3>1. pc'[o] = pc[o] /\ forgot'[o] = forgot[o]
      BY <2>2, Still
    <3>2. reply'[o] = reply[o] \/ reply[o].kind = "none"
      BY <2>2, ReplyStill
    <3> QED
      BY <1>1, <1>2, <1>3, <3>1, <3>2
  <2> QED
    BY <2>1, <2>2
<1>4. ASSUME NEW q \in Operator, Begin(q) \/ OperatorStep(q), m \notin inbox
      PROVE  /\ m.action = "renew" => pc'[o] = "renew?" /\ m.from = o
             /\ m.action = "undrain" => pc'[o] \in {"undrain?", "status"} \cup Tail
  <2>1. m.token \in mine[o] /\ m.token # None
    <3>1. mine'[o] = mine[o]
      BY <1>4, OperatorAlone
    <3> QED
      BY <1>0, <3>1, InstallAssumption DEF TypeOK
  <2>2. \A l \in Label : guard[q][l].token \in mine[q] \cup {None}
    BY <1>0, Values DEF TokenInv, Label, Own
  <2>3. at[q] \in Label /\ Primary \in Label /\ ToRelease(q) \subseteq Label
    BY <1>0 DEF TypeOK, Label, ToRelease
  <2>4. CASE m.action = "renew"
    <3>1. Renew(q) /\ m.from = q /\ m.token = guard[q][at[q]].token
      BY <1>4, <2>4, OperatorSends
    <3>2. q = o
      BY <1>0, <2>1, <2>2, <2>3, <3>1 DEF TokenInv
    <3> QED
      BY <2>4, <3>1, <3>2, Steps
  <2>5. CASE m.action = "undrain"
    <3>1. Undrain(q) \/ ReleaseNext(q)
      BY <1>4, <2>5, OperatorSends
    <3>2. m.token \in mine[q] \cup {None}
      BY <1>4, <2>2, <2>3, <2>5, OperatorSends DEF Own
    <3>3. q = o
      BY <1>0, <2>1, <3>2 DEF TokenInv
    <3> QED
      BY <2>5, <3>1, <3>3, Steps DEF Tail
  <2> QED
    BY <2>4, <2>5
<1>5. ASSUME NEW n \in inbox, TimeOut(n), m = [n EXCEPT !.from = None]
      PROVE  /\ m.action = "renew" => \/ pc'[o] = "renew?" /\ reply'[o].kind = "error"
                                      \/ pc'[o] \in Tail /\ ~forgot'[o]
             /\ m.action = "undrain" => pc'[o] \in {"undrain?", "status"} \cup Tail
  <2>1. n \in Message
    BY <1>0 DEF TypeOK
  <2>2. m.token = n.token /\ m.action = n.action
    BY <1>5, <2>1, GivenUp
  <2>3. n.token \in mine[o]
    BY <1>2, <2>2
  <2>4. pc' = pc /\ forgot' = forgot /\ (n.from # o => reply'[o] = reply[o])
    BY <1>5, ServeKeeps
  <2>5. n.from = o => reply'[o] = Say("error")
    BY <1>0, <1>5 DEF TimeOut, TypeOK
  <2> QED
    BY <1>1, <2>2, <2>3, <2>4, <2>5, Answers
<1> QED
  BY <1>3, <1>4, <1>5, InboxMoves

\* What an installer says of a lease it leaves behind.
LEMMA WarnStep == IInv /\ [Next]_vars => WarnInv'
<1> SUFFICES ASSUME IInv, [Next]_vars, NEW o \in Operator,
                    lease'[Primary].left > 0, lease'[Primary].token \in mine'[o],
                    job'[o].kind = "install", at'[o] = Primary
             PROVE  /\ pc'[o] \in {"bootout", "enable", "ready", "undrain", "undrain?"} =>
                         guard'[o][Primary].left >= lease'[Primary].left
                    /\ pc'[o] = "undrain?" => reply'[o].kind # "ok"
                    /\ pc'[o] # "status"
                    /\ pc'[o] \in Tail /\ forgot'[o] =>
                         result'[o].kind = "warned" /\ result'[o].left >= lease'[Primary].left
  BY DEF WarnInv, Owns, Live, Replaces, Own
<1>0. TypeOK /\ TokenInv /\ MineInv /\ FlowInv /\ CallInv
  BY DEF IInv
<1>1. ASSUME Live(Primary), lease[Primary].token \in mine[o], job[o].kind = "install", at[o] = Primary
      PROVE  /\ pc[o] \in {"bootout", "enable", "ready", "undrain", "undrain?"} =>
                  guard[o][Primary].left >= lease[Primary].left
             /\ pc[o] = "undrain?" => reply[o].kind # "ok"
             /\ pc[o] # "status"
             /\ pc[o] \in Tail /\ forgot[o] =>
                  result[o].kind = "warned" /\ result[o].left >= lease[Primary].left
  BY <1>1 DEF IInv, WarnInv, Owns, Replaces, Own
<1>2. Primary \in Label /\ lease[Primary] \in Lease /\ guard[o][Primary] \in Lease /\ result[o] \in Outcome
  BY <1>0 DEF TypeOK, Label
<1>3. lease[Primary].left \in 0..TTL /\ guard[o][Primary].left \in 0..TTL /\ result[o].left \in 0..TTL
  BY <1>2, Values DEF Outcome
<1>4. CASE mine'[o] # mine[o]
  <2>1. pc[o] \in Asking /\ pc'[o] = pc[o]
    BY <1>4, MineStill, Still
  <2> QED
    BY <2>1 DEF Asking, Tail
<1>5. ASSUME NEW m \in inbox, ServeRenew(m), m.token = lease[Primary].token, mine'[o] = mine[o],
             lease'[Primary] = [token |-> m.token, left |-> TTL]
      PROVE  pc'[o] = "renew?" \/ (pc'[o] \in Tail /\ ~forgot'[o])
  <2>1. m.token \in mine[o] /\ m.action = "renew"
    BY <1>5 DEF ServeRenew
  <2>2. pc[o] = "renew?" \/ (pc[o] \in Tail /\ ~forgot[o])
    BY <2>1 DEF IInv, StaleInv
  <2>3. pc' = pc /\ forgot' = forgot
    BY <1>5, ServeKeeps DEF Serve
  <2> QED
    BY <2>2, <2>3
<1>6. CASE Tick /\ mine'[o] = mine[o]
  <2>1. lease'[Primary] = Elapse(lease[Primary])
    BY <1>2, <1>6 DEF Tick
  <2>2. /\ lease'[Primary].token = lease[Primary].token /\ lease'[Primary].left = Less(lease[Primary].left)
        /\ Live(Primary)
    BY <1>2, <1>3, <2>1, Values, LessIs DEF Live
  <2>3. /\ pc' = pc /\ job' = job /\ at' = at /\ forgot' = forgot /\ reply' = reply
        /\ guard'[o][Primary] = Elapse(guard[o][Primary]) /\ result'[o] = Later(result[o])
    BY <1>2, <1>6 DEF Tick, rpcVars
  <2>4. /\ guard'[o][Primary].left = Less(guard[o][Primary].left)
        /\ result'[o].left = Less(result[o].left) /\ result'[o].kind = result[o].kind
    BY <1>2, <2>3, Values
  <2>5. /\ guard[o][Primary].left >= lease[Primary].left => Less(guard[o][Primary].left) >= Less(lease[Primary].left)
        /\ result[o].left >= lease[Primary].left => Less(result[o].left) >= Less(lease[Primary].left)
    BY <1>3, LessIs
  <2> QED
    BY <1>1, <1>6, <2>2, <2>3, <2>4, <2>5
<1>7. CASE ~Tick /\ mine'[o] = mine[o] /\ lease'[Primary] = lease[Primary] /\ ~(Begin(o) \/ OperatorStep(o))
  <2>1. /\ pc'[o] = pc[o] /\ job'[o] = job[o] /\ at'[o] = at[o] /\ forgot'[o] = forgot[o]
        /\ guard'[o] = guard[o] /\ result'[o] = result[o]
    BY <1>7, Still
  <2>2. pc'[o] = "undrain?" => reply'[o].kind # "ok"
    <3> SUFFICES ASSUME pc'[o] = "undrain?", reply'[o].kind = "ok" PROVE FALSE
      OBVIOUS
    <3>1. reply'[o] # reply[o] /\ reply'[o] # Say("error")
      BY <1>1, <1>7, <2>1, Answers DEF Live
    <3>2. PICK m \in inbox : m.from = o /\ (Serve(m) \/ TimeOut(m))
      BY <1>7, <3>1, ReplyStill
    <3>3. m.from # None /\ m.action \in {"drain", "renew", "undrain"} /\ m.label \in Label
          /\ reply \in [Operator -> Answer] /\ lease \in [Label -> Lease]
      BY <1>0, <3>2, InstallAssumption DEF TypeOK, Message
    <3>4. m.action = "undrain"
      BY <1>0, <2>1, <3>2, <3>3 DEF CallInv, Asking
    <3>5. ServeUndrain(m)
      BY <3>1, <3>2, <3>3, <3>4 DEF Serve, ServeDrain, ServeRenew, ServeError, TimeOut, Deliver
    <3>6. m.label = Primary
      BY <1>0, <3>3, <3>5, Values DEF ServeUndrain, Live, TokenInv, Label
    <3>7. lease'[Primary] = NoLease
      BY <3>3, <3>5, <3>6 DEF ServeUndrain
    <3> QED
      BY <3>7, Values
  <2> QED
    BY <1>1, <1>7, <2>1, <2>2 DEF Live
<1>8. CASE mine'[o] = mine[o] /\ lease'[Primary] = lease[Primary] /\ (Begin(o) \/ OperatorStep(o))
  <2>0. /\ Live(Primary) /\ lease[Primary].token \in mine[o] /\ lease[Primary].token # None
        /\ pc \in [Operator -> Step]
    BY <1>0, <1>8, InstallAssumption DEF Live, TypeOK
  <2>1. ~Begin(o) /\ ~job[o].override
    BY <1>0, <2>0 DEF MineInv, Begin
  <2>2. job[o].kind = "install"
    BY <1>8, <2>1, OwnMoves
  <2>3. pc[o] \notin Tail \cup Asking \cup {"status"} => guard[o][Primary].token = lease[Primary].token
    BY <1>0, <2>0, <2>2 DEF MineInv, Own
  <2>4. pc[o] \in {"enable", "ready", "undrain", "undrain?"} => Held(o, Primary)
    BY <2>0, <2>3 DEF Held, Tail, Asking
  <2>5. DrainNext(o) \/ ProbeNext(o) \/ at[o] = Primary
    BY <1>8, OwnMoves
  <2>6. pc'[o] \in {"bootout", "enable", "ready", "undrain", "undrain?"} =>
          guard'[o][Primary].left >= lease'[Primary].left
    <3>1. ~(ProbeNext(o) /\ pc'[o] = "bootout")
      BY <2>1, ProbeIs
    <3>2. ~(Probed(o) /\ pc'[o] = "bootout")
      <4> SUFFICES ASSUME Probed(o), pc'[o] = "bootout" PROVE FALSE
        OBVIOUS
      <4>1. pc[o] = "probe?" /\ reply[o].kind = "unavailable"
        BY <2>0 DEF Probed, Goto, Report
      <4>2. at[o] = Primary
        BY <2>5, <4>1, Steps
      <4>3. guard[o][Primary].token = None
        BY <1>0, <4>1, <4>2 DEF MineInv, Asking, Own
      <4>4. \/ lease[Primary].token = guard[o][Primary].token
            \/ reply[o] = [kind |-> "ok", token |-> lease[Primary].token]
        BY <1>0, <2>0, <2>2, <4>1 DEF MineInv, Own, Tail
      <4> QED
        BY <2>0, <4>1, <4>3, <4>4
    <3>3. Renewed(o) /\ pc'[o] = "bootout" => guard'[o][Primary].left >= lease'[Primary].left
      <4> SUFFICES ASSUME Renewed(o), pc'[o] = "bootout" PROVE guard'[o][Primary].left >= lease'[Primary].left
        OBVIOUS
      <4>1. at[o] = Primary /\ guard \in [Operator -> [Label -> Lease]]
        BY <1>0, <2>5, Steps DEF TypeOK
      <4>2. guard' = [guard EXCEPT ![o][Primary] = [token |-> guard[o][Primary].token, left |-> TTL]]
        BY <2>0, <4>1 DEF Renewed, Goto, Report
      <4>3. guard'[o][Primary].left = TTL
        BY <1>2, <4>1, <4>2
      <4> QED
        BY <1>3, <1>8, <4>3, InstallAssumption
    <3>4. Bootout(o) /\ pc'[o] = "enable" => guard' = guard
      BY <2>0 DEF Bootout, Goto, Report
    <3>5. Bootstrap(o) \/ Ready(o) \/ Undrain(o) => guard' = guard
      BY DEF Bootstrap, Ready, Undrain, flowVars
    <3> QED
      BY <1>1, <1>8, <2>0, <2>1, <2>2, <2>5, <3>1, <3>2, <3>3, <3>4, <3>5, Steps DEF OperatorStep
  <2>7. pc'[o] = "undrain?" => reply'[o].kind # "ok"
    <3> SUFFICES ASSUME Undrain(o) PROVE reply'[o].kind # "ok"
      BY <1>8, Steps DEF OperatorStep
    <3>1. Call(o, Primary, "undrain", guard[o][Primary].token) /\ guard[o][Primary].token \in Token \cup {None}
      BY <1>2, Values DEF Undrain
    <3> QED
      BY <1>0, <1>2, <3>1, CallIs, Answers
  <2>8. pc'[o] # "status"
    <3> SUFFICES ASSUME pc'[o] = "status" PROVE FALSE
      OBVIOUS
    <3>1. Ready(o) \/ Undrained(o)
      BY <1>8, Steps DEF OperatorStep
    <3>2. CASE Ready(o)
      BY <2>0, <2>4, <3>2 DEF Ready, Goto
    <3>3. CASE Undrained(o)
      <4>1. pc[o] = "undrain?" /\ reply[o].kind = "ok"
        BY <2>0, <3>3 DEF Undrained, Goto, Report, Warn
      <4> QED
        BY <1>1, <2>0, <2>2, <2>5, <4>1, Steps
    <3> QED
      BY <3>1, <3>2, <3>3
  <2>9. ASSUME pc'[o] \in Tail, forgot'[o]
        PROVE  result'[o].kind = "warned" /\ result'[o].left >= lease'[Primary].left
    <3>0. result \in [Operator -> Outcome]
      BY <1>0 DEF TypeOK
    <3>1. CASE ReleaseNext(o) \/ Released(o) \/ End(o)
      <4>1. result' = result
        BY <3>1 DEF ReleaseNext, Released, End, flowVars
      <4>2. pc[o] \in Tail /\ forgot[o] /\ at[o] = Primary
        BY <1>8, <2>5, <2>9, <3>1, OwnMoves, Steps DEF Tail
      <4> QED
        BY <1>1, <1>8, <2>0, <2>2, <4>1, <4>2
    <3>2. CASE BootstrapFails(o) \/ PingFails(o) \/ Undrained(o)
      <4>1. pc[o] \in {"enable", "ready", "undrain", "undrain?"} /\ at[o] = Primary /\ pc'[o] = "release"
        BY <1>1, <2>0, <2>2, <2>5, <2>9, <3>2, Steps DEF Tail
      <4>2. Held(o, Primary) /\ guard[o][Primary].left >= lease[Primary].left
        BY <1>1, <2>0, <2>2, <2>4, <4>1
      <4>3. Report(o, "warned", guard[o][Primary].left)
        BY <2>0, <3>2, <4>1, <4>2 DEF BootstrapFails, PingFails, Undrained, Warn, Goto
      <4> QED
        BY <1>8, <3>0, <4>2, <4>3 DEF Report
    <3>3. CASE Bootout(o)
      <4>1. forgot \in [Operator -> BOOLEAN]
        BY <1>0 DEF TypeOK
      <4>2. pc'[o] # "release"
        BY <2>0, <2>9, <3>3, <4>1 DEF Bootout, Goto, Report
      <4> QED
        BY <2>9, <3>3, <4>2, Steps DEF Tail
    <3>4. ~ParentRefused(o)
      BY <2>2 DEF ParentRefused
    <3>5. ~RemovePaths(o) /\ ~RemoveLegacyPaths(o)
      <4>1. pc[o] = "paths" => at[o] # Primary
        BY <1>0, <2>2 DEF FlowInv, Replaces
      <4> QED
        BY <2>5, <4>1, Steps
    <3>6. ~Status(o)
      BY <1>1, <2>0, <2>2, <2>5, Steps
    <3>7. pc[o] \in Early \cup Probing => ~forgot[o]
      BY <1>0 DEF FlowInv
    <3>8. CASE ~(ReleaseNext(o) \/ Released(o) \/ End(o) \/ BootstrapFails(o) \/ PingFails(o) \/ Undrained(o)
                 \/ Bootout(o))
      <4>1. Drained(o) \/ SudoRefused(o) \/ CopyFiles(o) \/ Verify(o) \/ Probed(o) \/ Renewed(o)
        BY <1>8, <2>1, <2>9, <3>4, <3>5, <3>6, <3>8, Steps DEF OperatorStep, Tail
      <4>2. pc[o] \in Early \cup Probing
        BY <4>1, Steps DEF Early, Probing
      <4>3. forgot'[o] = forgot[o]
        BY <4>1 DEF Drained, SudoRefused, CopyFiles, Verify, Probed, Renewed
      <4> QED
        BY <2>9, <3>7, <4>2, <4>3
    <3> QED
      BY <3>1, <3>2, <3>3, <3>8
  <2> QED
    BY <2>6, <2>7, <2>8, <2>9
<1>9. lease'[Primary] # NoLease
  BY Values
<1>10. ASSUME lease'[Primary] = Elapse(lease[Primary]), Tick PROVE mine'[o] = mine[o]
  BY <1>10 DEF Tick
<1>11. ASSUME NEW m \in inbox, ServeDrain(m), mine'[o] = mine[o] PROVE FALSE
  <2>1. PICK t \in Token \ issued : lease'[Primary] = [token |-> t, left |-> TTL]
    BY <1>11, GrantIs
  <2>2. t \in mine[o]
    BY <1>11, <2>1
  <2> QED
    BY <1>0, <2>1, <2>2 DEF TokenInv
<1> QED
  BY <1>2, <1>4, <1>5, <1>6, <1>7, <1>8, <1>9, <1>11, LeaseMoves DEF Tail

-----------------------------------------------------------------------------
(* Theorems *)

\* The invariant that the theorems below rest on.
THEOREM InvariantHolds == Spec => []IInv
<1>1. Init => IInv
  BY InitIInv
<1>2. IInv /\ [Next]_vars => IInv'
  BY TypeStep, ExclusionStep, TokenStep, CallStep, FlowStep, MineStep, StaleStep, WarnStep DEF IInv
<1> QED
  BY <1>1, <1>2, PTL DEF Spec

\* Every variable of the installers, the daemons and launchd has its type.
THEOREM TypeCorrect == Spec => []TypeOK
<1>1. IInv => TypeOK
  BY DEF IInv
<1> QED
  BY <1>1, InvariantHolds, PTL

\* An installer that replaced the primary service and leaves a lease of its own in force
\* ends with a warning whose expiry is not before the lease's, whatever other installers,
\* crashes, timeouts and late requests do.
THEOREM ReportsAreHonest == Spec => []HonestReport
<1>1. IInv => HonestReport
  BY DEF IInv, WarnInv, HonestReport, Owns, Tail
<1> QED
  BY <1>1, InvariantHolds, PTL

-----------------------------------------------------------------------------
(* The primary daemon implements MaintenanceLease *)

\* The mapping of one step, as a step of the abstract specification.
Mapped == Abstract!Next \/ UNCHANGED <<Holder, tunnel[Primary], Spent>>

\* Apart from a grant, a step leaves the lease with its holder or ends it.
LEMMA HolderMoves ==
  ASSUME IInv, [Next]_vars, \A m \in inbox : ~ServeDrain(m)
  PROVE  /\ issued' = issued
         /\ lease'[Primary].left > 0 => Live(Primary) /\ lease'[Primary].token = lease[Primary].token
<1>1. issued' = issued
  BY TokenMoves
<1>2. Primary \in Label /\ lease[Primary] \in Lease
  BY DEF IInv, TypeOK, Label
<1>3. \A t : [token |-> t, left |-> TTL].token = t
  OBVIOUS
<1>4. Less(lease[Primary].left) > 0 => lease[Primary].left > 0
  BY <1>2, LessIs, Values
<1>5. NoLease.left = 0 /\ ~(0 > 0)
  BY Values
<1>6. CASE lease'[Primary] = lease[Primary] \/ lease'[Primary] = NoLease
  BY <1>1, <1>5, <1>6 DEF Live
<1>7. CASE lease'[Primary] = Elapse(lease[Primary])
  BY <1>1, <1>2, <1>4, <1>7, Values DEF Live
<1>8. CASE Live(Primary) /\ lease'[Primary] = [token |-> lease[Primary].token, left |-> TTL]
  BY <1>1, <1>3, <1>8
<1> QED
  BY <1>2, <1>6, <1>7, <1>8, LeaseMoves

\* Every step is a step of MaintenanceLease, or none, under the mapping.
LEMMA MappedStep == IInv /\ [Next]_vars => Mapped
<1> SUFFICES ASSUME IInv, [Next]_vars PROVE Mapped
  OBVIOUS
<1>0. /\ Primary \in Label /\ tunnel \in [Label -> BOOLEAN] /\ tunnel' \in [Label -> BOOLEAN]
      /\ None \notin Token /\ issued \subseteq Token
      /\ Live(Primary) => lease[Primary].token \in issued
      /\ tunnel[Primary] => ~Live(Primary)
  BY TypeStep, InstallAssumption DEF IInv, TypeOK, TokenInv, ExclusionInv, Live, Label
<1>1. ASSUME NEW m \in inbox, ServeDrain(m) PROVE Mapped
  <2>1. m.label = Primary
    BY <1>1, GrantIs
  <2>2. ~Live(Primary) /\ ~tunnel[Primary] /\ tunnel' = tunnel
    BY <1>1, <2>1 DEF ServeDrain, serviceVars
  <2>3. PICK t \in Token \ issued : issued' = issued \cup {t} /\ lease'[Primary] = [token |-> t, left |-> TTL]
    BY <1>1, GrantIs
  <2>4. lease'[Primary].token = t /\ lease'[Primary].left > 0
    BY <2>3, Values
  <2>5. Holder = None /\ Holder' = t
    BY <2>2, <2>4 DEF Holder, Live
  <2>6. Spent = issued /\ Spent' = issued
    BY <2>2, <2>3, <2>4 DEF Spent, Live
  <2>7. Abstract!Grant(t)
    BY <2>2, <2>3, <2>5, <2>6 DEF Abstract!Grant
  <2> QED
    BY <2>7 DEF Mapped, Abstract!Next
<1>2. CASE \A m \in inbox : ~ServeDrain(m)
  <2>1. /\ issued' = issued
        /\ lease'[Primary].left > 0 => Live(Primary) /\ lease'[Primary].token = lease[Primary].token
    BY <1>2, HolderMoves
  <2>2. tunnel'[Primary] => tunnel[Primary] \/ (~Live(Primary) /\ lease' = lease)
    BY <1>0, TunnelMoves
  <2>3. CASE Live(Primary) /\ ~(lease'[Primary].left > 0)
    <3>1. tunnel[Primary] = FALSE /\ tunnel'[Primary] = FALSE
      BY <1>0, <2>2, <2>3
    <3>2. Holder = lease[Primary].token /\ Holder' = None /\ Holder # None
      BY <1>0, <2>3 DEF Holder, Live
    <3>3. Spent' = Spent \cup {Holder}
      BY <1>0, <2>1, <2>3, <3>2 DEF Spent, Live
    <3>4. Abstract!End
      BY <3>1, <3>2, <3>3 DEF Abstract!End
    <3> QED
      BY <3>4 DEF Mapped, Abstract!Next
  <2>4. CASE ~(Live(Primary) /\ ~(lease'[Primary].left > 0))
    <3>1. Holder' = Holder /\ Spent' = Spent
      BY <2>1, <2>4 DEF Holder, Spent, Live
    <3>2. CASE tunnel'[Primary] = tunnel[Primary]
      BY <3>1, <3>2 DEF Mapped
    <3>3. CASE tunnel'[Primary] = TRUE /\ ~tunnel[Primary]
      <4>1. Holder = None
        BY <2>2, <3>3 DEF Holder
      <4>2. Abstract!StartWork
        BY <3>1, <3>3, <4>1 DEF Abstract!StartWork
      <4> QED
        BY <4>2 DEF Mapped, Abstract!Next
    <3>4. CASE tunnel'[Primary] = FALSE
      <4>1. Abstract!EndWork
        BY <3>1, <3>4 DEF Abstract!EndWork
      <4> QED
        BY <4>1 DEF Mapped, Abstract!Next
    <3> QED
      BY <1>0, <3>2, <3>3, <3>4
  <2> QED
    BY <2>3, <2>4
<1> QED
  BY <1>1, <1>2

\* The primary service, with its files, runtime directory and launchd job replaced under
\* it by any number of installers, implements the exclusive, single-use lease.
THEOREM PrimaryIsALease == Spec => PrimaryImplementsLease
<1>1. Init => Abstract!Init
  <2> SUFFICES ASSUME Init PROVE Abstract!Init
    OBVIOUS
  <2>1. Primary \in Label /\ lease[Primary] = NoLease /\ tunnel[Primary] = FALSE
    BY DEF Init, Label
  <2>2. ~Live(Primary)
    BY <2>1, Values DEF Live
  <2> QED
    BY <2>1, <2>2 DEF Init, Abstract!Init, Holder, Spent
<1>2. IInv /\ [Next]_vars => [Abstract!Next]_(Abstract!vars)
  BY MappedStep DEF Mapped, Abstract!vars
<1> QED
  BY <1>1, <1>2, InvariantHolds, PTL DEF Spec, PrimaryImplementsLease, Abstract!Spec

-----------------------------------------------------------------------------
(* A bootout and the lease that was renewed for it *)

\* A lease that was renewed for a bootout is the primary service's, and was renewed
\* before this step or is renewed by it.
LEMMA RenewingMoves ==
  ASSUME IInv, [Next]_vars, NEW o \in Operator, Renewing(o)'
  PROVE  /\ at'[o] = Primary /\ at[o] = Primary
         /\ guard'[o][Primary].token = guard[o][Primary].token /\ guard[o][Primary].token \in mine[o]
         /\ \/ Renewing(o) /\ (cover'[o] = cover[o] \/ (Tick /\ cover'[o] = Elapse(cover[o])))
            \/ \E m \in inbox : /\ ServeRenew(m) /\ m.token = guard[o][Primary].token
                                /\ cover'[o] = [token |-> m.token, left |-> TTL]
                                /\ lease'[Primary] = [token |-> m.token, left |-> TTL] /\ saved'[Primary]
<1>0. TypeOK /\ TokenInv /\ CallInv /\ FlowInv /\ MineInv /\ TypeOK' /\ TokenInv'
  BY TypeStep, TokenStep DEF IInv
<1>1. /\ pc'[o] = "bootout" \/ (pc'[o] = "renew?" /\ reply'[o].kind = "ok")
      /\ ~job'[o].override /\ guard'[o][at'[o]].token # None
  BY DEF Renewing, Held
<1>2. Primary \in Label /\ at'[o] \in Label /\ at[o] \in Label
  BY <1>0 DEF TypeOK, Label
<1>3. at'[o] = Primary
  <2>1. \A l \in Legacy : guard'[o][l].token = None
    BY <1>0, Values DEF TokenInv
  <2> QED
    BY <1>1, <1>2, <2>1 DEF Label
<1>4. guard[o][Primary].token \in mine[o] \cup {None}
  BY <1>0 DEF TokenInv, Own
<1>5. CASE Begin(o) \/ OperatorStep(o)
  <2>1. ~Begin(o) /\ (ProbeNext(o) \/ Probed(o) \/ Renewed(o) \/ Renew(o))
    BY <1>1, <1>5, Steps DEF OperatorStep
  <2>2. ~ProbeNext(o)
    <3> SUFFICES ASSUME ProbeNext(o) PROVE FALSE
      OBVIOUS
    <3>1. pc'[o] = "bootout"
      BY <1>1, Steps
    <3> QED
      BY <1>1, <3>1, ProbeIs
  <2>3. ~Renew(o)
    <3> SUFFICES ASSUME Renew(o) PROVE FALSE
      OBVIOUS
    <3>1. Call(o, at[o], "renew", guard[o][at[o]].token) /\ guard[o][at[o]].token \in Token \cup {None}
      BY <1>0, <1>2, Values DEF Renew, TypeOK
    <3>2. reply'[o].kind # "ok"
      BY <1>0, <1>2, <3>1, CallIs, Answers
    <3> QED
      BY <1>1, <3>2, Steps
  <2>4. at[o] = Primary
    BY <1>3, <1>5, <2>1, <2>2, OwnMoves, Steps
  <2>5. pc \in [Operator -> Step] /\ guard \in [Operator -> [Label -> Lease]]
    BY <1>0 DEF TypeOK
  <2>6. ~Probed(o)
    <3> SUFFICES ASSUME Probed(o) PROVE FALSE
      OBVIOUS
    <3>1. pc[o] = "probe?" /\ pc'[o] = "bootout"
      BY <1>1, Steps
    <3>2. guard' = guard
      BY <2>5, <3>1 DEF Probed, Goto, Report
    <3>3. guard[o][Primary].token = None
      BY <1>0, <2>4, <3>1 DEF MineInv, Asking, Own
    <3> QED
      BY <1>1, <1>3, <3>2, <3>3
  <2>7. Renewed(o) /\ pc'[o] = "bootout" /\ pc[o] = "renew?" /\ reply[o].kind = "ok"
    <3>1. Renewed(o) /\ pc'[o] = "bootout" /\ pc[o] = "renew?"
      BY <1>1, <2>1, <2>2, <2>3, <2>6, Steps
    <3> QED
      BY <2>5, <3>1 DEF Renewed, Goto, Report
  <2>8. ~job[o].override /\ Held(o, at[o])
    BY <1>0, <2>7 DEF FlowInv
  <2>9. cover' = cover
    BY <2>7 DEF Renewed, leaseVars
  <2>10. guard'[o][Primary].token = guard[o][Primary].token
    <3>1. guard' = [guard EXCEPT ![o][Primary] = [token |-> guard[o][Primary].token, left |-> TTL]]
      BY <2>4, <2>5, <2>7 DEF Renewed
    <3> QED
      BY <1>2, <2>5, <3>1
  <2> QED
    BY <1>1, <1>3, <1>4, <2>4, <2>7, <2>8, <2>9, <2>10 DEF Renewing
<1>6. CASE ~(Begin(o) \/ OperatorStep(o))
  <2>1. /\ pc'[o] = pc[o] /\ job'[o] = job[o] /\ at'[o] = at[o]
        /\ guard'[o][Primary].token = guard[o][Primary].token
    BY <1>2, <1>6, Still
  <2>2. guard[o][Primary].token \in mine[o]
    BY <1>1, <1>3, <1>4, <2>1
  <2>3. \A m \in inbox : m.from = o =>
          m.action = "renew" /\ pc[o] = "renew?" /\ reply[o].kind = "none" /\ m.label = Primary
          /\ m.token = guard[o][Primary].token
    <3> SUFFICES ASSUME NEW m \in inbox, m.from = o
                 PROVE  /\ m.action = "renew" /\ pc[o] = "renew?" /\ reply[o].kind = "none" /\ m.label = Primary
                        /\ m.token = guard[o][Primary].token
      OBVIOUS
    <3>1. m.from # None /\ m.action \in {"drain", "renew", "undrain"}
      BY <1>0, InstallAssumption DEF TypeOK, Message
    <3>2. m.action = "renew"
      BY <1>0, <1>1, <2>1, <3>1 DEF CallInv, Asking
    <3> QED
      BY <1>0, <1>3, <2>1, <3>1, <3>2 DEF CallInv
  <2>4. ASSUME NEW m \in inbox, ServeRenew(m), m.from = o
        PROVE  /\ cover'[o] = [token |-> m.token, left |-> TTL]
               /\ lease'[Primary] = [token |-> m.token, left |-> TTL] /\ saved'[Primary]
    <3>1. m.label = Primary /\ m.from # None
      BY <2>3, <2>4, InstallAssumption
    <3> QED
      BY <1>0, <1>2, <2>4, <3>1 DEF ServeRenew, TypeOK
  <2>5. ASSUME NEW m \in inbox, Serve(m) \/ TimeOut(m), m.from = o, ~ServeRenew(m) PROVE FALSE
    <3>1. m.action = "renew" /\ pc[o] = "renew?" /\ reply[o].kind = "none" /\ m.from # None
      BY <2>3, <2>5, InstallAssumption
    <3>2. ServeError(m) \/ TimeOut(m)
      BY <2>5, <3>1 DEF Serve, ServeDrain, ServeUndrain
    <3>3. reply'[o] = Say("error")
      BY <1>0, <2>5, <3>1, <3>2 DEF ServeError, TimeOut, Deliver, TypeOK
    <3> QED
      BY <1>1, <2>1, <3>1, <3>3, Answers
  <2>6. CASE \A m \in inbox : m.from = o => ~(Serve(m) \/ TimeOut(m))
    <3>1. reply'[o] = reply[o] \/ reply'[o] = Say("error")
      BY <1>6, <2>6, ReplyStill
    <3>2. Renewing(o)
      BY <1>1, <2>1, <1>3, <3>1, Answers DEF Renewing, Held
    <3>3. cover'[o] = cover[o] \/ (Tick /\ cover'[o] = Elapse(cover[o]))
      <4>1. ASSUME NEW p \in Operator, Begin(p) \/ OperatorStep(p) PROVE cover'[o] = cover[o]
        <5>1. o # p
          BY <1>6, <4>1
        <5> QED
          BY <4>1, <5>1, OperatorOthers
      <4>2. ASSUME NEW m \in inbox, Serve(m) \/ TimeOut(m) PROVE cover'[o] = cover[o]
        BY <2>6, <4>2, ServeKeeps
      <4>3. CASE Rest
        BY <4>3, RestKeeps
      <4> QED
        BY <4>1, <4>2, <4>3, Kinds
    <3> QED
      BY <1>3, <2>1, <2>2, <3>2, <3>3
  <2> QED
    BY <1>3, <2>1, <2>2, <2>3, <2>4, <2>5, <2>6 DEF Serve
<1> QED
  BY <1>5, <1>6

\* A lease in force ends by time, by its owner, or with its file.
LEMMA LeaseEnds ==
  ASSUME IInv, [Next]_vars, Live(Primary), lease'[Primary] = NoLease, saved[Primary], saved'[Primary]
  PROVE  Tick \/ \E m \in inbox : ServeUndrain(m) /\ m.token = lease[Primary].token
<1>0. /\ lease \in [Label -> Lease] /\ at \in [Operator -> Label] /\ Primary \in Label /\ inbox \subseteq Message
      /\ saved \in [Label -> BOOLEAN]
  BY DEF IInv, TypeOK, Label
<1>1. lease'[Primary] # lease[Primary]
  BY Values DEF Live
<1>2. ASSUME NEW l \in Label, LoseMemory(l) PROVE FALSE
  BY <1>0, <1>1, <1>2 DEF LoseMemory
<1>3. ASSUME NEW o \in Operator, Bootout(o) PROVE FALSE
  <2>1. at[o] \in Label
    BY <1>0
  <2>2. LoseMemory(at[o]) \/ lease' = lease
    BY <1>3 DEF Bootout
  <2> QED
    BY <1>1, <1>2, <2>1, <2>2
<1>4. ASSUME NEW o \in Operator, RemovePaths(o) PROVE FALSE
  BY <1>0, <1>1, <1>4 DEF RemovePaths
<1>5. ASSUME NEW o \in Operator, Begin(o) \/ OperatorStep(o), ~Bootout(o), ~RemovePaths(o) PROVE FALSE
  <2>1. lease' = lease
    BY <1>5 DEF OperatorStep, Begin, DrainNext, Drained, Authenticate, SudoRefused, CopyFiles, Verify,
       ProbeNext, ParentRefused, Probed, Renew, Renewed, RemoveLegacyPaths, Bootstrap, BootstrapFails,
       Ready, PingFails, Undrain, Undrained, Status, ReleaseNext, Released, End, leaseVars
  <2> QED
    BY <1>1, <2>1
<1>6. ASSUME NEW l \in Label, Restart(l) \/ Crash(l) \/ StartTunnel(l) \/ StopTunnel(l) PROVE FALSE
  BY <1>1, <1>2, <1>6 DEF Restart, Crash, StartTunnel, StopTunnel, leaseVars
<1>7. ASSUME NEW m \in inbox, ServeUndrain(m) PROVE m.token = lease[Primary].token
  BY <1>0, <1>1, <1>7 DEF ServeUndrain, Message
<1>8. ASSUME NEW m \in inbox, Serve(m) \/ TimeOut(m), ~ServeUndrain(m) PROVE FALSE
  <2>1. m.label \in Label
    BY <1>0 DEF Message
  <2>2. lease' = lease \/ \E t : lease' = [lease EXCEPT ![m.label] = [token |-> t, left |-> TTL]]
    BY <1>8 DEF Serve, ServeDrain, ServeRenew, ServeError, TimeOut, leaseVars
  <2>3. PICK t : lease' = [lease EXCEPT ![m.label] = [token |-> t, left |-> TTL]]
    BY <1>1, <2>2
  <2>4. lease'[Primary] = [token |-> t, left |-> TTL]
    BY <1>0, <1>1, <2>1, <2>3
  <2>5. TTL = 0
    BY <2>4, Values
  <2> QED
    BY <2>5, InstallAssumption
<1>9. CASE UNCHANGED vars
  BY <1>1, <1>9 DEF vars, leaseVars
<1> QED
  BY <1>3, <1>4, <1>5, <1>6, <1>7, <1>8, <1>9 DEF Next

\* While its file is kept, a lease lasts as long as its renewal.
LEMMA CoverOne ==
  ASSUME IInv, [Next]_vars, NEW o \in Operator, Renewing(o)',
         Renewing(o) => Covered(o),
         Renewing(o) /\ cover[o].left > 0 => saved[Primary] /\ saved'[Primary]
  PROVE  Covered(o)'
<1> SUFFICES /\ cover'[o].token = guard'[o][at'[o]].token
             /\ \/ cover'[o].left = 0
                \/ lease'[at'[o]].token = cover'[o].token /\ lease'[at'[o]].left >= cover'[o].left
  BY DEF Covered
<1>0. /\ at'[o] = Primary /\ at[o] = Primary
      /\ guard'[o][Primary].token = guard[o][Primary].token /\ guard[o][Primary].token \in mine[o]
  BY RenewingMoves
<1>1. Primary \in Label /\ lease[Primary] \in Lease /\ cover[o] \in Lease
  BY DEF IInv, TypeOK, Label
<1>2. lease[Primary].left \in 0..TTL /\ cover[o].left \in 0..TTL /\ TTL \in Nat
  BY <1>1, Values, InstallAssumption
<1>3. ASSUME NEW m \in inbox, m.token = guard[o][Primary].token,
             cover'[o] = [token |-> m.token, left |-> TTL], lease'[Primary] = [token |-> m.token, left |-> TTL]
      PROVE  /\ cover'[o].token = guard'[o][Primary].token
             /\ lease'[Primary].token = cover'[o].token /\ lease'[Primary].left >= cover'[o].left
  BY <1>0, <1>2, <1>3
<1>4. ASSUME Renewing(o)
      PROVE  cover[o].token = guard[o][Primary].token
             /\ (cover[o].left = 0 \/ (lease[Primary].token = cover[o].token /\ lease[Primary].left >= cover[o].left))
  BY <1>0, <1>4 DEF Covered
<1>5. CASE Tick /\ Renewing(o) /\ cover'[o] = Elapse(cover[o])
  <2>1. lease'[Primary] = Elapse(lease[Primary])
    BY <1>1, <1>5 DEF Tick
  <2>2. /\ lease'[Primary].token = lease[Primary].token /\ lease'[Primary].left = Less(lease[Primary].left)
        /\ cover'[o].token = cover[o].token /\ cover'[o].left = Less(cover[o].left)
    BY <1>1, <1>5, <2>1, Values
  <2>3. /\ lease[Primary].left >= cover[o].left => Less(lease[Primary].left) >= Less(cover[o].left)
        /\ cover[o].left = 0 => Less(cover[o].left) = 0
    BY <1>2, LessIs
  <2> QED
    BY <1>0, <1>4, <1>5, <2>2, <2>3
<1>6. CASE ~Tick /\ Renewing(o) /\ cover'[o] = cover[o]
  <2>1. CASE cover[o].left = 0
    BY <1>0, <1>4, <1>6, <2>1
  <2>2. CASE cover[o].left # 0
    <3>1. /\ cover[o].left > 0 /\ Live(Primary) /\ lease[Primary].token = cover[o].token
          /\ lease[Primary].left >= cover[o].left /\ cover[o].token \in mine[o]
      BY <1>0, <1>2, <1>4, <1>6, <2>2 DEF Live
    <3>2. lease'[Primary] # NoLease
      <4> SUFFICES ASSUME lease'[Primary] = NoLease PROVE FALSE
        OBVIOUS
      <4>1. PICK m \in inbox : ServeUndrain(m) /\ m.token = lease[Primary].token
        BY <1>6, <3>1, LeaseEnds
      <4>2. m.action = "undrain" /\ m.token \in mine[o]
        BY <3>1, <4>1 DEF ServeUndrain
      <4>3. pc[o] \in {"undrain?", "status"} \cup Tail
        BY <4>2 DEF IInv, StaleInv
      <4> QED
        BY <1>6, <4>3 DEF Renewing, Tail
    <3>3. \/ lease'[Primary] = lease[Primary]
          \/ lease'[Primary] = [token |-> lease[Primary].token, left |-> TTL]
      BY <1>1, <1>6, <3>1, <3>2, LeaseMoves
    <3>4. lease'[Primary].token = cover[o].token /\ lease'[Primary].left >= cover[o].left
      BY <1>2, <3>1, <3>3
    <3> QED
      BY <1>0, <1>4, <1>6, <3>4
  <2> QED
    BY <2>1, <2>2
<1>7. CASE Tick /\ Renewing(o) /\ cover'[o] = cover[o]
  <2>1. cover'[o] = Elapse(cover[o])
    BY <1>7 DEF Tick
  <2> QED
    BY <1>5, <1>7, <2>1
<1> QED
  BY <1>0, <1>3, <1>5, <1>6, <1>7, RenewingMoves

\* A bootout ends tunnels only where nothing was renewed or the renewal has run out.
LEMMA SparesNow ==
  ASSUME IInv, NEW o \in Operator, Renewing(o) => Covered(o), tunnel[at[o]], pc[o] = "bootout"
  PROVE  job[o].override \/ ~Held(o, at[o]) \/ Lapsed(o)
<1> SUFFICES ASSUME ~job[o].override, Held(o, at[o]) PROVE Lapsed(o)
  OBVIOUS
<1>1. Covered(o)
  BY DEF Renewing
<1>2. at[o] \in Label /\ lease[at[o]] \in Lease /\ cover[o] \in Lease
  BY DEF IInv, TypeOK
<1>3. lease[at[o]].left \in 0..TTL /\ cover[o].left \in 0..TTL /\ TTL \in Nat
  BY <1>2, Values, InstallAssumption
<1>4. ~(lease[at[o]].left > 0)
  BY <1>2 DEF IInv, ExclusionInv, Live
<1> QED
  BY <1>1, <1>3, <1>4 DEF Covered, Lapsed

\* As long as no uninstall removes a runtime directory, any number of installers boot
\* the service out without ending a tunnel, but for the cases the documentation names.
THEOREM BootoutSparesTunnelsIfKept == Spec /\ []RuntimeKept => BootoutSparesTunnels
<1>1. Init => CoverInv
  BY DEF Init, CoverInv, Renewing
<1>2. IInv /\ CoverInv /\ RuntimeKept /\ RuntimeKept' /\ [Next]_vars => CoverInv'
  <2> SUFFICES ASSUME IInv, CoverInv, RuntimeKept, RuntimeKept', [Next]_vars, NEW o \in Operator, Renewing(o)'
               PROVE  Covered(o)'
    BY DEF CoverInv
  <2>1. Renewing(o) => Covered(o)
    BY DEF CoverInv
  <2>2. saved[Primary] /\ saved'[Primary]
    BY DEF RuntimeKept, Label
  <2> QED
    BY <2>1, <2>2, CoverOne
<1>3. IInv /\ CoverInv =>
        \A o \in Operator :
          (pc[o] = "bootout" /\ pc'[o] # "bootout" /\ tunnel[at[o]] /\ ~tunnel'[at[o]]) =>
             job[o].override \/ ~Held(o, at[o]) \/ Lapsed(o)
  BY SparesNow DEF CoverInv
<1> QED
  BY <1>1, <1>2, <1>3, InvariantHolds, PTL DEF Spec, BootoutSparesTunnels

-----------------------------------------------------------------------------
(* Two operators *)

\* At most two commands run.
TwoOperators == \A o, p, q \in Operator : o = p \/ p = q \/ o = q

\* Whoever removes the runtime tree has seen the service forgotten; the primary service is
\* loaded by Bootstrap alone.
LEMMA ServiceMoves ==
  ASSUME IInv, [Next]_vars
  PROVE  /\ saved'[Primary] \/ ~saved[Primary] \/ \E p \in Operator : RemovePaths(p) /\ forgot[p] /\ loaded' = loaded
         /\ loaded'[Primary] => loaded[Primary] \/ \E p \in Operator : Bootstrap(p)
<1>0. /\ saved \in [Label -> BOOLEAN] /\ loaded \in [Label -> BOOLEAN] /\ at \in [Operator -> Label]
      /\ Primary \in Label /\ inbox \subseteq Message
  BY DEF IInv, TypeOK, Label
<1>1. ASSUME NEW o \in Operator, Begin(o) \/ OperatorStep(o), ~RemovePaths(o) PROVE saved' = saved
  BY <1>1 DEF OperatorStep, Begin, DrainNext, Drained, Authenticate, SudoRefused, CopyFiles, Verify,
     ProbeNext, ParentRefused, Probed, Renew, Renewed, Bootout, RemoveLegacyPaths, Bootstrap,
     BootstrapFails, Ready, PingFails, Undrain, Undrained, Status, ReleaseNext, Released, End, leaseVars
<1>2. ASSUME NEW o \in Operator, RemovePaths(o)
      PROVE  (saved'[Primary] \/ ~saved[Primary] \/ forgot[o]) /\ loaded' = loaded
  BY <1>0, <1>2 DEF RemovePaths
<1>3. ASSUME NEW o \in Operator, Begin(o) \/ OperatorStep(o), ~Bootstrap(o) PROVE loaded'[Primary] => loaded[Primary]
  BY <1>0, <1>3 DEF OperatorStep, Begin, DrainNext, Drained, Authenticate, SudoRefused, CopyFiles, Verify,
     ProbeNext, ParentRefused, Probed, Renew, Renewed, Bootout, RemovePaths, RemoveLegacyPaths,
     BootstrapFails, Ready, PingFails, Undrain, Undrained, Status, ReleaseNext, Released, End, serviceVars
<1>4. ASSUME NEW m \in inbox, Serve(m) \/ TimeOut(m) PROVE (saved[Primary] => saved'[Primary]) /\ loaded' = loaded
  BY <1>0, <1>4 DEF Serve, ServeDrain, ServeRenew, ServeUndrain, ServeError, TimeOut, serviceVars,
     leaseVars, Message
<1>5. CASE Rest
  BY <1>5 DEF Rest, Restart, Crash, StartTunnel, StopTunnel, Tick, vars, serviceVars, leaseVars
<1> QED
  BY <1>1, <1>2, <1>3, <1>4, <1>5, Kinds DEF OperatorStep

\* What runs is loaded, and requests wait only where a daemon runs.
LEMMA RunStep == IInv /\ RunInv /\ [Next]_vars => RunInv'
<1> SUFFICES ASSUME IInv, RunInv, [Next]_vars PROVE RunInv'
  OBVIOUS
<1>0. TypeOK /\ Primary \in Label
  BY DEF IInv, Label
<1>1. /\ running[Primary] => loaded[Primary]
      /\ tunnel[Primary] => running[Primary]
      /\ \A m \in inbox : m.label = Primary => running[Primary]
  BY DEF RunInv
<1> USE DEF RunInv
<1>2. ASSUME NEW o \in Operator, Bootout(o) PROVE RunInv'
  <2>0. /\ at[o] \in Label /\ loaded \in [Label -> BOOLEAN]
        /\ running \in [Label -> BOOLEAN] /\ tunnel \in [Label -> BOOLEAN]
    BY <1>0 DEF TypeOK
  <2>1. CASE UNCHANGED <<loaded, running, tunnel, inbox>>
    BY <1>1, <2>1
  <2>2. CASE /\ loaded' = [loaded EXCEPT ![at[o]] = FALSE]
             /\ running' = [running EXCEPT ![at[o]] = FALSE]
             /\ tunnel' = [tunnel EXCEPT ![at[o]] = FALSE]
             /\ Hangup(at[o])
    <3>1. inbox' \subseteq inbox /\ \A m \in inbox' : m.label # at[o]
      BY <1>0, <2>0, <2>2, HangupIs
    <3> QED
      BY <1>0, <1>1, <2>0, <2>2, <3>1
  <2> QED
    BY <1>2, <2>1, <2>2 DEF Bootout, rpcVars
<1>3. ASSUME NEW o \in Operator, Begin(o) \/ OperatorStep(o), ~Bootout(o) PROVE RunInv'
  <2>1. running' = running /\ tunnel' = tunnel
    BY <1>3 DEF OperatorStep, Begin, DrainNext, Drained, Authenticate, SudoRefused, CopyFiles, Verify,
       ProbeNext, ParentRefused, Probed, Renew, Renewed, RemovePaths, RemoveLegacyPaths, Bootstrap,
       BootstrapFails, Ready, PingFails, Undrain, Undrained, Status, ReleaseNext, Released, End, serviceVars
  <2>2. loaded[Primary] => loaded'[Primary]
    <3>1. CASE Bootstrap(o)
      BY <1>0, <3>1 DEF Bootstrap, TypeOK
    <3>2. CASE ~Bootstrap(o)
      BY <1>3, <3>2 DEF OperatorStep, Begin, DrainNext, Drained, Authenticate, SudoRefused, CopyFiles,
         Verify, ProbeNext, ParentRefused, Probed, Renew, Renewed, RemovePaths, RemoveLegacyPaths,
         BootstrapFails, Ready, PingFails, Undrain, Undrained, Status, ReleaseNext, Released, End,
         serviceVars
    <3> QED
      BY <3>1, <3>2
  <2>3. ASSUME NEW m \in inbox', m.label = Primary PROVE running[Primary]
    <3>1. CASE m \in inbox
      BY <1>1, <2>3, <3>1
    <3>2. CASE m \notin inbox
      <4>1. ASSUME NEW l, NEW a, NEW t, Call(o, l, a, t) PROVE running[Primary]
        <5>1. running[l] /\ m = [from |-> o, label |-> l, action |-> a, token |-> t]
          BY <3>2, <4>1 DEF Call
        <5> QED
          BY <2>3, <5>1
      <4> QED
        BY <1>3, <3>2, <4>1, OperatorRpc
    <3> QED
      BY <3>1, <3>2
  <2> QED
    BY <1>1, <2>1, <2>2, <2>3
<1>4. ASSUME NEW n \in inbox, Serve(n) \/ TimeOut(n) PROVE RunInv'
  <2>1. loaded' = loaded /\ running' = running /\ tunnel' = tunnel
    BY <1>4 DEF Serve, ServeDrain, ServeRenew, ServeUndrain, ServeError, TimeOut, serviceVars
  <2>2. n \in Message /\ [n EXCEPT !.from = None].label = n.label
    BY <1>0, GivenUp DEF TypeOK
  <2>3. \A m \in inbox' : m \in inbox \/ m.label = n.label
    BY <1>4, <2>2, ServeKeeps
  <2> QED
    BY <1>1, <2>1, <2>3
<1>5. ASSUME NEW l \in Label, Crash(l) PROVE RunInv'
  <2>1. loaded' = loaded /\ inbox' \subseteq inbox /\ \A m \in inbox' : m.label # l
    BY <1>0, <1>5, HangupIs DEF Crash
  <2> QED
    BY <1>0, <1>1, <1>5, <2>1 DEF Crash, TypeOK
<1>6. ASSUME NEW l \in Label, Restart(l) \/ StartTunnel(l) \/ StopTunnel(l) PROVE RunInv'
  BY <1>0, <1>1, <1>6 DEF Restart, CanServe, StartTunnel, StopTunnel, TypeOK, rpcVars
<1>7. CASE Tick \/ UNCHANGED vars
  BY <1>1, <1>7 DEF Tick, vars, serviceVars, rpcVars
<1> QED
  BY <1>2, <1>3, <1>4, <1>5, <1>6, <1>7, Kinds DEF Rest

\* An uninstall that finds the primary service loaded again finds its rival past the bootout.
LEMMA PathsStep == TwoOperators /\ IInv /\ PathsInv /\ [Next]_vars => PathsInv'
<1> SUFFICES ASSUME TwoOperators, IInv, PathsInv, [Next]_vars, NEW p \in Operator
             PROVE  /\ pc'[p] \in Probing \cup {"paths"} /\ at'[p] = Primary => todo'[p] = {}
                    /\ pc'[p] = "paths" /\ at'[p] = Primary /\ forgot'[p] /\ loaded'[Primary] =>
                         \A q \in Operator \ {p} : pc'[q] \in {"ready", "undrain", "undrain?", "status"} \cup Tail
  BY DEF PathsInv
<1>0. /\ pc[p] \in Probing \cup {"paths"} /\ at[p] = Primary => todo[p] = {}
      /\ pc[p] = "paths" /\ at[p] = Primary /\ forgot[p] /\ loaded[Primary] =>
           \A q \in Operator \ {p} : pc[q] \in {"ready", "undrain", "undrain?", "status"} \cup Tail
  BY DEF PathsInv
<1>1. TypeOK
  BY DEF IInv
<1>2. pc'[p] \in Probing \cup {"paths"} /\ at'[p] = Primary => todo'[p] = {}
  <2>1. CASE ~(Begin(p) \/ OperatorStep(p))
    BY <1>0, <2>1, Still
  <2>2. CASE ProbeNext(p)
    <3>1. PICK l \in Last(todo[p]) : at' = [at EXCEPT ![p] = l] /\ todo' = [todo EXCEPT ![p] = @ \ {l}]
      BY <2>2 DEF ProbeNext
    <3>2. at'[p] = l /\ todo'[p] = todo[p] \ {l}
      BY <1>1, <3>1 DEF TypeOK
    <3> QED
      BY <3>1, <3>2 DEF Last
  <2>3. CASE (Begin(p) \/ OperatorStep(p)) /\ ~ProbeNext(p)
    BY <1>0, <2>3, Steps, OwnMoves DEF OperatorStep, Probing
  <2> QED
    BY <2>1, <2>2, <2>3
<1>3. ASSUME pc'[p] = "paths", at'[p] = Primary, forgot'[p], loaded'[Primary], NEW q \in Operator \ {p}
      PROVE  pc'[q] \in {"ready", "undrain", "undrain?", "status"} \cup Tail
  <2>1. ~(Begin(p) \/ OperatorStep(p))
    <3> SUFFICES ASSUME Begin(p) \/ OperatorStep(p) PROVE FALSE
      OBVIOUS
    <3>1. Bootout(p)
      BY <1>3, Steps DEF OperatorStep
    <3>2. at'[p] = at[p]
      BY <3>1 DEF Bootout
    <3>3. PICK seen \in BOOLEAN : (seen => ~loaded'[at[p]]) /\ forgot' = [forgot EXCEPT ![p] = seen]
      BY <3>1 DEF Bootout
    <3>4. forgot'[p] = seen
      BY <1>1, <3>3 DEF TypeOK
    <3> QED
      BY <1>3, <3>2, <3>3, <3>4
  <2>2. pc[p] = "paths" /\ at[p] = Primary /\ forgot[p]
    BY <1>3, <2>1, Still
  <2>3. CASE loaded[Primary]
    <3>1. pc[q] \in {"ready", "undrain", "undrain?", "status"} \cup Tail
      BY <1>0, <2>2, <2>3
    <3>2. CASE Begin(q) \/ OperatorStep(q)
      BY <3>1, <3>2, Steps DEF OperatorStep, Tail
    <3>3. CASE ~(Begin(q) \/ OperatorStep(q))
      BY <3>1, <3>3, Still
    <3> QED
      BY <3>2, <3>3
  <2>4. CASE ~loaded[Primary]
    <3>1. PICK r \in Operator : Bootstrap(r)
      BY <1>3, <2>4, ServiceMoves
    <3>2. r # p /\ pc'[r] = "ready"
      BY <2>2, <3>1, Steps
    <3>3. q = r
      BY <1>3, <3>2 DEF TwoOperators
    <3> QED
      BY <3>2, <3>3
  <2> QED
    BY <2>3, <2>4
<1> QED
  BY <1>2, <1>3

\* A renewed lease lasts, or the service is gone for good.
LEMMA KeptStep == TwoOperators /\ IInv /\ PairInv /\ [Next]_vars => KeptInv'
<1> SUFFICES ASSUME TwoOperators, IInv, PairInv, [Next]_vars, NEW o \in Operator, Renewing(o)'
             PROVE  Gone(o)' \/ (Covered(o)' /\ (cover'[o].left > 0 => saved'[Primary]))
  BY DEF KeptInv
<1>0. TypeOK /\ PathsInv /\ (Renewing(o) => Gone(o) \/ (Covered(o) /\ (cover[o].left > 0 => saved[Primary])))
  BY DEF PairInv, IInv, KeptInv
<1>1. Renewing(o) => pc[o] \in {"bootout", "renew?"}
  BY DEF Renewing
<1>2. CASE Renewing(o) /\ Gone(o)
  <2>1. ~loaded[Primary] /\ \A p \in Operator \ {o} : pc[p] \in Tail
    BY <1>2 DEF Gone
  <2>2. ~loaded'[Primary]
    <3>1. ASSUME NEW r \in Operator, Bootstrap(r) PROVE FALSE
      BY <1>1, <1>2, <2>1, <3>1, Steps DEF Tail
    <3> QED
      BY <2>1, <3>1, ServiceMoves
  <2>3. ASSUME NEW p \in Operator \ {o} PROVE pc'[p] \in Tail
    <3>1. CASE Begin(p) \/ OperatorStep(p)
      BY <2>1, <3>1, Steps DEF OperatorStep, Tail
    <3>2. CASE ~(Begin(p) \/ OperatorStep(p))
      BY <2>1, <3>2, Still
    <3> QED
      BY <3>1, <3>2
  <2> QED
    BY <2>2, <2>3 DEF Gone
<1>3. CASE Renewing(o) /\ ~Gone(o) /\ cover[o].left > 0 /\ ~saved'[Primary]
  <2>1. PICK p \in Operator : RemovePaths(p) /\ forgot[p] /\ loaded' = loaded
    BY <1>0, <1>3, ServiceMoves
  <2>2. pc[p] = "paths" /\ at[p] = Primary /\ p # o
    BY <1>1, <1>3, <2>1, Steps DEF RemovePaths
  <2>3. todo[p] = {} /\ ~loaded[Primary]
    BY <1>0, <1>1, <1>3, <2>1, <2>2 DEF PathsInv, Tail
  <2>4. pc'[p] = "release"
    <3>1. NextService(p) /\ Stops(p)
      BY <2>1, <2>3 DEF RemovePaths, Stops
    <3>2. Goto(p, "release")
      BY <3>1 DEF NextService, Report
    <3> QED
      BY <1>0, <3>2 DEF Goto, TypeOK
  <2>5. \A q \in Operator \ {o} : q = p
    BY <2>2 DEF TwoOperators
  <2> QED
    BY <2>1, <2>3, <2>4, <2>5 DEF Gone, Tail
<1>4. CASE ~(Renewing(o) /\ Gone(o)) /\ ~(Renewing(o) /\ ~Gone(o) /\ cover[o].left > 0 /\ ~saved'[Primary])
  <2>1. /\ Renewing(o) => Covered(o)
        /\ Renewing(o) /\ cover[o].left > 0 => saved[Primary] /\ saved'[Primary]
    BY <1>0, <1>4
  <2>2. Covered(o)'
    BY <2>1, CoverOne
  <2>3. cover[o] \in Lease /\ cover[o].left \in 0..TTL
    BY <1>0, Values DEF TypeOK
  <2>4. Elapse(cover[o]).left > 0 => cover[o].left > 0
    BY <2>3, Values, LessIs
  <2>5. cover'[o].left > 0 => saved'[Primary]
    BY <2>1, <2>4, RenewingMoves
  <2> QED
    BY <2>2, <2>5
<1> QED
  BY <1>2, <1>3, <1>4

\* With at most two commands at work a bootout ends tunnels only where the documentation
\* says so, even if one of them removes the runtime directory.
THEOREM BootoutSparesTunnelsOfTwo == ASSUME TwoOperators PROVE Spec => BootoutSparesTunnels
<1>1. Init => PairInv
  BY DEF Init, PairInv, RunInv, PathsInv, KeptInv, Renewing, Probing, Label
<1>2. IInv /\ PairInv /\ [Next]_vars => PairInv'
  BY RunStep, PathsStep, KeptStep DEF PairInv
<1>3. IInv /\ PairInv =>
        \A o \in Operator :
          (pc[o] = "bootout" /\ pc'[o] # "bootout" /\ tunnel[at[o]] /\ ~tunnel'[at[o]]) =>
             job[o].override \/ ~Held(o, at[o]) \/ Lapsed(o)
  <2> SUFFICES ASSUME IInv, PairInv, NEW o \in Operator, pc[o] = "bootout", tunnel[at[o]]
               PROVE  job[o].override \/ ~Held(o, at[o]) \/ Lapsed(o)
    OBVIOUS
  <2>1. at[o] \in Label /\ \A l \in Legacy : ~Held(o, l)
    BY Values DEF IInv, TypeOK, TokenInv, Held
  <2>2. CASE at[o] = Primary
    <3>1. ~Gone(o)
      BY <2>2 DEF PairInv, RunInv, Gone
    <3>2. Renewing(o) => Covered(o)
      BY <3>1 DEF PairInv, KeptInv
    <3> QED
      BY <3>2, SparesNow
  <2> QED
    BY <2>1, <2>2 DEF Label
<1> QED
  BY <1>1, <1>2, <1>3, InvariantHolds, PTL DEF Spec, BootoutSparesTunnels

=============================================================================
