------------------------------ MODULE MCProgress ------------------------------
(***************************************************************************)
(* What must eventually happen in the parts that do not call each other,   *)
(* explored side by side in one run: part names the one that moves, and    *)
(* fairness is that of its own module.                                     *)
(***************************************************************************)
EXTENDS Naturals, Sequences, FiniteSets

CONSTANTS None, Torn, NL, Sess, Pid,
          Operator, Primary, Legacy, Token

\* A hostscan log, two UI histories of which one is taken, a cached profile.
Logs == << [dir |-> "hostscan", base |-> "cscan.log"],
           [dir |-> "cache", base |-> "profile.xml"],
           [dir |-> "history", base |-> "UIHistory_1.txt"],
           [dir |-> "history", base |-> "UIHistory_2.txt"] >>

\* Up to three profiles of either transport, accepted or not.
Probes ==
  {[profiles |-> l, selector |-> FALSE, transport |-> None, match |-> "any", pick |-> "probe",
    sessions |-> {}] :
     l \in UNION {[1..k -> [id : {0}, fits : {"no"}, transport : {"tcp"}, accepted : BOOLEAN]] :
                    k \in 0..3}}

VARIABLE part

\* A command of ssh-proxy, and a foreign program that may hold the port.
VARIABLES config, sshRecord, ssh, port, stranger, sshPc, prof, sshCur, sshMine, termed,
          adrift, hit
sshproxyVars == <<config, sshRecord, ssh, port, stranger, sshPc, prof, sshCur, sshMine,
                  termed, adrift, hit>>
SshProxy == INSTANCE SshProxySession WITH
  record <- sshRecord, pc <- sshPc, cur <- sshCur, mine <- sshMine, Client <- {"command"},
  Profile <- {"default"}, Foreign <- TRUE, Reuse <- FALSE

\* A command of cisco-dump and its daemon.
VARIABLES current, meta, opt, at, term, snapshotCount, cap, derived, dumpPc, dumpCur, dumpMine,
          lost
dumpVars == <<current, meta, opt, at, term, snapshotCount, cap, derived, dumpPc, dumpCur,
              dumpMine, lost>>
Dump == INSTANCE CiscoDump WITH
  pc <- dumpPc, cur <- dumpCur, mine <- dumpMine, Client <- {"command"},
  Sess <- {"session"}, MaxCount <- 1, Faults <- TRUE

\* The mirror of the Cisco logs.
VARIABLES clock, time, failing, stamp, mirror, todo, copying
mirrorVars == <<clock, time, failing, stamp, mirror, todo, copying>>
Mirror == INSTANCE LogMirror WITH
  pending <- copying, Sources <- Logs, Limit <- 1, MaxClock <- 4

\* Bound: the files that fail at the same time.
FewFailing == Cardinality(failing) <= 1

\* The authentication at one gateway.
VARIABLES stage, mode, next, st, pass, seen, scanned, deferred, replies, posts, cont, foll,
          hops, jar, extra, replaced, dirs, selected, asked, issued, answered
authVars == <<stage, mode, next, st, pass, seen, scanned, deferred, replies, posts, cont,
              foll, hops, jar, extra, replaced, dirs, selected, asked, issued, answered>>
Auth == INSTANCE AggregateAuth WITH
  pc <- stage, Server <- {"gw"}, Primary <- "gw", Fallbacks <- <<>>,
  Token <- {"first", "second"}, Variants <- 1, MaxPosts <- 2

\* Bound: no server and no browser sets a cookie; no step of the dialogue depends on one.
OwnCookies == extra' = extra /\ (stage \in {"preset", "post"} \/ jar' = jar)

\* The writer of the session log and its flush loop.
VARIABLES log, lock, logPending, done, logPc, ap, held, snap, closeOk, linked, tail, dpc,
          headers, written
logVars == <<log, lock, logPending, done, logPc, ap, held, snap, closeOk, linked, tail, dpc,
             headers, written>>
Log == INSTANCE SessionLog WITH
  pending <- logPending, pc <- logPc, MaxLines <- 2, MaxBytes <- 6, Threshold <- 2,
  Headers <- 3, Events <- 0, Outputs <- 0

\* The probe of up to three profiles.
VARIABLES input, probePc, cand, dials, probeSent, probeQueue, count, best, expired, result
probeVars == <<input, probePc, cand, dials, probeSent, probeQueue, count, best, expired,
               result>>
Probe == INSTANCE ProfileResolution WITH
  pc <- probePc, sent <- probeSent, queue <- probeQueue, Inputs <- Probes,
  Durations <- {1, 2}, MaxProfiles <- 3

\* An install or uninstall of vpn-core with a legacy service, tunnels and crashes.
VARIABLES loaded, running, tunnel, lease, saved, installIssued, package, inbox, installPc,
          installJob, installTodo, installAt, guard, reply, forgot, failed, installResult,
          cover, installMine
installVars == <<loaded, running, tunnel, lease, saved, installIssued, package, inbox,
                 installPc, installJob, installTodo, installAt, guard, reply, forgot,
                 failed, installResult, cover, installMine>>
Install == INSTANCE MaintenanceInstall WITH
  issued <- installIssued, pc <- installPc, job <- installJob, todo <- installTodo,
  at <- installAt, result <- installResult, mine <- installMine, TTL <- 2

vars == <<part, sshproxyVars, dumpVars, mirrorVars, authVars, logVars, probeVars, installVars>>

ASSUME ProgressAssumption ==
  /\ SshProxy!SshProxyAssumption /\ Dump!CiscoDumpAssumption /\ Mirror!LogMirrorAssumption
  /\ Auth!AuthAssumption /\ Log!Limits /\ Probe!InputsAssumption

Init ==
  /\ part \in {"sshproxy", "dump", "mirror", "auth", "log", "probe", "install"}
  /\ SshProxy!Init /\ Dump!Init /\ Mirror!Init /\ Log!Init
  /\ Auth!Init /\ (part # "auth" => mode = "other")
  /\ Probe!Init /\ (part # "probe" => input.profiles = <<>>)
  /\ Install!Init /\ (part # "install" => loaded[Primary] /\ \A l \in Legacy : ~loaded[l])

Next ==
  \/ part = "sshproxy" /\ SshProxy!Next
     /\ UNCHANGED <<part, dumpVars, mirrorVars, authVars, logVars, probeVars, installVars>>
  \/ part = "dump" /\ Dump!Next
     /\ UNCHANGED <<part, sshproxyVars, mirrorVars, authVars, logVars, probeVars, installVars>>
  \/ part = "mirror" /\ Mirror!Next /\ FewFailing'
     /\ UNCHANGED <<part, sshproxyVars, dumpVars, authVars, logVars, probeVars, installVars>>
  \/ part = "auth" /\ Auth!Next /\ OwnCookies
     /\ UNCHANGED <<part, sshproxyVars, dumpVars, mirrorVars, logVars, probeVars, installVars>>
  \/ part = "log" /\ Log!Next
     /\ UNCHANGED <<part, sshproxyVars, dumpVars, mirrorVars, authVars, probeVars, installVars>>
  \/ part = "probe" /\ Probe!Next
     /\ UNCHANGED <<part, sshproxyVars, dumpVars, mirrorVars, authVars, logVars, installVars>>
  \/ part = "install" /\ Install!Next
     /\ UNCHANGED <<part, sshproxyVars, dumpVars, mirrorVars, authVars, logVars, probeVars>>

\* A command of ssh-proxy goes on, for every wait of it has a deadline.  So do the stops of
\* the daemon of cisco-dump and the requests and helpers of the authentication; the programs
\* that the daemon, its mirror and the authentication run to describe the host have none and
\* are taken to return.  The scheduler runs the goroutines of the log and of the probe.  The
\* process of an operator runs, a call of it ends by its deadline, and launchd keeps loaded
\* services alive.
Fairness ==
  /\ WF_sshproxyVars(part = "sshproxy" /\ (SshProxy!StartStep("command") \/ SshProxy!StopStep("command")))
  /\ WF_dumpVars(part = "dump" /\ Dump!DaemonStep("session"))
  /\ WF_mirrorVars(part = "mirror" /\ Mirror!Step)
  /\ WF_authVars(part = "auth" /\ Auth!Next /\ OwnCookies)
  /\ SF_logVars(part = "log" /\ Log!LoopDone)
  /\ WF_logVars(part = "log" /\ Log!Close)
  /\ \A t \in Log!Thread :
       WF_logVars(part = "log" /\ (Log!AppendRead(t) \/ Log!AppendRename(t) \/ Log!AppendPlain(t)))
  /\ WF_probeVars(part = "probe" /\ Probe!ResolveProfileWithOptions)
  /\ WF_probeVars(part = "probe" /\ Probe!Receive)
  /\ WF_probeVars(part = "probe" /\ Probe!Expire)
  /\ WF_probeVars(part = "probe" /\ Probe!GiveUp)
  /\ \A k \in 1..3 :
       /\ WF_probeVars(part = "probe" /\ k \in DOMAIN dials /\ Probe!Dial(k))
       /\ WF_probeVars(part = "probe" /\ k \in DOMAIN dials /\ Probe!Send(k))
  /\ \A o \in Operator : WF_installVars(part = "install" /\ Install!OperatorStep(o))
  /\ WF_installVars(part = "install" /\ \E m \in inbox :
                      m.from # None /\ (Install!Serve(m) \/ Install!TimeOut(m)))

Spec == Init /\ [][Next]_vars /\ Fairness

---------------------------------------------------------------------------
\* Whatever was begun comes to its end.  start and stop of ssh-proxy and every install and
\* uninstall end: their waits and calls have deadlines.  A daemon of cisco-dump whose
\* context is done ends.  The dialogue of the authentication ends, however long the server
\* goes on with new challenges, follow-ups and continuations.  Close of the log's writer
\* returns: it waits for the loop, which may be flushing.  The probe answers, and every
\* goroutine of it ends, also those that still dial when it has returned.  And once
\* Cisco has stopped writing, a relevant log gets into the mirror if from some time on no
\* file up to it in the list fails, although it changed, disappeared or failed before.
EverythingEnds ==
  /\ SshProxy!CommandsEnd
  /\ part = "install" => Install!OperationsEnd
  /\ Dump!DaemonEnds
  /\ part = "auth" => Auth!AuthenticationEnds
  /\ Log!CloseEnds
  /\ part = "probe" => Probe!ProbeEnds
  /\ part = "mirror" => Mirror!MirrorCatchesUp
=============================================================================
