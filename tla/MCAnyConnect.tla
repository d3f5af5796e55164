----------------------------- MODULE MCAnyConnect -----------------------------
(***************************************************************************)
(* The authentication of openconnect-tun, the daemon of cisco-dump, its   *)
(* monitor and its mirror, and ssh-proxy, explored in one run: part names  *)
(* the one that moves, the others stay in their initial state.             *)
(***************************************************************************)
EXTENDS Naturals, Sequences, FiniteSets

CONSTANTS None, Torn,
          Server, Primary, Fallbacks, Token, Variants,
          MaxPosts,   \* bound on the redirects that an auth-reply follows
          Client, Sess, MaxCount,
          Proc, Sock, Net,
          Logs, Limit, MaxClock,
          Pid,
          Profile, Shared   \* the profiles, and those that several commands use at once

\* Fallbacks that repeat one gateway and name the primary again.
RepeatedFallbacks == <<"gw2", "gw1", "gw2">>

\* A socket of the one Cisco process, and a loopback socket of another program.
TwoSockets == {[pid |-> 1, loopback |-> FALSE], [pid |-> 0, loopback |-> TRUE]}

\* A hostscan log, two UI histories of which one is taken, a cached profile.
FourLogs == << [dir |-> "hostscan", base |-> "cscan.log"],
               [dir |-> "cache", base |-> "profile.xml"],
               [dir |-> "history", base |-> "UIHistory_1.txt"],
               [dir |-> "history", base |-> "UIHistory_2.txt"] >>

VARIABLE part

\* The dialogue with the gateways.
VARIABLES stage, mode, next, st, pass, seen, scanned, deferred, replies, posts, cont, foll,
          hops, jar, extra, replaced, dirs, selected, asked, issued, answered
authVars == <<stage, mode, next, st, pass, seen, scanned, deferred, replies, posts, cont,
              foll, hops, jar, extra, replaced, dirs, selected, asked, issued, answered>>
Auth == INSTANCE AggregateAuth WITH
  pc <- stage

\* A command of cisco-dump, the daemon it starts and the daemon of an earlier session.
VARIABLES current, meta, opt, dumpAt, term, snapshotCount, cap, derived, dumpPc, dumpCur,
          dumpMine, lost
dumpVars == <<current, meta, opt, dumpAt, term, snapshotCount, cap, derived, dumpPc, dumpCur,
              dumpMine, lost>>
Dump == INSTANCE CiscoDump WITH
  at <- dumpAt, pc <- dumpPc, cur <- dumpCur, mine <- dumpMine, Client <- {"command"},
  Faults <- TRUE

\* Bound: one of the sessions has captures, whichever it is; those of two sessions are apart.
OneCaptures == \E s \in Sess : \A t \in Sess \ {s} : ~opt[t].tcpdump

\* The snapshots of processes, sockets and network.
VARIABLES watching, lines, looked, last, file, missed, probes
monitorVars == <<watching, lines, looked, last, file, missed, probes>>
Monitor == INSTANCE DumpMonitor WITH
  at <- watching, Faults <- TRUE

\* The mirror of the Cisco logs.
VARIABLES clock, time, failing, stamp, mirror, todo, copying
mirrorVars == <<clock, time, failing, stamp, mirror, todo, copying>>
Mirror == INSTANCE LogMirror WITH
  pending <- copying, Sources <- Logs

\* Bound: the files that fail at the same time.
FewFailing == Cardinality(failing) <= 1

\* The profiles of ssh-proxy, which share their port with other programs.
VARIABLES config, record, ssh, port, stranger, pc, prof, cur, mine, termed, adrift, hit
sshproxyVars == <<config, record, ssh, port, stranger, pc, prof, cur, mine, termed, adrift,
                  hit>>
SshProxy == INSTANCE SshProxySession WITH
  Foreign <- TRUE, Reuse <- TRUE

\* Several commands at once on the shared profiles, beside programs that get freed pids;
\* or one command at a time, beside programs that listen on the port.
Crowd == port # "foreign" /\ (config # None => config.servers \subseteq Shared)
Alone == stranger = {} /\ \E c \in Client : \A d \in Client \ {c} : pc[d] = "idle"

vars == <<part, authVars, dumpVars, monitorVars, mirrorVars, sshproxyVars>>

ASSUME AnyConnectAssumption ==
  /\ Auth!AuthAssumption /\ Dump!CiscoDumpAssumption /\ Monitor!DumpMonitorAssumption
  /\ Mirror!LogMirrorAssumption
  /\ SshProxy!SshProxyAssumption

Init ==
  /\ part \in {"auth", "dump", "monitor", "mirror", "sshproxy", "profiles"}
  /\ Auth!Init /\ Dump!Init /\ Monitor!Init /\ Mirror!Init
  /\ SshProxy!Init

Next ==
  \/ part = "auth" /\ Auth!Next
     /\ UNCHANGED <<part, dumpVars, monitorVars, mirrorVars, sshproxyVars>>
  \/ part = "dump" /\ Dump!Next /\ OneCaptures'
     /\ UNCHANGED <<part, authVars, monitorVars, mirrorVars, sshproxyVars>>
  \/ part = "monitor" /\ Monitor!Next
     /\ UNCHANGED <<part, authVars, dumpVars, mirrorVars, sshproxyVars>>
  \/ part = "mirror" /\ Mirror!Next /\ FewFailing'
     /\ UNCHANGED <<part, authVars, dumpVars, monitorVars, sshproxyVars>>
  \/ part = "sshproxy" /\ SshProxy!Next /\ Crowd'
     /\ UNCHANGED <<part, authVars, dumpVars, monitorVars, mirrorVars>>
  \/ part = "profiles" /\ SshProxy!Next /\ Alone'
     /\ UNCHANGED <<part, authVars, dumpVars, monitorVars, mirrorVars>>

Spec == Init /\ [][Next]_vars

---------------------------------------------------------------------------
\* The daemon of s has exited, no command and no file names it any more: what it has left
\* behind does not change, but for captures that may end by themselves.
Settled(s) == /\ dumpAt[s] = "exited" /\ current # s
              /\ \A c \in DOMAIN dumpPc : dumpCur[c] # s /\ dumpMine[c] # s
DumpView ==
  <<current, dumpPc, dumpCur, dumpMine,
    [s \in Sess |-> IF Settled(s) THEN "settled"
                    ELSE <<meta[s], opt[s], dumpAt[s], term[s], cap[s], derived[s], lost[s],
                           IF dumpAt[s] = "exited" THEN 0 ELSE snapshotCount[s]>>]>>

\* The auth-replies have no use for the host-scan loop, and the second pass of them none
\* for the challenge; of a request that was answered only the group is compared with, and
\* nothing on the cookies of longer paths; an authentication that has ended reads nothing any
\* more.
AuthView ==
  IF stage \in {"failed", "cookie"} THEN <<stage, dirs, selected, asked.group>>
  ELSE <<stage, mode, next, st, replies, posts, cont, foll, jar, dirs, selected,
         IF stage = "sent" THEN <<asked.group, asked.host, asked.cookie, hops, replaced>>
         ELSE <<asked.group>>,
         IF replies > 0 THEN <<>> ELSE <<issued, answered>>,
         IF replies > 0 \/ stage \in {"import", "post", "sent"} THEN <<>>
         ELSE <<pass, seen, scanned, deferred>> >>

\* Which of two commands does what makes no difference.
Commands == {<<pc[c], prof[c], cur[c], mine[c]>> : c \in Client}

\* A part that does not move does not tell states apart; with two commands of ssh-proxy at
\* once nothing is said of the sessions they have signalled or lost.
View == <<part, CASE part = "auth"     -> AuthView
                  [] part = "dump"     -> DumpView
                  [] part = "monitor"  -> monitorVars
                  [] part = "mirror"   -> mirrorVars
                  [] part = "sshproxy" -> <<config, record, ssh, port, stranger, Commands>>
                  [] part = "profiles" ->
                       <<config, record, ssh, port, termed, adrift, hit, Commands>> >>

---------------------------------------------------------------------------
(* What must hold of each part: its types, and                              *)

\* The authentication.  The host-scan challenge of the latest answer is scanned before the
\* first auth-reply; an auth-reply carries one and the same token in its body and its
\* sdesktop cookie of path /, at its target and at the group's host until that host
\* replaces the cookie; after a fallback no request names the primary server; no path out of
\* it leaves the helper directory behind.
AuthCorrect ==
  part = "auth" =>
    /\ Auth!TypeOK
    /\ Auth!ChallengeAnswered /\ Auth!CookieMatchesBody
    /\ Auth!SelectedServer /\ Auth!HelperDirsRemoved

\* cisco-dump.  With one command at a time at most one daemon gets past its comparison
\* with current-session.json; a running tcpdump has a daemon that will stop it, unless that
\* daemon was killed or could not save its pids; the OCSC files come from the loopback
\* capture of their session, after its end unless its stop failed; what the metadata of a
\* session says is never taken back, although the command and the daemon write the whole
\* file, except where such a write failed or was cut short.  The last
\* snapshot of every stream shows what its last look has seen, unless writing it failed.
\* A log the mirror thinks it has copied is in it as it was at that time.
DumpCorrect ==
  /\ [](part = "dump" =>
          Dump!TypeOK /\ Dump!OneDaemon /\ Dump!CapturesOwned /\ Dump!OcscFromLoopback)
  /\ Dump!MetadataKept
  /\ [](part = "monitor" => Monitor!TypeOK /\ Monitor!SnapshotsFollow)
  /\ [](part = "mirror" => Mirror!MirrorFaithful)

\* ssh-proxy.  A stop that reports success has seen the recorded ssh exit, whatever a
\* second command does and whoever gets its pid.  An ssh that runs is recorded, being
\* started, told to exit, or its start was interrupted: no error path leaves one behind.
\* A profile's record is dropped only when the ssh it names does not run any more.
SshProxyCorrect ==
  /\ [](part = "sshproxy" => SshProxy!TypeOK /\ SshProxy!StopHonest)
  /\ [](part = "profiles" =>
          SshProxy!TypeOK /\ SshProxy!StopHonest /\ SshProxy!NothingUntracked)
  /\ [][part = "profiles" => SshProxy!DropsEnded]_sshproxyVars
=============================================================================
