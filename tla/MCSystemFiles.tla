---------------------------- MODULE MCSystemFiles ----------------------------
(***************************************************************************)
(* The parts that work on files of the system (the socket, the runtime     *)
(* directory, session records, logs, resolver files) and do not call each  *)
(* other, explored side by side in one run: part names the one that moves, *)
(* the others stay in their initial state.                                 *)
(***************************************************************************)
EXTENDS Naturals

CONSTANTS None, Other, NL, NoFile,
          MaxInodes,    \* bound on the sockets and files at the public path
          Op,           \* uninstall commands
          MaxIno,       \* bound on the entries at the runtime path
          MaxReconnect, \* bound on the reconnects of a session
          Dir, Utun, MaxSessions,
          Shared,       \* the interface names that several sessions use
          VPNDomains, ServerDomains, BypassSuffixes, Entries, Machines

\* Domains of the corp.example kind, written as their labels: a VPN domain, one below it,
\* a bypass suffix and a server's domain below that.
Corp   == {<<"corp">>}
Inside == {<<"in", "corp">>}
Bypass == {<<"by", "corp">>}
InsideAndBelow == Inside \cup {<<"x", "by", "corp">>}
EitherProgram  == {{"tailscale"}, {"foreign"}, {"full"}}

VARIABLE part

\* Several daemons, killed anywhere, and a foreign program.
VARIABLES pc, private, public, sock, identity, ready, foreign, last
socketVars == <<pc, private, public, sock, identity, ready, foreign, last>>
Socket == INSTANCE SocketPublication

\* Several uninstalls at once, and the other users of the parent directory.
VARIABLES at, away, nextIno, quarantine, removing, expected, printed, moveErr, runtimeErr,
          removed
removalVars == <<at, away, nextIno, quarantine, removing, expected, printed, moveErr,
                 runtimeErr, removed>>
Removal == INSTANCE RuntimeRemoval WITH
  pc <- removing

\* The interface audit among the sessions of vless-tun and of openconnect-tun.
VARIABLES iface, ipv4, current, record, sessions, auditing, todo, listed, read, claims,
          issues, report, stable, seen
auditVars == <<iface, ipv4, current, record, sessions, auditing, todo, listed, read, claims,
               issues, report, stable, seen>>
Audit == INSTANCE InterfaceAudit WITH
  pc <- auditing, OC <- "openconnect"

\* Several sessions on few names, or one session among more names.
FewNames   == \A u \in Utun : iface[u] # None => u \in Shared
SingleSession == sessions <= 1

\* Every output of ifconfig and netstat of up to four lines.
VARIABLES lines, program
parseVars == <<lines, program>>
Parse == INSTANCE MCInterfaceParse WITH
  MaxLen <- 4

\* Every log of up to nine bytes.
VARIABLES data
tailVars == <<data>>
Tails == INSTANCE MCTailLines WITH
  MaxLen <- 9, MaxBytes <- 5, MaxKept <- 3, Byte <- "b"

\* The session log: bounded, and flushed by Close only.
VARIABLES log, lock, pending, done, logging, ap, held, snap, closeOk, linked, tail, dpc,
          headers, written
logVars == <<log, lock, pending, done, logging, ap, held, snap, closeOk, linked, tail, dpc,
             headers, written>>
Log == INSTANCE SessionLog WITH
  pc <- logging, MaxLines <- 2, MaxBytes <- 6, Threshold <- 9, Headers <- 4, Events <- 2,
  Outputs <- 3

\* The session log: every write may flush, nothing is cut.
Flush == INSTANCE SessionLog WITH
  pc <- logging, MaxLines <- 8, MaxBytes <- 6, Threshold <- 2, Headers <- 5, Events <- 1,
  Outputs <- 1

\* The session log: max_lines is 0.
Unbounded == INSTANCE SessionLog WITH
  pc <- logging, MaxLines <- 0, MaxBytes <- 6, Threshold <- 2, Headers <- 2, Events <- 3,
  Outputs <- 3

\* Resolver files of one session; Tailscale rewrites its search file, another program takes
\* over some of the others, or what the hooks do to files may fail.
VARIABLES resolver, failed, search, owned, unsanitized, defroute, pinned, tun, routes, backup,
          gateway, nameservers, oc, intr, hook, reconnects, warm, hookLog, go, others
wrapperVars == <<resolver, failed, search, owned, unsanitized, defroute, pinned, tun, routes,
                 backup, gateway, nameservers, oc, intr, hook, reconnects, warm, hookLog, go, others>>
Resolver == INSTANCE VpncWrapper WITH
  log <- hookLog, Sessions <- 1

\* Bounds.  The default route comes and goes only beside a program that takes over resolver
\* files, where there is no search.tailscale; and where what the hooks do to files may fail
\* there is no reconnect, and either resolver files fail or there is a search.tailscale.
OneTrouble ==
  /\ "foreign" \in others => search = NoFile
  /\ "foreign" \notin others => defroute
  /\ "full" \in others => reconnects[1] = 0 /\ (failed = {} \/ search = NoFile)

vars == <<part, socketVars, removalVars, auditVars, parseVars, tailVars, logVars, wrapperVars>>

ASSUME FilesAssumption ==
  /\ Socket!MaxInodesAssumption /\ Removal!RemovalAssumption
  /\ Audit!AuditAssumption
  /\ Log!Limits /\ Flush!Limits /\ Unbounded!Limits
  /\ Resolver!WrapperAssumption

Init ==
  /\ part \in {"socket", "removal", "audit", "names", "parse", "tail", "log", "flush", "unbounded",
              "resolver"}
  /\ Socket!Init /\ Removal!Init /\ Audit!Init /\ Parse!Init /\ Tails!Init
  /\ Resolver!Init
  /\ CASE part = "flush"     -> Flush!Init
       [] part = "unbounded" -> Unbounded!Init
       [] OTHER              -> Log!Init

Next ==
  \/ part = "socket" /\ Socket!Next
     /\ UNCHANGED <<part, removalVars, auditVars, parseVars, tailVars, logVars, wrapperVars>>
  \/ part = "removal" /\ Removal!Next
     /\ UNCHANGED <<part, socketVars, auditVars, parseVars, tailVars, logVars, wrapperVars>>
  \/ part = "audit" /\ Audit!Next /\ FewNames'
     /\ UNCHANGED <<part, socketVars, removalVars, parseVars, tailVars, logVars, wrapperVars>>
  \/ part = "names" /\ Audit!Next /\ SingleSession'
     /\ UNCHANGED <<part, socketVars, removalVars, parseVars, tailVars, logVars, wrapperVars>>
  \/ part = "parse" /\ Parse!Next
     /\ UNCHANGED <<part, socketVars, removalVars, auditVars, tailVars, logVars, wrapperVars>>
  \/ part = "tail" /\ Tails!Next
     /\ UNCHANGED <<part, socketVars, removalVars, auditVars, parseVars, logVars, wrapperVars>>
  \/ part = "log" /\ Log!Next
     /\ UNCHANGED <<part, socketVars, removalVars, auditVars, parseVars, tailVars, wrapperVars>>
  \/ part = "flush" /\ Flush!Next
     /\ UNCHANGED <<part, socketVars, removalVars, auditVars, parseVars, tailVars, wrapperVars>>
  \/ part = "unbounded" /\ Unbounded!Next
     /\ UNCHANGED <<part, socketVars, removalVars, auditVars, parseVars, tailVars, wrapperVars>>
  \/ part = "resolver" /\ Resolver!Next /\ OneTrouble'
     /\ UNCHANGED <<part, socketVars, removalVars, auditVars, parseVars, tailVars, logVars>>

Spec == Init /\ [][Next]_vars

\* An audit that has ended is told apart by its report and what it is compared with; one
\* under way has read the addresses.
AuditView ==
  CASE auditing = "failed"   -> <<>>
    [] auditing = "reported" -> <<report, issues, seen, [p \in stable |-> record[p]]>>
    [] auditing = "ready"    -> auditVars
    [] OTHER -> <<iface, current, record, sessions, auditing, todo, listed, read, claims, issues,
                  stable, seen>>

\* Nothing depends on the routes through the tunnel interface but whether one outlived it.
wrapperView ==
  <<resolver, failed, search, owned, unsanitized, backup, defroute, pinned, tun,
    tun = 0 /\ routes # {}, gateway, nameservers, oc, intr, hook, reconnects, warm, hookLog, go, others>>

\* A part that does not move does not tell states apart.
View ==
  <<part, CASE part = "socket"  -> socketVars
            [] part = "removal" -> removalVars
            [] part \in {"audit", "names"} -> AuditView
            [] part = "parse"   -> parseVars
            [] part = "tail"    -> tailVars
            [] part \in {"log", "flush", "unbounded"} -> logVars
            [] part = "resolver" -> wrapperView >>

---------------------------------------------------------------------------
(* What must hold of each part: its types, and                              *)

\* The published socket.  It is not reachable before it has its owner and mode; a start
\* that gets to bind finds the private path free, whatever a killed daemon left; and a
\* daemon that starts to serve has its own listener at the public path.
SocketCorrect ==
  /\ [](part = "socket" => Socket!TypeOK /\ Socket!PublishedReady /\ Socket!BindFree)
  /\ Socket!ServesItsOwn

\* The removal of the runtime directory.  uninstall removes recursively nothing but the
\* directory of root it inspected first; a reported success means that it is gone under
\* every name; one of several uninstalls removes it and alone reports success; an
\* entry that was moved by mistake stays in its quarantine.
RemovalCorrect ==
  /\ [](part = "removal" =>
          /\ Removal!TypeOK /\ Removal!OnlyVerifiedRemoved
          /\ Removal!SuccessMeansGone /\ Removal!OneWinner)
  /\ Removal!StrangersRetained

\* The interface audit.  An interface is reported as owned only if a live session had it
\* during the audit, and a session that ran during the whole audit is reported, or an issue
\* says why not.
AuditCorrect ==
  part \in {"audit", "names"} => Audit!TypeOK /\ Audit!OwnedWasLive /\ Audit!NoSilentMiss

\* What is read as text.  parseIfconfig reports every utun block with exactly its addresses
\* and parseDefaultRoutes needs a default line or both halves on one interface.  lastLines
\* keeps exactly the last lines, also piece by piece, and boundedLastLines the tail
\* within both limits.  A bounded log stays bounded, whoever writes to it; after Close has
\* returned nil it ends with the lines that Write accepted; overlapping, failing and
\* repeated flushes keep every accepted line exactly once.  The last events of vless-tun
\* are in it while the daemon writes to the same file, and without a bound the last output
\* of sing-box is, too.
TextCorrect ==
  /\ part = "parse" => Parse!IfconfigExact /\ Parse!RoutesExact
  /\ part = "tail" => Tails!LastLinesIsTail /\ Tails!CutsCompose /\ Tails!BoundedIsTail
  /\ part = "log" => Log!TypeOK /\ Log!Bounded /\ Log!TailKept /\ Log!EventsVisible
  /\ part = "flush" => Flush!TypeOK /\ Flush!AcceptedOnce
  /\ part = "unbounded" =>
       Unbounded!TypeOK /\ Unbounded!EventsVisible /\ Unbounded!OutputVisible

\* The resolver files of the hook, whose failures on files nobody notices.  While a start
\* that trusted the hook's log holds the tunnel open, the names of the VPN domains are
\* looked up at the VPN's servers, the bypass suffixes stay on the public path if pre-init
\* found the public name servers, and search.tailscale is as its owner wrote it or lists
\* nothing the VPN answers, each but for the files that the hook failed to write.  A stop
\* that waited and reports success leaves no shim file and no hook, and a bypass file only
\* after such a failure; an openconnect that ran its disconnect hook leaves neither the
\* route nor files, but those that the hook failed to remove.
ResolverCorrect ==
  part = "resolver" =>
    /\ Resolver!TypeOK
    /\ Resolver!VpnNamesOnVpn /\ Resolver!BypassWhenCaptured /\ Resolver!SearchClean
    /\ Resolver!StoppedClean /\ Resolver!DisconnectCleans
=============================================================================
