--------------------------- MODULE InterfaceAudit ----------------------------
(***************************************************************************)
(* vpn-core interfaces (core/vpncorecli/interfaces.go, core/ifaceaudit):   *)
(* one audit that reads the interfaces, the routes and then one session    *)
(* record after another, while sessions start and end, records are saved   *)
(* and cleared, and utun names pass from one program to another.           *)
(***************************************************************************)
EXTENDS Naturals, FiniteSets

CONSTANTS
  Dir,          \* cache directories of the vless-tun configuration
  OC,           \* the cache directory of openconnect-tun
  Utun,         \* interface names
  MaxSessions,  \* bound: sessions that ever start
  None, Other   \* nothing; a program that is not ours

Place == Dir \cup {OC}

VARIABLES
  iface,    \* for each name: nothing, a session's number, or another program
  ipv4,     \* the names that have an IPv4 address
  current,  \* for each place: the session that runs there, 0 for none
  record,   \* for each place: its session record
  sessions, \* how many sessions have started
  pc, todo, \* the audit, and the places it still has to read
  listed,   \* the interfaces it has listed, with their addresses
  read,     \* the record it has read and not checked yet
  claims, issues,
  report,   \* the class of each listed name
  stable,   \* places whose recorded, running session has not changed since the audit began
  seen      \* names that a live session had at some time during the audit

vars == <<iface, ipv4, current, record, sessions, pc, todo, listed, read, claims, issues,
          report, stable, seen>>

world == <<iface, ipv4, current, record, sessions>>
audit == <<pc, todo, listed, read, claims, issues, report>>

\* A record names a session and its interface, None in one of an older version;
\* pid is missing while a session starts.
Record == [session : 1..MaxSessions, iface : Utun \cup {None}, pid : BOOLEAN]

AuditAssumption ==
  /\ OC \notin Dir /\ MaxSessions \in Nat
  /\ None # Other /\ {None, Other} \cap 0..MaxSessions = {}
  /\ None \notin Utun \cup Record \cup [place : Place, rec : Record]

IfaceOf(s) == CHOOSE u \in Utun : iface[u] = s
Alive(s)   == \E u \in Utun : iface[u] = s

Init ==
  /\ iface = [u \in Utun |-> None] /\ ipv4 = {} /\ current = [p \in Place |-> 0]
  /\ record = [p \in Place |-> None] /\ sessions = 0
  /\ pc = "ready" /\ todo = {} /\ listed = {} /\ read = None /\ claims = {} /\ issues = {}
  /\ report = [u \in {} |-> None] /\ stable = {} /\ seen = {}

\* A step of the world before or during the audit; what happens later does not matter.
Observe ==
  /\ pc \notin {"reported", "failed"} /\ UNCHANGED audit
  /\ stable' = {p \in stable : current'[p] = current[p] /\ record'[p] = record[p]}
  /\ seen' = IF pc = "ready" THEN {} ELSE seen \cup {u \in Utun : iface'[u] \in 1..MaxSessions}
-----------------------------------------------------------------------------
(* The world *)

StartSession(p) ==
  /\ current[p] = 0 /\ sessions < MaxSessions
  /\ \E u \in Utun : iface[u] = None /\ iface' = [iface EXCEPT ![u] = sessions + 1]
                     /\ ipv4' = ipv4 \cup {u}
  /\ sessions' = sessions + 1 /\ current' = [current EXCEPT ![p] = sessions + 1]
  /\ UNCHANGED record /\ Observe

\* A record is saved while the session starts, and again when its pid is known.
SaveRecord(p) ==
  /\ current[p] # 0
  /\ record[p] # None => (record[p].session # current[p] \/ ~record[p].pid)
  /\ \E pid \in BOOLEAN, u \in {IfaceOf(current[p]), None} :
       record' = [record EXCEPT ![p] = [session |-> current[p], iface |-> u, pid |-> pid]]
  /\ UNCHANGED <<iface, ipv4, current, sessions>> /\ Observe

EndSession(p) ==
  /\ current[p] # 0 /\ current' = [current EXCEPT ![p] = 0]
  /\ iface' = [iface EXCEPT ![IfaceOf(current[p])] = None]
  /\ ipv4' = ipv4 \ {IfaceOf(current[p])}
  /\ UNCHANGED <<record, sessions>> /\ Observe

ClearRecord(p) ==
  /\ record[p] # None /\ record' = [record EXCEPT ![p] = None]
  /\ UNCHANGED <<iface, ipv4, current, sessions>> /\ Observe

OtherProgram ==
  /\ \E u \in Utun :
       \/ /\ iface[u] = None /\ iface' = [iface EXCEPT ![u] = Other]
          /\ ipv4' \in {ipv4, ipv4 \cup {u}}
       \/ iface[u] = Other /\ iface' = [iface EXCEPT ![u] = None] /\ ipv4' = ipv4 \ {u}
  /\ UNCHANGED <<current, record, sessions>> /\ Observe
-----------------------------------------------------------------------------
(* The audit *)

Quiet == UNCHANGED <<world, stable, seen>>

Fail == pc' = "failed" /\ UNCHANGED <<todo, listed, read, claims, issues, report>> /\ Quiet

\* ifconfig and its parser.
ReadInterfaces ==
  /\ pc = "ready"
  /\ \/ Fail
     \/ /\ pc' = "routes"
        /\ listed' = {[name |-> u, ipv4 |-> u \in ipv4] : u \in {v \in Utun : iface[v] # None}}
        /\ stable' = {p \in Place : /\ current[p] # 0 /\ record[p] # None
                                    /\ record[p].session = current[p]}
        /\ seen' = {u \in Utun : iface[u] \in 1..MaxSessions}
        /\ UNCHANGED <<world, todo, read, claims, issues, report>>

\* netstat and its parser, then the configurations. One of vless-tun that cannot be
\* read is an issue for all its directories, and the other engine goes on.
ReadRoutes ==
  /\ pc = "routes"
  /\ \/ Fail
     \/ /\ pc' = "vless" /\ \/ todo' = Dir /\ UNCHANGED issues
                            \/ todo' = {} /\ issues' = issues \cup Dir
        /\ UNCHANGED <<listed, read, claims, report>> /\ Quiet

\* Mutant: a record that cannot be read is skipped like one that is not there.
ReadRecordSilent(p) ==
  /\ read = None
  /\ \/ /\ record[p] = None \/ record[p].iface = None
        /\ read' = None /\ todo' = todo \ {p} /\ UNCHANGED issues
     \/ read' = None /\ todo' = todo \ {p} /\ issues' = issues \cup {p}
     \/ /\ record[p] # None /\ record[p].iface # None
        /\ read' = [place |-> p, rec |-> record[p]] /\ UNCHANGED <<todo, issues>>

\* Mutant: the record of an older version is taken for a claim.
ReadRecordUnnamed(p) ==
  /\ read = None
  /\ \/ record[p] = None /\ read' = None /\ todo' = todo \ {p} /\ UNCHANGED issues
     \/ record[p] # None /\ read' = [place |-> p, rec |-> record[p]] /\ UNCHANGED <<todo, issues>>

\* The record of one place: absent, without an interface, unreadable, or a claim.
ReadRecord(p) ==
  /\ read = None
  /\ \/ record[p] = None /\ read' = None /\ todo' = todo \ {p} /\ UNCHANGED issues
     \/ read' = None /\ todo' = todo \ {p} /\ issues' = issues \cup {p}
     \/ /\ record[p] # None /\ record[p].iface # None
        /\ read' = [place |-> p, rec |-> record[p]] /\ UNCHANGED <<todo, issues>>

\* Mutant: the record alone makes the session alive.
LivenessesOfRecord(r) == {"alive", "unknown"}

\* livenessFromCheck: the process of the record is alive or not, or the check fails.
Livenesses(r) == {IF Alive(r.session) THEN "alive" ELSE "dead", "unknown"}

\* A record without a pid is not dead, for its session may be starting; for
\* openconnect it is not alive either.
Liveness(p, r, l) ==
  IF ~r.pid /\ (l = "dead" \/ p = OC) THEN "unknown" ELSE l

\* The liveness of the session that was read, at a later moment.
CheckLiveness ==
  /\ read # None /\ read' = None /\ todo' = todo \ {read.place}
  /\ \E l \in Livenesses(read.rec) :
       /\ claims' = claims \cup {[iface |-> read.rec.iface,
                                  liveness |-> Liveness(read.place, read.rec, l)]}
       /\ issues' = IF l = "unknown" THEN issues \cup {read.place} ELSE issues

Collect ==
  \/ \E p \in todo : ReadRecord(p) /\ UNCHANGED claims
  \/ CheckLiveness

CollectVLESSClaims ==
  /\ pc = "vless"
  /\ \/ Collect /\ UNCHANGED pc
     \/ /\ todo = {} /\ pc' = "openconnect" /\ todo' = {OC}
        /\ UNCHANGED <<read, claims, issues>>
  /\ UNCHANGED <<listed, report>> /\ Quiet

CollectOpenConnectClaim ==
  /\ pc = "openconnect"
  /\ \/ Collect /\ UNCHANGED pc
     \/ todo = {} /\ pc' = "classify" /\ UNCHANGED <<todo, read, claims, issues>>
  /\ UNCHANGED <<listed, report>> /\ Quiet

\* Mutant: a dead claim is taken before one that is alive.
ClassDeadFirst(i) ==
  LET levels == {c.liveness : c \in {d \in claims : d.iface = i.name}}
  IN CASE "dead" \in levels -> "unverified"
       [] "alive" \in levels /\ "dead" \notin levels -> "owned"
       [] levels = {"unknown"} -> "unverified"
       [] levels = {} /\ i.ipv4 -> "unknown"
       [] OTHER -> "system"

\* classifyResult: alive before unknown before dead, and addresses only among the
\* interfaces nobody claims.
Class(i) ==
  LET levels == {c.liveness : c \in {d \in claims : d.iface = i.name}}
  IN CASE "alive" \in levels -> "owned"
       [] levels # {} /\ "alive" \notin levels -> "unverified"
       [] levels = {} /\ i.ipv4 -> "unknown"
       [] OTHER -> "system"

Classify ==
  /\ pc = "classify" /\ pc' = "reported"
  /\ report' = [u \in {i.name : i \in listed} |-> Class(CHOOSE i \in listed : i.name = u)]
  /\ UNCHANGED <<todo, listed, read, claims, issues>> /\ Quiet

Next ==
  \/ \E p \in Place : StartSession(p) \/ SaveRecord(p) \/ EndSession(p) \/ ClearRecord(p)
  \/ OtherProgram
  \/ ReadInterfaces \/ ReadRoutes \/ CollectVLESSClaims \/ CollectOpenConnectClaim \/ Classify

Spec == Init /\ [][Next]_vars
-----------------------------------------------------------------------------
(* Properties *)

TypeOK ==
  /\ iface \in [Utun -> 1..MaxSessions \cup {None, Other}] /\ ipv4 \subseteq Utun
  /\ current \in [Place -> 0..MaxSessions] /\ sessions \in 0..MaxSessions
  /\ record \in [Place -> Record \cup {None}]
  /\ pc \in {"ready", "routes", "vless", "openconnect", "classify", "reported", "failed"}
  /\ {todo, stable, issues} \subseteq SUBSET Place
  /\ listed \subseteq [name : Utun, ipv4 : BOOLEAN]
  /\ read \in [place : Place, rec : Record] \cup {None}
  /\ claims \subseteq [iface : Utun, liveness : {"alive", "unknown", "dead"}]
  /\ \A u \in DOMAIN report : report[u] \in {"owned", "unverified", "unknown", "system"}

\* An interface is reported as owned only if a live session of ours had it at some
\* moment of the audit: a stale record of a name that another program has taken
\* over never makes it ours.
OwnedWasLive ==
  pc = "reported" => \A u \in DOMAIN report : report[u] = "owned" => u \in seen

\* No silent miss: a session that ran, with one and the same record, during the
\* whole audit is reported as the owner of its interface, or an issue says that its
\* record or its liveness could not be read, or it has no pid yet and its
\* interface is unverified, whatever stale claims others have on the name.
NoSilentMiss ==
  pc = "reported" => \A p \in stable \ issues :
    LET u == record[p].iface
    IN /\ u \in DOMAIN report
       /\ report[u] = "owned" \/ (~record[p].pid /\ report[u] = "unverified")
=============================================================================
