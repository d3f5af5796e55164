--------------------------- MODULE InterfaceParse ----------------------------
(***************************************************************************)
(* The parsers of the interface audit (core/ifaceaudit/audit.go): utun     *)
(* blocks in the output of ifconfig, and default routes in that of         *)
(* netstat.  A line is a record of what the parser tells apart.            *)
(***************************************************************************)
EXTENDS Naturals, Sequences, SequencesExt

CONSTANT None

(* A line of ifconfig is "header" (a flags line of the interface `utun`, None  *)
(* for any other interface), "malformed" (begins with utun, is no flags line), *)
(* "column0" (anything else that is not indented), "inet" or "inet6" (indented,*)
(* with `good` an address and mask or prefix that can be read) or "indented".  *)

\* The line begins a block, or ends the one before it.
Column0(l) == l.kind \in {"header", "malformed", "column0"}

\* The current block, if it is one of an utun, is complete.
Emit(p) == IF p.cur = None THEN p.found ELSE Append(p.found, p.cur)

\* Mutant: a header of another interface leaves the block open.
ParseLineOpen(p, l) ==
  IF p.failed THEN p
  ELSE IF l.kind = "malformed" THEN [p EXCEPT !.failed = TRUE]
  ELSE IF l.kind = "header" /\ l.utun # None
       THEN [failed |-> FALSE, found |-> Emit(p),
             cur |-> [utun |-> l.utun, ipv4 |-> <<>>, ipv6 |-> <<>>]]
  ELSE IF p.cur = None \/ l.kind \notin {"inet", "inet6"} THEN p
  ELSE IF ~l.good THEN [p EXCEPT !.failed = TRUE]
  ELSE IF l.kind = "inet" THEN [p EXCEPT !.cur.ipv4 = Append(@, l.addr)]
  ELSE [p EXCEPT !.cur.ipv6 = Append(@, l.addr)]

ParseLine(p, l) ==
  IF p.failed THEN p
  ELSE IF l.kind = "malformed" THEN [p EXCEPT !.failed = TRUE]
  ELSE IF Column0(l)
       THEN [failed |-> FALSE, found |-> Emit(p),
             cur |-> IF l.kind = "header" /\ l.utun # None
                     THEN [utun |-> l.utun, ipv4 |-> <<>>, ipv6 |-> <<>>] ELSE None]
  ELSE IF p.cur = None \/ l.kind \notin {"inet", "inet6"} THEN p
  ELSE IF ~l.good THEN [p EXCEPT !.failed = TRUE]
  ELSE IF l.kind = "inet" THEN [p EXCEPT !.cur.ipv4 = Append(@, l.addr)]
  ELSE [p EXCEPT !.cur.ipv6 = Append(@, l.addr)]

\* The utun blocks, by the number of their interface; None when a line is refused.
ParseIfconfig(lines) ==
  LET p == FoldLeft(ParseLine, [failed |-> FALSE, found |-> <<>>, cur |-> None], lines)
  IN IF p.failed THEN None ELSE SortSeq(Emit(p), LAMBDA a, b : a.utun < b.utun)

(* A line of netstat has a destination "default", "low" (0/1), "high" (128.0/1) *)
(* or "other", and an interface, None when it is missing or is no name.         *)

routeDestination(l) == l.dest \in {"default", "low", "high"}

\* Mutant: the halves are collected without their interface.
ParseRouteShared(p, l) ==
  IF p.failed \/ ~routeDestination(l) THEN p
  ELSE IF l.iface = None THEN [p EXCEPT !.failed = TRUE]
  ELSE IF l.dest = "default" THEN [p EXCEPT !.routes = @ \cup {l.iface}]
  ELSE [p EXCEPT !.split = @ \cup {<<i, l.dest>> : i \in {l.iface} \cup {s[1] : s \in p.split}}]

ParseRoute(p, l) ==
  IF p.failed \/ ~routeDestination(l) THEN p
  ELSE IF l.iface = None THEN [p EXCEPT !.failed = TRUE]
  ELSE IF l.dest = "default" THEN [p EXCEPT !.routes = @ \cup {l.iface}]
  ELSE [p EXCEPT !.split = @ \cup {<<l.iface, l.dest>>}]

\* The interfaces with a default route: a line of their own, or both halves.
ParseDefaultRoutes(lines) ==
  LET p == FoldLeft(ParseRoute, [failed |-> FALSE, routes |-> {}, split |-> {}], lines)
  IN IF p.failed THEN None
     ELSE p.routes \cup {s[1] : s \in {t \in p.split : <<t[1], "low">> \in p.split
                                                    /\ <<t[1], "high">> \in p.split}}
=============================================================================
