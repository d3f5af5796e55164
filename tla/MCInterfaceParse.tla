-------------------------- MODULE MCInterfaceParse ---------------------------
(* Every output of up to MaxLen lines, one line at a time, against a          *)
(* definition of the result that looks at the lines and not at a parser state.*)
EXTENDS InterfaceParse, FiniteSets

CONSTANT MaxLen

VARIABLES lines, program

Ifconfig ==
  [kind : {"header"}, utun : {1, 2, None}] \cup [kind : {"malformed", "column0", "indented"}]
  \cup [kind : {"inet", "inet6"}, addr : {"x"}, good : BOOLEAN]
  \cup [kind : {"inet"}, addr : {"y"}, good : {TRUE}]

Netstat == [dest : {"default", "low", "high"}, iface : {1, 2, None}]
           \cup [dest : {"other"}, iface : {1, None}]

Init == lines = <<>> /\ program \in {"ifconfig", "netstat"}

Next ==
  /\ Len(lines) < MaxLen /\ UNCHANGED program
  /\ \E l \in IF program = "ifconfig" THEN Ifconfig ELSE Netstat : lines' = Append(lines, l)

Spec == Init /\ [][Next]_<<lines, program>>

\* The interface whose block line i belongs to.
BlockOf(i) ==
  LET starts == {j \in 1..i : Column0(lines[j])}
      last   == CHOOSE j \in starts : \A k \in starts : k <= j
  IN IF starts = {} \/ lines[last].kind # "header" THEN None ELSE last

Heads == {i \in DOMAIN lines : lines[i].kind = "header" /\ lines[i].utun # None}

InUtun(i) == BlockOf(i) \in Heads

Refused ==
  \E i \in DOMAIN lines :
    \/ lines[i].kind = "malformed"
    \/ /\ lines[i].kind \in {"inet", "inet6"}
       /\ ~lines[i].good /\ InUtun(i)

Addresses(h, k) ==
  SelectSeq([i \in DOMAIN lines |->
               IF lines[i].kind = k /\ BlockOf(i) = h THEN lines[i].addr ELSE None],
            LAMBDA a : a # None)

\* Every utun of the output is reported once per block, in the order of the
\* interface numbers, with exactly the addresses of its own block; output is
\* refused exactly when a line of an utun block cannot be read.
IfconfigExact ==
  program = "ifconfig" =>
    LET r == ParseIfconfig(lines)
    IN IF Refused THEN r = None
       ELSE /\ r # None /\ Len(r) = Cardinality(Heads)
            /\ \A i \in 1..(Len(r) - 1) : r[i].utun <= r[i + 1].utun
            /\ \A h \in Heads :
                 LET block == [utun |-> lines[h].utun, ipv4 |-> Addresses(h, "inet"),
                               ipv6 |-> Addresses(h, "inet6")]
                 IN Cardinality({i \in DOMAIN r : r[i] = block})
                    = Cardinality({g \in Heads : [utun |-> lines[g].utun,
                                                  ipv4 |-> Addresses(g, "inet"),
                                                  ipv6 |-> Addresses(g, "inet6")] = block})

Via(d, i) == \E j \in DOMAIN lines : lines[j].dest = d /\ lines[j].iface = i

\* An interface has a default route exactly when a default line names it or both
\* halves of the address space do; halves of two interfaces do not add up.
RoutesExact ==
  program = "netstat" =>
    ParseDefaultRoutes(lines)
      = IF \E d \in {"default", "low", "high"} : Via(d, None) THEN None
        ELSE {i \in {1, 2} : Via("default", i) \/ (Via("low", i) /\ Via("high", i))}
=============================================================================
