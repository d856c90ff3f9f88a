--------------------------- MODULE MCRoutingTable ---------------------------
(***************************************************************************)
(* RoutingTable over 3-bit identifiers: the XOR and leading_zeros of       *)
(* core/nodeid.rs on the numbers 0..7.                                     *)
(***************************************************************************)
EXTENDS RoutingTable

XorBit(a, b, w) == w * ((a \div w + b \div w) % 2)

XorOf(a, b) == XorBit(a, b, 1) + XorBit(a, b, 2) + XorBit(a, b, 4)

MCDist == [p \in Ids \X Ids |-> XorOf(p[1], p[2])]

LeadingZeros(d) == IF d >= 4 THEN 0 ELSE IF d >= 2 THEN 1 ELSE IF d = 1 THEN 2 ELSE 3

MCClz == [i \in Ids |-> LeadingZeros(XorOf(Self, i))]

\* Bound: the clock moves over tables of two endpoints and four ids; over larger
\* ones it rests at 0.
ClockBound ==
    \/ clock = 0 /\ \A n \in Entries(buckets) : n.seen = 0
    \/ /\ Cardinality(ips \cup routers) <= 2
       /\ \A n \in Entries(buckets) : n.id \in {0, 1, 5, 6}

MCSpec == Init /\ [][Next /\ ClockBound']_vars

AddrSymmetry == Permutations(Addrs)
=============================================================================
