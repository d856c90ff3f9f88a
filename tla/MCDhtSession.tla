---------------------------- MODULE MCDhtSession ----------------------------
(***************************************************************************)
(* DhtSession over the ids of MCRoutingTable, two nodes and a router.      *)
(***************************************************************************)
EXTENDS DhtSession

XorBit(a, b, w) == w * ((a \div w + b \div w) % 2)
XorOf(a, b) == XorBit(a, b, 1) + XorBit(a, b, 2) + XorBit(a, b, 4)
MCDist == [p \in Ids \X Ids |-> XorOf(p[1], p[2])]
LeadingZeros(d) == IF d >= 4 THEN 0 ELSE IF d >= 2 THEN 1 ELSE IF d = 1 THEN 2 ELSE 3
MCClz == [i \in Ids |-> LeadingZeros(XorOf(Self, i))]

MCIdOf == [ip \in Addrs |-> IF ip = "b" THEN 4 ELSE 1]
\* The true nodes, and one endpoint under the id of another.
MCTold == {<<1, "a">>, <<4, "b">>, <<4, "a">>}
=============================================================================
