-------------------------- MODULE DhtSessionProofs --------------------------
(***************************************************************************)
(* Proofs about the routing table, about the messages, and about the       *)
(* session that uses both: for every id length, bucket size, number of     *)
(* buckets, set of endpoints and hashes, and for whatever answers are      *)
(* given.                                                                  *)
(*                                                                         *)
(* The first part is about RoutingTable alone and its own specification.   *)
(* The second reads what Bencode and Messages write: a decoder that may    *)
(* begin an object anywhere reads the tokens of an encoded one as that     *)
(* object (Encodes), entries put keys over those of a dictionary (Adds),   *)
(* and each kind of message follows field by field.  The third ranks what  *)
(* find_node returns, and the last is the session's inductive invariant.   *)
(***************************************************************************)
EXTENDS DhtSession, DataLemmas, SequenceTheorems

-----------------------------------------------------------------------------
(* The invariants as predicates of any list of buckets, so that they can be *)
(* stated of the buckets add_node has after some of its splits.             *)

Shaped(bs) ==
    /\ bs \in Seq(Seq(Node))
    /\ Len(bs) \in 1..MaxBuckets
    /\ \A b \in DOMAIN bs : Len(bs[b]) <= K

Placed(bs) ==
    \A b \in DOMAIN bs : \A i \in DOMAIN bs[b] : BucketIndex(bs[b][i].id, Len(bs)) = b

\* No endpoint at two places.
Unique(bs) ==
    \A b, c \in DOMAIN bs : \A i \in DOMAIN bs[b], j \in DOMAIN bs[c] :
        bs[b][i].ip = bs[c][j].ip => b = c /\ i = j

\* es is the set of the stored endpoints.
Indexes(es, bs) ==
    /\ \A b \in DOMAIN bs : \A i \in DOMAIN bs[b] : bs[b][i].ip \in es
    /\ \A ip \in es : \E b \in DOMAIN bs : \E i \in DOMAIN bs[b] : bs[b][i].ip = ip

Consistent(bs, es) ==
    /\ Shaped(bs)
    /\ Placed(bs)
    /\ Unique(bs)
    /\ Indexes(es, bs)

\* The inductive invariant.
IInv == TypeOK /\ Placement /\ EndpointIndex

(* The inductive invariant, without the helper operators. *)
LEMMA IInvIsConsistent ==
    IInv <=> /\ Consistent(buckets, ips)
             /\ ips \subseteq Addrs
             /\ routers \subseteq Addrs
             /\ clock \in 0..MaxNow
<1>1. TypeOK <=> /\ Shaped(buckets)
                 /\ ips \subseteq Addrs
                 /\ routers \subseteq Addrs
                 /\ clock \in 0..MaxNow
  BY DEF TypeOK, Shaped
<1>2. Placement <=> Placed(buckets)
  BY DEF Placement, Placed, Range
<1>3. (ips = {n.ip : n \in Entries(buckets)}) <=> Indexes(ips, buckets)
  <2>1. \A x : x \in {n.ip : n \in Entries(buckets)}
                  <=> \E b \in DOMAIN buckets : \E i \in DOMAIN buckets[b] : buckets[b][i].ip = x
    BY DEF Entries, Range
  <2> DEFINE stored == {n.ip : n \in Entries(buckets)}
  <2> HIDE DEF stored
  <2>2. \A x : x \in stored
                  <=> \E b \in DOMAIN buckets : \E i \in DOMAIN buckets[b] : buckets[b][i].ip = x
    BY <2>1 DEF stored
  <2>3. ASSUME ips = stored PROVE Indexes(ips, buckets)
    BY <2>2, <2>3 DEF Indexes
  <2>4. ASSUME Indexes(ips, buckets) PROVE ips = stored
    <3>1. \A x \in ips : x \in stored
      BY <2>2, <2>4 DEF Indexes
    <3>2. \A x \in stored : x \in ips
      BY <2>2, <2>4 DEF Indexes
    <3>3. QED
      BY <3>1, <3>2
  <2>5. QED
    BY <2>3, <2>4 DEF stored
<1>4. (\A p, q \in Positions(buckets) : At(buckets, p).ip = At(buckets, q).ip => p = q)
         <=> Unique(buckets)
  <2>1. \A b \in DOMAIN buckets : \A i \in DOMAIN buckets[b] :
            <<b, i>> \in Positions(buckets) /\ At(buckets, <<b, i>>) = buckets[b][i]
    BY DEF Positions, At
  <2>2. \A p \in Positions(buckets) :
            \E b \in DOMAIN buckets : \E i \in DOMAIN buckets[b] : p = <<b, i>>
    BY DEF Positions
  <2>3. ASSUME Unique(buckets),
               NEW p \in Positions(buckets), NEW q \in Positions(buckets),
               At(buckets, p).ip = At(buckets, q).ip
        PROVE  p = q
    <3>1. PICK b \in DOMAIN buckets : \E i \in DOMAIN buckets[b] : p = <<b, i>>
      BY <2>2
    <3>2. PICK i \in DOMAIN buckets[b] : p = <<b, i>>
      BY <3>1
    <3>3. PICK c \in DOMAIN buckets : \E j \in DOMAIN buckets[c] : q = <<c, j>>
      BY <2>2
    <3>4. PICK j \in DOMAIN buckets[c] : q = <<c, j>>
      BY <3>3
    <3>5. buckets[b][i].ip = buckets[c][j].ip
      BY <2>1, <2>3, <3>2, <3>4
    <3>6. QED
      BY <2>3, <3>2, <3>4, <3>5 DEF Unique
  <2>4. ASSUME \A p, q \in Positions(buckets) : At(buckets, p).ip = At(buckets, q).ip => p = q,
               NEW b \in DOMAIN buckets, NEW c \in DOMAIN buckets,
               NEW i \in DOMAIN buckets[b], NEW j \in DOMAIN buckets[c],
               buckets[b][i].ip = buckets[c][j].ip
        PROVE  b = c /\ i = j
    <3>1. <<b, i>> = <<c, j>>
      BY <2>1, <2>4
    <3>2. QED
      BY <3>1
  <2>5. QED
    BY <2>3, <2>4 DEF Unique
<1>5. QED
  BY <1>1, <1>2, <1>3, <1>4 DEF IInv, EndpointIndex, Consistent

-----------------------------------------------------------------------------
(* Lookups *)

(* calc_bucket_index names an existing bucket. *)
LEMMA BucketIndexInRange ==
    ASSUME NEW id \in Ids, NEW len \in Nat \ {0}
    PROVE  BucketIndex(id, len) \in 1..len
BY TableAssumption DEF BucketIndex

(* More buckets move a node of the last one to a later one, if at all. *)
LEMMA BucketIndexGrows ==
    ASSUME NEW id \in Ids, NEW len \in Nat \ {0}, NEW n \in Nat,
           BucketIndex(id, len) = len
    PROVE  BucketIndex(id, len + n) \in len..(len + n)
<1>1. Clz[id] \in Nat
  BY TableAssumption
<1>2. QED
  BY <1>1 DEF BucketIndex

(* The first node with an id is one with that id. *)
LEMMA FirstWithIdFound ==
    ASSUME NEW nodes \in Seq(Node), NEW id
    PROVE  FirstWithId(nodes, id) # 0 =>
              /\ FirstWithId(nodes, id) \in DOMAIN nodes
              /\ nodes[FirstWithId(nodes, id)].id = id
<1> DEFINE hits == {i \in DOMAIN nodes : nodes[i].id = id}
<1>1. CASE hits = {}
  BY <1>1 DEF FirstWithId
<1>2. CASE hits # {}
  <2>1. hits \in SUBSET Nat
    OBVIOUS
  <2>2. Min(hits) \in hits
    BY <1>2, <2>1, MinOfNaturals
  <2>3. FirstWithId(nodes, id) = Min(hits)
    BY <1>2 DEF FirstWithId
  <2>4. QED
    BY <2>2, <2>3
<1>3. QED
  BY <1>1, <1>2

(* What Shaped says, spelt out. *)
LEMMA ShapedFacts ==
    ASSUME NEW bs, Shaped(bs)
    PROVE  /\ bs \in Seq(Seq(Node))
           /\ Len(bs) \in Nat \ {0}
           /\ Len(bs) <= MaxBuckets
           /\ DOMAIN bs = 1..Len(bs)
           /\ \A b \in DOMAIN bs :
                 /\ bs[b] \in Seq(Node)
                 /\ Len(bs[b]) \in Nat
                 /\ Len(bs[b]) <= K
                 /\ DOMAIN bs[b] = 1..Len(bs[b])
                 /\ \A i \in DOMAIN bs[b] : /\ bs[b][i] \in Node
                                            /\ bs[b][i].id \in Ids
                                            /\ bs[b][i].ip \in Addrs
                                            /\ Clz[bs[b][i].id] \in Nat
<1>1. /\ bs \in Seq(Seq(Node))
      /\ Len(bs) \in Nat \ {0}
      /\ Len(bs) <= MaxBuckets
      /\ DOMAIN bs = 1..Len(bs)
      /\ \A b \in DOMAIN bs : Len(bs[b]) <= K
  BY TableAssumption DEF Shaped
<1>2. ASSUME NEW b \in DOMAIN bs
      PROVE  /\ bs[b] \in Seq(Node)
             /\ Len(bs[b]) \in Nat
             /\ DOMAIN bs[b] = 1..Len(bs[b])
  BY <1>1
<1>3. ASSUME NEW b \in DOMAIN bs, NEW i \in DOMAIN bs[b]
      PROVE  /\ bs[b][i] \in Node
             /\ bs[b][i].id \in Ids
             /\ bs[b][i].ip \in Addrs
             /\ Clz[bs[b][i].id] \in Nat
  <2>1. bs[b][i] \in Node
    BY <1>2
  <2>2. QED
    BY <2>1, TableAssumption DEF Node
<1>4. QED
  BY <1>1, <1>2, <1>3

-----------------------------------------------------------------------------
(* Splitting *)

\* The nodes that n splits of len buckets send to bucket b >= len.
SentTo(b, len, n) ==
    IF b < len + n THEN {x \in Node : Clz[x.id] + 1 \in {b}}
    ELSE Node \ {x \in Node : Clz[x.id] + 1 \in len..(len + n - 1)}

(* The buckets after n splits: the old ones, the last one divided up. *)
LEMMA SplitBuckets ==
    ASSUME NEW bs, Shaped(bs), NEW n \in Nat
    PROVE  /\ SplitTimes(bs, n) \in Seq(Seq(Node))
           /\ Len(SplitTimes(bs, n)) = Len(bs) + n
           /\ \A b \in 1..(Len(bs) - 1) : SplitTimes(bs, n)[b] = bs[b]
           /\ \A b \in Len(bs)..(Len(bs) + n) :
                 \E h : KeptFrom(bs[Len(bs)], SentTo(b, Len(bs), n), Len(bs[Len(bs)]),
                                 SplitTimes(bs, n)[b], h)
<1> DEFINE len == Len(bs)
           new == SplitTimes(bs, n)
<1>1. /\ len \in Nat \ {0}
      /\ len \in DOMAIN bs
      /\ bs[len] \in Seq(Node)
      /\ \A b \in 1..len : bs[b] \in Seq(Node)
  BY ShapedFacts
<1>2. DOMAIN new = 1..(len + n)
  BY DEF SplitTimes
<1>3. \A b \in 1..(len - 1) : new[b] = bs[b]
  BY <1>1 DEF SplitTimes
<1>4. \A b \in len..(len + n) : new[b] = Keep(bs[len], SentTo(b, len, n))
  <2>1. ASSUME NEW b \in len..(len + n - 1)
        PROVE  new[b] = Keep(bs[len], SentTo(b, len, n))
    BY <1>1, <2>1 DEF SplitTimes, SentTo
  <2>2. new[len + n] = Keep(bs[len], SentTo(len + n, len, n))
    BY <1>1 DEF SplitTimes, SentTo
  <2>3. ASSUME NEW b \in len..(len + n)
        PROVE  b \in len..(len + n - 1) \/ b = len + n
    <3>1. len \in Nat
      BY <1>1
    <3> HIDE DEF len, new
    <3>2. QED
      BY <3>1
  <2>4. QED
    BY <2>1, <2>2, <2>3
<1> HIDE DEF new
<1>5. \A b \in len..(len + n) :
          /\ new[b] \in Seq(Node)
          /\ \E h : KeptFrom(bs[len], SentTo(b, len, n), Len(bs[len]), new[b], h)
  BY <1>1, <1>4, KeepProperties
<1>6. \A b \in 1..(len + n) : new[b] \in Seq(Node)
  BY <1>1, <1>3, <1>5
<1>7. new = [b \in 1..(len + n) |-> new[b]]
  BY DEF new, SplitTimes
<1>8. new \in Seq(Seq(Node)) /\ Len(new) = len + n
  <2>1. len + n \in Nat
    BY <1>1
  <2>2. new \in [1..(len + n) -> Seq(Node)]
    BY <1>6, <1>7
  <2>3. QED
    BY <2>1, <2>2
<1>9. QED
  BY <1>3, <1>5, <1>8 DEF new

(* A node of the last bucket is sent to the bucket it belongs to. *)
LEMMA SentWhereItBelongs ==
    ASSUME NEW bs, Shaped(bs), Placed(bs), NEW n \in Nat,
           NEW i \in DOMAIN bs[Len(bs)],
           NEW b \in Len(bs)..(Len(bs) + n)
    PROVE  bs[Len(bs)][i] \in SentTo(b, Len(bs), n)
              <=> BucketIndex(bs[Len(bs)][i].id, Len(bs) + n) = b
<1> DEFINE len == Len(bs)
           x == bs[len][i]
<1>1. len \in Nat \ {0} /\ len \in DOMAIN bs /\ x \in Node
  BY ShapedFacts
<1>2. x.id \in Ids /\ Clz[x.id] \in Nat
  BY <1>1, ShapedFacts
<1>3. BucketIndex(x.id, len) = len
  BY <1>1 DEF Placed
<1>4. Clz[x.id] + 1 >= len
  BY <1>1, <1>2, <1>3 DEF BucketIndex
<1>5. QED
  BY <1>1, <1>2, <1>4 DEF BucketIndex, SentTo

(* Every node after the splits was a node before, and lies where it belongs. *)
LEMMA SplitSource ==
    ASSUME NEW bs, Shaped(bs), Placed(bs), NEW n \in Nat,
           NEW b \in DOMAIN SplitTimes(bs, n),
           NEW i \in DOMAIN SplitTimes(bs, n)[b]
    PROVE  /\ BucketIndex(SplitTimes(bs, n)[b][i].id, Len(bs) + n) = b
           /\ \E c \in DOMAIN bs : \E j \in DOMAIN bs[c] : SplitTimes(bs, n)[b][i] = bs[c][j]
<1> DEFINE len == Len(bs)
           new == SplitTimes(bs, n)
<1>1. /\ len \in Nat \ {0}
      /\ DOMAIN bs = 1..len
      /\ \A c \in 1..len : bs[c] \in Seq(Node)
  BY ShapedFacts
<1>2. b \in 1..(len + n) /\ new[b] \in Seq(Node)
  <2>1. new \in Seq(Seq(Node)) /\ Len(new) = len + n
    BY SplitBuckets
  <2>2. b \in DOMAIN new
    OBVIOUS
  <2> HIDE DEF new, len
  <2>3. DOMAIN new = 1..(len + n)
    BY <2>1
  <2>4. QED
    BY <2>1, <2>2, <2>3
<1>3. CASE b < len
  <2>1. new[b] = bs[b] /\ b \in DOMAIN bs
    <3>1. b \in 1..(len - 1) /\ b \in DOMAIN bs
      BY <1>1, <1>2, <1>3
    <3>2. QED
      BY <3>1, SplitBuckets
  <2>2. bs[b][i] \in Node /\ BucketIndex(bs[b][i].id, len) = b
    BY <1>1, <2>1 DEF Placed
  <2>3. bs[b][i].id \in Ids
    BY <2>2 DEF Node
  <2>4. BucketIndex(bs[b][i].id, len + n) = b
    BY <1>1, <1>3, <2>2, <2>3, TableAssumption DEF BucketIndex
  <2>5. QED
    BY <2>1, <2>4
<1>4. CASE b >= len
  <2>1. b \in len..(len + n)
    BY <1>1, <1>2, <1>4
  <2>2. PICK h : KeptFrom(bs[len], SentTo(b, len, n), Len(bs[len]), new[b], h)
    BY <2>1, SplitBuckets
  <2>3. /\ h[i] \in 1..Len(bs[len])
        /\ new[b][i] = bs[len][h[i]]
        /\ bs[len][h[i]] \in SentTo(b, len, n)
    <3>1. i \in 1..Len(new[b])
      BY <1>2
    <3>2. h[i] \in 1..Len(bs[len]) /\ new[b][i] = bs[len][h[i]]
      BY <2>2, <3>1 DEF KeptFrom
    <3>3. QED
      BY <2>2, <3>1, <3>2 DEF KeptFrom
  <2>4. h[i] \in DOMAIN bs[len]
    BY <1>1, <2>3
  <2>5. BucketIndex(bs[len][h[i]].id, len + n) = b
    BY <2>1, <2>3, <2>4, SentWhereItBelongs
  <2>6. QED
    BY <1>1, <2>3, <2>4, <2>5
<1>5. QED
  BY <1>1, <1>2, <1>3, <1>4

(* Every node before the splits is still there. *)
LEMMA SplitKeepsNodes ==
    ASSUME NEW bs, Shaped(bs), Placed(bs), NEW n \in Nat,
           NEW c \in DOMAIN bs, NEW j \in DOMAIN bs[c]
    PROVE  \E b \in DOMAIN SplitTimes(bs, n) : \E i \in DOMAIN SplitTimes(bs, n)[b] :
              SplitTimes(bs, n)[b][i] = bs[c][j]
<1> DEFINE len == Len(bs)
           new == SplitTimes(bs, n)
<1>1. /\ len \in Nat \ {0}
      /\ DOMAIN bs = 1..len
      /\ \A b \in 1..len : bs[b] \in Seq(Node)
      /\ DOMAIN new = 1..(len + n)
      /\ \A b \in 1..(len + n) : new[b] \in Seq(Node)
  <2>1. len \in Nat \ {0} /\ DOMAIN bs = 1..len /\ \A b \in 1..len : bs[b] \in Seq(Node)
    BY ShapedFacts
  <2>2. new \in Seq(Seq(Node)) /\ Len(new) = len + n
    BY SplitBuckets
  <2> HIDE DEF new
  <2>3. QED
    BY <2>1, <2>2
<1>2. CASE c < len
  <2>1. c \in DOMAIN new /\ new[c] = bs[c]
    <3>1. c \in 1..(len - 1) /\ c \in DOMAIN new
      BY <1>1, <1>2
    <3>2. QED
      BY <3>1, SplitBuckets
  <2>2. QED
    BY <2>1
<1>3. CASE c = len
  <2>1. PICK b : b = BucketIndex(bs[len][j].id, len + n)
    OBVIOUS
  <2>2. BucketIndex(bs[len][j].id, len) = len /\ bs[len][j].id \in Ids
    BY <1>1, <1>3, ShapedFacts DEF Placed
  <2>3. b \in len..(len + n)
    BY <1>1, <2>1, <2>2, BucketIndexGrows
  <2>4. bs[len][j] \in SentTo(b, len, n)
    BY <1>3, <2>1, <2>3, SentWhereItBelongs
  <2>5. PICK h : KeptFrom(bs[len], SentTo(b, len, n), Len(bs[len]), new[b], h)
    BY <2>3, SplitBuckets
  <2>6. j \in 1..Len(bs[len])
    BY <1>1, <1>3
  <2>7. PICK i \in 1..Len(new[b]) : h[i] = j
    BY <2>4, <2>5, <2>6 DEF KeptFrom
  <2>8. new[b][i] = bs[len][j]
    BY <2>5, <2>7 DEF KeptFrom
  <2>9. b \in DOMAIN new /\ i \in DOMAIN new[b]
    BY <1>1, <2>3, <2>7
  <2>10. QED
    BY <1>3, <2>8, <2>9
<1>4. QED
  BY <1>1, <1>2, <1>3

(* Two places that hold the same node after the splits are one place. *)
LEMMA SplitUnique ==
    ASSUME NEW bs, Shaped(bs), Placed(bs), Unique(bs), NEW n \in Nat
    PROVE  Unique(SplitTimes(bs, n))
<1> DEFINE len == Len(bs)
           new == SplitTimes(bs, n)
<1>1. /\ len \in Nat \ {0}
      /\ DOMAIN bs = 1..len
      /\ \A b \in 1..len : bs[b] \in Seq(Node)
  BY ShapedFacts
<1>2. /\ DOMAIN new = 1..(len + n)
      /\ \A b \in 1..(len + n) : new[b] \in Seq(Node)
  <2>1. new \in Seq(Seq(Node)) /\ Len(new) = len + n
    BY SplitBuckets
  <2> HIDE DEF new
  <2>2. QED
    BY <2>1
<1>3. SUFFICES ASSUME NEW b \in DOMAIN new, NEW c \in DOMAIN new,
                      NEW i \in DOMAIN new[b], NEW j \in DOMAIN new[c],
                      new[b][i].ip = new[c][j].ip
               PROVE  b = c /\ i = j
  BY DEF Unique
<1>4. PICK b0 \in DOMAIN bs : \E i0 \in DOMAIN bs[b0] : new[b][i] = bs[b0][i0]
  BY SplitSource
<1>5. PICK i0 \in DOMAIN bs[b0] : new[b][i] = bs[b0][i0]
  BY <1>4
<1>6. PICK c0 \in DOMAIN bs : \E j0 \in DOMAIN bs[c0] : new[c][j] = bs[c0][j0]
  BY SplitSource
<1>7. PICK j0 \in DOMAIN bs[c0] : new[c][j] = bs[c0][j0]
  BY <1>6
<1>8. b0 = c0 /\ i0 = j0
  BY <1>3, <1>5, <1>7 DEF Unique
<1>9. new[b][i] = new[c][j]
  BY <1>5, <1>7, <1>8
<1>10. b = c
  BY <1>9, SplitSource
<1>11. CASE b < len
  <2>1. b \in 1..(len - 1) /\ b \in DOMAIN bs
    BY <1>1, <1>2, <1>11
  <2>2. new[b] = bs[b]
    BY <2>1, SplitBuckets
  <2>3. QED
    BY <1>3, <1>10, <2>1, <2>2 DEF Unique
<1>12. CASE b >= len
  <2>1. b \in len..(len + n)
    BY <1>1, <1>2, <1>12
  <2>2. PICK h : KeptFrom(bs[len], SentTo(b, len, n), Len(bs[len]), new[b], h)
    BY <2>1, SplitBuckets
  <2>3. i \in 1..Len(new[b]) /\ j \in 1..Len(new[b])
    BY <1>2, <1>10
  <2>4. /\ h[i] \in 1..Len(bs[len]) /\ new[b][i] = bs[len][h[i]]
        /\ h[j] \in 1..Len(bs[len]) /\ new[b][j] = bs[len][h[j]]
    BY <2>2, <2>3 DEF KeptFrom
  <2>5. h[i] = h[j]
    <3>1. len \in DOMAIN bs /\ h[i] \in DOMAIN bs[len] /\ h[j] \in DOMAIN bs[len]
      BY <1>1, <2>4
    <3>2. bs[len][h[i]].ip = bs[len][h[j]].ip
      BY <1>3, <1>10, <2>4
    <3>3. QED
      BY <3>1, <3>2 DEF Unique
  <2>6. i \in Nat /\ j \in Nat /\ h[i] \in Nat /\ h[j] \in Nat
    <3>1. new[b] \in Seq(Node) /\ bs[len] \in Seq(Node)
      BY <1>1, <1>2
    <3>2. Len(new[b]) \in Nat /\ Len(bs[len]) \in Nat
      BY <3>1
    <3> HIDE DEF new
    <3>3. QED
      BY <2>3, <2>4, <3>2
  <2>7. ~(i < j) /\ ~(j < i)
    BY <2>2, <2>3, <2>5, <2>6 DEF KeptFrom
  <2>8. QED
    BY <1>10, <2>6, <2>7
<1>13. QED
  BY <1>1, <1>2, <1>11, <1>12

(* split_bucket, however often, leaves a consistent table consistent. *)
LEMMA SplitConsistent ==
    ASSUME NEW bs, NEW es, Consistent(bs, es),
           NEW n \in Nat, Len(bs) + n <= MaxBuckets
    PROVE  Consistent(SplitTimes(bs, n), es)
<1> DEFINE len == Len(bs)
           new == SplitTimes(bs, n)
<1>1. Shaped(bs) /\ Placed(bs) /\ Unique(bs) /\ Indexes(es, bs)
  BY DEF Consistent
<1>2. new \in Seq(Seq(Node)) /\ Len(new) = len + n
  BY <1>1, SplitBuckets
<1>3. len \in Nat \ {0} /\ len \in DOMAIN bs
  BY <1>1, ShapedFacts
<1>4. ASSUME NEW b \in DOMAIN new
      PROVE  Len(new[b]) <= K
  <2>1. b \in 1..(len + n)
    <3> HIDE DEF new
    <3>1. QED
      BY <1>2, <1>4
  <2>2. CASE b < len
    <3>1. b \in 1..(len - 1) /\ b \in DOMAIN bs
      BY <1>1, <1>3, <2>1, <2>2, ShapedFacts
    <3>2. new[b] = bs[b]
      BY <1>1, <3>1, SplitBuckets
    <3>3. QED
      BY <1>1, <3>1, <3>2, ShapedFacts
  <2>3. CASE b >= len
    <3>1. b \in len..(len + n)
      BY <1>3, <2>1, <2>3
    <3>2. PICK h : KeptFrom(bs[len], SentTo(b, len, n), Len(bs[len]), new[b], h)
      BY <1>1, <3>1, SplitBuckets
    <3>3. Len(new[b]) <= Len(bs[len])
      BY <3>2 DEF KeptFrom
    <3>4. Len(bs[len]) \in Nat /\ Len(bs[len]) <= K
      BY <1>1, <1>3, ShapedFacts
    <3>5. Len(new[b]) \in Nat
      <4> HIDE DEF new
      <4>1. QED
        BY <1>2, <1>4
    <3>6. QED
      BY <3>3, <3>4, <3>5, TableAssumption
  <2>4. QED
    BY <1>3, <2>1, <2>2, <2>3
<1>5. Shaped(new)
  <2>1. Len(new) \in 1..MaxBuckets
    BY <1>2, <1>3, TableAssumption
  <2>2. QED
    BY <1>2, <1>4, <2>1 DEF Shaped
<1>6. Placed(new)
  <2>1. ASSUME NEW b \in DOMAIN new, NEW i \in DOMAIN new[b]
        PROVE  BucketIndex(new[b][i].id, Len(new)) = b
    <3>1. BucketIndex(new[b][i].id, len + n) = b
      BY <1>1, SplitSource
    <3>2. QED
      BY <1>2, <3>1
  <2>2. QED
    BY <2>1 DEF Placed
<1>7. Unique(new)
  BY <1>1, SplitUnique
<1>8. Indexes(es, new)
  <2>1. ASSUME NEW b \in DOMAIN new, NEW i \in DOMAIN new[b]
        PROVE  new[b][i].ip \in es
    <3>1. PICK c \in DOMAIN bs : \E j \in DOMAIN bs[c] : new[b][i] = bs[c][j]
      BY <1>1, SplitSource
    <3>2. QED
      BY <1>1, <3>1 DEF Indexes
  <2>2. ASSUME NEW ip \in es
        PROVE  \E b \in DOMAIN new : \E i \in DOMAIN new[b] : new[b][i].ip = ip
    <3>1. PICK c \in DOMAIN bs : \E j \in DOMAIN bs[c] : bs[c][j].ip = ip
      BY <1>1 DEF Indexes
    <3>2. PICK j \in DOMAIN bs[c] : bs[c][j].ip = ip
      BY <3>1
    <3>3. \E b \in DOMAIN new : \E i \in DOMAIN new[b] : new[b][i] = bs[c][j]
      BY <1>1, SplitKeepsNodes
    <3>4. QED
      BY <3>2, <3>3
  <2>3. QED
    BY <2>1, <2>2 DEF Indexes
<1>9. QED
  BY <1>5, <1>6, <1>7, <1>8 DEF Consistent

-----------------------------------------------------------------------------
(* The changes made to one bucket *)

(* Replacing a node by one with the same id and endpoint. *)
LEMMA ReplaceConsistent ==
    ASSUME NEW bs, NEW es, Consistent(bs, es),
           NEW b \in DOMAIN bs, NEW i \in DOMAIN bs[b],
           NEW x \in Node, x.id = bs[b][i].id, x.ip = bs[b][i].ip
    PROVE  Consistent([bs EXCEPT ![b][i] = x], es)
<1> DEFINE new == [bs EXCEPT ![b][i] = x]
<1>1. Shaped(bs) /\ Placed(bs) /\ Unique(bs) /\ Indexes(es, bs)
  BY DEF Consistent
<1>2. /\ bs \in Seq(Seq(Node))
      /\ DOMAIN bs = 1..Len(bs)
      /\ Len(bs) \in Nat
      /\ bs[b] \in Seq(Node)
      /\ Len(bs[b]) \in Nat
      /\ DOMAIN bs[b] = 1..Len(bs[b])
  BY <1>1, ShapedFacts
<1>3. /\ [bs[b] EXCEPT ![i] = x] \in Seq(Node)
      /\ Len([bs[b] EXCEPT ![i] = x]) = Len(bs[b])
  BY <1>2
<1>4. /\ new \in Seq(Seq(Node))
      /\ Len(new) = Len(bs)
      /\ DOMAIN new = DOMAIN bs
      /\ new[b] = [bs[b] EXCEPT ![i] = x]
      /\ \A c \in DOMAIN bs : c # b => new[c] = bs[c]
  BY <1>2, <1>3
<1> HIDE DEF new
<1>5. \A c \in DOMAIN bs : DOMAIN new[c] = DOMAIN bs[c] /\ Len(new[c]) = Len(bs[c])
  BY <1>2, <1>3, <1>4
<1>6. ASSUME NEW c \in DOMAIN bs, NEW j \in DOMAIN bs[c]
      PROVE  new[c][j].id = bs[c][j].id /\ new[c][j].ip = bs[c][j].ip
  <2>1. CASE c = b /\ j = i
    BY <1>4, <2>1
  <2>2. CASE c = b /\ j # i
    BY <1>4, <2>2
  <2>3. CASE c # b
    BY <1>4, <2>3
  <2>4. QED
    BY <2>1, <2>2, <2>3
<1>7. Shaped(new)
  BY <1>1, <1>4, <1>5 DEF Shaped
<1>8. Placed(new)
  BY <1>1, <1>4, <1>5, <1>6 DEF Placed
<1>9. Unique(new)
  <2>1. SUFFICES ASSUME NEW c \in DOMAIN new, NEW d \in DOMAIN new,
                        NEW j \in DOMAIN new[c], NEW k \in DOMAIN new[d],
                        new[c][j].ip = new[d][k].ip
                 PROVE  c = d /\ j = k
    BY DEF Unique
  <2>2. bs[c][j].ip = bs[d][k].ip
    BY <1>4, <1>5, <1>6, <2>1
  <2>3. QED
    BY <1>1, <1>4, <1>5, <2>2 DEF Unique
<1>10. Indexes(es, new)
  <2>1. ASSUME NEW c \in DOMAIN new, NEW j \in DOMAIN new[c]
        PROVE  new[c][j].ip \in es
    <3>1. c \in DOMAIN bs /\ j \in DOMAIN bs[c]
      BY <1>4, <1>5
    <3>2. new[c][j].ip = bs[c][j].ip
      BY <1>6, <3>1
    <3>3. QED
      BY <1>1, <3>1, <3>2 DEF Indexes
  <2>2. ASSUME NEW ip \in es
        PROVE  \E c \in DOMAIN new : \E j \in DOMAIN new[c] : new[c][j].ip = ip
    <3>1. PICK c \in DOMAIN bs : \E j \in DOMAIN bs[c] : bs[c][j].ip = ip
      BY <1>1 DEF Indexes
    <3>2. PICK j \in DOMAIN bs[c] : bs[c][j].ip = ip
      BY <3>1
    <3>3. c \in DOMAIN new /\ j \in DOMAIN new[c] /\ new[c][j].ip = ip
      BY <1>4, <1>5, <1>6, <3>2
    <3>4. QED
      BY <3>3
  <2>3. QED
    BY <2>1, <2>2 DEF Indexes
<1>11. QED
  BY <1>7, <1>8, <1>9, <1>10 DEF Consistent, new

(* Pushing a node with a new endpoint into its bucket. *)
LEMMA PushConsistent ==
    ASSUME NEW bs, NEW es, Consistent(bs, es),
           NEW x \in Node, x.ip \notin es,
           NEW b \in DOMAIN bs, b = BucketIndex(x.id, Len(bs)),
           Len(bs[b]) < K
    PROVE  Consistent([bs EXCEPT ![b] = Append(@, x)], es \cup {x.ip})
<1> DEFINE new == [bs EXCEPT ![b] = Append(@, x)]
           last == Len(bs[b]) + 1
<1>1. Shaped(bs) /\ Placed(bs) /\ Unique(bs) /\ Indexes(es, bs)
  BY DEF Consistent
<1>2. /\ bs \in Seq(Seq(Node))
      /\ DOMAIN bs = 1..Len(bs)
      /\ Len(bs) \in Nat
      /\ bs[b] \in Seq(Node)
      /\ Len(bs[b]) \in Nat
      /\ DOMAIN bs[b] = 1..Len(bs[b])
  BY <1>1, ShapedFacts
<1>3. /\ Append(bs[b], x) \in Seq(Node)
      /\ Len(Append(bs[b], x)) = last
      /\ DOMAIN Append(bs[b], x) = 1..last
      /\ \A j \in 1..Len(bs[b]) : Append(bs[b], x)[j] = bs[b][j]
      /\ Append(bs[b], x)[last] = x
  BY <1>2
<1>4. /\ new \in Seq(Seq(Node))
      /\ Len(new) = Len(bs)
      /\ DOMAIN new = DOMAIN bs
      /\ new[b] = Append(bs[b], x)
      /\ \A c \in DOMAIN bs : c # b => new[c] = bs[c]
  BY <1>2, <1>3
<1> HIDE DEF new
<1>5. ASSUME NEW c \in DOMAIN bs, NEW j \in DOMAIN new[c]
      PROVE  \/ j \in DOMAIN bs[c] /\ new[c][j] = bs[c][j]
             \/ c = b /\ j = last /\ new[c][j] = x
  <2>1. CASE c = b
    BY <1>2, <1>3, <1>4, <2>1
  <2>2. CASE c # b
    BY <1>4, <2>2
  <2>3. QED
    BY <2>1, <2>2
<1>6. ASSUME NEW c \in DOMAIN bs, NEW j \in DOMAIN bs[c]
      PROVE  j \in DOMAIN new[c] /\ new[c][j] = bs[c][j]
  <2>1. CASE c = b
    <3>1. j \in 1..Len(bs[b]) /\ j \in 1..last
      BY <1>2, <2>1
    <3>2. QED
      BY <1>3, <1>4, <2>1, <3>1
  <2>2. CASE c # b
    BY <1>4, <2>2
  <2>3. QED
    BY <2>1, <2>2
<1>7. last \in DOMAIN new[b] /\ new[b][last] = x
  BY <1>2, <1>3, <1>4
<1>8. Shaped(new)
  <2>1. Len(new[b]) <= K
    BY <1>2, <1>3, <1>4, TableAssumption
  <2>2. \A c \in DOMAIN new : Len(new[c]) <= K
    BY <1>1, <1>4, <2>1 DEF Shaped
  <2>3. QED
    BY <1>1, <1>4, <2>2 DEF Shaped
<1>9. Placed(new)
  <2>1. ASSUME NEW c \in DOMAIN bs, NEW j \in DOMAIN new[c]
        PROVE  BucketIndex(new[c][j].id, Len(bs)) = c
    <3>1. CASE j \in DOMAIN bs[c] /\ new[c][j] = bs[c][j]
      BY <1>1, <2>1, <3>1 DEF Placed
    <3>2. CASE c = b /\ j = last /\ new[c][j] = x
      BY <3>2
    <3>3. QED
      BY <1>5, <2>1, <3>1, <3>2
  <2>2. QED
    BY <1>4, <2>1 DEF Placed
<1>10. Unique(new)
  <2>1. SUFFICES ASSUME NEW c \in DOMAIN new, NEW d \in DOMAIN new,
                        NEW j \in DOMAIN new[c], NEW k \in DOMAIN new[d],
                        new[c][j].ip = new[d][k].ip
                 PROVE  c = d /\ j = k
    BY DEF Unique
  <2>2. \A e \in DOMAIN bs : \A m \in DOMAIN bs[e] : bs[e][m].ip # x.ip
    BY <1>1 DEF Indexes
  <2>3. CASE j \in DOMAIN bs[c] /\ new[c][j] = bs[c][j]
    <3>1. new[d][k].ip # x.ip
      BY <1>4, <2>1, <2>2, <2>3
    <3>2. k \in DOMAIN bs[d] /\ new[d][k] = bs[d][k]
      BY <1>4, <1>5, <3>1
    <3>3. QED
      BY <1>1, <1>4, <2>1, <2>3, <3>2 DEF Unique
  <2>4. CASE c = b /\ j = last /\ new[c][j] = x
    <3>1. d = b /\ k = last
      BY <1>4, <1>5, <2>1, <2>2, <2>4
    <3>2. QED
      BY <2>4, <3>1
  <2>5. QED
    BY <1>4, <1>5, <2>1, <2>3, <2>4
<1>11. Indexes(es \cup {x.ip}, new)
  <2>1. ASSUME NEW c \in DOMAIN new, NEW j \in DOMAIN new[c]
        PROVE  new[c][j].ip \in es \cup {x.ip}
    BY <1>1, <1>4, <1>5 DEF Indexes
  <2>2. ASSUME NEW ip \in es \cup {x.ip}
        PROVE  \E c \in DOMAIN new : \E j \in DOMAIN new[c] : new[c][j].ip = ip
    <3>1. CASE ip = x.ip
      BY <1>4, <1>7, <3>1
    <3>2. CASE ip \in es
      <4>1. PICK c \in DOMAIN bs : \E j \in DOMAIN bs[c] : bs[c][j].ip = ip
        BY <1>1, <3>2 DEF Indexes
      <4>2. QED
        BY <1>4, <1>6, <4>1
    <3>3. QED
      BY <3>1, <3>2
  <2>3. QED
    BY <2>1, <2>2 DEF Indexes
<1>12. QED
  BY <1>8, <1>9, <1>10, <1>11 DEF Consistent, new

(* Taking a node out of its bucket with swap_remove. *)
LEMMA RemoveConsistent ==
    ASSUME NEW bs, NEW es, Consistent(bs, es),
           NEW b \in DOMAIN bs, NEW i \in DOMAIN bs[b]
    PROVE  Consistent([bs EXCEPT ![b] = SwapRemove(@, i)], es \ {bs[b][i].ip})
<1> DEFINE new == [bs EXCEPT ![b] = SwapRemove(@, i)]
           last == Len(bs[b])
           Old(c, j) == IF c = b /\ j = i THEN last ELSE j
<1>1. Shaped(bs) /\ Placed(bs) /\ Unique(bs) /\ Indexes(es, bs)
  BY DEF Consistent
<1>2. /\ bs \in Seq(Seq(Node))
      /\ DOMAIN bs = 1..Len(bs)
      /\ Len(bs) \in Nat
      /\ bs[b] \in Seq(Node)
      /\ last \in Nat
      /\ last <= K
      /\ DOMAIN bs[b] = 1..last
      /\ i \in 1..last
  BY <1>1, ShapedFacts
<1>3. /\ SwapRemove(bs[b], i) \in Seq(Node)
      /\ Len(SwapRemove(bs[b], i)) = last - 1
      /\ \A j \in 1..(last - 1) : SwapRemove(bs[b], i)[j] = bs[b][Old(b, j)]
  <2>1. /\ SwapRemove(bs[b], i) \in Seq(Node)
        /\ Len(SwapRemove(bs[b], i)) = Len(bs[b]) - 1
        /\ \A j \in 1..(Len(bs[b]) - 1) :
              SwapRemove(bs[b], i)[j] = bs[b][IF j = i THEN Len(bs[b]) ELSE j]
    BY <1>2, SwapRemoveProperties
  <2>2. QED
    BY <2>1
<1>4. DOMAIN SwapRemove(bs[b], i) = 1..(last - 1)
  BY <1>3
<1>5. /\ new \in Seq(Seq(Node))
      /\ Len(new) = Len(bs)
      /\ DOMAIN new = DOMAIN bs
      /\ new[b] = SwapRemove(bs[b], i)
      /\ \A c \in DOMAIN bs : c # b => new[c] = bs[c]
  BY <1>2, <1>3
<1> HIDE DEF new
\* Every place has a source, which is not the removed one.
<1>6. ASSUME NEW c \in DOMAIN bs, NEW j \in DOMAIN new[c]
      PROVE  /\ Old(c, j) \in DOMAIN bs[c]
             /\ new[c][j] = bs[c][Old(c, j)]
             /\ ~(c = b /\ Old(c, j) = i)
             /\ c = b => j \in 1..(last - 1)
  <2>1. CASE c = b
    <3>1. j \in 1..(last - 1)
      BY <1>4, <1>5, <2>1
    <3>2. Old(c, j) \in 1..last /\ Old(c, j) # i
      BY <1>2, <2>1, <3>1
    <3>3. QED
      BY <1>2, <1>3, <1>5, <2>1, <3>1, <3>2
  <2>2. CASE c # b
    BY <1>5, <2>2
  <2>3. QED
    BY <2>1, <2>2
\* Every other place of the old bucket is the source of one.
<1>7. ASSUME NEW c \in DOMAIN bs, NEW j \in DOMAIN bs[c], ~(c = b /\ j = i)
      PROVE  \E k \in DOMAIN new[c] : Old(c, k) = j
  <2>1. CASE c = b /\ j = last
    <3>1. i \in 1..(last - 1)
      BY <1>2, <1>7, <2>1
    <3>2. i \in DOMAIN new[c]
      BY <1>4, <1>5, <2>1, <3>1
    <3>3. QED
      BY <2>1, <3>2
  <2>2. CASE c = b /\ j # last
    <3>1. j \in 1..(last - 1)
      BY <1>2, <2>2
    <3>2. j \in DOMAIN new[c]
      BY <1>4, <1>5, <2>2, <3>1
    <3>3. QED
      BY <1>7, <2>2, <3>2
  <2>3. CASE c # b
    BY <1>5, <2>3
  <2>4. QED
    BY <2>1, <2>2, <2>3
<1>8. ASSUME NEW c \in DOMAIN bs, NEW j \in DOMAIN new[c], NEW k \in DOMAIN new[c],
             Old(c, j) = Old(c, k)
      PROVE  j = k
  BY <1>2, <1>6, <1>8
<1>9. Shaped(new)
  <2>1. Len(new[b]) <= K
    BY <1>2, <1>3, <1>5, TableAssumption
  <2>2. \A c \in DOMAIN new : Len(new[c]) <= K
    BY <1>1, <1>5, <2>1 DEF Shaped
  <2>3. QED
    BY <1>1, <1>5, <2>2 DEF Shaped
<1> HIDE DEF Old
<1>10. Placed(new)
  <2>1. ASSUME NEW c \in DOMAIN new, NEW j \in DOMAIN new[c]
        PROVE  BucketIndex(new[c][j].id, Len(new)) = c
    BY <1>1, <1>5, <1>6 DEF Placed
  <2>2. QED
    BY <2>1 DEF Placed
<1>11. Unique(new)
  <2>1. SUFFICES ASSUME NEW c \in DOMAIN new, NEW d \in DOMAIN new,
                        NEW j \in DOMAIN new[c], NEW k \in DOMAIN new[d],
                        new[c][j].ip = new[d][k].ip
                 PROVE  c = d /\ j = k
    BY DEF Unique
  <2>2. /\ c \in DOMAIN bs /\ Old(c, j) \in DOMAIN bs[c]
        /\ d \in DOMAIN bs /\ Old(d, k) \in DOMAIN bs[d]
        /\ bs[c][Old(c, j)].ip = bs[d][Old(d, k)].ip
    BY <1>5, <1>6, <2>1
  <2>3. c = d /\ Old(c, j) = Old(d, k)
    BY <1>1, <2>2 DEF Unique
  <2>4. QED
    BY <1>8, <2>2, <2>3
<1>12. Indexes(es \ {bs[b][i].ip}, new)
  <2>1. ASSUME NEW c \in DOMAIN new, NEW j \in DOMAIN new[c]
        PROVE  new[c][j].ip \in es \ {bs[b][i].ip}
    <3>1. /\ c \in DOMAIN bs /\ Old(c, j) \in DOMAIN bs[c]
          /\ new[c][j] = bs[c][Old(c, j)]
          /\ ~(c = b /\ Old(c, j) = i)
      BY <1>5, <1>6
    <3>2. new[c][j].ip \in es
      BY <1>1, <3>1 DEF Indexes
    <3>3. new[c][j].ip # bs[b][i].ip
      BY <1>1, <3>1 DEF Unique
    <3>4. QED
      BY <3>2, <3>3
  <2>2. ASSUME NEW ip \in es \ {bs[b][i].ip}
        PROVE  \E c \in DOMAIN new : \E j \in DOMAIN new[c] : new[c][j].ip = ip
    <3>1. PICK c \in DOMAIN bs : \E j \in DOMAIN bs[c] : bs[c][j].ip = ip
      BY <1>1 DEF Indexes
    <3>2. PICK j \in DOMAIN bs[c] : bs[c][j].ip = ip
      BY <3>1
    <3>3. PICK k \in DOMAIN new[c] : Old(c, k) = j
      BY <1>7, <2>2, <3>2
    <3>4. new[c][k].ip = ip
      BY <1>6, <3>2, <3>3
    <3>5. QED
      BY <1>5, <3>4
  <2>3. QED
    BY <2>1, <2>2 DEF Indexes
<1>13. QED
  BY <1>9, <1>10, <1>11, <1>12 DEF Consistent, new

-----------------------------------------------------------------------------
(* The actions *)

(* update_node, on whatever buckets it finds. *)
LEMMA UpdateConsistent ==
    ASSUME NEW bs, Consistent(bs, ips), ips \subseteq Addrs, clock \in 0..MaxNow,
           NEW id \in Ids, NEW ip \in Addrs,
           UpdateOn(bs, id, ip)
    PROVE  Consistent(buckets', ips') /\ ips' \subseteq Addrs
<1> DEFINE b == BucketIndex(id, Len(bs))
           i == FirstWithId(bs[b], id)
           result == UpdateResult(bs, id, ip)
<1>1. Shaped(bs)
  BY DEF Consistent
<1>2. b \in DOMAIN bs
  BY <1>1, ShapedFacts, BucketIndexInRange
<1>3. bs[b] \in Seq(Node) /\ Len(bs[b]) \in Nat /\ Len(bs[b]) <= K
  BY <1>1, <1>2, ShapedFacts
<1>4. CASE result \in {"Failed", "NeedSplit"}
  <2>1. buckets' = bs /\ ips' = ips
    BY <1>4 DEF UpdateOn
  <2>2. QED
    BY <2>1
<1>5. CASE result = "Refreshed"
  <2>1. /\ buckets' = [bs EXCEPT ![b][i] = [@ EXCEPT !.status = "Good", !.seen = clock]]
        /\ ips' = ips
    BY <1>5 DEF UpdateOn
  <2>2. i # 0
    BY <1>5 DEF UpdateResult
  <2>3. i \in DOMAIN bs[b]
    BY <1>3, <2>2, FirstWithIdFound
  <2>4. PICK x : x = [bs[b][i] EXCEPT !.status = "Good", !.seen = clock]
    OBVIOUS
  <2>5. bs[b][i] \in Node
    BY <1>3, <2>3
  <2>6. x \in Node /\ x.id = bs[b][i].id /\ x.ip = bs[b][i].ip
    BY <2>4, <2>5 DEF Node, Status
  <2>7. buckets' = [bs EXCEPT ![b][i] = x]
    BY <2>1, <2>4
  <2>8. Consistent([bs EXCEPT ![b][i] = x], ips)
    BY <1>2, <2>3, <2>6, ReplaceConsistent
  <2>9. QED
    BY <2>1, <2>7, <2>8
<1>6. CASE result = "Pushed"
  <2>1. PICK x : x = [id |-> id, ip |-> ip, status |-> "Good", seen |-> clock]
    OBVIOUS
  <2>2. /\ buckets' = [bs EXCEPT ![b] = Append(@, x)]
        /\ ips' = ips \cup {ip}
    BY <1>6, <2>1 DEF UpdateOn
  <2>3. x \in Node /\ x.id = id /\ x.ip = ip
    BY <2>1 DEF Node, Status
  <2>4. ip \notin ips /\ Len(bs[b]) # K
    BY <1>6 DEF UpdateResult
  <2>5. Len(bs[b]) < K
    BY <1>3, <2>4, TableAssumption
  <2>6. Consistent([bs EXCEPT ![b] = Append(@, x)], ips \cup {x.ip})
    BY <1>2, <2>3, <2>4, <2>5, PushConsistent
  <2>7. QED
    BY <2>2, <2>3, <2>6
<1>7. QED
  BY <1>4, <1>5, <1>6 DEF UpdateOn

(* add_node: some splits, then update_node on what they leave. *)
LEMMA AddConsistent ==
    ASSUME Consistent(buckets, ips), ips \subseteq Addrs, clock \in 0..MaxNow,
           NEW id \in Ids, NEW ip \in Addrs,
           AddNode(id, ip)
    PROVE  Consistent(buckets', ips') /\ ips' \subseteq Addrs
<1>1. PICK n \in 0..(MaxBuckets - Len(buckets)) : UpdateOn(SplitTimes(buckets, n), id, ip)
  BY DEF AddNode
<1>2. Len(buckets) \in Nat
  BY ShapedFacts DEF Consistent
<1>3. n \in Nat /\ Len(buckets) + n <= MaxBuckets
  BY <1>2, TableAssumption
<1>4. Consistent(SplitTimes(buckets, n), ips)
  BY <1>3, SplitConsistent
<1>5. QED
  BY <1>1, <1>4, UpdateConsistent

(* node_timeout, which ends in remove_node for a Bad node. *)
LEMMA TimeoutConsistent ==
    ASSUME Consistent(buckets, ips), ips \subseteq Addrs,
           NEW id \in Ids, NodeTimeout(id)
    PROVE  Consistent(buckets', ips') /\ ips' \subseteq Addrs
<1> DEFINE b == BucketIndex(id, Len(buckets))
           i == FirstWithId(buckets[b], id)
<1>1. Shaped(buckets)
  BY DEF Consistent
<1>2. b \in DOMAIN buckets
  BY <1>1, ShapedFacts, BucketIndexInRange
<1>3. buckets[b] \in Seq(Node)
  BY <1>1, <1>2, ShapedFacts
<1>4. i \in DOMAIN buckets[b]
  BY <1>3, FirstWithIdFound DEF NodeTimeout
<1>5. buckets[b][i] \in Node
  BY <1>3, <1>4
<1>6. ASSUME NEW s \in Status,
             buckets' = [buckets EXCEPT ![b][i] = [@ EXCEPT !.status = s]],
             ips' = ips
      PROVE  Consistent(buckets', ips')
  <2>1. PICK x : x = [buckets[b][i] EXCEPT !.status = s]
    OBVIOUS
  <2>2. x \in Node /\ x.id = buckets[b][i].id /\ x.ip = buckets[b][i].ip
    BY <1>5, <2>1 DEF Node
  <2>3. buckets' = [buckets EXCEPT ![b][i] = x]
    BY <1>6, <2>1
  <2>4. Consistent([buckets EXCEPT ![b][i] = x], ips)
    BY <1>2, <1>4, <2>2, ReplaceConsistent
  <2>5. QED
    BY <1>6, <2>3, <2>4
<1>7. CASE /\ buckets[b][i].status = "Good"
           /\ buckets' = [buckets EXCEPT ![b][i] = [@ EXCEPT !.status = "Questionable"]]
           /\ ips' = ips
  BY <1>6, <1>7 DEF Status
<1>8. CASE /\ buckets[b][i].status = "Questionable"
           /\ buckets' = [buckets EXCEPT ![b][i] = [@ EXCEPT !.status = "Bad"]]
           /\ ips' = ips
  BY <1>6, <1>8 DEF Status
<1>9. CASE buckets[b][i].status = "Bad" /\ RemoveNode(b, i)
  BY <1>2, <1>4, <1>9, RemoveConsistent DEF RemoveNode
<1>10. QED
  BY <1>7, <1>8, <1>9 DEF NodeTimeout

(* next_refresh_node only dates a node anew. *)
LEMMA RefreshConsistent ==
    ASSUME Consistent(buckets, ips), clock \in 0..MaxNow, NextRefreshNode
    PROVE  Consistent(buckets', ips')
<1>1. PICK p \in Positions(buckets) :
          /\ buckets' = [buckets EXCEPT ![p[1]][p[2]] = [@ EXCEPT !.seen = clock]]
          /\ ips' = ips
  BY DEF NextRefreshNode, RefreshTarget
<1>2. PICK b \in DOMAIN buckets : \E i \in DOMAIN buckets[b] : p = <<b, i>>
  BY DEF Positions
<1>3. PICK i \in DOMAIN buckets[b] : p = <<b, i>>
  BY <1>2
<1>4. buckets[b][i] \in Node
  BY ShapedFacts DEF Consistent
<1>5. PICK x : x = [buckets[b][i] EXCEPT !.seen = clock]
  OBVIOUS
<1>6. x \in Node /\ x.id = buckets[b][i].id /\ x.ip = buckets[b][i].ip
  BY <1>4, <1>5 DEF Node
<1>7. buckets' = [buckets EXCEPT ![b][i] = x]
  BY <1>1, <1>3, <1>5
<1>8. Consistent([buckets EXCEPT ![b][i] = x], ips)
  BY <1>6, ReplaceConsistent
<1>9. QED
  BY <1>1, <1>7, <1>8

-----------------------------------------------------------------------------
(* One empty bucket is consistent. *)
LEMMA InitIInv == Init => IInv
<1> SUFFICES ASSUME Init PROVE IInv
  OBVIOUS
<1>1. /\ buckets = << <<>> >>
      /\ ips = {} /\ routers = {} /\ clock = 0
  BY DEF Init
<1>2. /\ buckets \in Seq(Seq(Node))
      /\ Len(buckets) = 1
      /\ DOMAIN buckets = {1}
      /\ buckets[1] = <<>>
      /\ Len(buckets[1]) = 0
      /\ DOMAIN buckets[1] = {}
  BY <1>1
<1>3. Shaped(buckets)
  BY <1>2, TableAssumption DEF Shaped
<1>4. Placed(buckets) /\ Unique(buckets) /\ Indexes(ips, buckets)
  BY <1>1, <1>2 DEF Placed, Unique, Indexes
<1>5. QED
  BY <1>1, <1>3, <1>4, IInvIsConsistent, TableAssumption DEF Consistent

(* Every step of the table keeps it consistent. *)
LEMMA NextIInv == IInv /\ [Next]_vars => IInv'
<1> SUFFICES ASSUME IInv, [Next]_vars PROVE IInv'
  OBVIOUS
<1>1. /\ Consistent(buckets, ips)
      /\ ips \subseteq Addrs
      /\ routers \subseteq Addrs
      /\ clock \in 0..MaxNow
  BY IInvIsConsistent
<1>2. SUFFICES /\ Consistent(buckets', ips')
               /\ ips' \subseteq Addrs
               /\ routers' \subseteq Addrs
               /\ clock' \in 0..MaxNow
  <2>1. IInv' <=> /\ Consistent(buckets, ips)'
                  /\ (ips \subseteq Addrs)'
                  /\ (routers \subseteq Addrs)'
                  /\ (clock \in 0..MaxNow)'
    BY IInvIsConsistent, PTL
  <2>2. QED
    BY <1>2, <2>1 DEF Consistent, Shaped, Placed, Unique, Indexes
<1>3. ASSUME NEW id \in Ids, NEW ip \in Addrs, UpdateNode(id, ip)
      PROVE  /\ Consistent(buckets', ips') /\ ips' \subseteq Addrs
             /\ routers' = routers /\ clock' = clock
  BY <1>1, <1>3, UpdateConsistent DEF UpdateNode
<1>4. ASSUME NEW id \in Ids, NEW ip \in Addrs, AddNode(id, ip)
      PROVE  /\ Consistent(buckets', ips') /\ ips' \subseteq Addrs
             /\ routers' = routers /\ clock' = clock
  <2>1. routers' = routers /\ clock' = clock
    BY <1>4 DEF AddNode
  <2>2. QED
    BY <1>1, <1>4, <2>1, AddConsistent
<1>5. ASSUME NEW id \in Ids, NodeTimeout(id)
      PROVE  /\ Consistent(buckets', ips') /\ ips' \subseteq Addrs
             /\ routers' = routers /\ clock' = clock
  <2>1. routers' = routers /\ clock' = clock
    BY <1>5 DEF NodeTimeout
  <2>2. QED
    BY <1>1, <1>5, <2>1, TimeoutConsistent
<1>6. CASE NextRefreshNode
  <2>1. ips' = ips /\ routers' = routers /\ clock' = clock
    BY <1>6 DEF NextRefreshNode
  <2>2. QED
    BY <1>1, <1>6, <2>1, RefreshConsistent
<1>7. ASSUME NEW ip \in Addrs, AddRouter(ip)
      PROVE  /\ Consistent(buckets', ips') /\ ips' \subseteq Addrs
             /\ routers' \subseteq Addrs /\ clock' = clock
  BY <1>1, <1>7 DEF AddRouter
<1>8. ASSUME NEW t \in 0..MaxNow, SetClock(t)
      PROVE  /\ Consistent(buckets', ips') /\ ips' \subseteq Addrs
             /\ routers' = routers /\ clock' \in 0..MaxNow
  BY <1>1, <1>8 DEF SetClock
<1>9. CASE UNCHANGED vars
  BY <1>1, <1>9 DEF vars
<1>10. QED
  BY <1>1, <1>3, <1>4, <1>5, <1>6, <1>7, <1>8, <1>9 DEF Next

(* The inductive invariant holds in every reachable state. *)
THEOREM TableInvariant == Spec => []IInv
BY InitIInv, NextIInv, PTL DEF Spec

(* Whatever the ids, the bucket size and the number of buckets, the table   *)
(* keeps its shape: at least one bucket, never more than MaxBuckets, never  *)
(* more than K nodes in one.                                                *)
THEOREM TableTypeCorrect == Spec => []TypeOK
<1>1. IInv => TypeOK
  BY DEF IInv
<1>2. QED
  BY <1>1, TableInvariant, PTL

(* Every node lies in the bucket calc_bucket_index computes for it. *)
THEOREM PlacementHolds == Spec => []Placement
<1>1. IInv => Placement
  BY DEF IInv
<1>2. QED
  BY <1>1, TableInvariant, PTL

(* `ips` is exactly the set of stored endpoints and no endpoint is stored   *)
(* twice, so nodes_len() is the number of nodes.                            *)
THEOREM EndpointIndexHolds == Spec => []EndpointIndex
<1>1. IInv => EndpointIndex
  BY DEF IInv
<1>2. QED
  BY <1>1, TableInvariant, PTL

-----------------------------------------------------------------------------
(* next_refresh_node *)

(* A node that was seen longest ago, the first of these, exists. *)
LEMMA OldestExists ==
    ASSUME NEW bs, Shaped(bs), Positions(bs) # {}
    PROVE  \E p \in Positions(bs) : \A q \in Positions(bs) : SeenBefore(bs, p, q)
<1> DEFINE P == Positions(bs)
<1>1. \A p \in P : /\ p = <<p[1], p[2]>> /\ p[1] \in Nat /\ p[2] \in Nat
                   /\ At(bs, p).seen \in Nat
  <2> SUFFICES ASSUME NEW p \in P
               PROVE  /\ p = <<p[1], p[2]>> /\ p[1] \in Nat /\ p[2] \in Nat
                      /\ At(bs, p).seen \in Nat
    OBVIOUS
  <2>1. PICK b \in DOMAIN bs : \E i \in DOMAIN bs[b] : p = <<b, i>>
    BY DEF Positions
  <2>2. PICK i \in DOMAIN bs[b] : p = <<b, i>>
    BY <2>1
  <2>3. b \in Nat /\ i \in Nat /\ bs[b][i] \in Node
    <3>1. DOMAIN bs = 1..Len(bs) /\ DOMAIN bs[b] = 1..Len(bs[b]) /\ bs[b][i] \in Node
      BY ShapedFacts
    <3>2. QED
      BY <3>1
  <2>4. bs[b][i].seen \in Nat
    BY <2>3, TableAssumption DEF Node
  <2>5. QED
    BY <2>2, <2>3, <2>4 DEF At
<1> HIDE DEF P
<1>2. P # {}
  BY DEF P
<1> DEFINE Seen == {At(bs, p).seen : p \in P}
<1>3. PICK m \in Seen : \A k \in Seen : m <= k
  <2>1. Seen \in SUBSET Nat /\ Seen # {}
    BY <1>1, <1>2
  <2>2. QED
    BY <2>1, LeastNatural
<1> DEFINE P1 == {p \in P : At(bs, p).seen = m}
           B1 == {p[1] : p \in P1}
<1>4. PICK b \in B1 : \A c \in B1 : b <= c
  <2>1. B1 \in SUBSET Nat /\ B1 # {}
    BY <1>1, <1>3
  <2>2. QED
    BY <2>1, LeastNatural
<1> DEFINE P2 == {p \in P1 : p[1] = b}
           I2 == {p[2] : p \in P2}
<1>5. PICK i \in I2 : \A j \in I2 : i <= j
  <2>1. I2 \in SUBSET Nat /\ I2 # {}
    BY <1>1, <1>4
  <2>2. QED
    BY <2>1, LeastNatural
<1>6. PICK p \in P2 : p[2] = i
  BY <1>5
<1>7. ASSUME NEW q \in P
      PROVE  SeenBefore(bs, p, q)
  <2>1. p \in P /\ At(bs, p).seen = m /\ p[1] = b /\ p[2] = i
    BY <1>6
  <2>2. m <= At(bs, q).seen /\ m \in Nat /\ At(bs, q).seen \in Nat /\ b \in Nat /\ i \in Nat
    BY <1>1, <1>3, <2>1
  <2>3. CASE m < At(bs, q).seen
    BY <2>1, <2>3 DEF SeenBefore
  <2>4. CASE m = At(bs, q).seen
    <3>1. q[1] \in B1 /\ q[1] \in Nat /\ q[2] \in Nat
      BY <1>1, <2>4
    <3>2. b <= q[1]
      BY <1>4, <3>1
    <3>3. CASE b < q[1]
      BY <2>1, <2>4, <3>3 DEF SeenBefore
    <3>4. CASE b = q[1]
      <4>1. q[2] \in I2
        BY <2>4, <3>4
      <4>2. i <= q[2]
        BY <1>5, <4>1
      <4>3. QED
        BY <2>1, <2>4, <3>4, <4>2 DEF SeenBefore
    <3>5. QED
      BY <2>2, <3>1, <3>2, <3>3, <3>4
  <2>5. QED
    BY <2>2, <2>3, <2>4
<1>8. QED
  BY <1>6, <1>7 DEF P

(* next_refresh_node has a node exactly if one is old enough. *)
LEMMA RefreshFinds ==
    ASSUME Shaped(buckets), clock \in 0..MaxNow
    PROVE  RefreshFindsStale
<1>1. ASSUME NEW n \in Entries(buckets)
      PROVE  \E p \in Positions(buckets) : At(buckets, p) = n
  <2>1. PICK b \in DOMAIN buckets : n \in Range(buckets[b])
    BY DEF Entries
  <2>2. PICK i \in DOMAIN buckets[b] : n = buckets[b][i]
    BY <2>1 DEF Range
  <2>3. <<b, i>> \in Positions(buckets) /\ At(buckets, <<b, i>>) = n
    BY <2>2 DEF Positions, At
  <2>4. QED
    BY <2>3
<1>2. \A p \in Positions(buckets) : At(buckets, p) \in Entries(buckets)
  BY DEF Entries, Positions, At, Range
<1>3. \A n \in Entries(buckets) : n.seen \in Nat
  <2>1. \A b \in DOMAIN buckets : \A i \in DOMAIN buckets[b] : buckets[b][i] \in Node
    BY ShapedFacts
  <2>2. \A n \in Entries(buckets) : n \in Node
    BY <2>1 DEF Entries, Range
  <2>3. QED
    BY <2>2, TableAssumption DEF Node
<1>4. clock \in Nat /\ MinAge \in Nat
  BY TableAssumption
<1>5. ASSUME RefreshTarget # {}
      PROVE  \E n \in Entries(buckets) : ~(n.seen + MinAge > clock)
  <2>1. PICK p \in Positions(buckets) : At(buckets, p).seen + MinAge <= clock
    BY <1>5 DEF RefreshTarget
  <2>2. QED
    BY <1>2, <1>3, <1>4, <2>1
<1>6. ASSUME NEW n \in Entries(buckets), ~(n.seen + MinAge > clock)
      PROVE  RefreshTarget # {}
  <2>1. PICK q \in Positions(buckets) : At(buckets, q) = n
    BY <1>1
  <2>2. PICK p \in Positions(buckets) : \A r \in Positions(buckets) : SeenBefore(buckets, p, r)
    BY <2>1, OldestExists
  <2>3. At(buckets, p).seen <= n.seen /\ At(buckets, p).seen \in Nat /\ n.seen \in Nat
    <3>1. SeenBefore(buckets, p, q)
      BY <2>2
    <3>2. At(buckets, p).seen \in Nat /\ n.seen \in Nat
      BY <1>2, <1>3
    <3>3. QED
      BY <2>1, <3>1, <3>2 DEF SeenBefore
  <2>4. At(buckets, p).seen + MinAge <= clock
    BY <1>4, <1>6, <2>3
  <2>5. QED
    BY <2>2, <2>4 DEF RefreshTarget
<1>7. QED
  BY <1>5, <1>6 DEF RefreshFindsStale

-----------------------------------------------------------------------------
(* find_node *)

(* The nodes of one's bucket are fewer than K besides oneself. *)
LEMMA FewInBucket ==
    ASSUME NEW n \in Nat, n <= K, NEW b, NEW i \in 1..n,
           NEW S, S \subseteq {<<b, j>> : j \in 1..n}, <<b, i>> \notin S
    PROVE  Cardinality(S) < K
<1> DEFINE J == (1..n) \ {i}
           f == [j \in J |-> <<b, j>>]
<1>1. K \in Nat
  BY TableAssumption
<1>2. IsFiniteSet(1..n) /\ Cardinality(1..n) = n
  BY FS_Interval
<1>3. IsFiniteSet(J) /\ Cardinality(J) = n - 1
  BY <1>2, FS_RemoveElement
<1>4. f \in Surjection(J, {<<b, j>> : j \in J})
  BY DEF Surjection
<1>5. /\ IsFiniteSet({<<b, j>> : j \in J})
      /\ Cardinality({<<b, j>> : j \in J}) <= n - 1
  BY <1>3, <1>4, FS_Surjection
<1>6. S \subseteq {<<b, j>> : j \in J}
  OBVIOUS
<1>7. IsFiniteSet(S) /\ Cardinality(S) <= Cardinality({<<b, j>> : j \in J})
  BY <1>5, <1>6, FS_Subset
<1>8. Cardinality(S) \in Nat /\ Cardinality({<<b, j>> : j \in J}) \in Nat
  BY <1>5, <1>7, FS_CardinalityType
<1>9. QED
  BY <1>1, <1>5, <1>7, <1>8

(* A node of the target's bucket is nearer to it than one of another bucket. *)
LEMMA OwnBucketNearer ==
    ASSUME NEW x \in Ids, NEW y \in Ids, NEW target \in Ids, NEW len \in Nat \ {0},
           BucketIndex(x, len) = BucketIndex(target, len),
           BucketIndex(y, len) # BucketIndex(target, len)
    PROVE  Dist[x, target] < Dist[y, target]
<1>1. Clz[x] \in Nat /\ Clz[y] \in Nat /\ Clz[target] \in Nat
  BY TableAssumption
<1>2. \/ Clz[x] = Clz[target] /\ Clz[y] # Clz[target]
      \/ Clz[y] < Clz[x] /\ Clz[y] < Clz[target]
  BY <1>1 DEF BucketIndex
<1>3. QED
  BY <1>2, DistanceAssumption

(* find_node has all nodes of the bucket of its target. *)
LEMMA FindNodeCovers ==
    ASSUME Shaped(buckets), Placed(buckets)
    PROVE  FindNodeCoversBucket
<1> SUFFICES ASSUME NEW target \in Ids,
                    NEW p \in Positions(buckets), p[1] = BucketIndex(target, Len(buckets))
             PROVE  p \in FindNode(buckets, target)
  BY DEF FindNodeCoversBucket
<1> DEFINE t == BucketIndex(target, Len(buckets))
           walked == {q \in Positions(buckets) : q[1] \in Visited(buckets, target)}
           nearer == {q \in walked : Nearer(buckets, target, q, p)}
<1>1. Len(buckets) \in Nat \ {0} /\ t \in 1..Len(buckets) /\ DOMAIN buckets = 1..Len(buckets)
  BY ShapedFacts, BucketIndexInRange
<1>2. t \in Visited(buckets, target)
  <2>1. t \in WalkPath(buckets, target)
    BY <1>1 DEF WalkPath
  <2>2. WalkedTo(buckets, target, t) \ {t} = {}
    BY <1>1 DEF WalkedTo
  <2>3. QED
    BY <2>1, <2>2 DEF Visited
<1>3. p \in walked
  BY <1>2
<1>4. /\ Len(buckets[t]) \in Nat /\ Len(buckets[t]) <= K
      /\ DOMAIN buckets[t] = 1..Len(buckets[t])
  BY <1>1, ShapedFacts
<1>5. \A b \in DOMAIN buckets : \A i \in DOMAIN buckets[b] :
          buckets[b][i].id \in Ids /\ BucketIndex(buckets[b][i].id, Len(buckets)) = b
  BY ShapedFacts DEF Placed
<1>6. PICK i \in DOMAIN buckets[t] : p = <<t, i>>
  <2>1. PICK b \in DOMAIN buckets : \E i \in DOMAIN buckets[b] : p = <<b, i>>
    BY DEF Positions
  <2>2. QED
    BY <2>1
<1>7. ASSUME NEW q \in nearer
      PROVE  q \in {<<t, j>> : j \in 1..Len(buckets[t])} /\ q # <<t, i>>
  <2>1. PICK b \in DOMAIN buckets : \E j \in DOMAIN buckets[b] : q = <<b, j>>
    BY DEF Positions
  <2>2. PICK j \in DOMAIN buckets[b] : q = <<b, j>>
    BY <2>1
  <2>3. /\ At(buckets, q).id \in Ids /\ BucketIndex(At(buckets, q).id, Len(buckets)) = b
        /\ At(buckets, p).id \in Ids /\ BucketIndex(At(buckets, p).id, Len(buckets)) = t
    BY <1>1, <1>5, <1>6, <2>2 DEF At
  <2>4. /\ Dist[At(buckets, q).id, target] \in Nat
        /\ Dist[At(buckets, p).id, target] \in Nat
    BY <2>3, DistanceAssumption
  <2> DEFINE dp == Dist[At(buckets, p).id, target]
             dq == Dist[At(buckets, q).id, target]
  <2>5. dp \in Nat /\ dq \in Nat /\ (dq < dp \/ (dq = dp /\ q[2] < p[2]))
    BY <2>4 DEF Nearer
  <2>6. b = t
    <3> SUFFICES ASSUME b # t PROVE FALSE
      OBVIOUS
    <3>1. dp < dq
      BY <1>1, <2>3, OwnBucketNearer
    <3> HIDE DEF dp, dq
    <3>2. QED
      BY <2>5, <3>1
  <2>7. j # i
    <3> SUFFICES ASSUME j = i PROVE FALSE
      OBVIOUS
    <3>1. q = p
      BY <1>6, <2>2, <2>6
    <3> HIDE DEF dp, dq
    <3>2. i \in Nat
      BY <1>4
    <3>3. q[2] = i /\ p[2] = i
      BY <1>6, <3>1
    <3>4. dq = dp
      BY <3>1 DEF dp, dq
    <3>5. QED
      BY <3>4, <2>5, <3>1, <3>2, <3>3
  <2>8. QED
    BY <1>4, <2>2, <2>6, <2>7
<1>8. nearer \subseteq {<<t, j>> : j \in 1..Len(buckets[t])} /\ <<t, i>> \notin nearer
  BY <1>7
<1>9. Cardinality(nearer) < K
  BY <1>4, <1>6, <1>8, FewInBucket
<1>10. QED
  BY <1>3, <1>9 DEF FindNode, NearestOf

(* next_refresh_node misses no node that is old enough and offers none that *)
(* is not, however the clock was set meanwhile.                             *)
THEOREM RefreshFindsStaleHolds == Spec => []RefreshFindsStale
<1>1. IInv => RefreshFindsStale
  BY IInvIsConsistent, RefreshFinds DEF Consistent
<1>2. QED
  BY <1>1, TableInvariant, PTL

(* find_node returns the whole bucket the target falls in, whichever buckets *)
(* its walk goes through and however it ranks what it met there.             *)
THEOREM FindNodeCoversBucketHolds == Spec => []FindNodeCoversBucket
<1>1. IInv => FindNodeCoversBucket
  BY IInvIsConsistent, FindNodeCovers DEF Consistent
<1>2. QED
  BY <1>1, TableInvariant, PTL

-----------------------------------------------------------------------------
(* The table implements ContactSet *)

ContactOf(n) == [id |-> n.id, ip |-> n.ip, status |-> n.status]

(* A contact is seen where a node is stored. *)
LEMMA ListedSomewhere ==
    ASSUME NEW bs, NEW c
    PROVE  c \in ContactsOf(bs) <=>
              \E b \in DOMAIN bs : \E i \in DOMAIN bs[b] : c = ContactOf(bs[b][i])
<1>1. ASSUME c \in ContactsOf(bs)
      PROVE  \E b \in DOMAIN bs : \E i \in DOMAIN bs[b] : c = ContactOf(bs[b][i])
  <2>1. PICK n \in Entries(bs) : c = ContactOf(n)
    BY <1>1 DEF ContactsOf, ContactOf
  <2>2. PICK b \in DOMAIN bs : n \in Range(bs[b])
    BY DEF Entries
  <2>3. PICK i \in DOMAIN bs[b] : n = bs[b][i]
    BY <2>2 DEF Range
  <2>4. QED
    BY <2>1, <2>3
<1>2. ASSUME NEW b \in DOMAIN bs, NEW i \in DOMAIN bs[b], c = ContactOf(bs[b][i])
      PROVE  c \in ContactsOf(bs)
  <2>1. bs[b][i] \in Entries(bs)
    BY DEF Entries, Range
  <2>2. QED
    BY <1>2, <2>1 DEF ContactsOf, ContactOf
<1>3. QED
  BY <1>1, <1>2

(* A split shows nobody: the contacts are the same. *)
LEMMA SplitContacts ==
    ASSUME NEW bs, Shaped(bs), Placed(bs), NEW n \in Nat
    PROVE  ContactsOf(SplitTimes(bs, n)) = ContactsOf(bs)
<1>1. ASSUME NEW c \in ContactsOf(SplitTimes(bs, n))
      PROVE  c \in ContactsOf(bs)
  <2>1. PICK b \in DOMAIN SplitTimes(bs, n) : \E i \in DOMAIN SplitTimes(bs, n)[b] :
            c = ContactOf(SplitTimes(bs, n)[b][i])
    BY ListedSomewhere
  <2>2. PICK i \in DOMAIN SplitTimes(bs, n)[b] : c = ContactOf(SplitTimes(bs, n)[b][i])
    BY <2>1
  <2>3. \E d \in DOMAIN bs : \E j \in DOMAIN bs[d] : SplitTimes(bs, n)[b][i] = bs[d][j]
    BY SplitSource
  <2>4. QED
    BY <2>2, <2>3, ListedSomewhere
<1>2. ASSUME NEW c \in ContactsOf(bs)
      PROVE  c \in ContactsOf(SplitTimes(bs, n))
  <2>1. PICK b \in DOMAIN bs : \E i \in DOMAIN bs[b] : c = ContactOf(bs[b][i])
    BY ListedSomewhere
  <2>2. PICK i \in DOMAIN bs[b] : c = ContactOf(bs[b][i])
    BY <2>1
  <2>3. \E d \in DOMAIN SplitTimes(bs, n) : \E j \in DOMAIN SplitTimes(bs, n)[d] :
            SplitTimes(bs, n)[d][j] = bs[b][i]
    BY SplitKeepsNodes
  <2>4. QED
    BY <2>2, <2>3, ListedSomewhere
<1>3. QED
  BY <1>1, <1>2

(* Replacing a node replaces its contact, since no other node has its endpoint. *)
LEMMA ReplaceContacts ==
    ASSUME NEW bs, Shaped(bs), Unique(bs),
           NEW b \in DOMAIN bs, NEW i \in DOMAIN bs[b], NEW x
    PROVE  ContactsOf([bs EXCEPT ![b][i] = x])
              = (ContactsOf(bs) \ {ContactOf(bs[b][i])}) \cup {ContactOf(x)}
<1> DEFINE new == [bs EXCEPT ![b][i] = x]
           old == ContactOf(bs[b][i])
<1>1. /\ DOMAIN new = DOMAIN bs
      /\ DOMAIN new[b] = DOMAIN bs[b] /\ new[b][i] = x
      /\ \A j \in DOMAIN bs[b] : j # i => new[b][j] = bs[b][j]
      /\ \A c \in DOMAIN bs : c # b => new[c] = bs[c]
  OBVIOUS
<1> HIDE DEF new
<1>2. ASSUME NEW c \in DOMAIN bs, NEW j \in DOMAIN bs[c], ~(c = b /\ j = i)
      PROVE  ContactOf(bs[c][j]) # old /\ new[c][j] = bs[c][j] /\ j \in DOMAIN new[c]
  <2>1. bs[c][j].ip # bs[b][i].ip
    BY <1>2 DEF Unique
  <2>2. ContactOf(bs[c][j]) # old
    BY <2>1 DEF ContactOf
  <2>3. CASE c = b
    BY <1>1, <1>2, <2>2, <2>3
  <2>4. CASE c # b
    BY <1>1, <2>2, <2>4
  <2>5. QED
    BY <2>3, <2>4
<1>3. ASSUME NEW c \in ContactsOf(new)
      PROVE  c \in (ContactsOf(bs) \ {old}) \cup {ContactOf(x)}
  <2>1. PICK d \in DOMAIN new : \E j \in DOMAIN new[d] : c = ContactOf(new[d][j])
    BY ListedSomewhere
  <2>2. PICK j \in DOMAIN new[d] : c = ContactOf(new[d][j])
    BY <2>1
  <2>3. d \in DOMAIN bs /\ j \in DOMAIN bs[d]
    BY <1>1
  <2>4. CASE d = b /\ j = i
    BY <1>1, <2>2, <2>4
  <2>5. CASE ~(d = b /\ j = i)
    <3>1. c # old /\ c = ContactOf(bs[d][j])
      BY <1>2, <2>2, <2>3, <2>5
    <3>2. QED
      BY <2>3, <3>1, ListedSomewhere
  <2>6. QED
    BY <2>4, <2>5
<1>4. ContactOf(x) \in ContactsOf(new)
  BY <1>1, ListedSomewhere
<1>5. ASSUME NEW c \in ContactsOf(bs), c # old
      PROVE  c \in ContactsOf(new)
  <2>1. PICK d \in DOMAIN bs : \E j \in DOMAIN bs[d] : c = ContactOf(bs[d][j])
    BY ListedSomewhere
  <2>2. PICK j \in DOMAIN bs[d] : c = ContactOf(bs[d][j])
    BY <2>1
  <2>3. ~(d = b /\ j = i)
    BY <1>5, <2>2
  <2>4. new[d][j] = bs[d][j] /\ j \in DOMAIN new[d] /\ d \in DOMAIN new
    BY <1>1, <1>2, <2>3
  <2>5. QED
    BY <2>2, <2>4, ListedSomewhere
<1>6. ContactsOf(new) = (ContactsOf(bs) \ {old}) \cup {ContactOf(x)}
  BY <1>3, <1>4, <1>5
<1>7. QED
  BY <1>6 DEF new

(* Pushing a node adds its contact. *)
LEMMA PushContacts ==
    ASSUME NEW bs, Shaped(bs), NEW b \in DOMAIN bs, NEW x \in Node
    PROVE  ContactsOf([bs EXCEPT ![b] = Append(@, x)]) = ContactsOf(bs) \cup {ContactOf(x)}
<1> DEFINE new == [bs EXCEPT ![b] = Append(@, x)]
           last == Len(bs[b]) + 1
<1>1. bs[b] \in Seq(Node) /\ Len(bs[b]) \in Nat /\ DOMAIN bs[b] = 1..Len(bs[b])
  BY ShapedFacts
<1>2. /\ DOMAIN new = DOMAIN bs
      /\ new[b] = Append(bs[b], x)
      /\ \A c \in DOMAIN bs : c # b => new[c] = bs[c]
  OBVIOUS
<1>3. /\ DOMAIN new[b] = 1..last /\ new[b][last] = x
      /\ \A j \in 1..Len(bs[b]) : new[b][j] = bs[b][j]
  BY <1>1, <1>2
<1> HIDE DEF new
<1>4. ASSUME NEW c \in ContactsOf(new)
      PROVE  c \in ContactsOf(bs) \cup {ContactOf(x)}
  <2>1. PICK d \in DOMAIN new : \E j \in DOMAIN new[d] : c = ContactOf(new[d][j])
    BY ListedSomewhere
  <2>2. PICK j \in DOMAIN new[d] : c = ContactOf(new[d][j])
    BY <2>1
  <2>3. CASE d = b /\ j = last
    BY <1>3, <2>2, <2>3
  <2>4. CASE d = b /\ j # last
    <3>1. j \in 1..Len(bs[b])
      BY <1>1, <1>3, <2>4
    <3>2. c = ContactOf(bs[b][j]) /\ j \in DOMAIN bs[b]
      BY <1>1, <1>3, <2>2, <2>4, <3>1
    <3>3. QED
      BY <3>2, ListedSomewhere
  <2>5. CASE d # b
    BY <1>2, <2>2, <2>5, ListedSomewhere
  <2>6. QED
    BY <2>3, <2>4, <2>5
<1>5. ContactOf(x) \in ContactsOf(new)
  <2>1. b \in DOMAIN new /\ last \in DOMAIN new[b] /\ new[b][last] = x
    BY <1>1, <1>2, <1>3
  <2>2. QED
    BY <2>1, ListedSomewhere
<1>6. ASSUME NEW c \in ContactsOf(bs)
      PROVE  c \in ContactsOf(new)
  <2>1. PICK d \in DOMAIN bs : \E j \in DOMAIN bs[d] : c = ContactOf(bs[d][j])
    BY ListedSomewhere
  <2>2. PICK j \in DOMAIN bs[d] : c = ContactOf(bs[d][j])
    BY <2>1
  <2>3. d \in DOMAIN new /\ j \in DOMAIN new[d] /\ new[d][j] = bs[d][j]
    <3>1. CASE d = b
      <4>1. j \in 1..Len(bs[b]) /\ j \in 1..last
        BY <1>1, <3>1
      <4>2. QED
        BY <1>2, <1>3, <3>1, <4>1
    <3>2. CASE d # b
      BY <1>2, <3>2
    <3>3. QED
      BY <3>1, <3>2
  <2>4. QED
    BY <2>2, <2>3, ListedSomewhere
<1>7. ContactsOf(new) = ContactsOf(bs) \cup {ContactOf(x)}
  BY <1>4, <1>5, <1>6
<1>8. QED
  BY <1>7 DEF new

(* swap_remove takes one contact out, and no other. *)
LEMMA RemoveContacts ==
    ASSUME NEW bs, Shaped(bs), Unique(bs),
           NEW b \in DOMAIN bs, NEW i \in DOMAIN bs[b]
    PROVE  ContactsOf([bs EXCEPT ![b] = SwapRemove(@, i)])
              = ContactsOf(bs) \ {ContactOf(bs[b][i])}
<1> DEFINE new == [bs EXCEPT ![b] = SwapRemove(@, i)]
           last == Len(bs[b])
           old == ContactOf(bs[b][i])
<1>1. bs[b] \in Seq(Node) /\ last \in Nat /\ DOMAIN bs[b] = 1..last /\ i \in 1..last
  BY ShapedFacts
<1>2. /\ DOMAIN new = DOMAIN bs
      /\ new[b] = SwapRemove(bs[b], i)
      /\ \A c \in DOMAIN bs : c # b => new[c] = bs[c]
  OBVIOUS
<1>3. /\ DOMAIN new[b] = 1..(last - 1)
      /\ \A k \in 1..(last - 1) : new[b][k] = bs[b][IF k = i THEN last ELSE k]
  <2>1. /\ SwapRemove(bs[b], i) \in Seq(Node)
        /\ Len(SwapRemove(bs[b], i)) = last - 1
        /\ \A k \in 1..(last - 1) : SwapRemove(bs[b], i)[k] = bs[b][IF k = i THEN last ELSE k]
    BY <1>1, SwapRemoveProperties
  <2>2. DOMAIN SwapRemove(bs[b], i) = 1..(last - 1)
    BY <2>1
  <2>3. QED
    BY <1>2, <2>1, <2>2
<1> HIDE DEF new
<1>4. ASSUME NEW c \in DOMAIN bs, NEW j \in DOMAIN bs[c], ~(c = b /\ j = i)
      PROVE  ContactOf(bs[c][j]) # old
  <2>1. bs[c][j].ip # bs[b][i].ip
    BY <1>4 DEF Unique
  <2>2. QED
    BY <2>1 DEF ContactOf
<1>5. ASSUME NEW c \in ContactsOf(new)
      PROVE  c \in ContactsOf(bs) /\ c # old
  <2>1. PICK d \in DOMAIN new : \E j \in DOMAIN new[d] : c = ContactOf(new[d][j])
    BY ListedSomewhere
  <2>2. PICK j \in DOMAIN new[d] : c = ContactOf(new[d][j])
    BY <2>1
  <2>3. PICK k \in DOMAIN bs[d] : new[d][j] = bs[d][k] /\ ~(d = b /\ k = i)
    <3>1. CASE d = b
      <4> DEFINE k == IF j = i THEN last ELSE j
      <4>1. j \in 1..(last - 1)
        BY <1>3, <3>1
      <4>2. k \in 1..last /\ k # i /\ new[b][j] = bs[b][k]
        BY <1>1, <1>3, <4>1
      <4>3. QED
        BY <1>1, <3>1, <4>2
    <3>2. CASE d # b
      BY <1>2, <3>2
    <3>3. QED
      BY <3>1, <3>2
  <2>4. d \in DOMAIN bs /\ c = ContactOf(bs[d][k])
    BY <1>2, <2>2, <2>3
  <2>5. QED
    BY <1>4, <2>3, <2>4, ListedSomewhere
<1>6. ASSUME NEW c \in ContactsOf(bs), c # old
      PROVE  c \in ContactsOf(new)
  <2>1. PICK d \in DOMAIN bs : \E j \in DOMAIN bs[d] : c = ContactOf(bs[d][j])
    BY ListedSomewhere
  <2>2. PICK j \in DOMAIN bs[d] : c = ContactOf(bs[d][j])
    BY <2>1
  <2>3. ~(d = b /\ j = i)
    BY <1>6, <2>2
  <2>4. PICK k \in DOMAIN new[d] : new[d][k] = bs[d][j]
    <3>1. CASE d = b /\ j = last
      <4>1. i \in 1..(last - 1)
        BY <1>1, <2>3, <3>1
      <4>2. i \in DOMAIN new[b] /\ new[b][i] = bs[b][last]
        BY <1>3, <4>1
      <4>3. QED
        BY <3>1, <4>2
    <3>2. CASE d = b /\ j # last
      <4>1. j \in 1..(last - 1) /\ j # i
        BY <1>1, <2>3, <3>2
      <4>2. j \in DOMAIN new[b] /\ new[b][j] = bs[b][j]
        BY <1>3, <4>1
      <4>3. QED
        BY <3>2, <4>2
    <3>3. CASE d # b
      BY <1>2, <3>3
    <3>4. QED
      BY <3>1, <3>2, <3>3
  <2>5. d \in DOMAIN new
    BY <1>2
  <2>6. QED
    BY <2>2, <2>4, <2>5, ListedSomewhere
<1>7. ContactsOf(new) = ContactsOf(bs) \ {old}
  BY <1>5, <1>6
<1>8. QED
  BY <1>7 DEF new

\* One step of ContactSet, or none, from the contacts s to the contacts t.
ContactStep(s, t) ==
    \/ t = s
    \/ \E c \in Contacts!Contact :
          \/ /\ c.status = "Good"
             /\ \A d \in s : d.ip # c.ip
             /\ t = s \cup {c}
          \/ /\ c \in s
             /\ t = (s \ {c}) \cup {[c EXCEPT !.status = "Good"]}
          \/ /\ c \in s
             /\ c.status # "Bad"
             /\ t = (s \ {c}) \cup {[c EXCEPT !.status = Contacts!Lowered[c.status]]}
          \/ /\ c \in s
             /\ c.status = "Bad"
             /\ t = s \ {c}

(* A step keeps the contacts what they are: neither this node nor "unknown". *)
LEMMA ContactStepKeepsContacts ==
    ASSUME NEW s, NEW t, s \subseteq Contacts!Contact, ContactStep(s, t)
    PROVE  t \subseteq Contacts!Contact
<1>1. CASE t = s
  BY <1>1
<1>2. CASE t # s
  <2>1. PICK c \in Contacts!Contact :
          \/ t = s \cup {c}
          \/ t = (s \ {c}) \cup {[c EXCEPT !.status = "Good"]}
          \/ c.status # "Bad" /\ t = (s \ {c}) \cup {[c EXCEPT !.status = Contacts!Lowered[c.status]]}
          \/ t = s \ {c}
    BY <1>2 DEF ContactStep
  <2>2. /\ [c EXCEPT !.status = "Good"] \in Contacts!Contact
        /\ [c EXCEPT !.status = "Questionable"] \in Contacts!Contact
        /\ [c EXCEPT !.status = "Bad"] \in Contacts!Contact
    BY DEF Contacts!Contact, Contacts!Grades
  <2>3. c.status # "Bad" => Contacts!Lowered[c.status] \in {"Questionable", "Bad"}
    BY DEF Contacts!Contact, Contacts!Grades, Contacts!Lowered
  <2>4. c.status # "Bad" => [c EXCEPT !.status = Contacts!Lowered[c.status]] \in Contacts!Contact
    BY <2>2, <2>3
  <2>5. QED
    BY <2>1, <2>2, <2>4
<1>3. QED
  BY <1>1, <1>2

(* What replacing the grade of a stored node looks like from outside. *)
LEMMA RegradeContacts ==
    ASSUME NEW bs, Shaped(bs), Unique(bs), ContactsOf(bs) \subseteq Contacts!Contact,
           NEW b \in DOMAIN bs, NEW i \in DOMAIN bs[b], NEW x \in Node,
           x.id = bs[b][i].id, x.ip = bs[b][i].ip
    PROVE  LET c == ContactOf(bs[b][i])
           IN  /\ c \in Contacts!Contact /\ c \in ContactsOf(bs)
               /\ c.status = bs[b][i].status
               /\ ContactsOf([bs EXCEPT ![b][i] = x])
                     = (ContactsOf(bs) \ {c}) \cup {[c EXCEPT !.status = x.status]}
<1> DEFINE c == ContactOf(bs[b][i])
<1>1. c \in ContactsOf(bs)
  BY ListedSomewhere
<1>2. ContactsOf([bs EXCEPT ![b][i] = x]) = (ContactsOf(bs) \ {c}) \cup {ContactOf(x)}
  BY ReplaceContacts
<1>3. ContactOf(x) = [c EXCEPT !.status = x.status]
  BY DEF ContactOf
<1>4. c.status = bs[b][i].status
  BY DEF ContactOf
<1>5. QED
  BY <1>1, <1>2, <1>3, <1>4

(* update_node: nothing, a contact heard from, or one learnt. *)
LEMMA UpdateContacts ==
    ASSUME NEW bs, Consistent(bs, ips), clock \in 0..MaxNow,
           ContactsOf(bs) \subseteq Contacts!Contact,
           NEW id \in Ids, NEW ip \in Addrs,
           UpdateOn(bs, id, ip)
    PROVE  ContactStep(ContactsOf(bs), ContactsOf(buckets'))
<1> DEFINE b == BucketIndex(id, Len(bs))
           i == FirstWithId(bs[b], id)
           result == UpdateResult(bs, id, ip)
<1>1. Shaped(bs) /\ Unique(bs) /\ Indexes(ips, bs)
  BY DEF Consistent
<1>2. b \in DOMAIN bs
  BY <1>1, ShapedFacts, BucketIndexInRange
<1>3. bs[b] \in Seq(Node)
  BY <1>1, <1>2, ShapedFacts
<1>4. CASE result \in {"Failed", "NeedSplit"}
  <2>1. buckets' = bs
    BY <1>4 DEF UpdateOn
  <2>2. QED
    BY <2>1 DEF ContactStep
<1>5. CASE result = "Refreshed"
  <2>1. buckets' = [bs EXCEPT ![b][i] = [@ EXCEPT !.status = "Good", !.seen = clock]]
    BY <1>5 DEF UpdateOn
  <2>2. i # 0
    BY <1>5 DEF UpdateResult
  <2>3. i \in DOMAIN bs[b] /\ bs[b][i] \in Node
    BY <1>3, <2>2, FirstWithIdFound
  <2>4. PICK x : x = [bs[b][i] EXCEPT !.status = "Good", !.seen = clock]
    OBVIOUS
  <2>5. x \in Node /\ x.id = bs[b][i].id /\ x.ip = bs[b][i].ip /\ x.status = "Good"
    BY <2>3, <2>4 DEF Node, Status
  <2>6. buckets' = [bs EXCEPT ![b][i] = x]
    BY <2>1, <2>4
  <2>7. PICK c : c = ContactOf(bs[b][i])
    OBVIOUS
  <2>8. /\ c \in Contacts!Contact /\ c \in ContactsOf(bs)
        /\ ContactsOf(buckets') = (ContactsOf(bs) \ {c}) \cup {[c EXCEPT !.status = "Good"]}
    <3>1. LET d == ContactOf(bs[b][i])
          IN  /\ d \in Contacts!Contact /\ d \in ContactsOf(bs)
              /\ d.status = bs[b][i].status
              /\ ContactsOf([bs EXCEPT ![b][i] = x])
                    = (ContactsOf(bs) \ {d}) \cup {[d EXCEPT !.status = x.status]}
      BY <1>1, <1>2, <2>3, <2>5, RegradeContacts
    <3>2. QED
      BY <2>5, <2>6, <2>7, <3>1
  <2>9. QED
    BY <2>8 DEF ContactStep
<1>6. CASE result = "Pushed"
  <2>1. PICK x : x = [id |-> id, ip |-> ip, status |-> "Good", seen |-> clock]
    OBVIOUS
  <2>2. buckets' = [bs EXCEPT ![b] = Append(@, x)]
    BY <1>6, <2>1 DEF UpdateOn
  <2>3. x \in Node /\ x.id = id /\ x.ip = ip /\ x.status = "Good"
    BY <2>1 DEF Node, Status
  <2>4. ip \notin ips /\ id # Zero /\ id # Self
    BY <1>6 DEF UpdateResult
  <2>5. PICK c : c = ContactOf(x)
    OBVIOUS
  <2>6. c \in Contacts!Contact /\ c.status = "Good" /\ c.ip = ip
    BY <2>3, <2>4, <2>5 DEF ContactOf, Contacts!Contact, Contacts!Grades
  <2>7. ASSUME NEW d \in ContactsOf(bs)
        PROVE  d.ip # ip
    <3>1. PICK e \in DOMAIN bs : \E j \in DOMAIN bs[e] : d = ContactOf(bs[e][j])
      BY ListedSomewhere
    <3>2. PICK j \in DOMAIN bs[e] : d = ContactOf(bs[e][j])
      BY <3>1
    <3>3. bs[e][j].ip \in ips
      BY <1>1 DEF Indexes
    <3>4. QED
      BY <2>4, <3>2, <3>3 DEF ContactOf
  <2>8. ContactsOf(buckets') = ContactsOf(bs) \cup {c}
    BY <1>1, <1>2, <2>2, <2>3, <2>5, PushContacts
  <2>9. QED
    BY <2>6, <2>7, <2>8 DEF ContactStep
<1>7. QED
  BY <1>4, <1>5, <1>6 DEF UpdateOn

(* add_node: its splits show nobody, what follows is update_node. *)
LEMMA AddContacts ==
    ASSUME Consistent(buckets, ips), clock \in 0..MaxNow,
           ContactsOf(buckets) \subseteq Contacts!Contact,
           NEW id \in Ids, NEW ip \in Addrs,
           AddNode(id, ip)
    PROVE  ContactStep(ContactsOf(buckets), ContactsOf(buckets'))
<1>1. PICK n \in 0..(MaxBuckets - Len(buckets)) : UpdateOn(SplitTimes(buckets, n), id, ip)
  BY DEF AddNode
<1>2. Len(buckets) \in Nat
  BY ShapedFacts DEF Consistent
<1>3. n \in Nat /\ Len(buckets) + n <= MaxBuckets
  BY <1>2, TableAssumption
<1>4. Consistent(SplitTimes(buckets, n), ips)
  BY <1>3, SplitConsistent
<1>5. ContactsOf(SplitTimes(buckets, n)) = ContactsOf(buckets)
  BY <1>3, SplitContacts DEF Consistent
<1>6. QED
  BY <1>1, <1>4, <1>5, UpdateContacts

(* node_timeout: a contact that missed an answer, or is given up. *)
LEMMA TimeoutContacts ==
    ASSUME Consistent(buckets, ips),
           ContactsOf(buckets) \subseteq Contacts!Contact,
           NEW id \in Ids, NodeTimeout(id)
    PROVE  ContactStep(ContactsOf(buckets), ContactsOf(buckets'))
<1> DEFINE b == BucketIndex(id, Len(buckets))
           i == FirstWithId(buckets[b], id)
<1>1. Shaped(buckets) /\ Unique(buckets)
  BY DEF Consistent
<1>2. b \in DOMAIN buckets
  BY <1>1, ShapedFacts, BucketIndexInRange
<1>3. buckets[b] \in Seq(Node)
  BY <1>1, <1>2, ShapedFacts
<1>4. i \in DOMAIN buckets[b]
  BY <1>3, FirstWithIdFound DEF NodeTimeout
<1>5. buckets[b][i] \in Node
  BY <1>3, <1>4
<1>6. PICK c : c = ContactOf(buckets[b][i])
  OBVIOUS
<1>7. ASSUME NEW s \in Status,
             buckets' = [buckets EXCEPT ![b][i] = [@ EXCEPT !.status = s]]
      PROVE  /\ c \in Contacts!Contact /\ c \in ContactsOf(buckets)
             /\ c.status = buckets[b][i].status
             /\ ContactsOf(buckets')
                   = (ContactsOf(buckets) \ {c}) \cup {[c EXCEPT !.status = s]}
  <2>1. PICK x : x = [buckets[b][i] EXCEPT !.status = s]
    OBVIOUS
  <2>2. /\ x \in Node /\ x.status = s
        /\ x.id = buckets[b][i].id /\ x.ip = buckets[b][i].ip
    BY <1>5, <2>1 DEF Node
  <2>3. buckets' = [buckets EXCEPT ![b][i] = x]
    BY <1>7, <2>1
  <2>4. LET d == ContactOf(buckets[b][i])
        IN  /\ d \in Contacts!Contact /\ d \in ContactsOf(buckets)
            /\ d.status = buckets[b][i].status
            /\ ContactsOf([buckets EXCEPT ![b][i] = x])
                  = (ContactsOf(buckets) \ {d}) \cup {[d EXCEPT !.status = x.status]}
    BY <1>1, <1>2, <1>4, <2>2, RegradeContacts
  <2>5. QED
    BY <1>6, <2>2, <2>3, <2>4
<1>8. CASE /\ buckets[b][i].status = "Good"
           /\ buckets' = [buckets EXCEPT ![b][i] = [@ EXCEPT !.status = "Questionable"]]
  <2>1. /\ c \in Contacts!Contact /\ c \in ContactsOf(buckets)
        /\ c.status = "Good"
        /\ ContactsOf(buckets')
              = (ContactsOf(buckets) \ {c}) \cup {[c EXCEPT !.status = "Questionable"]}
    BY <1>7, <1>8 DEF Status
  <2>2. Contacts!Lowered[c.status] = "Questionable"
    BY <2>1 DEF Contacts!Lowered
  <2>3. QED
    BY <2>1, <2>2 DEF ContactStep
<1>9. CASE /\ buckets[b][i].status = "Questionable"
           /\ buckets' = [buckets EXCEPT ![b][i] = [@ EXCEPT !.status = "Bad"]]
  <2>1. /\ c \in Contacts!Contact /\ c \in ContactsOf(buckets)
        /\ c.status = "Questionable"
        /\ ContactsOf(buckets')
              = (ContactsOf(buckets) \ {c}) \cup {[c EXCEPT !.status = "Bad"]}
    BY <1>7, <1>9 DEF Status
  <2>2. Contacts!Lowered[c.status] = "Bad"
    BY <2>1 DEF Contacts!Lowered
  <2>3. QED
    BY <2>1, <2>2 DEF ContactStep
<1>10. CASE buckets[b][i].status = "Bad" /\ RemoveNode(b, i)
  <2>1. ContactsOf(buckets') = ContactsOf(buckets) \ {c}
    <3>1. ContactsOf([buckets EXCEPT ![b] = SwapRemove(@, i)])
             = ContactsOf(buckets) \ {ContactOf(buckets[b][i])}
      BY <1>1, <1>2, <1>4, RemoveContacts
    <3>2. buckets' = [buckets EXCEPT ![b] = SwapRemove(@, i)]
      BY <1>10 DEF RemoveNode
    <3>3. QED
      BY <1>6, <3>1, <3>2
  <2>2. c \in ContactsOf(buckets) /\ c.status = "Bad"
    BY <1>2, <1>4, <1>6, <1>10, ListedSomewhere DEF ContactOf
  <2>3. c \in Contacts!Contact
    BY <2>2
  <2>4. QED
    BY <2>1, <2>2, <2>3 DEF ContactStep
<1>11. QED
  BY <1>8, <1>9, <1>10 DEF NodeTimeout

(* next_refresh_node dates a node anew, which no contact shows. *)
LEMMA RefreshContacts ==
    ASSUME Consistent(buckets, ips), clock \in 0..MaxNow, NextRefreshNode,
           ContactsOf(buckets) \subseteq Contacts!Contact
    PROVE  ContactsOf(buckets') = ContactsOf(buckets)
<1>1. PICK p \in Positions(buckets) :
          buckets' = [buckets EXCEPT ![p[1]][p[2]] = [@ EXCEPT !.seen = clock]]
  BY DEF NextRefreshNode, RefreshTarget
<1>2. PICK b \in DOMAIN buckets : \E i \in DOMAIN buckets[b] : p = <<b, i>>
  BY DEF Positions
<1>3. PICK i \in DOMAIN buckets[b] : p = <<b, i>>
  BY <1>2
<1>4. Shaped(buckets) /\ Unique(buckets)
  BY DEF Consistent
<1>5. buckets[b][i] \in Node
  BY <1>4, ShapedFacts
<1>6. PICK x : x = [buckets[b][i] EXCEPT !.seen = clock]
  OBVIOUS
<1>7. ContactOf(x) = ContactOf(buckets[b][i])
  BY <1>5, <1>6 DEF ContactOf, Node
<1>8. buckets' = [buckets EXCEPT ![b][i] = x]
  BY <1>1, <1>3, <1>6
<1>9. ContactsOf([buckets EXCEPT ![b][i] = x])
         = (ContactsOf(buckets) \ {ContactOf(buckets[b][i])}) \cup {ContactOf(x)}
  BY <1>4, ReplaceContacts
<1>10. ContactOf(buckets[b][i]) \in ContactsOf(buckets)
  BY ListedSomewhere
<1>11. ContactsOf([buckets EXCEPT ![b][i] = x]) = ContactsOf(buckets)
  BY <1>7, <1>9, <1>10
<1>12. QED
  BY <1>8, <1>11

-----------------------------------------------------------------------------
\* Neither this node nor an unknown one is a contact.
OnlyContacts == ContactsOf(buckets) \subseteq Contacts!Contact

(* Every step of the table is a step of ContactSet, or none. *)
LEMMA TableStep ==
    ASSUME IInv, OnlyContacts, [Next]_vars
    PROVE  ContactStep(ContactsOf(buckets), ContactsOf(buckets'))
<1>1. Consistent(buckets, ips) /\ clock \in 0..MaxNow
  BY IInvIsConsistent
<1>2. ContactsOf(buckets) \subseteq Contacts!Contact
  BY DEF OnlyContacts
<1>3. ASSUME buckets' = buckets
      PROVE  ContactStep(ContactsOf(buckets), ContactsOf(buckets'))
  BY <1>3 DEF ContactStep
<1>4. ASSUME NEW id \in Ids, NEW ip \in Addrs, UpdateNode(id, ip)
      PROVE  ContactStep(ContactsOf(buckets), ContactsOf(buckets'))
  BY <1>1, <1>2, <1>4, UpdateContacts DEF UpdateNode
<1>5. ASSUME NEW id \in Ids, NEW ip \in Addrs, AddNode(id, ip)
      PROVE  ContactStep(ContactsOf(buckets), ContactsOf(buckets'))
  BY <1>1, <1>2, <1>5, AddContacts
<1>6. ASSUME NEW id \in Ids, NodeTimeout(id)
      PROVE  ContactStep(ContactsOf(buckets), ContactsOf(buckets'))
  BY <1>1, <1>2, <1>6, TimeoutContacts
<1>7. CASE NextRefreshNode
  BY <1>1, <1>2, <1>7, RefreshContacts DEF ContactStep
<1>8. CASE \E ip \in Addrs : AddRouter(ip)
  BY <1>3, <1>8 DEF AddRouter
<1>9. CASE \E t \in 0..MaxNow : SetClock(t)
  BY <1>3, <1>9 DEF SetClock
<1>10. CASE UNCHANGED vars
  BY <1>3, <1>10 DEF vars
<1>11. QED
  BY <1>4, <1>5, <1>6, <1>7, <1>8, <1>9, <1>10 DEF Next

(* The table implements a set of contacts: whatever update_node, add_node   *)
(* with its splits, node_timeout and next_refresh_node do, each step seen   *)
(* from outside learns, hears from, degrades or drops one contact, or shows *)
(* nothing.                                                                 *)
THEOREM ImplementsContactSet == Spec => RefinesContactSet
<1>1. Init => OnlyContacts /\ Contacts!Init
  <2> SUFFICES ASSUME Init PROVE OnlyContacts /\ Contacts!Init
    OBVIOUS
  <2>1. buckets = << <<>> >>
    BY DEF Init
  <2>2. DOMAIN buckets = {1} /\ DOMAIN buckets[1] = {}
    BY <2>1
  <2>3. ContactsOf(buckets) = {}
    BY <2>2, ListedSomewhere
  <2>4. QED
    BY <2>3 DEF OnlyContacts, Contacts!Init
<1>2. IInv /\ OnlyContacts /\ [Next]_vars => OnlyContacts'
  <2> SUFFICES ASSUME IInv, OnlyContacts, [Next]_vars PROVE OnlyContacts'
    OBVIOUS
  <2>1. ContactsOf(buckets') \subseteq Contacts!Contact
    BY TableStep, ContactStepKeepsContacts DEF OnlyContacts
  <2>2. QED
    BY <2>1 DEF OnlyContacts, ContactsOf, Entries, Range, Contacts!Contact, Contacts!Grades
<1>3. IInv /\ OnlyContacts /\ [Next]_vars => [Contacts!Next]_(ContactsOf(buckets))
  <2> SUFFICES ASSUME IInv, OnlyContacts, [Next]_vars
               PROVE  [Contacts!Next]_(ContactsOf(buckets))
    OBVIOUS
  <2>1. PICK s : s = ContactsOf(buckets)
    OBVIOUS
  <2>2. PICK t : t = ContactsOf(buckets')
    OBVIOUS
  <2>3. ContactsOf(buckets)' = t
    BY <2>2 DEF ContactsOf, Entries, Range
  <2>4. ContactStep(s, t)
    BY <2>1, <2>2, TableStep
  <2>5. QED
    BY <2>1, <2>3, <2>4 DEF ContactStep, Contacts!Next, Contacts!Learn, Contacts!Heard,
       Contacts!Missed, Contacts!Drop
<1>4. QED
  BY <1>1, <1>2, <1>3, TableInvariant, PTL DEF Spec, RefinesContactSet, Contacts!Spec
-----------------------------------------------------------------------------
(* Bencode: reading tokens *)

\* The recursive function inside ReadAll, with itself as a parameter.
ReadStep(st, tokens, g, n) == IF n = 0 THEN st ELSE Read(g[n - 1], tokens[n])

IsRun(st, tokens, g) == g = [n \in 0..Len(tokens) |-> ReadStep(st, tokens, g, n)]

(* The recursive function inside ReadAll exists. *)
LEMMA RunUpTo ==
    ASSUME NEW st, NEW tokens
    PROVE  \A n \in Nat : \E g : g = [i \in 0..n |-> ReadStep(st, tokens, g, i)]
<1> DEFINE N == {n \in Nat : \E g : g = [i \in 0..n |-> ReadStep(st, tokens, g, i)]}
<1>1. 0 \in N
  <2> DEFINE g == [i \in 0..0 |-> st]
  <2>1. g = [i \in 0..0 |-> ReadStep(st, tokens, g, i)]
    BY DEF ReadStep
  <2>2. QED
    BY <2>1
<1>2. ASSUME NEW n \in Nat, n \in N
      PROVE  n + 1 \in N
  <2>1. PICK g : g = [i \in 0..n |-> ReadStep(st, tokens, g, i)]
    BY <1>2
  <2> DEFINE h == [i \in 0..(n + 1) |-> ReadStep(st, tokens, g, i)]
  <2>2. \A i \in 0..n : h[i] = g[i]
    BY <2>1
  <2>3. h = [i \in 0..(n + 1) |-> ReadStep(st, tokens, g, i)]
    OBVIOUS
  <2> HIDE DEF h
  <2>4. ASSUME NEW i \in 0..(n + 1)
        PROVE  ReadStep(st, tokens, h, i) = ReadStep(st, tokens, g, i)
    <3>1. CASE i = 0
      BY <3>1 DEF ReadStep
    <3>2. CASE i # 0
      <4>1. i - 1 \in 0..n
        BY <3>2
      <4>2. h[i - 1] = g[i - 1]
        BY <2>2, <4>1
      <4>3. QED
        BY <4>2 DEF ReadStep
    <3>3. QED
      BY <3>1, <3>2
  <2>5. h = [i \in 0..(n + 1) |-> ReadStep(st, tokens, h, i)]
    BY <2>3, <2>4
  <2>6. \E k : k = [i \in 0..(n + 1) |-> ReadStep(st, tokens, k, i)]
    BY <2>5
  <2>7. QED
    BY <2>6
<1>3. Nat \subseteq N
  BY <1>1, <1>2, SetInduction
<1>4. QED
  BY <1>3

(* ReadAll is the end of a run over the tokens, and of any other.           *)
LEMMA ReadAllRuns ==
    ASSUME NEW T, NEW tokens \in Seq(T), NEW st
    PROVE  /\ \E g : IsRun(st, tokens, g)
           /\ \A g : IsRun(st, tokens, g) => g[Len(tokens)] = ReadAll(st, tokens)
<1> DEFINE F == CHOOSE g : IsRun(st, tokens, g)
<1>1. Len(tokens) \in Nat
  OBVIOUS
<1>2. \E g : IsRun(st, tokens, g)
  BY <1>1, RunUpTo DEF IsRun
<1>3. IsRun(st, tokens, F)
  BY <1>2
<1>4. ReadAll(st, tokens) = F[Len(tokens)]
  BY DEF ReadAll, IsRun, ReadStep
<1> HIDE DEF F
<1>5. ASSUME NEW g, IsRun(st, tokens, g)
      PROVE  g[Len(tokens)] = ReadAll(st, tokens)
  <2> DEFINE N == {n \in Nat : n <= Len(tokens) => g[n] = F[n]}
  <2>1. \A n \in 0..Len(tokens) :
            g[n] = ReadStep(st, tokens, g, n) /\ F[n] = ReadStep(st, tokens, F, n)
    <3>1. \A n \in 0..Len(tokens) : g[n] = ReadStep(st, tokens, g, n)
      BY <1>5 DEF IsRun
    <3>2. \A n \in 0..Len(tokens) : F[n] = ReadStep(st, tokens, F, n)
      BY <1>3 DEF IsRun
    <3>3. QED
      BY <3>1, <3>2
  <2>2. 0 \in N
    BY <1>1, <2>1 DEF ReadStep
  <2>3. ASSUME NEW n \in Nat, n \in N
        PROVE  n + 1 \in N
    <3> SUFFICES ASSUME n + 1 <= Len(tokens) PROVE g[n + 1] = F[n + 1]
      OBVIOUS
    <3>1. g[n] = F[n] /\ n + 1 \in 0..Len(tokens) /\ (n + 1) - 1 = n /\ n + 1 # 0
      BY <1>1, <2>3
    <3>2. QED
      BY <2>1, <3>1 DEF ReadStep
  <2>4. Nat \subseteq N
    BY <2>2, <2>3, SetInduction
  <2>5. QED
    BY <1>1, <1>4, <2>4
<1>6. QED
  BY <1>2, <1>5

IsTokens(s) == \E T : s \in Seq(T)

(* Tokens are read one after the other. *)
LEMMA ReadConcat ==
    ASSUME NEW s, IsTokens(s), NEW t, IsTokens(t)
    PROVE  /\ IsTokens(s \o t)
           /\ \A st : ReadAll(st, s \o t) = ReadAll(ReadAll(st, s), t)
<1> SUFFICES ASSUME NEW st
             PROVE  IsTokens(s \o t) /\ ReadAll(st, s \o t) = ReadAll(ReadAll(st, s), t)
  OBVIOUS
<1>s. PICK S : s \in Seq(S)
  BY DEF IsTokens
<1>t. PICK T : t \in Seq(T)
  BY DEF IsTokens
<1> DEFINE m == Len(s)
           n == Len(t)
           mid == ReadAll(st, s)
<1>1. /\ s \o t \in Seq(S \cup T) /\ Len(s \o t) = m + n
      /\ \A i \in 1..m : (s \o t)[i] = s[i]
      /\ \A i \in 1..n : (s \o t)[m + i] = t[i]
  <2>1. s \in Seq(S \cup T) /\ t \in Seq(S \cup T)
    BY <1>s, <1>t
  <2>2. /\ s \o t \in Seq(S \cup T) /\ Len(s \o t) = m + n
        /\ \A i \in 1..(m + n) : (s \o t)[i] = IF i <= m THEN s[i] ELSE t[i - m]
    BY <2>1, ConcatProperties
  <2> HIDE DEF m, n
  <2>3. m \in Nat /\ n \in Nat
    BY <1>s, <1>t DEF m, n
  <2>4. \A i \in 1..m : (s \o t)[i] = s[i]
    BY <2>2, <2>3
  <2>5. ASSUME NEW i \in 1..n
        PROVE  (s \o t)[m + i] = t[i]
    <3>1. m + i \in 1..(m + n) /\ ~(m + i <= m) /\ (m + i) - m = i
      BY <2>3
    <3>2. QED
      BY <2>2, <3>1
  <2>6. QED
    BY <2>2, <2>4, <2>5
<1>2. m \in Nat /\ n \in Nat
  BY <1>s, <1>t
<1>3. PICK a : IsRun(st, s, a)
  BY <1>s, ReadAllRuns
<1>4. PICK b : IsRun(mid, t, b)
  BY <1>t, ReadAllRuns
<1>5. PICK c : IsRun(st, s \o t, c)
  BY <1>1, ReadAllRuns
<1>6. a[m] = mid /\ b[n] = ReadAll(mid, t) /\ c[m + n] = ReadAll(st, s \o t)
  BY <1>1, <1>s, <1>t, <1>3, <1>4, <1>5, ReadAllRuns
<1> HIDE DEF mid, m, n
<1>7. /\ \A i \in 0..m : a[i] = ReadStep(st, s, a, i)
      /\ \A i \in 0..n : b[i] = ReadStep(mid, t, b, i)
      /\ \A i \in 0..(m + n) : c[i] = ReadStep(st, s \o t, c, i)
  <2>1. \A i \in 0..m : a[i] = ReadStep(st, s, a, i)
    BY <1>3 DEF IsRun, m
  <2>2. \A i \in 0..n : b[i] = ReadStep(mid, t, b, i)
    BY <1>4 DEF IsRun, n
  <2>3. \A i \in 0..(m + n) : c[i] = ReadStep(st, s \o t, c, i)
    BY <1>1, <1>5 DEF IsRun
  <2>4. QED
    BY <2>1, <2>2, <2>3
<1>8. c[m] = a[m]
  <2> DEFINE N == {i \in Nat : i <= m => c[i] = a[i]}
  <2>1. 0 \in N
    BY <1>2, <1>7 DEF ReadStep
  <2>2. ASSUME NEW i \in Nat, i \in N
        PROVE  i + 1 \in N
    <3> SUFFICES ASSUME i + 1 <= m PROVE c[i + 1] = a[i + 1]
      OBVIOUS
    <3>1. c[i] = a[i] /\ i + 1 \in 0..m /\ i + 1 \in 1..m /\ i + 1 \in 0..(m + n)
          /\ (i + 1) - 1 = i /\ i + 1 # 0
      BY <1>2, <2>2
    <3>2. (s \o t)[i + 1] = s[i + 1]
      BY <1>1, <3>1
    <3>3. c[i + 1] = Read(c[i], (s \o t)[i + 1])
      BY <1>7, <3>1 DEF ReadStep
    <3>4. a[i + 1] = Read(a[i], s[i + 1])
      BY <1>7, <3>1 DEF ReadStep
    <3>5. QED
      BY <3>1, <3>2, <3>3, <3>4
  <2>3. Nat \subseteq N
    BY <2>1, <2>2, SetInduction
  <2>4. QED
    BY <1>2, <2>3
<1>9. c[m + n] = b[n]
  <2> DEFINE N == {i \in Nat : i <= n => c[m + i] = b[i]}
  <2>1. 0 \in N
    <3>1. b[0] = mid
      BY <1>2, <1>7 DEF ReadStep
    <3>2. c[m + 0] = b[0]
      BY <1>2, <1>6, <1>8, <3>1
    <3>3. QED
      BY <3>2
  <2>2. ASSUME NEW i \in Nat, i \in N
        PROVE  i + 1 \in N
    <3> SUFFICES ASSUME i + 1 <= n PROVE c[m + (i + 1)] = b[i + 1]
      OBVIOUS
    <3>1. c[m + i] = b[i] /\ i + 1 \in 0..n /\ i + 1 \in 1..n /\ m + (i + 1) \in 0..(m + n)
          /\ (i + 1) - 1 = i /\ i + 1 # 0 /\ (m + (i + 1)) - 1 = m + i /\ m + (i + 1) # 0
      BY <1>2, <2>2
    <3>2. (s \o t)[m + (i + 1)] = t[i + 1]
      BY <1>1, <3>1
    <3>3. c[m + (i + 1)] = Read(c[m + i], (s \o t)[m + (i + 1)])
      BY <1>7, <3>1 DEF ReadStep
    <3>4. b[i + 1] = Read(b[i], t[i + 1])
      BY <1>7, <3>1 DEF ReadStep
    <3>5. QED
      BY <3>1, <3>2, <3>3, <3>4
  <2>3. Nat \subseteq N
    BY <2>1, <2>2, SetInduction
  <2>4. QED
    BY <1>2, <2>3
<1>10. IsTokens(s \o t)
  BY <1>1 DEF IsTokens
<1>11. QED
  BY <1>1, <1>6, <1>9, <1>10 DEF mid

(* Reading one token, and reading none. *)
LEMMA ReadOne ==
    ASSUME NEW st, NEW token
    PROVE  /\ IsTokens(<< token >>) /\ IsTokens(<< >>)
           /\ ReadAll(st, << token >>) = Read(st, token)
           /\ ReadAll(st, << >>) = st
<1>1. << token >> \in Seq({token}) /\ Len(<< token >>) = 1 /\ << token >>[1] = token
  OBVIOUS
<1>2. PICK g : IsRun(st, << token >>, g)
  BY <1>1, ReadAllRuns
<1>3. g[1] = ReadAll(st, << token >>)
  BY <1>1, <1>2, ReadAllRuns
<1>4. g[0] = ReadStep(st, << token >>, g, 0) /\ g[1] = ReadStep(st, << token >>, g, 1)
  BY <1>1, <1>2 DEF IsRun
<1>5. ReadAll(st, << token >>) = Read(st, token)
  BY <1>1, <1>3, <1>4 DEF ReadStep
<1>6. << >> \in Seq({}) /\ Len(<< >>) = 0
  OBVIOUS
<1>7. PICK h : IsRun(st, << >>, h)
  BY <1>6, ReadAllRuns
<1>8. h[0] = ReadAll(st, << >>)
  BY <1>6, <1>7, ReadAllRuns
<1>9. h[0] = ReadStep(st, << >>, h, 0)
  BY <1>6, <1>7 DEF IsRun
<1>10. QED
  BY <1>1, <1>5, <1>6, <1>8, <1>9 DEF ReadStep, IsTokens

-----------------------------------------------------------------------------
(* Bencode: what is encoded is decoded *)

\* An object may begin.
Waiting(st) == st.t \in {"start", "list", "entry"}

\* Wherever an object may begin, the tokens o are read as obj.
Encodes(o, obj) ==
    /\ IsTokens(o)
    /\ \A st : Waiting(st) => ReadAll(st, o) = Put(st, obj)

\* Between two entries of a dictionary, two items of a list.
InDict(v, outer) == [t |-> "dict", v |-> v, outer |-> outer]
InList(v, outer) == [t |-> "list", v |-> v, outer |-> outer]

\* A map over another, and one entry.
Over(g, f) == [k \in DOMAIN g \cup DOMAIN f |-> IF k \in DOMAIN g THEN g[k] ELSE f[k]]
One(name, o) == [k \in {Word(name)} |-> o]

\* The entries put the map f over what the dictionary has.
Adds(entries, f) ==
    /\ IsTokens(entries)
    /\ \A v, outer : ReadAll(InDict(v, outer), entries) = InDict(Over(f, v), outer)

\* The object of a dictionary with the map f.
Table(f) == Obj("dict", Over(f, << >>))

(* An integer. *)
LEMMA NumEncodes == ASSUME NEW n PROVE Encodes(Num(n), Obj("int", n))
<1>1. IsTokens(Num(n)) /\ \A st : ReadAll(st, Num(n)) = Read(st, <<"i", n>>)
  BY ReadOne DEF Num
<1>2. ASSUME NEW st, Waiting(st)
      PROVE  Read(st, <<"i", n>>) = Put(st, Obj("int", n))
  BY <1>2 DEF Waiting, Read
<1>3. QED
  BY <1>1, <1>2 DEF Encodes

(* A string. *)
LEMMA StrEncodes == ASSUME NEW s PROVE Encodes(Str(s), Obj("str", s))
<1>1. IsTokens(Str(s)) /\ \A st : ReadAll(st, Str(s)) = Read(st, <<"s", s>>)
  BY ReadOne DEF Str
<1>2. ASSUME NEW st, Waiting(st)
      PROVE  Read(st, <<"s", s>>) = Put(st, Obj("str", s))
  BY <1>2 DEF Waiting, Read
<1>3. QED
  BY <1>1, <1>2 DEF Encodes

(* A key and an object put the object under the key. *)
LEMMA EntryAdds ==
    ASSUME NEW name, NEW o, NEW obj, Encodes(o, obj)
    PROVE  Adds(Entry(name, o), One(name, obj))
<1>1. IsTokens(o)
  BY DEF Encodes
<1>2. IsTokens(Str(Word(name)))
  BY ReadOne DEF Str
<1>3. IsTokens(Entry(name, o))
  BY <1>1, <1>2, ReadConcat DEF Entry
<1>4. ASSUME NEW v, NEW outer
      PROVE  ReadAll(InDict(v, outer), Entry(name, o)) = InDict(Over(One(name, obj), v), outer)
  <2>1. ReadAll(InDict(v, outer), Entry(name, o))
            = ReadAll(ReadAll(InDict(v, outer), Str(Word(name))), o)
    <3>1. \A st : ReadAll(st, Str(Word(name)) \o o) = ReadAll(ReadAll(st, Str(Word(name))), o)
      BY <1>1, <1>2, ReadConcat
    <3>2. QED
      BY <3>1 DEF Entry
  <2>2. ReadAll(InDict(v, outer), Str(Word(name))) = Keyed(InDict(v, outer), Word(name))
    <3>1. ReadAll(InDict(v, outer), Str(Word(name)))
              = Read(InDict(v, outer), <<"s", Word(name)>>)
      BY ReadOne DEF Str
    <3>2. QED
      BY <3>1 DEF Read, InDict
  <2>3. Waiting(Keyed(InDict(v, outer), Word(name)))
    BY DEF Waiting, Keyed
  <2>4. ReadAll(InDict(v, outer), Entry(name, o))
            = Put(Keyed(InDict(v, outer), Word(name)), obj)
    BY <2>1, <2>2, <2>3 DEF Encodes
  <2>5. Put(Keyed(InDict(v, outer), Word(name)), obj)
            = InDict(Insert(v, Word(name), obj), outer)
    BY DEF Put, Keyed, InDict
  <2>6. Insert(v, Word(name), obj) = Over(One(name, obj), v)
    BY DEF Insert, Over, One
  <2>7. QED
    BY <2>4, <2>5, <2>6
<1>5. QED
  BY <1>3, <1>4 DEF Adds

(* Entries after entries: the later ones stay. *)
LEMMA BothAdd ==
    ASSUME NEW a, NEW f, Adds(a, f), NEW b, NEW g, Adds(b, g)
    PROVE  Adds(a \o b, Over(g, f))
<1>1. IsTokens(a)
  BY DEF Adds
<1>2. IsTokens(b)
  BY DEF Adds
<1>3. /\ IsTokens(a \o b)
      /\ \A st : ReadAll(st, a \o b) = ReadAll(ReadAll(st, a), b)
  BY <1>1, <1>2, ReadConcat
<1>4. ASSUME NEW v, NEW outer
      PROVE  ReadAll(InDict(v, outer), a \o b) = InDict(Over(Over(g, f), v), outer)
  <2>1. ReadAll(InDict(v, outer), a \o b) = ReadAll(ReadAll(InDict(v, outer), a), b)
    BY <1>3
  <2>2. ReadAll(InDict(v, outer), a) = InDict(Over(f, v), outer)
    BY DEF Adds
  <2>3. ReadAll(InDict(Over(f, v), outer), b) = InDict(Over(g, Over(f, v)), outer)
    BY DEF Adds
  <2>4. Over(g, Over(f, v)) = Over(Over(g, f), v)
    BY DEF Over
  <2>5. QED
    BY <2>1, <2>2, <2>3, <2>4
<1>5. QED
  BY <1>3, <1>4 DEF Adds

\* Reading the opening and the closing token of a container.
LEMMA Bracketed ==
    ASSUME NEW c, NEW body, IsTokens(body)
    PROVE  /\ IsTokens(<<Open(c)>> \o body)
           /\ IsTokens(<<Open(c)>> \o body \o <<Close>>)
           /\ \A st : ReadAll(st, <<Open(c)>> \o body) = ReadAll(Read(st, Open(c)), body)
           /\ \A st : ReadAll(st, <<Open(c)>> \o body \o <<Close>>)
                         = Read(ReadAll(Read(st, Open(c)), body), Close)
<1>1. IsTokens(<<Open(c)>>) /\ \A st : ReadAll(st, <<Open(c)>>) = Read(st, Open(c))
  BY ReadOne
<1>2. IsTokens(<<Close>>) /\ \A st : ReadAll(st, <<Close>>) = Read(st, Close)
  BY ReadOne
<1> DEFINE front == <<Open(c)>> \o body
<1>3. /\ IsTokens(front)
      /\ \A st : ReadAll(st, front) = ReadAll(ReadAll(st, <<Open(c)>>), body)
  BY <1>1, ReadConcat
<1> HIDE DEF front
<1>4. /\ IsTokens(front \o <<Close>>)
      /\ \A st : ReadAll(st, front \o <<Close>>) = ReadAll(ReadAll(st, front), <<Close>>)
  BY <1>2, <1>3, ReadConcat
<1>5. QED
  BY <1>1, <1>2, <1>3, <1>4 DEF front

(* A dictionary of such entries. *)
LEMMA DictEncodes ==
    ASSUME NEW entries, NEW f, Adds(entries, f)
    PROVE  Encodes(Dict(entries), Table(f))
<1>1. IsTokens(entries)
  BY DEF Adds
<1>2. ASSUME NEW st, Waiting(st)
      PROVE  ReadAll(st, Dict(entries)) = Put(st, Table(f))
  <2>1. ReadAll(st, Dict(entries)) = Read(ReadAll(Read(st, Open("d")), entries), Close)
    BY <1>1, Bracketed DEF Dict
  <2>2. Read(st, Open("d")) = InDict(<< >>, st)
    BY <1>2 DEF Read, Open, Waiting, Begun, InDict
  <2>3. ReadAll(InDict(<< >>, st), entries) = InDict(Over(f, << >>), st)
    BY DEF Adds
  <2>4. Read(InDict(Over(f, << >>), st), Close) = Put(st, Obj("dict", Over(f, << >>)))
    BY DEF Read, Close, InDict
  <2>5. QED
    BY <2>1, <2>2, <2>3, <2>4 DEF Table
<1>3. IsTokens(Dict(entries))
  BY <1>1, Bracketed DEF Dict
<1>4. QED
  BY <1>2, <1>3 DEF Encodes

(* A dictionary without entries. *)
LEMMA EmptyDictEncodes == Encodes(Dict(<< >>), Obj("dict", << >>))
<1>1. IsTokens(<< >>)
  BY ReadOne
<1>2. ASSUME NEW st, Waiting(st)
      PROVE  ReadAll(st, Dict(<< >>)) = Put(st, Obj("dict", << >>))
  <2>1. ReadAll(st, Dict(<< >>)) = Read(ReadAll(Read(st, Open("d")), << >>), Close)
    BY <1>1, Bracketed DEF Dict
  <2>2. Read(st, Open("d")) = InDict(<< >>, st)
    BY <1>2 DEF Read, Open, Waiting, Begun, InDict
  <2>3. ReadAll(InDict(<< >>, st), << >>) = InDict(<< >>, st)
    BY ReadOne
  <2>4. Read(InDict(<< >>, st), Close) = Put(st, Obj("dict", << >>))
    BY DEF Read, Close, InDict
  <2>5. QED
    BY <2>1, <2>2, <2>3, <2>4
<1>3. IsTokens(Dict(<< >>))
  BY <1>1, Bracketed DEF Dict
<1>4. QED
  BY <1>2, <1>3 DEF Encodes

(* A list, when its items are read to w. *)
LEMMA ListEncodes ==
    ASSUME NEW items, IsTokens(items), NEW w,
           \A outer : ReadAll(InList(<< >>, outer), items) = InList(w, outer)
    PROVE  Encodes(List(items), Obj("list", w))
<1>1. ASSUME NEW st, Waiting(st)
      PROVE  ReadAll(st, List(items)) = Put(st, Obj("list", w))
  <2>1. ReadAll(st, List(items)) = Read(ReadAll(Read(st, Open("l")), items), Close)
    BY Bracketed DEF List
  <2>2. Read(st, Open("l")) = InList(<< >>, st)
    BY <1>1 DEF Read, Open, Waiting, Begun, InList
  <2>3. Read(InList(w, st), Close) = Put(st, Obj("list", w))
    BY DEF Read, Close, InList
  <2>4. QED
    BY <2>1, <2>2, <2>3
<1>2. IsTokens(List(items))
  BY Bracketed DEF List
<1>3. QED
  BY <1>1, <1>2 DEF Encodes

\* A list of strings, one token each.
LEMMA StringsEncode ==
    ASSUME NEW n \in Nat, NEW c
    PROVE  Encodes(List([i \in 1..n |-> <<"s", c[i]>>]),
                   Obj("list", [i \in 1..n |-> Obj("str", c[i])]))
<1> DEFINE T == {<<"s", c[i]>> : i \in 1..n}
           items == [i \in 1..n |-> <<"s", c[i]>>]
           upTo(m) == [i \in 1..m |-> Obj("str", c[i])]
<1>1. items \in Seq(T) /\ Len(items) = n
  OBVIOUS
<1>2. ASSUME NEW outer
      PROVE  ReadAll(InList(<< >>, outer), items) = InList(upTo(n), outer)
  <2> DEFINE g == [m \in 0..n |-> InList(upTo(m), outer)]
  <2>1. upTo(0) = << >>
    OBVIOUS
  <2>2. ASSUME NEW m \in 0..n
        PROVE  g[m] = ReadStep(InList(<< >>, outer), items, g, m)
    <3>1. CASE m = 0
      BY <2>1, <3>1 DEF ReadStep
    <3>2. CASE m # 0
      <4>1. m - 1 \in 0..n /\ m \in 1..n /\ m - 1 \in Nat /\ (m - 1) + 1 = m
        BY <3>2
      <4>2. g[m - 1] = InList(upTo(m - 1), outer) /\ items[m] = <<"s", c[m]>>
        BY <4>1
      <4>3. Read(InList(upTo(m - 1), outer), <<"s", c[m]>>)
                = InList(Append(upTo(m - 1), Obj("str", c[m])), outer)
        <5> HIDE DEF upTo
        <5>1. QED
          BY DEF Read, InList, Put
      <4>4. Append(upTo(m - 1), Obj("str", c[m])) = upTo(m)
        <5> DEFINE O == {Obj("str", c[i]) : i \in 1..n}
        <5>1. upTo(m - 1) \in Seq(O) /\ Len(upTo(m - 1)) = m - 1
          BY <4>1
        <5>2. upTo(m) \in Seq(O) /\ Len(upTo(m)) = m
          <6>1. m \in Nat /\ \A i \in 1..m : Obj("str", c[i]) \in O
            OBVIOUS
          <6>2. QED
            BY <6>1
        <5>3. Obj("str", c[m]) \in O
          BY <4>1
        <5>4. /\ Append(upTo(m - 1), Obj("str", c[m])) \in Seq(O)
              /\ Len(Append(upTo(m - 1), Obj("str", c[m]))) = m
              /\ \A i \in 1..m : Append(upTo(m - 1), Obj("str", c[m]))[i] =
                    IF i <= m - 1 THEN upTo(m - 1)[i] ELSE Obj("str", c[m])
          BY <4>1, <5>1, <5>3, AppendProperties
        <5>5. \A i \in 1..m : upTo(m)[i] = Append(upTo(m - 1), Obj("str", c[m]))[i]
          <6>1. TAKE i \in 1..m
          <6>2. CASE i <= m - 1
            <7>1. i \in 1..(m - 1)
              BY <4>1, <6>2
            <7>2. QED
              BY <5>4, <6>2, <7>1
          <6>3. CASE ~(i <= m - 1)
            <7>1. i = m
              BY <4>1, <6>3
            <7>2. QED
              BY <5>4, <6>3, <7>1
          <6>4. QED
            BY <6>2, <6>3
        <5> HIDE DEF upTo, O
        <5>6. QED
          BY <5>2, <5>4, <5>5, SeqEqual
      <4>5. g[m] = InList(upTo(m), outer)
        OBVIOUS
      <4>6. QED
        BY <3>2, <4>2, <4>3, <4>4, <4>5 DEF ReadStep
    <3>3. QED
      BY <3>1, <3>2
  <2>3. g = [m \in 0..n |-> ReadStep(InList(<< >>, outer), items, g, m)]
    BY <2>2
  <2>4. IsRun(InList(<< >>, outer), items, g)
    BY <1>1, <2>3 DEF IsRun
  <2>5. g[n] = ReadAll(InList(<< >>, outer), items)
    BY <1>1, <2>4, ReadAllRuns
  <2>6. QED
    BY <2>5
<1>3. QED
  BY <1>1, <1>2, ListEncodes DEF IsTokens

(* What is decoded is what was encoded. *)
LEMMA DecodeEncoded ==
    ASSUME NEW o, NEW obj, Encodes(o, obj)
    PROVE  Decode(o) = {obj}
<1>1. ReadAll(Start, o) = Put(Start, obj)
  BY DEF Encodes, Waiting, Start
<1>2. Put(Start, obj) = [t |-> "done", v |-> obj]
  BY DEF Put, Start
<1>3. QED
  BY <1>1, <1>2 DEF Decode

-----------------------------------------------------------------------------
(* Bencode: access *)

(* Different keys have different encodings. *)
LEMMA WordsDiffer ==
    ASSUME NEW a, NEW b
    PROVE  Word(a) = Word(b) <=> a = b
BY DEF Word

(* Access to a single dictionary. *)
LEMMA GetOne ==
    ASSUME NEW w, NEW key
    PROVE  Get({Obj("dict", w)}, key) = IF key \in DOMAIN w THEN {w[key]} ELSE {}
<1> DEFINE o == Obj("dict", w)
           objs == {x \in {o} : x.t = "dict" /\ key \in DOMAIN x.v}
<1>1. o.t = "dict" /\ o.v = w
  BY DEF Obj
<1> HIDE DEF o
<1>2. objs = IF key \in DOMAIN w THEN {o} ELSE {}
  BY <1>1
<1>3. Get({o}, key) = {x.v[key] : x \in objs}
  BY DEF Get
<1>4. QED
  BY <1>1, <1>2, <1>3 DEF o

\* What is under a name in the dictionary with the map f.
Under(f, name) == Get({Table(f)}, Word(name))

(* The entry put last is found, and hides no other. *)
LEMMA LookUp ==
    ASSUME NEW name, NEW o, NEW f
    PROVE  /\ Under(Over(One(name, o), f), name) = {o}
           /\ \A key : key # name => Under(Over(One(name, o), f), key) = Under(f, key)
<1> SUFFICES ASSUME NEW key
             PROVE  Under(Over(One(name, o), f), key) = IF key = name THEN {o} ELSE Under(f, key)
  OBVIOUS
<1>1. Word(key) = Word(name) <=> key = name
  BY WordsDiffer
<1> HIDE DEF Word
<1> DEFINE g == Over(Over(One(name, o), f), << >>)
           h == Over(f, << >>)
<1>2. /\ Under(Over(One(name, o), f), key)
             = IF Word(key) \in DOMAIN g THEN {g[Word(key)]} ELSE {}
      /\ Under(f, key) = IF Word(key) \in DOMAIN h THEN {h[Word(key)]} ELSE {}
  <2> HIDE DEF g, h
  <2>1. QED
    BY GetOne DEF Under, Table, g, h
<1>3. Word(key) \in DOMAIN g <=> key = name \/ Word(key) \in DOMAIN h
  BY <1>1 DEF Over, One
<1>4. key = name => g[Word(key)] = o
  BY <1>1 DEF Over, One
<1>5. key # name /\ Word(key) \in DOMAIN h => g[Word(key)] = h[Word(key)]
  BY <1>1 DEF Over, One
<1> HIDE DEF g, h
<1>6. QED
  BY <1>2, <1>3, <1>4, <1>5

(* A dictionary of one entry. *)
LEMMA LookUpOne ==
    ASSUME NEW name, NEW o
    PROVE  /\ Under(One(name, o), name) = {o}
           /\ \A key : key # name => Under(One(name, o), key) = {}
<1> SUFFICES ASSUME NEW key
             PROVE  Under(One(name, o), key) = IF key = name THEN {o} ELSE {}
  OBVIOUS
<1>1. Word(key) = Word(name) <=> key = name
  BY WordsDiffer
<1> HIDE DEF Word
<1> DEFINE h == Over(One(name, o), << >>)
<1>2. Under(One(name, o), key) = IF Word(key) \in DOMAIN h THEN {h[Word(key)]} ELSE {}
  <2> HIDE DEF h
  <2>1. QED
    BY GetOne DEF Under, Table, h
<1>3. DOMAIN << >> = {}
  OBVIOUS
<1>4. Word(key) \in DOMAIN h <=> key = name
  BY <1>1, <1>3 DEF Over, One
<1>5. key = name => h[Word(key)] = o
  BY <1>1 DEF Over, One
<1> HIDE DEF h
<1>6. QED
  BY <1>2, <1>4, <1>5

\* Nothing is found in an empty dictionary, or in what is none.
LEMMA LookUpNone ==
    ASSUME NEW key
    PROVE  /\ Get({Obj("dict", << >>)}, key) = {}
           /\ \A w : Get({Obj("list", w)}, key) = {}
           /\ Get({}, key) = {}
<1>1. DOMAIN << >> = {}
  OBVIOUS
<1>2. QED
  BY <1>1 DEF Get, Obj

(* as_int, as_string and the like: an object of the type, or nothing. *)
LEMMA Typed ==
    ASSUME NEW type, NEW other, NEW v
    PROVE  As(type, {Obj(other, v)}) = (IF type = other THEN {v} ELSE {}) /\ As(type, {}) = {}
<1> DEFINE o == Obj(other, v)
           objs == {x \in {o} : x.t = type}
<1>1. o.t = other /\ o.v = v
  BY DEF Obj
<1> HIDE DEF o
<1>2. objs = IF type = other THEN {o} ELSE {}
  BY <1>1
<1>3. As(type, {o}) = {x.v : x \in objs} /\ As(type, {}) = {}
  BY DEF As
<1>4. QED
  BY <1>1, <1>2, <1>3 DEF o

-----------------------------------------------------------------------------
(* Fields and compact forms *)

(* A field with an id. *)
LEMMA IdReads ==
    ASSUME NEW objs, NEW name, NEW id, Get(objs, Word(name)) = {Obj("str", << <<"id", id>> >>)}
    PROVE  IdField(objs, name) = {id}
<1> DEFINE s == << <<"id", id>> >>
           strs == {x \in {s} : Len(x) = 1 /\ x[1][1] = "id"}
<1>1. As("str", Get(objs, Word(name))) = {s}
  BY Typed
<1>2. Len(s) = 1 /\ s[1][1] = "id" /\ s[1][2] = id
  OBVIOUS
<1> HIDE DEF s
<1>3. strs = {s}
  BY <1>2
<1>4. ParseNodeId({s}) = {x[1][2] : x \in strs}
  BY DEF ParseNodeId
<1>5. QED
  BY <1>1, <1>2, <1>3, <1>4 DEF IdField

(* A field with a string. *)
LEMMA StrReads ==
    ASSUME NEW objs, NEW name, NEW s, Get(objs, Word(name)) = {Obj("str", s)}
    PROVE  StrField(objs, name) = {s}
BY Typed DEF StrField

(* A field with an integer. *)
LEMMA IntReads ==
    ASSUME NEW objs, NEW name, NEW n, Get(objs, Word(name)) = {Obj("int", n)}
    PROVE  IntField(objs, name) = {n}
BY Typed DEF IntField

(* No such field. *)
LEMMA NothingReads ==
    ASSUME NEW objs, NEW name, Get(objs, Word(name)) = {}
    PROVE  /\ IdField(objs, name) = {}
           /\ StrField(objs, name) = {}
           /\ IntField(objs, name) = {}
BY DEF IdField, StrField, IntField, As, ParseNodeId

\* As many as there are numbers up to n.
LEMMA Counted ==
    ASSUME NEW n \in Nat, NEW S, NEW f \in [1..n -> S],
           \A i, j \in 1..n : f[i] = f[j] => i = j,
           \A x \in S : \E i \in 1..n : f[i] = x
    PROVE  Cardinality(S) = n
<1>1. f \in Bijection(1..n, S)
  BY DEF Bijection, Injection, Surjection, IsInjective
<1>2. ExistsBijection(1..n, S)
  BY <1>1 DEF ExistsBijection
<1>3. QED
  BY <1>2, FS_CountingElements

\* Nodes of an answer.
AreFew(nodes) == (\E T, U : nodes \in Seq(T \X U)) /\ Len(nodes) < 13

(* parse_nodes reads what encode_nodes_to wrote: up to twelve nodes their bytes
   tell the family. *)
LEMMA NodesRead ==
    ASSUME NEW family \in {"v4", "v6"}, NEW nodes, AreFew(nodes)
    PROVE  ParseNodes({EncodeNodes(family, nodes)}) = {nodes}
<1>a. PICK T, U : nodes \in Seq(T \X U)
  BY DEF AreFew
<1> DEFINE n == Len(nodes)
           s == EncodeNodes(family, nodes)
<1>1. n \in Nat /\ n < 13 /\ \A i \in 1..n : nodes[i] = <<nodes[i][1], nodes[i][2]>>
  BY <1>a DEF AreFew
<1>2. /\ DOMAIN s = 1..(2 * n) /\ Len(s) = 2 * n
      /\ \A i \in 1..(2 * n) : s[i] = IF i % 2 = 1 THEN <<"id", nodes[(i + 1) \div 2][1]>>
                                      ELSE <<family, nodes[i \div 2][2]>>
  BY <1>1 DEF EncodeNodes
<1> HIDE DEF s, n
<1>3. \A i \in 1..n : /\ 2 * i - 1 \in 1..(2 * n) /\ 2 * i \in 1..(2 * n)
                      /\ s[2 * i - 1] = <<"id", nodes[i][1]>>
                      /\ s[2 * i] = <<family, nodes[i][2]>>
  <2>1. TAKE i \in 1..n
  <2>2. /\ 2 * i - 1 \in 1..(2 * n) /\ 2 * i \in 1..(2 * n)
        /\ (2 * i - 1) % 2 = 1 /\ (2 * i) % 2 # 1
        /\ ((2 * i - 1) + 1) \div 2 = i /\ (2 * i) \div 2 = i
    BY <1>1
  <2>3. QED
    BY <1>2, <2>2
<1>4. \A i \in 1..(2 * n) : s[i][1] = IF i % 2 = 1 THEN "id" ELSE family
  BY <1>2
<1>5. Count("id", s) = n
  <2> DEFINE S == {i \in DOMAIN s : s[i][1] = "id"}
             f == [i \in 1..n |-> 2 * i - 1]
  <2>1. f \in [1..n -> S]
    BY <1>2, <1>3
  <2>2. \A i, j \in 1..n : f[i] = f[j] => i = j
    BY <1>1
  <2>3. ASSUME NEW x \in S
        PROVE  \E i \in 1..n : f[i] = x
    <3>1. x \in 1..(2 * n) /\ x % 2 = 1
      BY <1>2, <1>4
    <3>2. (x + 1) \div 2 \in 1..n /\ 2 * ((x + 1) \div 2) - 1 = x
      <4> DEFINE q == x \div 2
      <4>1. x \in Nat /\ q \in Int /\ x = 2 * q + 1
        BY <1>1, <3>1
      <4> HIDE DEF q
      <4>2. (x + 1) \div 2 = q + 1
        BY <4>1
      <4>3. q + 1 \in 1..n
        BY <1>1, <3>1, <4>1
      <4>4. QED
        BY <4>1, <4>2, <4>3
    <3>3. QED
      BY <3>2
  <2>4. Cardinality(S) = n
    <3> HIDE DEF f, S
    <3>1. QED
      BY <1>1, <2>1, <2>2, <2>3, Counted
  <2>5. QED
    BY <2>4 DEF Count
<1>6. Count(family, s) = n
  <2> DEFINE S == {i \in DOMAIN s : s[i][1] = family}
             f == [i \in 1..n |-> 2 * i]
  <2>1. f \in [1..n -> S]
    BY <1>2, <1>3
  <2>2. \A i, j \in 1..n : f[i] = f[j] => i = j
    BY <1>1
  <2>3. ASSUME NEW x \in S
        PROVE  \E i \in 1..n : f[i] = x
    <3>1. x \in 1..(2 * n) /\ x % 2 = 0
      BY <1>1, <1>2, <1>4
    <3>2. x \div 2 \in 1..n /\ 2 * (x \div 2) = x
      BY <1>1, <3>1
    <3>3. QED
      BY <3>2
  <2>4. Cardinality(S) = n
    <3> HIDE DEF f, S
    <3>1. QED
      BY <1>1, <2>1, <2>2, <2>3, Counted
  <2>5. QED
    BY <2>4 DEF Count
<1>7. ASSUME NEW kind \in {"v4", "v6", "token", "word"}, kind # family
      PROVE  Count(kind, s) = 0
  <2>1. {i \in DOMAIN s : s[i][1] = kind} = {}
    BY <1>2, <1>4, <1>7
  <2>2. QED
    BY <2>1, FS_EmptySet DEF Count
<1>8. Bytes(s) = IF family = "v4" THEN 26 * n ELSE 38 * n
  <2>1. Count("token", s) = 0 /\ Count("word", s) = 0
    BY <1>7
  <2>2. CASE family = "v4"
    <3>1. Count("v4", s) = n /\ Count("v6", s) = 0
      BY <1>6, <1>7, <2>2
    <3>2. QED
      BY <1>1, <1>5, <2>1, <2>2, <3>1 DEF Bytes
  <2>3. CASE family = "v6"
    <3>1. Count("v6", s) = n /\ Count("v4", s) = 0
      BY <1>6, <1>7, <2>3
    <3>2. QED
      BY <1>1, <1>5, <2>1, <2>3, <3>1 DEF Bytes
  <2>4. QED
    BY <2>2, <2>3
<1>9. AreNodes(s)
  <2>1. Bytes(s) % 26 = 0 \/ Bytes(s) % 38 = 0
    BY <1>1, <1>8
  <2>2. Len(s) % 2 = 0
    BY <1>1, <1>2
  <2>3. n # 0 => family = IF Bytes(s) % 26 = 0 THEN "v4" ELSE "v6"
    <3>1. CASE family = "v4"
      BY <1>1, <1>8, <3>1
    <3>2. CASE family = "v6"
      <4>1. n # 0 => (38 * n) % 26 # 0
        <5>1. n \in 0..12
          BY <1>1
        <5>2. n \in {1, 2, 3, 4, 5, 6} => (38 * n) % 26 # 0
          OBVIOUS
        <5>3. n \in {7, 8, 9, 10, 11, 12} => (38 * n) % 26 # 0
          OBVIOUS
        <5>4. QED
          BY <5>1, <5>2, <5>3
      <4>2. QED
        BY <1>8, <3>2, <4>1
    <3>3. QED
      BY <3>1, <3>2
  <2>4. ASSUME NEW i \in DOMAIN s
        PROVE  s[i][1] = IF i % 2 = 1 THEN "id"
                         ELSE IF Bytes(s) % 26 = 0 THEN "v4" ELSE "v6"
    <3>1. n # 0
      BY <1>1, <1>2
    <3>2. QED
      BY <1>2, <1>4, <2>3, <3>1
  <2>5. QED
    BY <2>1, <2>2, <2>4 DEF AreNodes
<1>10. nodes = [i \in 1..(Len(s) \div 2) |-> <<s[2 * i - 1][2], s[2 * i][2]>>]
  <2>1. Len(s) \div 2 = n
    BY <1>1, <1>2
  <2>2. nodes = [i \in 1..n |-> nodes[i]]
    BY <1>a DEF n
  <2>3. \A i \in 1..n : nodes[i] = <<s[2 * i - 1][2], s[2 * i][2]>>
    BY <1>1, <1>3
  <2>4. QED
    BY <2>1, <2>2, <2>3
<1>11. ParseNodes({s}) = {nodes}
  <2> DEFINE strs == {x \in {s} : AreNodes(x)}
  <2>1. strs = {s}
    BY <1>9
  <2>2. ParseNodes({s}) = {[i \in 1..(Len(x) \div 2) |-> <<x[2 * i - 1][2], x[2 * i][2]>>] : x \in strs}
    BY DEF ParseNodes
  <2> HIDE DEF strs
  <2>3. QED
    BY <1>10, <2>1, <2>2
<1>12. QED
  BY <1>11 DEF s

\* The objects in a list of peers.
PeerObjs(family, values) == [i \in 1..Len(values) |-> Obj("str", << <<family, values[i]>> >>)]

(* parse_ip reads what encode_ip_to wrote, of either family. *)
LEMMA IpsRead ==
    ASSUME NEW family \in {"v4", "v6"}, NEW values, IsTokens(values)
    PROVE  ParseIps({PeerObjs(family, values)}) = {values}
<1>1. PICK V : values \in Seq(V)
  BY DEF IsTokens
<1> DEFINE n == Len(values)
           l == PeerObjs(family, values)
           lists == {x \in {l} : \A i \in DOMAIN x : IsIp(x[i])}
<1>2. n \in Nat /\ values = [i \in 1..n |-> values[i]]
  BY <1>1
<1>3. DOMAIN l = 1..n /\ \A i \in 1..n : l[i].t = "str" /\ l[i].v = << <<family, values[i]>> >>
  BY DEF Obj, PeerObjs
<1> HIDE DEF l, n
<1>4. \A i \in 1..n : IsIp(l[i]) /\ l[i].v[1][2] = values[i]
  <2> SUFFICES ASSUME NEW i \in 1..n
               PROVE  IsIp(l[i]) /\ l[i].v[1][2] = values[i]
    OBVIOUS
  <2> DEFINE s == << <<family, values[i]>> >>
  <2>1. l[i].t = "str" /\ l[i].v = s
    BY <1>3
  <2>2. Len(s) = 1 /\ s[1][1] = family /\ s[1][2] = values[i]
    OBVIOUS
  <2> HIDE DEF s
  <2>3. QED
    BY <2>1, <2>2 DEF IsIp
<1>5. lists = {l}
  BY <1>3, <1>4
<1>6. ParseIps({l}) = {[i \in DOMAIN x |-> x[i].v[1][2]] : x \in lists}
  BY DEF ParseIps
<1>7. [i \in DOMAIN l |-> l[i].v[1][2]] = values
  BY <1>2, <1>3, <1>4
<1> HIDE DEF lists
<1>8. ParseIps({l}) = {values}
  BY <1>5, <1>6, <1>7
<1>9. QED
  BY <1>8 DEF l

-----------------------------------------------------------------------------
(* Messages: what is sent is what is received *)

(* extract_reply finds what was sent as the reply. *)
LEMMA ReplyEnvelope ==
    ASSUME NEW family, NEW m, NEW obj, Encodes(ReplyToBencode(family, m), obj), NEW method
    PROVE  ExtractReply(method, ReplyPacket(family, m)) = ReplyFromBencode(method, {obj})
<1> DEFINE r == Entry("r", ReplyToBencode(family, m))
           t == Entry("t", Str(Tid))
           y == Entry("y", Str(Word("r")))
           gr == One("r", obj)
           gt == One("t", Obj("str", Tid))
           gy == One("y", Obj("str", Word("r")))
           f == Over(gy, Over(gt, gr))
           o == Table(f)
<1>1. Adds(r, gr) /\ Adds(t, gt) /\ Adds(y, gy)
  BY EntryAdds, StrEncodes
<1> HIDE DEF r, t, y
<1>2. Adds(r \o t \o y, Over(gy, Over(gt, gr)))
  <2> HIDE DEF gr, gt, gy
  <2>1. Adds(r \o t, Over(gt, gr))
    BY <1>1, BothAdd
  <2>2. QED
    BY <1>1, <2>1, BothAdd
<1>3. Decode(ReplyPacket(family, m)) = {o}
  <2>1. ReplyPacket(family, m) = Dict(r \o t \o y)
    BY DEF ReplyPacket, r, t, y
  <2>2. Encodes(Dict(r \o t \o y), o)
    BY <1>2, DictEncodes
  <2> HIDE DEF o
  <2>3. QED
    BY <2>1, <2>2, DecodeEncoded
<1>4. /\ Under(f, "y") = {Obj("str", Word("r"))}
      /\ \A key : key # "y" => Under(f, key) = Under(Over(gt, gr), key)
  BY LookUp
<1>5. \A key : key # "t" => Under(Over(gt, gr), key) = Under(gr, key)
  BY LookUp
<1>6. Under(gr, "r") = {obj}
  BY LookUpOne
<1> HIDE DEF f, gt, gr
<1>7. Get({o}, Word("y")) = {Obj("str", Word("r"))} /\ Get({o}, Word("r")) = {obj}
  BY <1>4, <1>5, <1>6 DEF Under
<1> HIDE DEF o
<1>8. StrField({o}, "y") = {Word("r")}
  BY <1>7, StrReads
<1>9. QED
  BY <1>3, <1>7, <1>8 DEF ExtractReply

(* extract_query_part finds method and arguments; a packet that lost its end
   is none. *)
LEMMA QueryEnvelope ==
    ASSUME NEW method, NEW args, NEW obj, Encodes(args, obj)
    PROVE  /\ ExtractQueryPart(Decode(Packet(method, args))) = {[method |-> Word(method), args |-> obj]}
           /\ Decode(Front(Packet(method, args))) = {}
<1> DEFINE a == Entry("a", args)
           q == Entry("q", Str(Word(method)))
           t == Entry("t", Str(Tid))
           y == Entry("y", Str(Word("q")))
           ga == One("a", obj)
           gq == One("q", Obj("str", Word(method)))
           gt == One("t", Obj("str", Tid))
           gy == One("y", Obj("str", Word("q")))
           f == Over(gy, Over(gt, Over(gq, ga)))
           o == Table(f)
           entries == a \o q \o t \o y
<1>1. Adds(a, ga) /\ Adds(q, gq) /\ Adds(t, gt) /\ Adds(y, gy)
  BY EntryAdds, StrEncodes
<1> HIDE DEF a, q, t, y
<1>2. Adds(entries, f)
  <2> HIDE DEF ga, gq, gt, gy
  <2>1. Adds(a \o q, Over(gq, ga))
    BY <1>1, BothAdd
  <2>2. Adds(a \o q \o t, Over(gt, Over(gq, ga)))
    BY <1>1, <2>1, BothAdd
  <2>3. QED
    BY <1>1, <2>2, BothAdd
<1>3. Packet(method, args) = Dict(entries)
  BY DEF Packet, a, q, t, y
<1>4. Decode(Packet(method, args)) = {o}
  <2> HIDE DEF f, entries
  <2>1. Encodes(Dict(entries), o)
    BY <1>2, DictEncodes
  <2> HIDE DEF o
  <2>2. QED
    BY <1>3, <2>1, DecodeEncoded
<1>5. /\ Under(f, "y") = {Obj("str", Word("q"))}
      /\ \A key : key # "y" => Under(f, key) = Under(Over(gt, Over(gq, ga)), key)
  BY LookUp
<1>6. /\ Under(Over(gt, Over(gq, ga)), "t") = {Obj("str", Tid)}
      /\ \A key : key # "t" => Under(Over(gt, Over(gq, ga)), key) = Under(Over(gq, ga), key)
  BY LookUp
<1>7. /\ Under(Over(gq, ga), "q") = {Obj("str", Word(method))}
      /\ \A key : key # "q" => Under(Over(gq, ga), key) = Under(ga, key)
  BY LookUp
<1>8. Under(ga, "a") = {obj}
  BY LookUpOne
<1> HIDE DEF f, gt, gq, ga
<1>9. /\ Get({o}, Word("y")) = {Obj("str", Word("q"))}
      /\ Get({o}, Word("t")) = {Obj("str", Tid)}
      /\ Get({o}, Word("q")) = {Obj("str", Word(method))}
      /\ Get({o}, Word("a")) = {obj}
  BY <1>5, <1>6, <1>7, <1>8 DEF Under
<1> HIDE DEF o
<1>10. /\ StrField({o}, "y") = {Word("q")}
       /\ StrField({o}, "t") = {Tid}
       /\ StrField({o}, "q") = {Word(method)}
  BY <1>9, StrReads
<1>11. ExtractQueryPart({o}) = {[method |-> Word(method), args |-> obj]}
  <2> DEFINE w == Word("q")
  <2>1. ExtractQueryPart({o}) = {[method |-> x, args |-> z] : x \in {Word(method)}, z \in {obj},
                                  u \in {Tid}, v \in {w} \cap {w}}
    BY <1>9, <1>10 DEF ExtractQueryPart
  <2> HIDE DEF w
  <2>2. QED
    BY <2>1
<1>12. Decode(Front(Packet(method, args))) = {}
  <2> HIDE DEF entries, f
  <2> DEFINE front == <<Open("d")>> \o entries
  <2>1. IsTokens(entries)
    BY <1>2 DEF Adds
  <2>2. /\ IsTokens(front)
        /\ ReadAll(Start, front) = ReadAll(Read(Start, Open("d")), entries)
    BY <2>1, Bracketed
  <2>3. Front(Dict(entries)) = front
    <3>1. PICK T : front \in Seq(T)
      BY <2>2 DEF IsTokens
    <3>2. Dict(entries) = Append(front, Close)
      BY <3>1 DEF Dict
    <3> HIDE DEF front
    <3>3. front \in Seq(T \cup {Close})
      BY <3>1
    <3>4. Front(Append(front, Close)) = front
      <4>1. /\ Append(front, Close) \in Seq(T \cup {Close})
            /\ Len(Append(front, Close)) = Len(front) + 1
            /\ Len(front) \in Nat
            /\ \A i \in 1..Len(front) : Append(front, Close)[i] = front[i]
        BY <3>3, AppendProperties
      <4>2. \A i \in 1..Len(front) : Append(front, Close)[i] \in T \cup {Close}
        BY <4>1, <3>3
      <4> DEFINE p == Append(front, Close)
      <4> HIDE DEF p
      <4>3. /\ SubSeq(p, 1, Len(front)) \in Seq(T \cup {Close})
            /\ Len(SubSeq(p, 1, Len(front))) = Len(front)
            /\ \A i \in 1..Len(front) : SubSeq(p, 1, Len(front))[i] = front[i]
        <5>1. /\ SubSeq(p, 1, Len(front)) \in Seq(T \cup {Close})
              /\ Len(SubSeq(p, 1, Len(front))) = IF 1 <= Len(front) THEN Len(front) - 1 + 1 ELSE 0
              /\ \A i \in 1..(Len(front) - 1 + 1) : SubSeq(p, 1, Len(front))[i] = p[1 + i - 1]
          BY <4>1, <4>2, SubSeqProperties DEF p
        <5>2. Len(front) - 1 + 1 = Len(front) /\ \A i \in 1..Len(front) : 1 + i - 1 = i
          BY <4>1
        <5>3. QED
          BY <4>1, <5>1, <5>2 DEF p
      <4>4. SubSeq(p, 1, Len(front)) = front
        BY <3>3, <4>3, SeqEqual
      <4>5. Len(p) - 1 = Len(front)
        BY <4>1 DEF p
      <4>6. QED
        BY <4>4, <4>5 DEF Front, p
    <3>5. QED
      BY <3>2, <3>4
  <2>4. Read(Start, Open("d")) = InDict(<< >>, Start)
    BY DEF Read, Start, Open, Begun, InDict
  <2>5. ReadAll(InDict(<< >>, Start), entries).t = "dict"
    <3>1. ReadAll(InDict(<< >>, Start), entries) = InDict(Over(f, << >>), Start)
      BY <1>2 DEF Adds
    <3>2. QED
      BY <3>1 DEF InDict
  <2> HIDE DEF front
  <2>6. ReadAll(Start, front).t # "done"
    BY <2>2, <2>4, <2>5
  <2>7. QED
    BY <1>3, <2>3, <2>6 DEF Decode
<1>13. QED
  BY <1>4, <1>11, <1>12

(* A message with an id and nothing else. *)
LEMMA PlainReads ==
    ASSUME NEW id
    PROVE  \E obj : /\ Encodes(Dict(Entry("id", IdString(id))), obj)
                    /\ \A method : Plain(method, {obj}) = {[method |-> method, id |-> id]}
<1> DEFINE f == One("id", Obj("str", << <<"id", id>> >>))
           obj == Table(f)
<1>1. Encodes(Dict(Entry("id", IdString(id))), obj)
  BY EntryAdds, StrEncodes, DictEncodes DEF IdString
<1>2. Get({obj}, Word("id")) = {Obj("str", << <<"id", id>> >>)}
  <2>1. Under(f, "id") = {Obj("str", << <<"id", id>> >>)}
    BY LookUpOne
  <2>2. QED
    BY <2>1 DEF Under
<1> HIDE DEF obj
<1>3. IdField({obj}, "id") = {id}
  BY <1>2, IdReads
<1>4. \A method : Plain(method, {obj}) = {[method |-> method, id |-> id]}
  BY <1>3 DEF Plain
<1>5. QED
  BY <1>1, <1>4

\* An id under "id", and another under the name.
HasIds(o, id, name, target) ==
    \E obj : /\ Encodes(o, obj)
             /\ IdField({obj}, "id") = {id} /\ IdField({obj}, name) = {target}

(* A message with an id and another. *)
LEMMA TwoIdsRead ==
    ASSUME NEW id, NEW name, name # "id", NEW target
    PROVE  HasIds(Dict(Entry("id", IdString(id)) \o Entry(name, IdString(target))), id, name, target)
<1> DEFINE gi == One("id", Obj("str", << <<"id", id>> >>))
           gt == One(name, Obj("str", << <<"id", target>> >>))
           obj == Table(Over(gt, gi))
           a == Entry("id", IdString(id))
           b == Entry(name, IdString(target))
<1>1. Adds(a, gi) /\ Adds(b, gt)
  BY EntryAdds, StrEncodes DEF IdString
<1>2. Encodes(Dict(a \o b), obj)
  <2> HIDE DEF a, b, gi, gt
  <2>1. Adds(a \o b, Over(gt, gi))
    BY <1>1, BothAdd
  <2>2. QED
    BY <2>1, DictEncodes
<1>3. /\ Under(Over(gt, gi), name) = {Obj("str", << <<"id", target>> >>)}
      /\ Under(Over(gt, gi), "id") = Under(gi, "id")
  BY LookUp
<1>4. Under(gi, "id") = {Obj("str", << <<"id", id>> >>)}
  BY LookUpOne
<1> HIDE DEF gt, gi
<1>a. /\ Get({obj}, Word(name)) = {Obj("str", << <<"id", target>> >>)}
      /\ Get({obj}, Word("id")) = {Obj("str", << <<"id", id>> >>)}
  BY <1>3, <1>4 DEF Under
<1> HIDE DEF obj
<1>5. IdField({obj}, "id") = {id} /\ IdField({obj}, name) = {target}
  BY ONLY <1>a, IdReads
<1>6. QED
  BY <1>2, <1>5 DEF HasIds

\* The tokens are read as the announcement m, or as the answer m with peers.
HasAnnounce(o, m) == \E obj : Encodes(o, obj) /\ AnnounceFrom({obj}) = {m}

(* An announcement, its port cut to 16 bits. *)
LEMMA AnnounceReads ==
    ASSUME NEW id, NEW hash, NEW port, NEW token, NEW implied \in BOOLEAN,
           NEW m, m = [method |-> "announce_peer", id |-> id, info_hash |-> hash, port |-> port,
                       token |-> token, implied_port |-> implied]
    PROVE  HasAnnounce(Dict(AnnounceQuery(m)), [m EXCEPT !.port = AsPort(port)])
<1> DEFINE n == IF implied THEN 1 ELSE 0
           gid == One("id", Obj("str", << <<"id", id>> >>))
           gim == One("implied_port", Obj("int", n))
           gh == One("info_hash", Obj("str", << <<"id", hash>> >>))
           gp == One("port", Obj("int", port))
           gt == One("token", Obj("str", token))
           f1 == Over(gim, gid)
           f2 == Over(gh, f1)
           f3 == Over(gp, f2)
           f4 == Over(gt, f3)
           obj == Table(f4)
           e1 == Entry("id", IdString(id))
           e2 == Entry("implied_port", Num(n))
           e3 == Entry("info_hash", IdString(hash))
           e4 == Entry("port", Num(port))
           e5 == Entry("token", Str(token))
<1>1. Adds(e1, gid) /\ Adds(e2, gim) /\ Adds(e3, gh) /\ Adds(e4, gp) /\ Adds(e5, gt)
  <2> HIDE DEF n
  <2>1. QED
    BY EntryAdds, StrEncodes, NumEncodes DEF IdString
<1>2. AnnounceQuery(m) = e1 \o e2 \o e3 \o e4 \o e5
  BY DEF AnnounceQuery
<1>3. Encodes(Dict(AnnounceQuery(m)), obj)
  <2> HIDE DEF e1, e2, e3, e4, e5, gid, gim, gh, gp, gt
  <2>1. Adds(e1 \o e2, f1)
    BY <1>1, BothAdd
  <2> HIDE DEF f1
  <2>2. Adds(e1 \o e2 \o e3, f2)
    BY <1>1, <2>1, BothAdd
  <2> HIDE DEF f2
  <2>3. Adds(e1 \o e2 \o e3 \o e4, f3)
    BY <1>1, <2>2, BothAdd
  <2> HIDE DEF f3
  <2>4. Adds(e1 \o e2 \o e3 \o e4 \o e5, f4)
    BY <1>1, <2>3, BothAdd
  <2>5. QED
    BY <1>2, <2>4, DictEncodes
<1> HIDE DEF n
<1>4. /\ Under(f4, "token") = {Obj("str", token)}
      /\ \A key : key # "token" => Under(f4, key) = Under(f3, key)
  BY LookUp
<1>5. /\ Under(f3, "port") = {Obj("int", port)}
      /\ \A key : key # "port" => Under(f3, key) = Under(f2, key)
  BY LookUp
<1>6. /\ Under(f2, "info_hash") = {Obj("str", << <<"id", hash>> >>)}
      /\ \A key : key # "info_hash" => Under(f2, key) = Under(f1, key)
  BY LookUp
<1>7. /\ Under(f1, "implied_port") = {Obj("int", n)}
      /\ \A key : key # "implied_port" => Under(f1, key) = Under(gid, key)
  BY LookUp
<1>8. Under(gid, "id") = {Obj("str", << <<"id", id>> >>)}
  BY LookUpOne
<1> HIDE DEF f4, f3, f2, f1, gid, gim, gh, gp, gt
<1>9. /\ Get({obj}, Word("token")) = {Obj("str", token)}
      /\ Get({obj}, Word("port")) = {Obj("int", port)}
      /\ Get({obj}, Word("info_hash")) = {Obj("str", << <<"id", hash>> >>)}
      /\ Get({obj}, Word("implied_port")) = {Obj("int", n)}
      /\ Get({obj}, Word("id")) = {Obj("str", << <<"id", id>> >>)}
  BY <1>4, <1>5, <1>6, <1>7, <1>8 DEF Under
<1> HIDE DEF obj
<1>10. /\ StrField({obj}, "token") = {token}
       /\ IntField({obj}, "port") = {port}
       /\ IntField({obj}, "implied_port") = {n}
       /\ IdField({obj}, "info_hash") = {hash}
       /\ IdField({obj}, "id") = {id}
  <2>1. StrField({obj}, "token") = {token}
    BY ONLY <1>9, StrReads
  <2>2. IntField({obj}, "port") = {port} /\ IntField({obj}, "implied_port") = {n}
    BY <1>9, IntReads
  <2>3. IdField({obj}, "info_hash") = {hash} /\ IdField({obj}, "id") = {id}
    BY <1>9, IdReads
  <2>4. QED
    BY <2>1, <2>2, <2>3
<1>11. Get({obj}, Word("implied_port")) # {}
  BY <1>9
<1>12. (n = 1) = implied
  BY DEF n
<1>13. AnnounceFrom({obj}) =
           {[method |-> "announce_peer", id |-> id, info_hash |-> hash, port |-> AsPort(port),
             token |-> token, implied_port |-> n = 1]}
  <2> DEFINE ports == IF Get({obj}, Word("implied_port")) = {} THEN {0}
                      ELSE IntField({obj}, "implied_port")
  <2> DEFINE With(A, B, C, D, E) ==
                 {[method |-> "announce_peer", id |-> i, info_hash |-> h, port |-> AsPort(p),
                   token |-> t, implied_port |-> b = 1] : i \in A, h \in B, p \in C, t \in D, b \in E}
  <2>1. AnnounceFrom({obj}) = With(IdField({obj}, "id"), IdField({obj}, "info_hash"),
                                   IntField({obj}, "port"), StrField({obj}, "token"), ports)
    BY DEF AnnounceFrom
  <2>2. ports = {n}
    BY <1>10, <1>11
  <2>3. With({id}, {hash}, {port}, {token}, {n}) =
            {[method |-> "announce_peer", id |-> id, info_hash |-> hash, port |-> AsPort(port),
              token |-> token, implied_port |-> n = 1]}
    OBVIOUS
  <2> HIDE DEF ports, With
  <2>4. QED
    BY <1>10, <2>1, <2>2, <2>3
<1>14. QED
  BY <1>3, <1>12, <1>13 DEF HasAnnounce

(* The nodes are found under one of the two keys. *)
LEMMA NodesOfReads ==
    ASSUME NEW objs, NEW s,
           \/ Get(objs, Word("nodes")) = {Obj("str", s)}
           \/ Get(objs, Word("nodes")) = {} /\ Get(objs, Word("nodes6")) = {Obj("str", s)}
    PROVE  /\ NodesOf(objs) = {s}
           /\ ~(Get(objs, Word("nodes")) = {} /\ Get(objs, Word("nodes6")) = {})
<1> DEFINE S == {Obj("str", s)}
<1>1. S # {} /\ As("str", S) = {s}
  BY Typed
<1> HIDE DEF S
<1>2. \/ Get(objs, Word("nodes")) = S
      \/ Get(objs, Word("nodes")) = {} /\ Get(objs, Word("nodes6")) = S
  BY DEF S
<1>3. QED
  BY <1>1, <1>2 DEF NodesOf

\* The key of the nodes.
NodesName(family, nodes) == IF nodes = << >> \/ family = "v4" THEN "nodes" ELSE "nodes6"

(* And are put under one of them. *)
LEMMA NodesEntryAdds ==
    ASSUME NEW family, NEW nodes
    PROVE  Adds(NodesEntry(family, nodes),
                One(NodesName(family, nodes), Obj("str", EncodeNodes(family, nodes))))
BY EntryAdds, StrEncodes DEF NodesEntry, NodesName

(* The answer to find_node. *)
LEMMA FindNodeReads ==
    ASSUME NEW family \in {"v4", "v6"}, NEW nodes, AreFew(nodes), NEW id,
           NEW m, m = [method |-> "find_node", id |-> id, nodes |-> nodes]
    PROVE  \E obj : Encodes(Dict(FindNodeReply(family, m)), obj) /\ FindNodeReplyFrom({obj}) = {m}
<1> DEFINE name == NodesName(family, nodes)
           s == EncodeNodes(family, nodes)
           gi == One("id", Obj("str", << <<"id", id>> >>))
           gn == One(name, Obj("str", s))
           f == Over(gn, gi)
           obj == Table(f)
           a == Entry("id", IdString(id))
           b == NodesEntry(family, nodes)
<1>1. Adds(a, gi) /\ Adds(b, gn)
  BY EntryAdds, StrEncodes, NodesEntryAdds DEF IdString
<1>2. FindNodeReply(family, m) = a \o b
  BY DEF FindNodeReply
<1>3. Encodes(Dict(FindNodeReply(family, m)), obj)
  <2> HIDE DEF a, b, gi, gn
  <2>1. Adds(a \o b, f)
    BY <1>1, BothAdd
  <2>2. QED
    BY <1>2, <2>1, DictEncodes
<1>4. name \in {"nodes", "nodes6"}
  BY DEF NodesName
<1> HIDE DEF name, s
<1>5. Under(f, name) = {Obj("str", s)} /\ \A key : key # name => Under(f, key) = Under(gi, key)
  BY LookUp
<1>6. Under(gi, "id") = {Obj("str", << <<"id", id>> >>)} /\ \A key : key # "id" => Under(gi, key) = {}
  BY LookUpOne
<1> HIDE DEF gi, gn, f
<1>7. /\ Get({obj}, Word("id")) = {Obj("str", << <<"id", id>> >>)}
      /\ \/ Get({obj}, Word("nodes")) = {Obj("str", s)}
         \/ Get({obj}, Word("nodes")) = {} /\ Get({obj}, Word("nodes6")) = {Obj("str", s)}
  <2>1. /\ Under(f, "id") = {Obj("str", << <<"id", id>> >>)}
        /\ \/ Under(f, "nodes") = {Obj("str", s)}
           \/ Under(f, "nodes") = {} /\ Under(f, "nodes6") = {Obj("str", s)}
    BY <1>4, <1>5, <1>6
  <2>2. QED
    BY <2>1 DEF Under
<1> HIDE DEF obj
<1>8. IdField({obj}, "id") = {id}
  <2>1. Get({obj}, Word("id")) = {Obj("str", << <<"id", id>> >>)}
    BY <1>7
  <2>2. QED
    BY ONLY <2>1, IdReads
<1>9. NodesOf({obj}) = {s}
  BY ONLY <1>7, NodesOfReads
<1>10. ParseNodes({s}) = {nodes}
  BY NodesRead DEF s
<1>11. FindNodeReplyFrom({obj}) = {[method |-> "find_node", id |-> id, nodes |-> nodes]}
  <2> DEFINE With(A, B) == {[method |-> "find_node", id |-> i, nodes |-> n] : i \in A, n \in B}
  <2>1. FindNodeReplyFrom({obj}) = With(IdField({obj}, "id"), ParseNodes(NodesOf({obj})))
    BY DEF FindNodeReplyFrom
  <2>2. With({id}, {nodes}) = {[method |-> "find_node", id |-> id, nodes |-> nodes]}
    OBVIOUS
  <2> HIDE DEF With
  <2>3. QED
    BY <1>8, <1>9, <1>10, <2>1, <2>2
<1>12. QED
  BY <1>3, <1>11

(* A list of peers. *)
LEMMA ValuesEncode ==
    ASSUME NEW family, NEW values, IsTokens(values)
    PROVE  Encodes(Values(family, values), Obj("list", PeerObjs(family, values)))
<1> DEFINE n == Len(values)
           c == [i \in 1..n |-> << <<family, values[i]>> >>]
<1>1. n \in Nat /\ DOMAIN values = 1..n
  BY DEF IsTokens
<1>2. Encodes(List([i \in 1..n |-> <<"s", c[i]>>]), Obj("list", [i \in 1..n |-> Obj("str", c[i])]))
  <2> HIDE DEF c, n
  <2>1. QED
    BY <1>1, StringsEncode
<1>3. [i \in 1..n |-> <<"s", c[i]>>] = [i \in DOMAIN values |-> <<"s", << <<family, values[i]>> >> >>]
  BY <1>1
<1>4. [i \in 1..n |-> Obj("str", c[i])] = [i \in 1..n |-> Obj("str", << <<family, values[i]>> >>)]
  OBVIOUS
<1>5. QED
  BY <1>2, <1>3, <1>4 DEF Values, PeerObjs

HasPeers(o, m) == \E obj : Encodes(o, obj) /\ GetPeersReplyFrom({obj}) = {m}

(* The answer to get_peers, its values left out when there are none. *)
LEMMA GetPeersReads ==
    ASSUME NEW family \in {"v4", "v6"}, NEW nodes, AreFew(nodes),
           NEW values, IsTokens(values), NEW id, NEW token,
           NEW m, m = [method |-> "get_peers", id |-> id, token |-> token, nodes |-> nodes,
                       values |-> values]
    PROVE  HasPeers(Dict(GetPeersReply(family, m)), m)
<1> DEFINE name == NodesName(family, nodes)
           s == EncodeNodes(family, nodes)
           l == PeerObjs(family, values)
           gi == One("id", Obj("str", << <<"id", id>> >>))
           gn == One(name, Obj("str", s))
           gt == One("token", Obj("str", token))
           gv == One("values", Obj("list", l))
           f == Over(gt, Over(gn, gi))
           g == IF values = << >> THEN f ELSE Over(gv, f)
           obj == Table(g)
           a == Entry("id", IdString(id))
           b == NodesEntry(family, nodes)
           c == Entry("token", Str(token))
           d == Entry("values", Values(family, values))
<1>1. Adds(a, gi) /\ Adds(b, gn) /\ Adds(c, gt)
  BY EntryAdds, StrEncodes, NodesEntryAdds DEF IdString
<1>2. Adds(d, gv)
  BY EntryAdds, ValuesEncode
<1>3. GetPeersReply(family, m) = a \o b \o c \o (IF values = << >> THEN << >> ELSE d)
  BY DEF GetPeersReply
<1>4. Adds(GetPeersReply(family, m), g)
  <2> HIDE DEF a, b, c, d, gi, gn, gt, gv
  <2>1. Adds(a \o b, Over(gn, gi))
    BY <1>1, BothAdd
  <2>2. Adds(a \o b \o c, f)
    BY <1>1, <2>1, BothAdd
  <2>3. CASE values = << >>
    <3>1. PICK S : a \o b \o c \in Seq(S)
      BY <2>2 DEF Adds, IsTokens
    <3> DEFINE abc == a \o b \o c
    <3> HIDE DEF abc
    <3>2. abc \o << >> = abc
      BY <3>1, ConcatEmptySeq DEF abc
    <3>3. QED
      BY <1>3, <2>2, <2>3, <3>2 DEF abc
  <2>4. CASE values # << >>
    <3> HIDE DEF f
    <3>1. Adds(a \o b \o c \o d, Over(gv, f))
      BY <1>2, <2>2, BothAdd
    <3>2. QED
      BY <1>3, <2>4, <3>1
  <2>5. QED
    BY <2>3, <2>4
<1>5. Encodes(Dict(GetPeersReply(family, m)), obj)
  <2> HIDE DEF g
  <2>1. QED
    BY <1>4, DictEncodes
<1>6. name \in {"nodes", "nodes6"}
  BY DEF NodesName
<1> HIDE DEF name, s, l
<1>7. Under(f, "token") = {Obj("str", token)}
      /\ \A key : key # "token" => Under(f, key) = Under(Over(gn, gi), key)
  BY LookUp
<1>8. Under(Over(gn, gi), name) = {Obj("str", s)}
      /\ \A key : key # name => Under(Over(gn, gi), key) = Under(gi, key)
  BY LookUp
<1>9. Under(gi, "id") = {Obj("str", << <<"id", id>> >>)} /\ \A key : key # "id" => Under(gi, key) = {}
  BY LookUpOne
<1>10. Under(Over(gv, f), "values") = {Obj("list", l)}
       /\ \A key : key # "values" => Under(Over(gv, f), key) = Under(f, key)
  BY LookUp
<1> HIDE DEF gi, gn, gv, gt, f
<1>11. /\ Under(g, "id") = {Obj("str", << <<"id", id>> >>)}
       /\ Under(g, "token") = {Obj("str", token)}
       /\ \/ Under(g, "nodes") = {Obj("str", s)}
          \/ Under(g, "nodes") = {} /\ Under(g, "nodes6") = {Obj("str", s)}
       /\ Under(g, "values") = IF values = << >> THEN {} ELSE {Obj("list", l)}
  <2>1. \A key : key # "values" => Under(g, key) = Under(f, key)
    BY <1>10
  <2>2. Under(g, "values") = IF values = << >> THEN Under(f, "values") ELSE {Obj("list", l)}
    BY <1>10
  <2> HIDE DEF g
  <2>3. Under(f, "values") = {}
    BY <1>6, <1>7, <1>8, <1>9
  <2>4. /\ Under(f, "id") = {Obj("str", << <<"id", id>> >>)}
        /\ \/ Under(f, "nodes") = {Obj("str", s)}
           \/ Under(f, "nodes") = {} /\ Under(f, "nodes6") = {Obj("str", s)}
    BY <1>6, <1>7, <1>8, <1>9
  <2>5. QED
    BY <1>7, <2>1, <2>2, <2>3, <2>4
<1> HIDE DEF g
<1>12. /\ Get({obj}, Word("id")) = {Obj("str", << <<"id", id>> >>)}
       /\ Get({obj}, Word("token")) = {Obj("str", token)}
       /\ \/ Get({obj}, Word("nodes")) = {Obj("str", s)}
          \/ Get({obj}, Word("nodes")) = {} /\ Get({obj}, Word("nodes6")) = {Obj("str", s)}
       /\ Get({obj}, Word("values")) = IF values = << >> THEN {} ELSE {Obj("list", l)}
  BY <1>11 DEF Under
<1> HIDE DEF obj
<1>13. IdField({obj}, "id") = {id}
  <2>1. Get({obj}, Word("id")) = {Obj("str", << <<"id", id>> >>)}
    BY <1>12
  <2>2. QED
    BY ONLY <2>1, IdReads
<1>14. StrField({obj}, "token") = {token}
  <2>1. Get({obj}, Word("token")) = {Obj("str", token)}
    BY <1>12
  <2>2. QED
    BY ONLY <2>1, StrReads
<1>15. NodesOf({obj}) = {s} /\ ~(Get({obj}, Word("nodes")) = {} /\ Get({obj}, Word("nodes6")) = {})
  BY ONLY <1>12, NodesOfReads
<1>16. ParseNodes({s}) = {nodes}
  BY NodesRead DEF s
<1> DEFINE read == IF Get({obj}, Word("values")) = {} THEN {<< >>}
                   ELSE ParseIps(As("list", Get({obj}, Word("values"))))
<1>17. read = {values}
  <2>1. CASE values = << >>
    BY <1>12, <2>1
  <2>2. CASE values # << >>
    <3>1. Get({obj}, Word("values")) = {Obj("list", l)} /\ {Obj("list", l)} # {}
      BY <1>12, <2>2
    <3>2. As("list", {Obj("list", l)}) = {l}
      BY Typed
    <3>3. ParseIps({l}) = {values}
      BY IpsRead DEF l
    <3>4. QED
      BY <3>1, <3>2, <3>3
  <2>3. QED
    BY <2>1, <2>2
<1> DEFINE ns == IF /\ Get({obj}, Word("nodes")) = {}
                    /\ Get({obj}, Word("nodes6")) = {}
                 THEN {<< >>} ELSE ParseNodes(NodesOf({obj}))
<1>18. ns = {nodes}
  BY <1>15, <1>16
<1> DEFINE With(A, B, C, D) == {[method |-> "get_peers", id |-> i, token |-> t, nodes |-> n,
                                 values |-> v] : i \in A, t \in B, n \in C, v \in D}
<1>19. GetPeersReplyFrom({obj}) = With(IdField({obj}, "id"), StrField({obj}, "token"), ns, read)
  BY DEF GetPeersReplyFrom
<1>20. With({id}, {token}, {nodes}, {values}) = {m}
  OBVIOUS
<1> HIDE DEF With, ns, read
<1>21. GetPeersReplyFrom({obj}) = {m}
  BY ONLY <1>13, <1>14, <1>17, <1>18, <1>19, <1>20
<1>22. QED
  BY <1>5, <1>21 DEF HasPeers

\* An error is a list, and lists have no fields.
LEMMA ErrorReads ==
    ASSUME NEW m
    PROVE  \E obj : /\ Encodes(List(ErrorReply(m)), obj)
                    /\ \A method : Plain(method, {obj}) = {}
<1> DEFINE n == <<"i", m.code>>
           s == <<"s", Word("message")>>
           w == Append(Append(<< >>, Obj("int", m.code)), Obj("str", Word("message")))
<1>1. IsTokens(<<n>>) /\ IsTokens(<<s>>)
  BY ReadOne
<1>2. /\ IsTokens(<<n>> \o <<s>>)
      /\ \A st : ReadAll(st, <<n>> \o <<s>>) = ReadAll(ReadAll(st, <<n>>), <<s>>)
  BY <1>1, ReadConcat
<1>3. ASSUME NEW outer
      PROVE  ReadAll(InList(<< >>, outer), <<n>> \o <<s>>) = InList(w, outer)
  <2>1. ReadAll(InList(<< >>, outer), <<n>>) = InList(Append(<< >>, Obj("int", m.code)), outer)
    <3>1. ReadAll(InList(<< >>, outer), <<n>>) = Read(InList(<< >>, outer), n)
      BY ReadOne
    <3>2. QED
      BY <3>1 DEF Read, Put, InList
  <2> DEFINE v == Append(<< >>, Obj("int", m.code))
  <2> HIDE DEF v
  <2>2. ReadAll(InList(v, outer), <<s>>) = InList(Append(v, Obj("str", Word("message"))), outer)
    <3>1. ReadAll(InList(v, outer), <<s>>) = Read(InList(v, outer), s)
      BY ReadOne
    <3>2. QED
      BY <3>1 DEF Read, Put, InList
  <2>3. QED
    BY <1>2, <2>1, <2>2 DEF v
<1>4. ErrorReply(m) = <<n>> \o <<s>>
  BY DEF ErrorReply, Num, Str
<1> HIDE DEF w, n, s
<1>5. Encodes(List(ErrorReply(m)), Obj("list", w))
  BY <1>2, <1>3, <1>4, ListEncodes
<1>6. Get({Obj("list", w)}, Word("id")) = {}
  BY LookUpNone
<1>7. IdField({Obj("list", w)}, "id") = {}
  BY <1>6, NothingReads
<1>8. \A method : Plain(method, {Obj("list", w)}) = {}
  BY <1>7 DEF Plain
<1>9. QED
  BY <1>5, <1>8

-----------------------------------------------------------------------------
(* Queries *)

(* process_udp reads the arguments by the method it is told. *)
LEMMA QueryInPacket ==
    ASSUME NEW method, NEW args, NEW obj, Encodes(args, obj)
    PROVE  /\ QueryIn(Packet(method, args)) =
                 IF method \in Methods THEN QueryFromBencode(method, {obj})
                 ELSE {[method |-> "unknown"]}
           /\ QueryIn(Front(Packet(method, args))) = {}
<1> DEFINE part == [method |-> Word(method), args |-> obj]
           Read1(p) == IF \E m \in Methods : Word(m) = p.method
                       THEN QueryFromBencode(CHOOSE m \in Methods : Word(m) = p.method, {p.args})
                       ELSE {[method |-> "unknown"]}
<1>1. /\ ExtractQueryPart(Decode(Packet(method, args))) = {part}
      /\ Decode(Front(Packet(method, args))) = {}
  BY QueryEnvelope
<1>2. \A objs : UNION {Read1(p) : p \in ExtractQueryPart(objs)} =
          UNION {IF \E m \in Methods : Word(m) = p.method
                 THEN QueryFromBencode(CHOOSE m \in Methods : Word(m) = p.method, {p.args})
                 ELSE {[method |-> "unknown"]} : p \in ExtractQueryPart(objs)}
  OBVIOUS
<1>3. Read1(part) = IF method \in Methods THEN QueryFromBencode(method, {obj})
                    ELSE {[method |-> "unknown"]}
  <2>1. \A m \in Methods : Word(m) = part.method <=> m = method
    BY WordsDiffer
  <2>2. part.args = obj
    OBVIOUS
  <2> HIDE DEF part
  <2>3. CASE method \in Methods
    <3>1. (CHOOSE m \in Methods : Word(m) = part.method) = method
      BY <2>1, <2>3
    <3>2. \E m \in Methods : Word(m) = part.method
      BY <2>1, <2>3
    <3>3. QED
      BY <2>2, <2>3, <3>1, <3>2
  <2>4. CASE method \notin Methods
    BY <2>1, <2>4
  <2>5. QED
    BY <2>3, <2>4
<1>4. \A packet : QueryIn(packet) = UNION {Read1(p) : p \in ExtractQueryPart(Decode(packet))}
  BY <1>2 DEF QueryIn
<1> HIDE DEF Read1, part
<1>5. QueryIn(Packet(method, args)) = Read1(part)
  BY <1>1, <1>4
<1>6. ExtractQueryPart({}) = {}
  <2>1. \A name : StrField({}, name) = {}
    BY LookUpNone, NothingReads
  <2>2. QED
    BY <2>1 DEF ExtractQueryPart
<1>7. QueryIn(Front(Packet(method, args))) = {}
  BY <1>1, <1>4, <1>6
<1>8. QED
  BY <1>3, <1>5, <1>7

\* Queries that name one of the ports.
PingForms == {[method |-> "ping", id |-> id] : id \in Ids}
AimedForms ==
    {[method |-> method, id |-> id, target |-> target]
        : method \in {"find_node", "sample_infohashes"}, id \in Ids, target \in Ids}
GetPeersForms ==
    {[method |-> "get_peers", id |-> id, info_hash |-> hash] : id \in Ids, hash \in Hashes}
AnnounceForms(ports) ==
    {[method |-> "announce_peer", id |-> id, info_hash |-> hash, port |-> port,
      token |-> TokenOf(ip), implied_port |-> implied]
        : id \in Ids, hash \in Hashes, port \in ports, ip \in Addrs, implied \in BOOLEAN}

QueryForms(ports) == PingForms \cup AimedForms \cup GetPeersForms \cup AnnounceForms(ports)

\* The query as the other end has it.
Received(m) ==
    IF m.method = "announce_peer" THEN [m EXCEPT !.port = AsPort(m.port)] ELSE m

(* Each form of query is read from its own encoding. *)
LEMMA QueryReads ==
    ASSUME NEW ports, NEW m \in QueryForms(ports)
    PROVE  /\ m.method \in Methods
           /\ \E obj : /\ Encodes(QueryToBencode(m), obj)
                       /\ QueryFromBencode(m.method, {obj}) = {Received(m)}
<1>1. CASE m \in PingForms
  <2>1. PICK id \in Ids : m = [method |-> "ping", id |-> id]
    BY <1>1 DEF PingForms
  <2>2. PICK obj : /\ Encodes(Dict(Entry("id", IdString(id))), obj)
                   /\ \A method : Plain(method, {obj}) = {[method |-> method, id |-> id]}
    BY PlainReads
  <2>3. QueryToBencode(m) = Dict(Entry("id", IdString(id)))
    BY <2>1 DEF QueryToBencode, PingQuery
  <2>4. QueryFromBencode(m.method, {obj}) = Plain("ping", {obj})
    BY <2>1 DEF QueryFromBencode, PingFrom
  <2>5. Received(m) = m /\ m.method \in Methods
    BY <2>1 DEF Received, Methods
  <2>6. QED
    BY <2>1, <2>2, <2>3, <2>4, <2>5
<1>2. CASE m \in AimedForms
  <2>1. PICK method \in {"find_node", "sample_infohashes"}, id \in Ids, target \in Ids :
             m = [method |-> method, id |-> id, target |-> target]
    BY <1>2 DEF AimedForms
  <2>2. QueryToBencode(m) = Dict(Entry("id", IdString(id)) \o Entry("target", IdString(target)))
    BY <2>1 DEF QueryToBencode, FindNodeQuery, SampleQuery
  <2>3. PICK obj : /\ Encodes(Dict(Entry("id", IdString(id)) \o Entry("target", IdString(target))), obj)
                   /\ IdField({obj}, "id") = {id} /\ IdField({obj}, "target") = {target}
    <3>1. HasIds(Dict(Entry("id", IdString(id)) \o Entry("target", IdString(target))), id, "target", target)
      BY TwoIdsRead
    <3>2. QED
      BY <3>1 DEF HasIds
  <2>4. QueryFromBencode(m.method, {obj}) = Aimed(m.method, {obj})
    BY <2>1 DEF QueryFromBencode, FindNodeFrom, SampleFrom
  <2>5. Aimed(method, {obj}) = {[method |-> method, id |-> id, target |-> target]}
    <3> DEFINE With(A, B) == {[method |-> method, id |-> i, target |-> t] : i \in A, t \in B}
    <3>1. Aimed(method, {obj}) = With(IdField({obj}, "id"), IdField({obj}, "target"))
      BY DEF Aimed
    <3>2. With({id}, {target}) = {[method |-> method, id |-> id, target |-> target]}
      OBVIOUS
    <3> HIDE DEF With
    <3>3. QED
      BY <2>3, <3>1, <3>2
  <2>6. Received(m) = m /\ m.method \in Methods /\ m.method = method
    BY <2>1 DEF Received, Methods
  <2>7. QED
    BY <2>1, <2>2, <2>3, <2>4, <2>5, <2>6
<1>3. CASE m \in GetPeersForms
  <2>1. PICK id \in Ids, hash \in Hashes : m = [method |-> "get_peers", id |-> id, info_hash |-> hash]
    BY <1>3 DEF GetPeersForms
  <2>2. QueryToBencode(m) = Dict(Entry("id", IdString(id)) \o Entry("info_hash", IdString(hash)))
    BY <2>1 DEF QueryToBencode, GetPeersQuery
  <2>3. PICK obj : /\ Encodes(Dict(Entry("id", IdString(id)) \o Entry("info_hash", IdString(hash))), obj)
                   /\ IdField({obj}, "id") = {id} /\ IdField({obj}, "info_hash") = {hash}
    <3>1. HasIds(Dict(Entry("id", IdString(id)) \o Entry("info_hash", IdString(hash))), id, "info_hash", hash)
      BY TwoIdsRead
    <3>2. QED
      BY <3>1 DEF HasIds
  <2>4. QueryFromBencode(m.method, {obj}) = GetPeersFrom({obj})
    BY <2>1 DEF QueryFromBencode
  <2>5. GetPeersFrom({obj}) = {[method |-> "get_peers", id |-> id, info_hash |-> hash]}
    <3> DEFINE With(A, B) == {[method |-> "get_peers", id |-> i, info_hash |-> h] : i \in A, h \in B}
    <3>1. GetPeersFrom({obj}) = With(IdField({obj}, "id"), IdField({obj}, "info_hash"))
      BY DEF GetPeersFrom
    <3>2. With({id}, {hash}) = {[method |-> "get_peers", id |-> id, info_hash |-> hash]}
      OBVIOUS
    <3> HIDE DEF With
    <3>3. QED
      BY <2>3, <3>1, <3>2
  <2>6. Received(m) = m /\ m.method \in Methods
    BY <2>1 DEF Received, Methods
  <2>7. QED
    BY <2>1, <2>2, <2>3, <2>4, <2>5, <2>6
<1>4. CASE m \in AnnounceForms(ports)
  <2>1. PICK id \in Ids, hash \in Hashes, port \in ports, ip \in Addrs, implied \in BOOLEAN :
             m = [method |-> "announce_peer", id |-> id, info_hash |-> hash, port |-> port,
                  token |-> TokenOf(ip), implied_port |-> implied]
    BY <1>4 DEF AnnounceForms
  <2>2. QueryToBencode(m) = Dict(AnnounceQuery(m))
    BY <2>1 DEF QueryToBencode
  <2>3. PICK obj : /\ Encodes(Dict(AnnounceQuery(m)), obj)
                   /\ AnnounceFrom({obj}) = {[m EXCEPT !.port = AsPort(port)]}
    <3>1. HasAnnounce(Dict(AnnounceQuery(m)), [m EXCEPT !.port = AsPort(port)])
      BY <2>1, AnnounceReads
    <3>2. QED
      BY <3>1 DEF HasAnnounce
  <2>4. QueryFromBencode(m.method, {obj}) = AnnounceFrom({obj})
    BY <2>1 DEF QueryFromBencode
  <2>5. Received(m) = [m EXCEPT !.port = AsPort(port)] /\ m.method \in Methods
    BY <2>1 DEF Received, Methods
  <2>6. QED
    BY <2>2, <2>3, <2>4, <2>5
<1>5. QED
  BY <1>1, <1>2, <1>3, <1>4 DEF QueryForms

(* A query that a node of this code sends is read by a node of this code   *)
(* as it was sent, the port cut to 16 bits; cut off, it is read as none.   *)
THEOREM QueryRoundTrip ==
    ASSUME NEW ports, NEW m \in QueryForms(ports)
    PROVE  QueryIn(QueryPacket(m)) = {Received(m)} /\ QueryIn(Front(QueryPacket(m))) = {}
<1>1. m.method \in Methods
  BY QueryReads
<1>2. PICK obj : /\ Encodes(QueryToBencode(m), obj)
                 /\ QueryFromBencode(m.method, {obj}) = {Received(m)}
  BY QueryReads
<1>3. QED
  BY <1>1, <1>2, QueryInPacket DEF QueryPacket

-----------------------------------------------------------------------------
(* What arrives *)

Port16 == 0..(2^16 - 1)

(* Cutting the port leaves a query. *)
LEMMA ReceivedForms == ASSUME NEW m \in QueryForms(Nat) PROVE Received(m) \in QueryForms(Port16)
<1>1. \A n \in Nat : AsPort(n) \in Port16
  <2> DEFINE M == 2^16
  <2>1. M \in Nat \ {0}
    OBVIOUS
  <2> HIDE DEF M
  <2>2. \A n \in Nat : n % M \in 0..(M - 1)
    BY <2>1
  <2>3. QED
    BY <2>2 DEF AsPort, Port16, M
<1>2. CASE m.method # "announce_peer"
  <2>1. m \notin AnnounceForms(Nat)
    BY <1>2 DEF AnnounceForms
  <2>2. QED
    BY <1>2, <2>1 DEF QueryForms, Received
<1>3. CASE m.method = "announce_peer"
  <2>1. m \in AnnounceForms(Nat)
    <3>1. m \notin PingForms /\ m \notin AimedForms /\ m \notin GetPeersForms
      BY <1>3 DEF PingForms, AimedForms, GetPeersForms
    <3>2. QED
      BY <3>1 DEF QueryForms
  <2>2. PICK id \in Ids, hash \in Hashes, port \in Nat, ip \in Addrs, implied \in BOOLEAN :
             m = [method |-> "announce_peer", id |-> id, info_hash |-> hash, port |-> port,
                  token |-> TokenOf(ip), implied_port |-> implied]
    BY <2>1 DEF AnnounceForms
  <2>3. Received(m) = [method |-> "announce_peer", id |-> id, info_hash |-> hash,
                       port |-> AsPort(port), token |-> TokenOf(ip), implied_port |-> implied]
    BY <2>2 DEF Received
  <2>4. Received(m) \in AnnounceForms(Port16)
    BY <1>1, <2>3 DEF AnnounceForms
  <2>5. QED
    BY <2>4 DEF QueryForms
<1>4. QED
  BY <1>2, <1>3

(* The queries of other nodes have these forms, their ports not yet cut. *)
LEMMA QueriesForms == ASSUME NEW ip \in Addrs PROVE Queries(ip) \subseteq QueryForms(Nat)
<1>1. IdOf[ip] \in Ids /\ Zero \in Ids /\ Targets \subseteq Ids
  BY SessionAssumption, TableAssumption
<1>2. ASSUME NEW m \in Queries(ip)
      PROVE  m \in QueryForms(Nat)
  <2>1. CASE m \in {[method |-> "ping", id |-> id] : id \in {IdOf[ip], Zero}}
    <3>1. m \in PingForms
      BY <1>1, <2>1 DEF PingForms
    <3>2. QED
      BY <3>1 DEF QueryForms
  <2>2. CASE m \in {[method |-> method, id |-> IdOf[ip], target |-> t]
                      : method \in {"find_node", "sample_infohashes"}, t \in Targets}
    <3>1. m \in AimedForms
      BY <1>1, <2>2 DEF AimedForms
    <3>2. QED
      BY <3>1 DEF QueryForms
  <2>3. CASE m \in {[method |-> "get_peers", id |-> IdOf[ip], info_hash |-> h] : h \in Hashes}
    <3>1. m \in GetPeersForms
      BY <1>1, <2>3 DEF GetPeersForms
    <3>2. QED
      BY <3>1 DEF QueryForms
  <2>4. CASE m \in {[method |-> "announce_peer", id |-> IdOf[ip], info_hash |-> h, port |-> port,
                     token |-> TokenOf(t), implied_port |-> implied]
                      : h \in IF ip \in Announcers THEN Hashes ELSE {},
                        port \in {1, 2^16 + 1}, implied \in BOOLEAN, t \in Addrs}
    <3>1. PICK h \in IF ip \in Announcers THEN Hashes ELSE {},
               port \in {1, 2^16 + 1}, implied \in BOOLEAN, t \in Addrs :
             m = [method |-> "announce_peer", id |-> IdOf[ip], info_hash |-> h, port |-> port,
                  token |-> TokenOf(t), implied_port |-> implied]
      BY <2>4
    <3>2. port \in Nat /\ h \in Hashes
      OBVIOUS
    <3>3. m \in AnnounceForms(Nat)
      BY <1>1, <3>1, <3>2 DEF AnnounceForms
    <3>4. QED
      BY <3>3 DEF QueryForms
  <2>5. QED
    BY <2>1, <2>2, <2>3, <2>4 DEF Queries
<1>3. QED
  BY <1>2

(* And so have all that arrive, but those that name no method of this code. *)
LEMMA IncomingForms ==
    ASSUME NEW ip \in Addrs, NEW m \in Incoming[ip]
    PROVE  m \in QueryForms(Port16) \cup {[method |-> "unknown"]}
<1> DEFINE U == [method |-> "unknown"]
<1>1. PICK p \in {QueryPacket(q) : q \in Queries(ip)} \cup Malformed(ip) : m \in QueryIn(p)
  BY DEF Incoming
<1>2. CASE p \in {QueryPacket(q) : q \in Queries(ip)}
  <2>1. PICK q \in Queries(ip) : p = QueryPacket(q)
    BY <1>2
  <2>2. q \in QueryForms(Nat)
    BY QueriesForms
  <2>3. m = Received(q)
    BY <1>1, <2>1, <2>2, QueryRoundTrip
  <2>4. QED
    BY <2>2, <2>3, ReceivedForms
<1>3. CASE p \in {Front(QueryPacket(q)) : q \in Queries(ip)}
  <2>1. PICK q \in Queries(ip) : p = Front(QueryPacket(q))
    BY <1>3
  <2>2. q \in QueryForms(Nat)
    BY QueriesForms
  <2>3. QueryIn(p) = {}
    BY <2>1, <2>2, QueryRoundTrip
  <2>4. QED
    BY <1>1, <2>3
<1>4. CASE p \in {Packet(q, Dict(a)) : q \in {"ping", "vote"}, a \in {<< >>, Entry("id", Str(Word("short")))}}
  <2>1. PICK q \in {"ping", "vote"}, a \in {<< >>, Entry("id", Str(Word("short")))} : p = Packet(q, Dict(a))
    BY <1>4
  <2>2. PICK obj : Encodes(Dict(a), obj) /\ IdField({obj}, "id") = {}
    <3>1. CASE a = << >>
      <4>1. Get({Obj("dict", << >>)}, Word("id")) = {}
        BY LookUpNone
      <4>2. IdField({Obj("dict", << >>)}, "id") = {}
        BY <4>1, NothingReads
      <4>3. QED
        BY <3>1, <4>2, EmptyDictEncodes
    <3>2. CASE a = Entry("id", Str(Word("short")))
      <4> DEFINE f == One("id", Obj("str", Word("short")))
                 o == Table(f)
      <4>1. Encodes(Dict(a), o)
        BY <3>2, EntryAdds, StrEncodes, DictEncodes
      <4>2. Get({o}, Word("id")) = {Obj("str", Word("short"))}
        BY LookUpOne DEF Under
      <4>3. ParseNodeId(As("str", {Obj("str", Word("short"))})) = {}
        <5>1. As("str", {Obj("str", Word("short"))}) = {Word("short")}
          BY Typed
        <5>2. Word("short")[1][1] # "id"
          BY DEF Word
        <5> DEFINE strs == {x \in {Word("short")} : Len(x) = 1 /\ x[1][1] = "id"}
        <5>3. strs = {}
          BY <5>2
        <5>4. ParseNodeId({Word("short")}) = {x[1][2] : x \in strs}
          BY DEF ParseNodeId
        <5>5. QED
          BY <5>1, <5>3, <5>4
      <4> HIDE DEF o
      <4>4. IdField({o}, "id") = {}
        BY <4>2, <4>3 DEF IdField
      <4>5. QED
        BY <4>1, <4>4
    <3>3. QED
      BY <3>1, <3>2
  <2>3. QueryIn(p) = IF q \in Methods THEN QueryFromBencode(q, {obj}) ELSE {U}
    BY <2>1, <2>2, QueryInPacket
  <2>4. CASE q = "ping"
    <3>1. QueryFromBencode(q, {obj}) = Plain("ping", {obj})
      BY <2>4 DEF QueryFromBencode, PingFrom
    <3>2. Plain("ping", {obj}) = {}
      BY <2>2 DEF Plain
    <3>3. q \in Methods
      BY <2>4 DEF Methods
    <3>4. QED
      BY <1>1, <2>3, <3>1, <3>2, <3>3
  <2>5. CASE q = "vote"
    <3>1. q \notin Methods
      BY <2>5 DEF Methods
    <3>2. QED
      BY <1>1, <2>3, <3>1
  <2>6. QED
    BY <2>4, <2>5
<1>5. QED
  BY <1>1, <1>2, <1>3, <1>4 DEF Malformed

-----------------------------------------------------------------------------
(* Replies *)

(* A reply of this code is read by this code as it was sent, whatever      *)
(* family its endpoints are of, up to twelve nodes.                        *)
THEOREM ReplyRoundTrip ==
    ASSUME NEW family \in {"v4", "v6"}, NEW m,
           \/ \E method, id : method \in {"ping", "announce_peer"} /\ m = [method |-> method, id |-> id]
           \/ \E id, nodes : AreFew(nodes) /\ m = [method |-> "find_node", id |-> id, nodes |-> nodes]
           \/ \E id, token, nodes, values :
                 /\ AreFew(nodes) /\ IsTokens(values)
                 /\ m = [method |-> "get_peers", id |-> id, token |-> token, nodes |-> nodes,
                         values |-> values]
    PROVE  ExtractReply(m.method, ReplyPacket(family, m)) = {m}
<1>1. CASE \E method, id : method \in {"ping", "announce_peer"} /\ m = [method |-> method, id |-> id]
  <2>1. PICK method, id : method \in {"ping", "announce_peer"} /\ m = [method |-> method, id |-> id]
    BY <1>1
  <2>2. PICK obj : /\ Encodes(Dict(Entry("id", IdString(id))), obj)
                   /\ \A w : Plain(w, {obj}) = {[method |-> w, id |-> id]}
    BY PlainReads
  <2>3. ReplyToBencode(family, m) = Dict(Entry("id", IdString(id)))
    BY <2>1 DEF ReplyToBencode, PingReply, AnnounceReply
  <2>4. ReplyFromBencode(m.method, {obj}) = Plain(m.method, {obj})
    BY <2>1 DEF ReplyFromBencode, PingReplyFrom, AnnounceReplyFrom
  <2>5. ExtractReply(m.method, ReplyPacket(family, m)) = ReplyFromBencode(m.method, {obj})
    BY <2>2, <2>3, ReplyEnvelope
  <2>6. QED
    BY <2>1, <2>2, <2>4, <2>5
<1>2. CASE \E id, nodes : AreFew(nodes) /\ m = [method |-> "find_node", id |-> id, nodes |-> nodes]
  <2>1. PICK id, nodes : AreFew(nodes) /\ m = [method |-> "find_node", id |-> id, nodes |-> nodes]
    BY <1>2
  <2>2. ReplyToBencode(family, m) = Dict(FindNodeReply(family, m))
    BY <2>1 DEF ReplyToBencode
  <2>3. PICK obj : Encodes(Dict(FindNodeReply(family, m)), obj) /\ FindNodeReplyFrom({obj}) = {m}
    BY <2>1, <2>2, FindNodeReads
  <2>4. ReplyFromBencode(m.method, {obj}) = FindNodeReplyFrom({obj})
    BY <2>1 DEF ReplyFromBencode
  <2>5. QED
    BY <2>2, <2>3, <2>4, ReplyEnvelope
<1>3. CASE \E id, token, nodes, values :
                 /\ AreFew(nodes) /\ IsTokens(values)
                 /\ m = [method |-> "get_peers", id |-> id, token |-> token, nodes |-> nodes,
                         values |-> values]
  <2>1. PICK id, token, nodes, values :
                 /\ AreFew(nodes) /\ IsTokens(values)
                 /\ m = [method |-> "get_peers", id |-> id, token |-> token, nodes |-> nodes,
                         values |-> values]
    BY <1>3
  <2>2. ReplyToBencode(family, m) = Dict(GetPeersReply(family, m))
    BY <2>1 DEF ReplyToBencode
  <2>3. PICK obj : Encodes(Dict(GetPeersReply(family, m)), obj) /\ GetPeersReplyFrom({obj}) = {m}
    <3>1. HasPeers(Dict(GetPeersReply(family, m)), m)
      BY <2>1, GetPeersReads
    <3>2. QED
      BY <3>1 DEF HasPeers
  <2>4. ReplyFromBencode(m.method, {obj}) = GetPeersReplyFrom({obj})
    BY <2>1 DEF ReplyFromBencode
  <2>5. QED
    BY <2>2, <2>3, <2>4, ReplyEnvelope
<1>4. QED
  BY <1>1, <1>2, <1>3

(* An error is never read as the answer to an announce. *)
LEMMA ErrorIsNoReply ==
    ASSUME NEW family, NEW m, m.method = "error"
    PROVE  ExtractReply("announce_peer", ReplyPacket(family, m)) = {}
<1>1. PICK obj : Encodes(List(ErrorReply(m)), obj) /\ \A w : Plain(w, {obj}) = {}
  BY ErrorReads
<1>2. ReplyToBencode(family, m) = List(ErrorReply(m))
  BY DEF ReplyToBencode
<1>3. ReplyFromBencode("announce_peer", {obj}) = Plain("announce_peer", {obj})
  BY DEF ReplyFromBencode, AnnounceReplyFrom
<1>4. QED
  BY <1>1, <1>2, <1>3, ReplyEnvelope

-----------------------------------------------------------------------------
(* Ranks *)

Smaller(S, R, x) == {y \in S : <<y, x>> \in R}

StrictlyOrders(R, S) ==
    /\ \A x \in S : <<x, x>> \notin R
    /\ \A x, y, z \in S : <<x, y>> \in R /\ <<y, z>> \in R => <<x, z>> \in R
    /\ \A x, y \in S : x = y \/ <<x, y>> \in R \/ <<y, x>> \in R

(* In a finite set every place of a strict order is taken by one element. *)
LEMMA Ranked ==
    ASSUME NEW S, IsFiniteSet(S), NEW R, StrictlyOrders(R, S)
    PROVE  /\ Cardinality(S) \in Nat
           /\ \A x \in S : Cardinality(Smaller(S, R, x)) \in 0..(Cardinality(S) - 1)
           /\ \A x, y \in S : Cardinality(Smaller(S, R, x)) = Cardinality(Smaller(S, R, y)) => x = y
           /\ \A i \in 0..(Cardinality(S) - 1) : \E x \in S : Cardinality(Smaller(S, R, x)) = i
<1> DEFINE n == Cardinality(S)
           rank(x) == Cardinality(Smaller(S, R, x))
<1>1. n \in Nat
  BY FS_CardinalityType
<1>2. ASSUME NEW x \in S
      PROVE  /\ IsFiniteSet(Smaller(S, R, x))
             /\ rank(x) \in Nat
             /\ rank(x) < n
  <2>1. Smaller(S, R, x) \subseteq S /\ x \notin Smaller(S, R, x)
    BY DEF Smaller, StrictlyOrders
  <2>2. /\ IsFiniteSet(Smaller(S, R, x)) /\ rank(x) <= n
        /\ rank(x) = n => Smaller(S, R, x) = S
    BY <2>1, FS_Subset
  <2>3. rank(x) \in Nat
    BY <2>2, FS_CardinalityType
  <2>4. QED
    BY <1>1, <2>1, <2>2, <2>3
<1>3. ASSUME NEW x \in S, NEW y \in S, <<x, y>> \in R
      PROVE  rank(x) < rank(y)
  <2>1. Smaller(S, R, x) \subseteq Smaller(S, R, y)
    BY <1>3 DEF Smaller, StrictlyOrders
  <2>2. x \in Smaller(S, R, y) /\ x \notin Smaller(S, R, x)
    BY <1>3 DEF Smaller, StrictlyOrders
  <2>3. /\ rank(x) <= rank(y)
        /\ rank(x) = rank(y) => Smaller(S, R, x) = Smaller(S, R, y)
    BY <1>2, <2>1, FS_Subset
  <2>4. rank(x) \in Nat /\ rank(y) \in Nat
    BY <1>2
  <2>5. QED
    BY <2>2, <2>3, <2>4
<1>4. ASSUME NEW x \in S, NEW y \in S, rank(x) = rank(y)
      PROVE  x = y
  <2>1. ~(rank(x) < rank(y)) /\ ~(rank(y) < rank(x))
    BY <1>2, <1>4
  <2> HIDE DEF rank
  <2>2. QED
    BY <1>3, <2>1 DEF StrictlyOrders
<1>5. \A i \in 0..(n - 1) : \E x \in S : rank(x) = i
  <2> DEFINE f == [x \in S |-> rank(x)]
  <2>1. f \in [S -> 0..(n - 1)]
    BY <1>1, <1>2
  <2>2. f \in Injection(S, 0..(n - 1))
    <3>1. \A x, y \in S : f[x] = f[y] => x = y
      BY <1>4
    <3> HIDE DEF f
    <3>2. QED
      BY <2>1, <3>1 DEF Injection, IsInjective
  <2>3. IsFiniteSet(0..(n - 1)) /\ Cardinality(0..(n - 1)) = n
    <3>1. 0 \in Int /\ n - 1 \in Int
      BY <1>1
    <3>2. QED
      BY <1>1, <3>1, FS_Interval
  <2>4. f \in Surjection(S, 0..(n - 1))
    <3> HIDE DEF f
    <3>1. QED
      BY <2>2, <2>3, FS_Injection
  <2>5. \A i \in 0..(n - 1) : \E x \in S : f[x] = i
    <3> HIDE DEF f
    <3>1. QED
      BY <2>4 DEF Surjection
  <2>6. QED
    BY <2>5
<1>6. QED
  BY <1>1, <1>2, <1>4, <1>5

(* The elements with the K smallest ranks are K at most. *)
LEMMA FewRanks ==
    ASSUME NEW S, IsFiniteSet(S), NEW R, StrictlyOrders(R, S)
    PROVE  LET T == {x \in S : Cardinality(Smaller(S, R, x)) < K}
           IN  IsFiniteSet(T) /\ Cardinality(T) <= K
<1> DEFINE rank(x) == Cardinality(Smaller(S, R, x))
           T == {x \in S : rank(x) < K}
           f == [x \in T |-> rank(x)]
<1>1. K \in Nat
  BY TableAssumption
<1>2. \A x \in S : rank(x) \in Nat
  BY Ranked
<1>3. f \in [T -> 0..(K - 1)]
  BY <1>1, <1>2
<1>4. \A x, y \in T : f[x] = f[y] => x = y
  BY Ranked
<1>5. f \in Injection(T, 0..(K - 1))
  <2> HIDE DEF f, T
  <2>1. QED
    BY <1>3, <1>4 DEF Injection, IsInjective
<1>6. IsFiniteSet(0..(K - 1)) /\ Cardinality(0..(K - 1)) = K
  <2>1. 0 \in Int /\ K - 1 \in Int
    BY <1>1
  <2>2. QED
    BY <1>1, <2>1, FS_Interval
<1>7. QED
  <2> HIDE DEF f, T
  <2>1. IsFiniteSet(T) /\ Cardinality(T) <= K
    BY <1>5, <1>6, FS_Injection
  <2>2. QED
    BY <2>1 DEF T

-----------------------------------------------------------------------------
(* find_node, as the session has it *)

(* The nodes are finitely many. *)
LEMMA PositionsFinite ==
    ASSUME NEW bs, Shaped(bs)
    PROVE  IsFiniteSet(Positions(bs))
<1> DEFINE B == (1..MaxBuckets) \X (1..K)
<1>1. MaxBuckets \in Nat /\ K \in Nat
  BY TableAssumption
<1>2. IsFiniteSet(1..MaxBuckets) /\ IsFiniteSet(1..K)
  BY <1>1, FS_Interval
<1>3. IsFiniteSet(B)
  BY <1>2, FS_Product
<1>4. Positions(bs) \subseteq B
  <2>1. ASSUME NEW p \in Positions(bs)
        PROVE  p \in B
    <3>1. PICK b \in DOMAIN bs : \E i \in DOMAIN bs[b] : p = <<b, i>>
      BY DEF Positions
    <3>2. PICK i \in DOMAIN bs[b] : p = <<b, i>>
      BY <3>1
    <3>3. b \in 1..MaxBuckets
      BY <1>1, ShapedFacts
    <3>4. i \in 1..K
      BY <1>1, ShapedFacts
    <3>5. QED
      BY <3>2, <3>3, <3>4
  <2>2. QED
    BY <2>1
<1>5. QED
  BY <1>3, <1>4, FS_Subset

\* The order of find_node, as a set of pairs.
NearerThan(bs, target) ==
    {pq \in Positions(bs) \X Positions(bs) : Nearer(bs, target, pq[1], pq[2])}

(* A position, taken apart. *)
LEMMA PositionFacts ==
    ASSUME NEW bs, Shaped(bs), NEW p \in Positions(bs)
    PROVE  /\ p = <<p[1], p[2]>> /\ p[1] \in DOMAIN bs /\ p[2] \in DOMAIN bs[p[1]]
           /\ p[2] \in Nat
           /\ At(bs, p) = bs[p[1]][p[2]]
           /\ At(bs, p).id \in Ids /\ At(bs, p).ip \in Addrs
<1>1. PICK b \in DOMAIN bs : \E i \in DOMAIN bs[b] : p = <<b, i>>
  BY DEF Positions
<1>2. PICK i \in DOMAIN bs[b] : p = <<b, i>>
  BY <1>1
<1>3. i \in Nat /\ bs[b][i].id \in Ids /\ bs[b][i].ip \in Addrs
  BY ShapedFacts
<1>4. QED
  BY <1>2, <1>3 DEF At

(* Nearer is a strict order of the positions: two at one distance hold one id,
   so they lie in one bucket, at different places. *)
LEMMA NearerOrders ==
    ASSUME NEW bs, Shaped(bs), Placed(bs), NEW target \in Ids,
           NEW S, S \subseteq Positions(bs)
    PROVE  StrictlyOrders(NearerThan(bs, target), S)
<1> DEFINE d(p) == Dist[At(bs, p).id, target]
           R == NearerThan(bs, target)
<1>1. \A p \in S : d(p) \in Nat /\ p[2] \in Nat
  <2>1. ASSUME NEW p \in S
        PROVE  d(p) \in Nat /\ p[2] \in Nat
    <3>1. At(bs, p).id \in Ids /\ p[2] \in Nat
      BY PositionFacts
    <3>2. QED
      BY <3>1, DistanceAssumption
  <2>2. QED
    BY <2>1
<1>2. \A p, q \in S : <<p, q>> \in R <=> d(p) < d(q) \/ (d(p) = d(q) /\ p[2] < q[2])
  BY DEF NearerThan, Nearer
<1>3. ASSUME NEW p \in S, NEW q \in S, d(p) = d(q), p[2] = q[2]
      PROVE  p = q
  <2>1. At(bs, p).id = At(bs, q).id
    <3>1. At(bs, p).id \in Ids /\ At(bs, q).id \in Ids
      BY PositionFacts
    <3>2. QED
      BY <1>3, <3>1, DistanceAssumption
  <2>2. p[1] = BucketIndex(At(bs, p).id, Len(bs)) /\ q[1] = BucketIndex(At(bs, q).id, Len(bs))
    BY PositionFacts DEF Placed
  <2>3. QED
    BY <1>3, <2>1, <2>2, PositionFacts
<1> HIDE DEF d, R
<1>4. \A p \in S : <<p, p>> \notin R
  BY <1>1, <1>2
<1>5. \A p, q, r \in S : <<p, q>> \in R /\ <<q, r>> \in R => <<p, r>> \in R
  BY <1>1, <1>2
<1>6. ASSUME NEW p \in S, NEW q \in S
      PROVE  p = q \/ <<p, q>> \in R \/ <<q, p>> \in R
  <2>1. d(p) \in Nat /\ d(q) \in Nat /\ p[2] \in Nat /\ q[2] \in Nat
    BY <1>1
  <2>2. /\ <<p, q>> \in R <=> d(p) < d(q) \/ (d(p) = d(q) /\ p[2] < q[2])
        /\ <<q, p>> \in R <=> d(q) < d(p) \/ (d(q) = d(p) /\ q[2] < p[2])
    BY <1>2
  <2>3. d(p) = d(q) /\ p[2] = q[2] => p = q
    BY <1>3
  <2>4. PICK dp, dq, ip, iq : dp = d(p) /\ dq = d(q) /\ ip = p[2] /\ iq = q[2]
    OBVIOUS
  <2>5. QED
    BY <2>1, <2>2, <2>3, <2>4
<1>7. QED
  BY <1>4, <1>5, <1>6 DEF StrictlyOrders, R

(* find_node returns a list of at most K nodes. *)
LEMMA NodesNearTyped ==
    ASSUME Shaped(buckets), Placed(buckets), NEW target \in Ids
    PROVE  NodesNear(target) \in Seq(Ids \X Addrs) /\ Len(NodesNear(target)) <= K
<1> DEFINE PS == {p \in Positions(buckets) : p[1] \in Visited(buckets, target)}
           R == NearerThan(buckets, target)
           ps == FindNode(buckets, target)
           Rank(p) == Cardinality({q \in ps : Nearer(buckets, target, q, p)})
<1>1. IsFiniteSet(PS) /\ PS \subseteq Positions(buckets)
  BY PositionsFinite, FS_Subset
<1>2. ps = {p \in PS : Cardinality(Smaller(PS, R, p)) < K}
  <2>1. \A p \in PS : {q \in PS : Nearer(buckets, target, q, p)} = Smaller(PS, R, p)
    BY <1>1 DEF Smaller, NearerThan
  <2>2. ps = {p \in PS : Cardinality({q \in PS : Nearer(buckets, target, q, p)}) < K}
    BY DEF FindNode, NearestOf
  <2> HIDE DEF PS, ps
  <2>3. QED
    BY <2>1, <2>2
<1> HIDE DEF PS, ps
<1>3. ps \subseteq Positions(buckets)
  BY <1>1, <1>2
<1>4. IsFiniteSet(ps) /\ Cardinality(ps) <= K
  <2>1. StrictlyOrders(R, PS)
    BY <1>1, NearerOrders
  <2> HIDE DEF R
  <2>2. QED
    BY <1>1, <1>2, <2>1, FewRanks
<1>5. \A p \in ps : Rank(p) = Cardinality(Smaller(ps, R, p))
  BY <1>3 DEF Smaller, NearerThan
<1>6. /\ Cardinality(ps) \in Nat
      /\ \A i \in 0..(Cardinality(ps) - 1) : \E p \in ps : Rank(p) = i
  <2>1. StrictlyOrders(R, ps)
    BY <1>3, NearerOrders
  <2> HIDE DEF R
  <2>2. /\ Cardinality(ps) \in Nat
        /\ \A i \in 0..(Cardinality(ps) - 1) : \E p \in ps : Cardinality(Smaller(ps, R, p)) = i
    BY <1>4, <2>1, Ranked
  <2> HIDE DEF Rank
  <2>3. QED
    BY <1>5, <2>2
<1> DEFINE Nth(i) == At(buckets, CHOOSE p \in ps : Rank(p) = i - 1)
<1>7. ASSUME NEW i \in 1..Cardinality(ps)
      PROVE  Nth(i).id \in Ids /\ Nth(i).ip \in Addrs
  <2>1. i - 1 \in 0..(Cardinality(ps) - 1)
    BY <1>6
  <2>2. \E p \in ps : Rank(p) = i - 1
    BY <1>6, <2>1
  <2> HIDE DEF Rank
  <2>3. (CHOOSE p \in ps : Rank(p) = i - 1) \in ps
    BY <2>2
  <2>4. QED
    BY <1>3, <2>3, PositionFacts
<1>8. NodesNear(target) = [i \in 1..Cardinality(ps) |-> <<Nth(i).id, Nth(i).ip>>]
  BY DEF NodesNear, ps
<1> HIDE DEF Nth
<1>9. [i \in 1..Cardinality(ps) |-> <<Nth(i).id, Nth(i).ip>>] \in Seq(Ids \X Addrs)
  BY <1>6, <1>7
<1>10. Len([i \in 1..Cardinality(ps) |-> <<Nth(i).id, Nth(i).ip>>]) = Cardinality(ps)
  BY <1>6
<1>11. QED
  BY <1>4, <1>8, <1>9, <1>10

-----------------------------------------------------------------------------
(* The inductive invariant of the session *)

TableIInv ==
    /\ Consistent(buckets, ips)
    /\ ips \subseteq Addrs /\ routers \subseteq Addrs
    /\ clock = MaxNow

PeersIInv ==
    /\ peers \in [Hashes -> SUBSET (Addrs \X ({None} \cup Port16))]
    /\ \A h \in Hashes : IsFiniteSet(peers[h])

\* A search that found nodes, or has an answer to hear, has had one; and nothing but
\* the bootstrap itself and the nap after it comes before the first.
Busy ==
    /\ answered # None => Searching /\ busy
    /\ found => busy
    /\ phase \notin {"boot", "self", "nap"} => busy

Phases == {"boot", "self", "fill", "random", "refresh", "ping", "buckets", "rest", "nap"}

LoopIInv ==
    /\ phase \in Phases
    /\ todo \subseteq Ids \X Addrs /\ visited \subseteq Addrs
    /\ answered \in Addrs \cup {None} /\ found \in BOOLEAN
    /\ filled \in 0..MaxFill
    /\ phase = "random" => filled < MaxFill
    /\ up \subseteq Addrs /\ busy \in BOOLEAN
    /\ Busy

SessionIInv == TableIInv /\ PeersIInv /\ LoopIInv

(* The types of the session, and of the table under it. *)
LEMMA SessionIInvTypes == SessionIInv => DhtTypeOK /\ Placement /\ EndpointIndex
<1> SUFFICES ASSUME SessionIInv PROVE DhtTypeOK /\ Placement /\ EndpointIndex
  OBVIOUS
<1>1. IInv
  BY IInvIsConsistent, TableAssumption DEF SessionIInv, TableIInv
<1>2. peers \in [Hashes -> SUBSET (Addrs \X ({None} \cup 0..(2^16 - 1)))]
  BY DEF SessionIInv, PeersIInv, Port16
<1>3. QED
  BY <1>1, <1>2 DEF IInv, SessionIInv, TableIInv, LoopIInv, Phases, DhtTypeOK

-----------------------------------------------------------------------------
(* Queries *)

(* What a query that may arrive holds. *)
LEMMA FormFacts ==
    ASSUME NEW m \in QueryForms(Port16)
    PROVE  /\ m.id \in Ids
           /\ m.method \in {"find_node", "sample_infohashes"} => m.target \in Ids
           /\ m.method \in {"get_peers", "announce_peer"} => m.info_hash \in Hashes
           /\ m.method = "announce_peer" => m.port \in Port16
<1>1. CASE m \in PingForms
  BY <1>1 DEF PingForms
<1>2. CASE m \in AimedForms
  BY <1>2 DEF AimedForms
<1>3. CASE m \in GetPeersForms
  BY <1>3 DEF GetPeersForms
<1>4. CASE m \in AnnounceForms(Port16)
  BY <1>4 DEF AnnounceForms
<1>5. QED
  BY <1>1, <1>2, <1>3, <1>4 DEF QueryForms

(* The sender is put in the table by the id it gave. *)
LEMMA IntroducedForms ==
    ASSUME NEW ip \in Addrs, NEW m \in Incoming[ip], Introduces(m, ip)
    PROVE  m \in QueryForms(Port16) /\ m.id \in Ids
<1>1. m \in QueryForms(Port16) \cup {[method |-> "unknown"]}
  BY IncomingForms
<1>2. m # [method |-> "unknown"]
  BY DEF Introduces, Methods
<1>3. QED
  BY <1>1, <1>2, FormFacts

(* The peers of a hash are finitely many. *)
LEMMA PeersStep ==
    ASSUME PeersIInv, NEW ip \in Addrs, NEW m \in Incoming[ip], ProcessUdp(m, ip)
    PROVE  PeersIInv'
<1>1. CASE ~(Introduces(m, ip) /\ m.method = "announce_peer")
  BY <1>1 DEF ProcessUdp, PeersIInv
<1>2. CASE Introduces(m, ip) /\ m.method = "announce_peer"
  <2>1. m.info_hash \in Hashes /\ m.port \in Port16
    BY <1>2, IntroducedForms, FormFacts
  <2>2. PICK p : p = PeerOf(m, ip)
    OBVIOUS
  <2>3. p \in Addrs \X ({None} \cup Port16)
    BY <2>1, <2>2 DEF PeerOf
  <2>4. PICK h : h = m.info_hash
    OBVIOUS
  <2>5. peers' = [peers EXCEPT ![h] = @ \cup {p}]
    BY <1>2, <2>2, <2>4 DEF ProcessUdp
  <2>6. IsFiniteSet(peers[h] \cup {p})
    BY <2>1, <2>4, FS_AddElement DEF PeersIInv
  <2>7. QED
    BY <2>1, <2>3, <2>4, <2>5, <2>6 DEF PeersIInv
<1>3. QED
  BY <1>1, <1>2

-----------------------------------------------------------------------------
(* What the session does to the table *)

(* Time passes over a node without a change of its id or endpoint. *)
LEMMA OlderFacts ==
    ASSUME NEW bs, Shaped(bs)
    PROVE  /\ Older(bs) \in Seq(Seq(Node)) /\ Len(Older(bs)) = Len(bs)
           /\ DOMAIN Older(bs) = DOMAIN bs
           /\ \A b \in DOMAIN bs :
                 /\ Len(Older(bs)[b]) = Len(bs[b])
                 /\ DOMAIN Older(bs)[b] = DOMAIN bs[b]
                 /\ \A i \in DOMAIN bs[b] :
                       /\ Older(bs)[b][i].id = bs[b][i].id
                       /\ Older(bs)[b][i].ip = bs[b][i].ip
                       /\ Older(bs)[b][i].status = bs[b][i].status
<1> DEFINE Aged(n) == [n EXCEPT !.seen = IF @ < MinAge THEN 0 ELSE @ - MinAge]
           Row(b) == [i \in DOMAIN bs[b] |-> Aged(bs[b][i])]
<1>1. ASSUME NEW n \in Node
      PROVE  /\ Aged(n) \in Node
             /\ Aged(n).id = n.id /\ Aged(n).ip = n.ip /\ Aged(n).status = n.status
  <2>1. n.seen \in 0..MaxNow
    BY DEF Node
  <2>2. (IF n.seen < MinAge THEN 0 ELSE n.seen - MinAge) \in 0..MaxNow
    BY <2>1, TableAssumption
  <2>3. QED
    BY <2>2 DEF Node
<1>2. Older(bs) = [b \in DOMAIN bs |-> Row(b)]
  BY DEF Older
<1> HIDE DEF Aged
<1>3. ASSUME NEW b \in DOMAIN bs
      PROVE  /\ Row(b) \in Seq(Node) /\ Len(Row(b)) = Len(bs[b])
             /\ DOMAIN Row(b) = DOMAIN bs[b]
             /\ \A i \in DOMAIN bs[b] :
                   /\ Row(b)[i].id = bs[b][i].id
                   /\ Row(b)[i].ip = bs[b][i].ip
                   /\ Row(b)[i].status = bs[b][i].status
  <2>1. /\ DOMAIN bs[b] = 1..Len(bs[b]) /\ Len(bs[b]) \in Nat
        /\ \A i \in DOMAIN bs[b] : bs[b][i] \in Node
    BY ShapedFacts
  <2>2. \A i \in DOMAIN bs[b] : Row(b)[i] = Aged(bs[b][i])
    OBVIOUS
  <2>3. Row(b) \in [1..Len(bs[b]) -> Node]
    BY <1>1, <2>1
  <2>4. Row(b) \in Seq(Node) /\ Len(Row(b)) = Len(bs[b])
    BY <2>1, <2>3
  <2>5. QED
    BY <1>1, <2>1, <2>2, <2>4
<1> HIDE DEF Row
<1>4. DOMAIN bs = 1..Len(bs) /\ Len(bs) \in Nat
  BY ShapedFacts
<1>5. Older(bs) \in [1..Len(bs) -> Seq(Node)]
  BY <1>2, <1>3, <1>4
<1>6. Older(bs) \in Seq(Seq(Node)) /\ Len(Older(bs)) = Len(bs) /\ DOMAIN Older(bs) = DOMAIN bs
  BY <1>4, <1>5
<1>7. \A b \in DOMAIN bs : Older(bs)[b] = Row(b)
  BY <1>2
<1>8. QED
  BY <1>3, <1>6, <1>7

(* The rest between two refreshes changes nothing but the age of the nodes. *)
LEMMA OlderConsistent ==
    ASSUME NEW bs, NEW es, Consistent(bs, es)
    PROVE  Consistent(Older(bs), es) /\ ContactsOf(Older(bs)) = ContactsOf(bs)
<1>1. Shaped(bs) /\ Placed(bs) /\ Unique(bs) /\ Indexes(es, bs)
  BY DEF Consistent
<1>2. PICK new : new = Older(bs)
  OBVIOUS
<1>3. /\ new \in Seq(Seq(Node)) /\ Len(new) = Len(bs)
      /\ DOMAIN new = DOMAIN bs
      /\ \A b \in DOMAIN bs :
            /\ Len(new[b]) = Len(bs[b])
            /\ DOMAIN new[b] = DOMAIN bs[b]
            /\ \A i \in DOMAIN bs[b] :
                  /\ new[b][i].id = bs[b][i].id
                  /\ new[b][i].ip = bs[b][i].ip
                  /\ new[b][i].status = bs[b][i].status
  BY <1>1, <1>2, OlderFacts
<1>4. Shaped(new)
  BY <1>1, <1>3 DEF Shaped
<1>5. Placed(new)
  BY <1>1, <1>3 DEF Placed
<1>6. Unique(new)
  <2>1. SUFFICES ASSUME NEW c \in DOMAIN new, NEW d \in DOMAIN new,
                        NEW j \in DOMAIN new[c], NEW k \in DOMAIN new[d],
                        new[c][j].ip = new[d][k].ip
                 PROVE  c = d /\ j = k
    BY DEF Unique
  <2>2. bs[c][j].ip = bs[d][k].ip
    BY <1>3, <2>1
  <2>3. QED
    BY <1>1, <1>3, <2>2 DEF Unique
<1>7. Indexes(es, new)
  <2>1. ASSUME NEW c \in DOMAIN new, NEW j \in DOMAIN new[c]
        PROVE  new[c][j].ip \in es
    BY <1>1, <1>3 DEF Indexes
  <2>2. ASSUME NEW ip \in es
        PROVE  \E c \in DOMAIN new : \E j \in DOMAIN new[c] : new[c][j].ip = ip
    <3>1. PICK c \in DOMAIN bs : \E j \in DOMAIN bs[c] : bs[c][j].ip = ip
      BY <1>1 DEF Indexes
    <3>2. PICK j \in DOMAIN bs[c] : bs[c][j].ip = ip
      BY <3>1
    <3>3. c \in DOMAIN new /\ j \in DOMAIN new[c] /\ new[c][j].ip = ip
      BY <1>3, <3>2
    <3>4. QED
      BY <3>3
  <2>3. QED
    BY <2>1, <2>2 DEF Indexes
<1>8. \A c : c \in ContactsOf(new) <=> c \in ContactsOf(bs)
  <2>1. \A b \in DOMAIN bs : \A i \in DOMAIN bs[b] : ContactOf(new[b][i]) = ContactOf(bs[b][i])
    BY <1>3 DEF ContactOf
  <2>2. ASSUME NEW c
        PROVE  c \in ContactsOf(new) <=> c \in ContactsOf(bs)
    <3>1. c \in ContactsOf(new) <=>
              \E b \in DOMAIN new : \E i \in DOMAIN new[b] : c = ContactOf(new[b][i])
      BY ListedSomewhere
    <3>2. c \in ContactsOf(bs) <=>
              \E b \in DOMAIN bs : \E i \in DOMAIN bs[b] : c = ContactOf(bs[b][i])
      BY ListedSomewhere
    <3>3. QED
      BY <1>3, <2>1, <3>1, <3>2
  <2>3. QED
    BY <2>2
<1>9. QED
  BY <1>2, <1>4, <1>5, <1>6, <1>7, <1>8 DEF Consistent

\* A call of one of the table's methods, the rest between two refreshes, or neither.
TableCall ==
    \/ \E id \in Ids, ip \in Addrs : UpdateOn(buckets, id, ip)
    \/ \E id \in Ids, ip \in Addrs : AddNode(id, ip)
    \/ \E id \in Ids : NodeTimeout(id)
    \/ NextRefreshNode
    \/ buckets' = Older(buckets) /\ ips' = ips
    \/ buckets' = buckets /\ ips' = ips

(* Whichever it is, the table stays consistent, and seen from outside one  *)
(* contact changes at most.                                                *)
LEMMA TableCalled ==
    ASSUME TableIInv, TableCall
    PROVE  /\ Consistent(buckets', ips') /\ ips' \subseteq Addrs
           /\ OnlyContacts => ContactStep(ContactsOf(buckets), ContactsOf(buckets'))
<1> DEFINE Done == /\ Consistent(buckets', ips') /\ ips' \subseteq Addrs
                   /\ OnlyContacts => ContactStep(ContactsOf(buckets), ContactsOf(buckets'))
<1>1. Consistent(buckets, ips) /\ ips \subseteq Addrs /\ clock \in 0..MaxNow
  BY TableAssumption DEF TableIInv
<1>2. ASSUME NEW id \in Ids, NEW ip \in Addrs, UpdateOn(buckets, id, ip)
      PROVE  Done
  <2>1. Consistent(buckets', ips') /\ ips' \subseteq Addrs
    BY <1>1, <1>2, UpdateConsistent
  <2>2. OnlyContacts => ContactStep(ContactsOf(buckets), ContactsOf(buckets'))
    BY <1>1, <1>2, UpdateContacts DEF OnlyContacts
  <2>3. QED
    BY <2>1, <2>2
<1>3. ASSUME NEW id \in Ids, NEW ip \in Addrs, AddNode(id, ip)
      PROVE  Done
  <2>1. Consistent(buckets', ips') /\ ips' \subseteq Addrs
    BY <1>1, <1>3, AddConsistent
  <2>2. OnlyContacts => ContactStep(ContactsOf(buckets), ContactsOf(buckets'))
    BY <1>1, <1>3, AddContacts DEF OnlyContacts
  <2>3. QED
    BY <2>1, <2>2
<1>4. ASSUME NEW id \in Ids, NodeTimeout(id)
      PROVE  Done
  <2>1. Consistent(buckets', ips') /\ ips' \subseteq Addrs
    BY <1>1, <1>4, TimeoutConsistent
  <2>2. OnlyContacts => ContactStep(ContactsOf(buckets), ContactsOf(buckets'))
    BY <1>1, <1>4, TimeoutContacts DEF OnlyContacts
  <2>3. QED
    BY <2>1, <2>2
<1>5. CASE NextRefreshNode
  <2>1. Consistent(buckets', ips')
    BY <1>1, <1>5, RefreshConsistent
  <2>2. ips' = ips
    BY <1>5 DEF NextRefreshNode
  <2>3. OnlyContacts => ContactsOf(buckets') = ContactsOf(buckets)
    BY <1>1, <1>5, RefreshContacts DEF OnlyContacts
  <2>4. QED
    BY <1>1, <2>1, <2>2, <2>3 DEF ContactStep
<1>6. CASE buckets' = Older(buckets) /\ ips' = ips
  <2>1. Consistent(Older(buckets), ips) /\ ContactsOf(Older(buckets)) = ContactsOf(buckets)
    BY <1>1, OlderConsistent
  <2>2. QED
    BY <1>1, <1>6, <2>1 DEF ContactStep
<1>7. CASE buckets' = buckets /\ ips' = ips
  BY <1>1, <1>7 DEF ContactStep
<1>8. QED
  BY <1>2, <1>3, <1>4, <1>5, <1>6, <1>7 DEF TableCall

-----------------------------------------------------------------------------
(* The steps of the session *)

(* What is stored may be asked: the queue of the bootstrap, and the pings. *)
LEMMA StoredTyped ==
    ASSUME Shaped(buckets)
    PROVE  /\ Stored \subseteq Ids \X Addrs
           /\ {<<At(buckets, p).id, At(buckets, p).ip>> : p \in RefreshTarget} \subseteq Ids \X Addrs
<1>1. ASSUME NEW n \in Entries(buckets)
      PROVE  n.id \in Ids /\ n.ip \in Addrs
  <2>1. PICK b \in DOMAIN buckets : n \in Range(buckets[b])
    BY DEF Entries
  <2>2. PICK i \in DOMAIN buckets[b] : n = buckets[b][i]
    BY <2>1 DEF Range
  <2>3. QED
    BY <2>2, ShapedFacts
<1>2. Stored \subseteq Ids \X Addrs
  BY <1>1 DEF Stored
<1>3. ASSUME NEW p \in RefreshTarget
      PROVE  At(buckets, p).id \in Ids /\ At(buckets, p).ip \in Addrs
  BY PositionFacts DEF RefreshTarget
<1>4. QED
  BY <1>2, <1>3

(* find_node gives a search nodes to ask. *)
LEMMA RangeTyped ==
    ASSUME TableIInv, NEW id \in Ids
    PROVE  Range(NodesNear(id)) \subseteq Ids \X Addrs
<1>1. NodesNear(id) \in Seq(Ids \X Addrs)
  BY NodesNearTyped DEF TableIInv, Consistent
<1>2. QED
  BY <1>1 DEF Range

(* Every step of the session calls one method of the table at most. *)
LEMMA SessionCalls ==
    ASSUME TableIInv, LoopIInv, [DhtNext]_svars
    PROVE  TableCall /\ routers' \subseteq Addrs /\ clock' = clock
<1>1. routers \subseteq Addrs /\ todo \subseteq Ids \X Addrs /\ answered \in Addrs \cup {None}
  BY DEF TableIInv, LoopIInv
<1>2. ASSUME buckets' = buckets, ips' = ips, routers' \subseteq Addrs, clock' = clock
      PROVE  TableCall /\ routers' \subseteq Addrs /\ clock' = clock
  BY <1>2 DEF TableCall
<1>3. ASSUME NEW e \in todo, Fails(e[1], e[2])
      PROVE  TableCall /\ routers' \subseteq Addrs /\ clock' = clock
  <2>1. e[1] \in Ids /\ routers' = routers /\ clock' = clock
    BY <1>1, <1>3 DEF Fails
  <2>2. CASE NodeTimeout(e[1])
    BY <1>1, <2>1, <2>2 DEF TableCall
  <2>3. CASE buckets' = buckets /\ ips' = ips
    BY <1>1, <2>1, <2>3 DEF TableCall
  <2>4. QED
    BY <1>3, <2>2, <2>3 DEF Fails, OnFailure
<1>4. ASSUME NEW e \in todo, Succeeds(e[1], e[2])
      PROVE  TableCall /\ routers' \subseteq Addrs /\ clock' = clock
  <2>1. e[1] \in Ids /\ e[2] \in Addrs /\ routers' = routers /\ clock' = clock
    BY <1>1, <1>4 DEF Succeeds
  <2>2. CASE e[1] = Zero
    BY <1>1, <1>4, <2>1, <2>2 DEF TableCall, Succeeds
  <2>3. CASE e[1] # Zero
    <3>1. UpdateOn(buckets, e[1], e[2])
      BY <1>4, <2>3 DEF Succeeds
    <3>2. QED
      BY <1>1, <2>1, <3>1 DEF TableCall
  <2>4. QED
    BY <2>2, <2>3
<1>5. CASE Joined
  <2>1. answered \in Addrs /\ IdOf[answered] \in Ids
    BY <1>1, <1>5, SessionAssumption DEF Joined
  <2>2. AddNode(IdOf[answered], answered) /\ routers' = routers /\ clock' = clock
    BY <1>5 DEF Joined, AddNode
  <2>3. QED
    BY <1>1, <2>1, <2>2 DEF TableCall
<1>6. CASE Bootstrap
  BY <1>1, <1>2, <1>6, SessionAssumption DEF Bootstrap
<1>7. CASE SearchEnds \/ Fill \/ TooFew \/ Pinged \/ Napped
  BY <1>1, <1>2, <1>7 DEF SearchEnds, Fill, TooFew, Pinged, Napped, table
<1>8. CASE Ping
  <2>1. NextRefreshNode
    BY <1>8 DEF Ping
  <2>2. QED
    BY <1>1, <2>1 DEF TableCall, NextRefreshNode
<1>9. CASE Rested
  BY <1>1, <1>9 DEF Rested, TableCall
<1>10. ASSUME NEW ip \in up \ RouterIps, NEW m \in Incoming[ip], ProcessUdp(m, ip)
       PROVE  TableCall /\ routers' \subseteq Addrs /\ clock' = clock
  <2>1. ip \in Addrs /\ routers' = routers /\ clock' = clock
    BY <1>10 DEF ProcessUdp, LoopIInv
  <2>2. CASE Introduces(m, ip)
    <3>1. m.id \in Ids
      BY <2>1, <2>2, IntroducedForms
    <3>2. UpdateOn(buckets, m.id, ip)
      BY <1>10, <2>2 DEF ProcessUdp
    <3>3. QED
      BY <1>1, <2>1, <3>1, <3>2 DEF TableCall
  <2>3. CASE ~Introduces(m, ip)
    BY <1>1, <1>10, <2>1, <2>3 DEF ProcessUdp, TableCall
  <2>4. QED
    BY <2>2, <2>3
<1>11. CASE ClearPeers \/ (\E ip \in Mortal : Flip(ip)) \/ UNCHANGED svars
  BY <1>1, <1>2, <1>11 DEF ClearPeers, Flip, svars, table
<1>12. QED
  BY <1>3, <1>4, <1>5, <1>6, <1>7, <1>8, <1>9, <1>10, <1>11 DEF DhtNext, LoopStep

(* The peers change by announcements, and are cleared. *)
LEMMA PeersKept ==
    ASSUME LoopIInv, PeersIInv, [DhtNext]_svars
    PROVE  PeersIInv'
<1>1. ASSUME peers' = peers
      PROVE  PeersIInv'
  BY <1>1 DEF PeersIInv
<1>2. CASE LoopStep
  <2>1. peers' = peers
    BY <1>2 DEF LoopStep, Fails, Succeeds, Joined, Bootstrap, SearchEnds, Fill, TooFew, Ping,
       Pinged, Rested, Napped, Quiet
  <2>2. QED
    BY <1>1, <2>1
<1>3. ASSUME NEW ip \in up \ RouterIps, NEW m \in Incoming[ip], ProcessUdp(m, ip)
      PROVE  PeersIInv'
  <2>1. ip \in Addrs
    BY DEF LoopIInv
  <2>2. QED
    BY <1>3, <2>1, PeersStep
<1>4. CASE ClearPeers
  BY <1>4, FS_EmptySet DEF ClearPeers, PeersIInv
<1>5. CASE (\E ip \in Mortal : Flip(ip)) \/ UNCHANGED svars
  BY <1>1, <1>5 DEF Flip, svars
<1>6. QED
  BY <1>2, <1>3, <1>4, <1>5 DEF DhtNext

(* The main loop: types, and that a second bootstrap has had a reason. *)
LEMMA LoopKept ==
    ASSUME TableIInv, LoopIInv, [DhtNext]_svars
    PROVE  LoopIInv' /\ (phase # "boot" /\ phase' = "boot" => busy')
<1> DEFINE Done == LoopIInv' /\ (phase # "boot" /\ phase' = "boot" => busy')
<1>0. /\ MaxFill \in Nat /\ RouterIps \subseteq Addrs /\ Mortal \subseteq Addrs
      /\ None \notin Addrs /\ Told \subseteq Ids \X Addrs /\ Zero \in Ids
  BY SessionAssumption, TableAssumption
<1>1. Shaped(buckets)
  BY DEF TableIInv, Consistent
<1>2. ASSUME UNCHANGED loop, up' \subseteq Addrs, busy' = busy
      PROVE  Done
  BY <1>2 DEF LoopIInv, Busy, Phases, Searching, loop
<1>3. ASSUME NEW e \in todo, Fails(e[1], e[2])
      PROVE  Done
  <2>1. e[2] \in Addrs
    BY DEF LoopIInv
  <2>2. QED
    BY <1>3, <2>1 DEF Fails, LoopIInv, Busy, Phases, Searching
<1>4. ASSUME NEW e \in todo, Succeeds(e[1], e[2])
      PROVE  Done
  <2>1. e[2] \in Addrs
    BY DEF LoopIInv
  <2>2. QED
    BY <1>4, <2>1 DEF Succeeds, LoopIInv, Busy, Phases, Searching
<1>5. CASE Joined
  <2>1. PICK nodes \in SUBSET Told :
          /\ todo' = todo \cup {n \in nodes : n[2] \notin visited'}
          /\ found' = (found \/ nodes # {})
    BY <1>5 DEF Joined
  <2>2. todo' \subseteq Ids \X Addrs /\ found' \in BOOLEAN
    BY <1>0, <2>1 DEF LoopIInv
  <2>3. /\ answered # None /\ answered' = None /\ visited' = visited \cup {answered}
        /\ UNCHANGED <<phase, filled, up, busy>>
    BY <1>5 DEF Joined
  <2>4. QED
    BY <2>2, <2>3 DEF LoopIInv, Busy, Phases, Searching
<1>6. CASE Bootstrap
  <2>1. PICK resolved \in SUBSET RouterIps : todo' = Stored \cup {<<Zero, ip>> : ip \in resolved}
    BY <1>6 DEF Bootstrap, Search
  <2>2. todo' \subseteq Ids \X Addrs
    BY <1>0, <1>1, <2>1, StoredTyped
  <2>3. /\ phase = "boot" /\ phase' = "self" /\ busy' = FALSE
        /\ visited' = {} /\ found' = FALSE
        /\ UNCHANGED <<filled, up, answered>>
    BY <1>6 DEF Bootstrap, Search, Quiet
  <2>4. QED
    BY <2>2, <2>3 DEF LoopIInv, Busy, Phases, Searching
<1>7. CASE SearchEnds
  <2>1. /\ Searching /\ answered = None /\ answered' = None
        /\ todo' = {} /\ visited' = {} /\ found' = FALSE /\ UNCHANGED <<up, busy>>
    BY <1>7 DEF SearchEnds, Quiet
  <2>2. CASE phase = "self"
    <3>1. phase' = AfterSelf /\ filled' = 0
      BY <1>7, <2>2 DEF SearchEnds
    <3>2. phase' \in {"fill", "nap"} /\ (phase' = "fill" => busy)
      BY <3>1 DEF AfterSelf, LoopIInv, Busy
    <3>3. filled' \in 0..MaxFill
      BY <1>0, <3>1
    <3>4. QED
      BY <2>1, <3>1, <3>2, <3>3 DEF LoopIInv, Busy, Phases, Searching
  <2>3. CASE phase = "random"
    <3>1. phase' = "fill" /\ filled' = filled + 1
      BY <1>7, <2>3 DEF SearchEnds
    <3>2. filled' \in 0..MaxFill /\ busy
      BY <1>0, <2>3, <3>1 DEF LoopIInv, Busy
    <3>3. QED
      BY <2>1, <3>1, <3>2 DEF LoopIInv, Busy, Phases, Searching
  <2>4. CASE phase = "buckets"
    <3>1. phase' = "rest" /\ filled' = 0
      BY <1>7, <2>4 DEF SearchEnds
    <3>2. busy
      BY <2>4 DEF LoopIInv, Busy
    <3>3. filled' \in 0..MaxFill
      BY <1>0, <3>1
    <3>4. QED
      BY <2>1, <3>1, <3>2, <3>3 DEF LoopIInv, Busy, Phases, Searching
  <2>5. QED
    BY <2>1, <2>2, <2>3, <2>4 DEF Searching
<1>8. CASE Fill
  <2>1. phase = "fill" /\ busy' = busy /\ busy /\ UNCHANGED <<up, answered>> /\ answered = None
    BY <1>8 DEF Fill, Quiet, LoopIInv, Busy, Searching
  <2>2. CASE Cardinality(ips) >= Plenty \/ filled = MaxFill
    <3>1. phase' = "refresh" /\ filled' = 0 /\ UNCHANGED <<todo, visited, found>>
      BY <1>8, <2>2 DEF Fill
    <3>2. QED
      BY <1>0, <2>1, <3>1 DEF LoopIInv, Busy, Phases, Searching
  <2>3. CASE ~(Cardinality(ips) >= Plenty \/ filled = MaxFill)
    <3>1. filled < MaxFill
      BY <1>0, <2>3 DEF LoopIInv
    <3>2. PICK id \in Ids :
            IF NodesNear(id) = << >>
            THEN filled' = filled + 1 /\ UNCHANGED <<phase, todo, visited, found>>
            ELSE phase' = "random" /\ Search(Range(NodesNear(id))) /\ UNCHANGED filled
      BY <1>8, <2>3 DEF Fill
    <3>3. CASE NodesNear(id) = << >>
      <4>1. filled' = filled + 1 /\ UNCHANGED <<phase, todo, visited, found>>
        BY <3>2, <3>3
      <4>2. filled' \in 0..MaxFill
        BY <1>0, <3>1, <4>1 DEF LoopIInv
      <4>3. QED
        BY <2>1, <4>1, <4>2 DEF LoopIInv, Busy, Phases, Searching
    <3>4. CASE NodesNear(id) # << >>
      <4>1. /\ phase' = "random" /\ todo' = Range(NodesNear(id)) /\ visited' = {}
            /\ found' = FALSE /\ filled' = filled
        BY <3>2, <3>4 DEF Search
      <4>2. todo' \subseteq Ids \X Addrs
        BY <4>1, RangeTyped
      <4>3. QED
        BY <2>1, <3>1, <4>1, <4>2 DEF LoopIInv, Busy, Phases, Searching
    <3>5. QED
      BY <3>3, <3>4
  <2>4. QED
    BY <2>2, <2>3
<1>9. CASE TooFew
  <2>1. /\ phase = "refresh" /\ phase' = "boot"
        /\ UNCHANGED <<todo, visited, found, filled, up, answered, busy>>
    BY <1>9 DEF TooFew, Quiet
  <2>2. busy /\ answered = None
    BY <2>1 DEF LoopIInv, Busy, Searching
  <2>3. QED
    BY <2>1, <2>2 DEF LoopIInv, Busy, Phases, Searching
<1>10. CASE Ping
  <2>1. todo' \subseteq Ids \X Addrs
    BY <1>1, <1>10, StoredTyped DEF Ping, LoopIInv
  <2>2. /\ phase \in {"refresh", "ping"} /\ phase' = "ping" /\ busy' = TRUE
        /\ UNCHANGED <<visited, found, filled, up, answered>>
    BY <1>10 DEF Ping, Quiet
  <2>3. QED
    BY <2>1, <2>2 DEF LoopIInv, Busy, Phases, Searching
<1>11. CASE Pinged
  <2>1. PICK s \in SUBSET Ids : todo' = UNION {Range(NodesNear(id)) : id \in s}
    <3> DEFINE ids == UNION {RandWithPrefix(b) : b \in LessNodeBuckets}
               OnePerBucket(s) == \A i \in ids : Cardinality({j \in s : Clz[i] = Clz[j]}) = 1
    <3>1. PICK s \in {t \in SUBSET ids : OnePerBucket(t)} :
              Search(UNION {Range(NodesNear(id)) : id \in s})
      BY <1>11 DEF Pinged
    <3>2. s \in SUBSET ids
      OBVIOUS
    <3>3. ids \subseteq Ids
      BY DEF RandWithPrefix
    <3>4. s \in SUBSET Ids
      BY <3>2, <3>3
    <3>5. QED
      BY <3>1, <3>4 DEF Search
  <2>2. todo' \subseteq Ids \X Addrs
    BY <2>1, RangeTyped
  <2>3. /\ phase \in {"refresh", "ping"} /\ phase' = "buckets" /\ busy' = TRUE
        /\ visited' = {} /\ found' = FALSE /\ UNCHANGED <<filled, up, answered>>
    BY <1>11 DEF Pinged, Search, Quiet
  <2>4. QED
    BY <2>2, <2>3 DEF LoopIInv, Busy, Phases, Searching
<1>12. CASE Rested
  <2>1. /\ phase = "rest" /\ phase' = "refresh" /\ busy' = TRUE
        /\ UNCHANGED <<todo, visited, found, filled, up, answered>>
    BY <1>12 DEF Rested, Quiet
  <2>2. QED
    BY <2>1 DEF LoopIInv, Busy, Phases, Searching
<1>13. CASE Napped
  <2>1. /\ phase = "nap" /\ phase' = "boot" /\ busy' = TRUE
        /\ UNCHANGED <<todo, visited, found, filled, up, answered>>
    BY <1>13 DEF Napped, Quiet
  <2>2. QED
    BY <2>1 DEF LoopIInv, Busy, Phases, Searching
<1>14. ASSUME NEW ip \in up \ RouterIps, NEW m \in Incoming[ip], ProcessUdp(m, ip)
       PROVE  Done
  BY <1>2, <1>14 DEF ProcessUdp, LoopIInv
<1>15. CASE ClearPeers \/ UNCHANGED svars
  BY <1>2, <1>15 DEF ClearPeers, svars, LoopIInv
<1>16. ASSUME NEW ip \in Mortal, Flip(ip)
       PROVE  Done
  BY <1>0, <1>2, <1>16 DEF Flip, LoopIInv
<1>17. QED
  BY <1>3, <1>4, <1>5, <1>6, <1>7, <1>8, <1>9, <1>10, <1>11, <1>12, <1>13, <1>14, <1>15, <1>16
     DEF DhtNext, LoopStep

-----------------------------------------------------------------------------
(* Answers *)

(* The elements of a finite set, one after the other. *)
LEMMA SetToSeqTokens ==
    ASSUME NEW S, IsFiniteSet(S)
    PROVE  IsTokens(SetToSeq(S))
<1>1. Cardinality(S) \in Nat /\ ExistsBijection(1..Cardinality(S), S)
  BY FS_CardinalityType
<1>2. PICK f : f \in Bijection(1..Cardinality(S), S)
  BY <1>1 DEF ExistsBijection
<1>3. f \in [1..Cardinality(S) -> S] /\ IsInjective(f)
  BY <1>2 DEF Bijection, Injection, IsInjective
<1>4. SetToSeq(S) \in [1..Cardinality(S) -> S]
  BY <1>3 DEF SetToSeq
<1>5. SetToSeq(S) \in Seq(S)
  BY <1>1, <1>4
<1>6. QED
  BY <1>5 DEF IsTokens

(* find_node of the table answers with few enough nodes to be told apart. *)
LEMMA NodesNearFew ==
    ASSUME TableIInv, NEW id \in Ids
    PROVE  AreFew(NodesNear(id))
<1>1. NodesNear(id) \in Seq(Ids \X Addrs) /\ Len(NodesNear(id)) <= K
  BY NodesNearTyped DEF TableIInv, Consistent
<1>2. Len(NodesNear(id)) < 13
  BY <1>1, AnswerAssumption, TableAssumption
<1>3. QED
  BY <1>1, <1>2 DEF AreFew

(* Every answer of a session in shape is read as it was given. *)
LEMMA RepliesReadBack ==
    ASSUME SessionIInv, NEW ip \in Addrs, NEW m \in Incoming[ip],
           NEW reply \in RepliesTo(m, ip),
           m.method \in Methods \ {"sample_infohashes"},
           NEW family \in {"v4", "v6"}
    PROVE  ExtractReply(m.method, ReplyPacket(family, reply))
              = IF reply.method = "error" THEN {} ELSE {reply}
<1>1. m \in QueryForms(Port16)
  <2>1. m # [method |-> "unknown"]
    BY DEF Methods
  <2>2. QED
    BY <2>1, IncomingForms
<1>2. TableIInv /\ PeersIInv /\ Hashes \subseteq Ids
  BY SessionAssumption DEF SessionIInv
<1>3. CASE m.method = "ping"
  <2>1. reply = [method |-> "ping", id |-> Self]
    BY <1>3 DEF RepliesTo
  <2>2. reply.method = m.method /\ reply.method # "error"
    BY <1>3, <2>1
  <2>3. ExtractReply(reply.method, ReplyPacket(family, reply)) = {reply}
    BY <2>1, ReplyRoundTrip
  <2>4. QED
    BY <2>2, <2>3
<1>4. CASE m.method = "find_node"
  <2>1. reply = [method |-> "find_node", id |-> Self, nodes |-> NodesNear(m.target)]
    BY <1>4 DEF RepliesTo
  <2>2. reply.method = m.method /\ reply.method # "error"
    BY <1>4, <2>1
  <2>3. AreFew(NodesNear(m.target))
    BY <1>1, <1>2, <1>4, FormFacts, NodesNearFew
  <2>4. ExtractReply(reply.method, ReplyPacket(family, reply)) = {reply}
    BY <2>1, <2>3, ReplyRoundTrip
  <2>5. QED
    BY <2>2, <2>4
<1>5. CASE m.method = "get_peers"
  <2>1. m.info_hash \in Hashes /\ m.info_hash \in Ids
    BY <1>1, <1>2, <1>5, FormFacts
  <2>2. PICK s \in Chosen(peers[m.info_hash]) :
          reply = [method |-> "get_peers", id |-> Self, token |-> TokenOf(ip),
                   nodes |-> NodesNear(m.info_hash), values |-> SetToSeq(s)]
    BY <1>5 DEF RepliesTo
  <2>3. IsFiniteSet(s)
    <3>1. IsFiniteSet(peers[m.info_hash])
      BY <1>2, <2>1 DEF PeersIInv
    <3>2. s \subseteq peers[m.info_hash]
      BY DEF Chosen, kSubset
    <3>3. QED
      BY <3>1, <3>2, FS_Subset
  <2>4. AreFew(NodesNear(m.info_hash)) /\ IsTokens(SetToSeq(s))
    BY <1>2, <2>1, <2>3, NodesNearFew, SetToSeqTokens
  <2>5. reply.method = m.method /\ reply.method # "error"
    BY <1>5, <2>2
  <2>6. ExtractReply(reply.method, ReplyPacket(family, reply)) = {reply}
    BY <2>2, <2>4, ReplyRoundTrip
  <2>7. QED
    BY <2>5, <2>6
<1>6. CASE m.method = "announce_peer"
  <2>1. CASE m.token = TokenOf(ip)
    <3>1. reply = [method |-> "announce_peer", id |-> Self]
      BY <1>6, <2>1 DEF RepliesTo
    <3>2. reply.method = m.method /\ reply.method # "error"
      BY <1>6, <3>1
    <3>3. ExtractReply(reply.method, ReplyPacket(family, reply)) = {reply}
      BY <3>1, ReplyRoundTrip
    <3>4. QED
      BY <3>2, <3>3
  <2>2. CASE m.token # TokenOf(ip)
    <3>1. reply = [method |-> "error", code |-> 203]
      BY <1>6, <2>2 DEF RepliesTo
    <3>2. reply.method = "error"
      BY <3>1
    <3>3. QED
      BY <1>6, <3>2, ErrorIsNoReply
  <2>3. QED
    BY <2>1, <2>2
<1>7. QED
  BY <1>3, <1>4, <1>5, <1>6 DEF Methods

-----------------------------------------------------------------------------
(* The session begins in its invariant. *)
LEMMA InitSessionIInv == DhtInit => SessionIInv /\ OnlyContacts
<1> SUFFICES ASSUME DhtInit PROVE SessionIInv /\ OnlyContacts
  OBVIOUS
<1>1. /\ buckets = << <<>> >>
      /\ ips = {} /\ routers = {} /\ clock = MaxNow
  BY DEF DhtInit
<1>2. /\ buckets \in Seq(Seq(Node))
      /\ Len(buckets) = 1
      /\ DOMAIN buckets = {1}
      /\ buckets[1] = <<>>
      /\ Len(buckets[1]) = 0
      /\ DOMAIN buckets[1] = {}
  BY <1>1
<1>3. Shaped(buckets)
  BY <1>2, TableAssumption DEF Shaped
<1>4. Placed(buckets) /\ Unique(buckets) /\ Indexes(ips, buckets)
  BY <1>1, <1>2 DEF Placed, Unique, Indexes
<1>5. TableIInv
  BY <1>1, <1>3, <1>4 DEF TableIInv, Consistent
<1>6. PeersIInv
  BY FS_EmptySet DEF DhtInit, PeersIInv
<1>7. LoopIInv
  <2>1. 0 \in 0..MaxFill
    BY SessionAssumption
  <2>2. QED
    BY <2>1 DEF DhtInit, LoopIInv, Busy, Phases
<1>8. OnlyContacts
  <2>1. ContactsOf(buckets) = {}
    BY <1>2, ListedSomewhere
  <2>2. QED
    BY <2>1 DEF OnlyContacts
<1>9. QED
  BY <1>5, <1>6, <1>7, <1>8 DEF SessionIInv

(* Every step of the session keeps it. *)
LEMMA NextSessionIInv == SessionIInv /\ [DhtNext]_svars => SessionIInv'
<1> SUFFICES ASSUME SessionIInv, [DhtNext]_svars PROVE SessionIInv'
  OBVIOUS
<1>1. TableIInv /\ PeersIInv /\ LoopIInv
  BY DEF SessionIInv
<1>2. Consistent(buckets', ips') /\ ips' \subseteq Addrs /\ routers' \subseteq Addrs /\ clock' = clock
  BY <1>1, SessionCalls, TableCalled
<1>3. TableIInv'
  BY <1>1, <1>2 DEF TableIInv, Consistent, Shaped, Placed, Unique, Indexes
<1>4. PeersIInv' /\ LoopIInv'
  BY <1>1, PeersKept, LoopKept
<1>5. QED
  BY <1>3, <1>4 DEF SessionIInv

(* The inductive invariant of the session holds in every reachable state:   *)
(* a consistent table, peers that are finitely many, and a loop that has    *)
(* heard from somebody whenever it has gone past its bootstrap.             *)
THEOREM SessionInvariant == DhtSpec => []SessionIInv
BY InitSessionIInv, NextSessionIInv, PTL DEF DhtSpec

(* Queries of others and the main loop leave the table, the peers and the   *)
(* loop's own state in shape, and whatever is answered is read by the other *)
(* end as it was given.                                                     *)
THEOREM QueriesInvHolds == DhtSpec => []QueriesInv
<1>1. SessionIInv => QueriesInv
  <2> SUFFICES ASSUME SessionIInv PROVE QueriesInv
    OBVIOUS
  <2>1. ReadBack
    BY RepliesReadBack DEF ReadBack
  <2>2. QED
    BY <2>1, SessionIInvTypes DEF QueriesInv
<1>2. QED
  BY <1>1, SessionInvariant, PTL

(* From one bootstrap to the next the loop has slept, or had an answer.     *)
THEOREM NeverHotHolds == DhtSpec => NeverHot
<1>1. SessionIInv /\ [DhtNext]_svars => [phase # "boot" /\ phase' = "boot" => busy']_svars
  BY LoopKept DEF SessionIInv
<1>2. QED
  BY <1>1, SessionInvariant, PTL DEF DhtSpec, NeverHot

(* In the hands of the session the table still is a set of contacts: what   *)
(* a query, an answer, a timeout, a search or a refresh does to it, seen    *)
(* from outside, changes one contact or none.                               *)
THEOREM SessionImplementsContactSet == DhtSpec => RefinesContactSet
<1>1. DhtInit => OnlyContacts /\ Contacts!Init
  <2> SUFFICES ASSUME DhtInit PROVE OnlyContacts /\ Contacts!Init
    OBVIOUS
  <2>1. buckets = << <<>> >>
    BY DEF DhtInit
  <2>2. DOMAIN buckets = {1} /\ DOMAIN buckets[1] = {}
    BY <2>1
  <2>3. ContactsOf(buckets) = {}
    BY <2>2, ListedSomewhere
  <2>4. QED
    BY <2>3 DEF OnlyContacts, Contacts!Init
<1>2. SessionIInv /\ OnlyContacts /\ [DhtNext]_svars
          => ContactStep(ContactsOf(buckets), ContactsOf(buckets'))
  BY SessionCalls, TableCalled DEF SessionIInv
<1>3. SessionIInv /\ OnlyContacts /\ [DhtNext]_svars => OnlyContacts'
  <2> SUFFICES ASSUME SessionIInv, OnlyContacts, [DhtNext]_svars PROVE OnlyContacts'
    OBVIOUS
  <2>1. ContactsOf(buckets') \subseteq Contacts!Contact
    BY <1>2, ContactStepKeepsContacts DEF OnlyContacts
  <2>2. QED
    BY <2>1 DEF OnlyContacts, ContactsOf, Entries, Range, Contacts!Contact, Contacts!Grades
<1>4. SessionIInv /\ OnlyContacts /\ [DhtNext]_svars => [Contacts!Next]_(ContactsOf(buckets))
  <2> SUFFICES ASSUME SessionIInv, OnlyContacts, [DhtNext]_svars
               PROVE  [Contacts!Next]_(ContactsOf(buckets))
    OBVIOUS
  <2>1. PICK s : s = ContactsOf(buckets)
    OBVIOUS
  <2>2. PICK t : t = ContactsOf(buckets')
    OBVIOUS
  <2>3. ContactsOf(buckets)' = t
    BY <2>2 DEF ContactsOf, Entries, Range
  <2>4. ContactStep(s, t)
    BY <1>2, <2>1, <2>2
  <2>5. QED
    BY <2>1, <2>3, <2>4 DEF ContactStep, Contacts!Next, Contacts!Learn, Contacts!Heard,
       Contacts!Missed, Contacts!Drop
<1>5. QED
  BY <1>1, <1>3, <1>4, SessionInvariant, PTL DEF DhtSpec, RefinesContactSet, Contacts!Spec
=============================================================================
