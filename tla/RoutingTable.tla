---------------------------- MODULE RoutingTable ----------------------------
(***************************************************************************)
(* The Kademlia routing table of dht/routing_table.rs.  Every public       *)
(* method runs under the session's RwLock, so each is one step.            *)
(*                                                                         *)
(* Buckets are numbered from 1 where the code counts from 0: bucket 1 is   *)
(* the farthest, the last one covers this node's own id and is the only    *)
(* one that can be split.  A bucket is the Vec of the code, in its order:  *)
(* which of two entries with the same id is found first depends on it.     *)
(*                                                                         *)
(* Left out: KBucket.pending (never used) and KBucket.last_seen (written,  *)
(* never read).                                                            *)
(***************************************************************************)
EXTENDS Integers, FiniteSets, Sequences, SequencesExt, SeqHelpers

CONSTANTS
    Ids,         \* node identifiers
    Zero,        \* the all-zero identifier
    Self,        \* this node's identifier
    Addrs,       \* socket addresses
    K,           \* KBUCKET_SIZE, 8 in the code
    MaxBuckets,  \* 160 in the code
    Clz,         \* Clz[i]: leading zero bits of Self ^ i
    Dist,        \* Dist[i, j]: i ^ j read as a number
    MinAge,      \* the age from which next_refresh_node hands a node out
    MaxNow       \* bound: the wall clock shows 0..MaxNow

ASSUME TableAssumption ==
    /\ K \in Nat \ {0}
    /\ MaxBuckets \in Nat \ {0}
    /\ MinAge \in Nat \ {0}
    /\ MaxNow \in Nat
    /\ Zero \in Ids
    /\ Self \in Ids
    /\ Clz \in [Ids -> Nat]

\* What XOR and leading_zeros have to do with each other: an id that leaves this
\* node's own where the target does, or both later than y does, is nearer to the
\* target than y; and no two ids are at the same distance.
ASSUME DistanceAssumption ==
    /\ Dist \in [Ids \X Ids -> Nat]
    /\ \A target, x, y \in Ids :
          \/ Clz[x] = Clz[target] /\ Clz[y] # Clz[target]
          \/ Clz[y] < Clz[x] /\ Clz[y] < Clz[target]
          => Dist[x, target] < Dist[y, target]
    /\ \A target, x, y \in Ids : Dist[x, target] = Dist[y, target] => x = y

VARIABLES
    buckets,   \* the Vec<KBucket>, each bucket its Vec<Node>
    ips,       \* the endpoints of the stored nodes
    routers,   \* the endpoints of the bootstrap nodes
    clock      \* what SystemTime::now() returns; it may be set back

vars == <<buckets, ips, routers, clock>>

Status == {"Good", "Questionable", "Bad"}

Node == [id : Ids, ip : Addrs, status : Status, seen : 0..MaxNow]

-----------------------------------------------------------------------------
(* Where things are *)

\* <<bucket, index>> of every stored node.
Positions(bs) == UNION {{b} \X (DOMAIN bs[b]) : b \in DOMAIN bs}

At(bs, p) == bs[p[1]][p[2]]

Entries(bs) == UNION {Range(bs[b]) : b \in DOMAIN bs}

BucketIndex(id, len) == IF Clz[id] < len THEN Clz[id] + 1 ELSE len

\* The first node of a bucket with this id, 0 when there is none.
FirstWithId(nodes, id) ==
    LET found == {i \in DOMAIN nodes : nodes[i].id = id}
    IN  IF found = {} THEN 0 ELSE Min(found)

-----------------------------------------------------------------------------
(* split_bucket, n times over: a node of the last bucket goes to the bucket *)
(* of its prefix length when that is one of those split off, and to the new *)
(* last bucket otherwise, "wrong" ones included.                            *)

\* Mutant: the last bucket keeps what belongs to the new one, and conversely.
SplitSwapped(bs, n) ==
    LET len == Len(bs)
        Far == {x \in Node : Clz[x.id] + 1 = len}
    IN  [b \in 1..(len + n) |->
            IF b < len \/ n = 0 THEN bs[b]
            ELSE IF b = len THEN Keep(bs[len], Node \ Far)
            ELSE IF b = len + 1 THEN Keep(bs[len], Far) ELSE <<>>]

\* Mutant: the nodes that move to the new bucket are not put back.
SplitForgets(bs, n) ==
    LET len == Len(bs)
    IN  [b \in 1..(len + n) |->
            IF b < len \/ n = 0 THEN bs[b]
            ELSE Keep(bs[len], {x \in Node : Clz[x.id] + 1 = b})]

SplitTimes(bs, n) ==
    LET len == Len(bs)
        Prefixed(lengths) == {x \in Node : Clz[x.id] + 1 \in lengths}
        splitOff == len..(len + n - 1)
    IN  [b \in 1..(len + n) |->
            IF b < len THEN bs[b]
            ELSE IF b \in splitOff THEN Keep(bs[len], Prefixed({b}))
            ELSE Keep(bs[len], Node \ Prefixed(splitOff))]

-----------------------------------------------------------------------------
(* update_node and add_node *)

\* Mutant: the full bucket is noticed one node too late.
UpdateResultLate(bs, id, ip) ==
    LET b == BucketIndex(id, Len(bs))
        i == FirstWithId(bs[b], id)
    IN  IF id = Zero THEN "Failed"
        ELSE IF ip \in ips
             THEN IF i # 0 /\ bs[b][i].ip = ip THEN "Refreshed" ELSE "Failed"
        ELSE IF Len(bs[b]) > K
             THEN IF b # Len(bs) \/ Len(bs) = MaxBuckets THEN "Failed" ELSE "NeedSplit"
        ELSE IF id = Self \/ ip \in routers THEN "Failed"
        ELSE "Pushed"

UpdateResult(bs, id, ip) ==
    LET b == BucketIndex(id, Len(bs))
        i == FirstWithId(bs[b], id)
    IN  IF id = Zero THEN "Failed"
        ELSE IF ip \in ips
             THEN IF i # 0 /\ bs[b][i].ip = ip THEN "Refreshed" ELSE "Failed"
        ELSE IF Len(bs[b]) = K
             THEN IF b # Len(bs) \/ Len(bs) = MaxBuckets THEN "Failed" ELSE "NeedSplit"
        ELSE IF id = Self \/ ip \in routers THEN "Failed"
        ELSE "Pushed"

\* What update_node does to the table, bs being the buckets it finds.
UpdateOn(bs, id, ip) ==
    LET b == BucketIndex(id, Len(bs))
        i == FirstWithId(bs[b], id)
        result == UpdateResult(bs, id, ip)
    IN  \/ /\ result \in {"Failed", "NeedSplit"}
           /\ buckets' = bs
           /\ ips' = ips
        \/ /\ result = "Refreshed"
           /\ buckets' = [bs EXCEPT ![b][i] = [@ EXCEPT !.status = "Good", !.seen = clock]]
           /\ ips' = ips
        \/ /\ result = "Pushed"
           /\ buckets' = [bs EXCEPT ![b] =
                 Append(@, [id |-> id, ip |-> ip, status |-> "Good", seen |-> clock])]
           /\ ips' = ips \cup {ip}

UpdateNode(id, ip) ==
    /\ UpdateOn(buckets, id, ip)
    /\ UNCHANGED <<routers, clock>>

\* The loop of add_node splits as long as update_node asks for it; the splits
\* stay even when the last attempt fails.
AddNode(id, ip) ==
    /\ \E n \in 0..(MaxBuckets - Len(buckets)) :
          /\ \A m \in 0..(n - 1) : UpdateResult(SplitTimes(buckets, m), id, ip) = "NeedSplit"
          /\ UpdateResult(SplitTimes(buckets, n), id, ip) # "NeedSplit"
          /\ UpdateOn(SplitTimes(buckets, n), id, ip)
    /\ UNCHANGED <<routers, clock>>

-----------------------------------------------------------------------------
(* node_timeout and remove_node: both act on the first node with the id *)

\* Mutant: the endpoint of the removed node stays in `ips`.
RemoveNodeOnly(b, i) ==
    /\ buckets' = [buckets EXCEPT ![b] = SwapRemove(@, i)]
    /\ ips' = ips

RemoveNode(b, i) ==
    /\ buckets' = [buckets EXCEPT ![b] = SwapRemove(@, i)]
    /\ ips' = ips \ {buckets[b][i].ip}

NodeTimeout(id) ==
    LET b == BucketIndex(id, Len(buckets))
        i == FirstWithId(buckets[b], id)
    IN  /\ i # 0
        /\ \/ /\ buckets[b][i].status = "Good"
              /\ buckets' = [buckets EXCEPT ![b][i] = [@ EXCEPT !.status = "Questionable"]]
              /\ ips' = ips
           \/ /\ buckets[b][i].status = "Questionable"
              /\ buckets' = [buckets EXCEPT ![b][i] = [@ EXCEPT !.status = "Bad"]]
              /\ ips' = ips
           \/ /\ buckets[b][i].status = "Bad"
              /\ RemoveNode(b, i)
        /\ UNCHANGED <<routers, clock>>

-----------------------------------------------------------------------------
(* next_refresh_node: the node seen longest ago, if that is long enough.   *)
(* A clock set back makes `elapsed` fail, and then there is no such node.  *)

SeenBefore(bs, p, q) ==
    \/ At(bs, p).seen < At(bs, q).seen
    \/ /\ At(bs, p).seen = At(bs, q).seen
       /\ p[1] < q[1] \/ (p[1] = q[1] /\ p[2] <= q[2])

\* Mutant: no sort, the first node of the first bucket is taken.
RefreshFirst ==
    {p \in Positions(buckets) :
        /\ \A q \in Positions(buckets) : p[1] < q[1] \/ (p[1] = q[1] /\ p[2] <= q[2])
        /\ At(buckets, p).seen + MinAge <= clock}

\* At most one position.
RefreshTarget ==
    {p \in Positions(buckets) :
        /\ \A q \in Positions(buckets) : SeenBefore(buckets, p, q)
        /\ At(buckets, p).seen + MinAge <= clock}

NextRefreshNode ==
    /\ \E p \in RefreshTarget :
          buckets' = [buckets EXCEPT ![p[1]][p[2]] = [@ EXCEPT !.seen = clock]]
    /\ UNCHANGED <<ips, routers, clock>>

AddRouter(ip) ==
    /\ routers' = routers \cup {ip}
    /\ UNCHANGED <<buckets, ips, clock>>

\* The environment: time passes, or the system clock is set.
SetClock(t) ==
    /\ clock' = t
    /\ UNCHANGED <<buckets, ips, routers>>

-----------------------------------------------------------------------------
(* find_node: walk from the target's bucket in one direction until K nodes *)
(* are collected or the next bucket is an edge, then keep the K nearest.   *)

WalkForward(bs, target) == BucketIndex(target, Len(bs)) - 1 < Len(bs) \div 2

WalkPath(bs, target) ==
    IF WalkForward(bs, target) THEN BucketIndex(target, Len(bs))..Len(bs)
                               ELSE 1..BucketIndex(target, Len(bs))

\* The buckets between the target's and b, both included.
WalkedTo(bs, target, b) ==
    LET from == BucketIndex(target, Len(bs))
    IN  IF WalkForward(bs, target) THEN from..b ELSE b..from

StopsAfter(bs, target, b) ==
    \/ Cardinality({p \in Positions(bs) : p[1] \in WalkedTo(bs, target, b)}) >= K
    \/ LET next == IF WalkForward(bs, target) THEN b + 1 ELSE IF b > 1 THEN b - 1 ELSE b
       IN  next \in {1, Len(bs)}

Visited(bs, target) ==
    {b \in WalkPath(bs, target) :
        \A c \in WalkedTo(bs, target, b) \ {b} : ~StopsAfter(bs, target, c)}

\* Mutant: sorted with the farthest node first.
Farther(bs, target, p, q) ==
    LET dp == Dist[At(bs, p).id, target]
        dq == Dist[At(bs, q).id, target]
    IN  dp > dq \/ (dp = dq /\ p[2] < q[2])

\* Stable sort by distance: equal distances (one id at two endpoints) keep order.
Nearer(bs, target, p, q) ==
    LET dp == Dist[At(bs, p).id, target]
        dq == Dist[At(bs, q).id, target]
    IN  dp < dq \/ (dp = dq /\ p[2] < q[2])

NearestOf(bs, target, ps) ==
    {p \in ps : Cardinality({q \in ps : Nearer(bs, target, q, p)}) < K}

\* The positions find_node returns.
FindNode(bs, target) ==
    NearestOf(bs, target, {p \in Positions(bs) : p[1] \in Visited(bs, target)})

-----------------------------------------------------------------------------
Init ==
    /\ buckets = << <<>> >>
    /\ ips = {}
    /\ routers = {}
    /\ clock = 0

Next ==
    \/ \E id \in Ids, ip \in Addrs : UpdateNode(id, ip)
    \/ \E id \in Ids, ip \in Addrs : AddNode(id, ip)
    \/ \E id \in Ids : NodeTimeout(id)
    \/ NextRefreshNode
    \/ \E ip \in Addrs : AddRouter(ip)
    \/ \E t \in 0..MaxNow : SetClock(t)

Spec == Init /\ [][Next]_vars

-----------------------------------------------------------------------------
(* Properties *)

\* Shape of the state: 1 to MaxBuckets buckets of at most K nodes.
TypeOK ==
    /\ buckets \in Seq(Seq(Node))
    /\ Len(buckets) \in 1..MaxBuckets
    /\ \A b \in DOMAIN buckets : Len(buckets[b]) <= K
    /\ ips \subseteq Addrs
    /\ routers \subseteq Addrs
    /\ clock \in 0..MaxNow

\* Every node lies in the bucket calc_bucket_index computes for it, whatever
\* splits have happened since it was stored (the WrongBucket branch of
\* split_bucket is dead, and a lookup by id searches the right bucket).
Placement ==
    \A b \in DOMAIN buckets :
        \A n \in Range(buckets[b]) : BucketIndex(n.id, Len(buckets)) = b

\* `ips` holds exactly the endpoints of the stored nodes, and no endpoint is
\* stored twice: nodes_len() counts `ips` "because it is more accurate".
EndpointIndex ==
    /\ ips = {n.ip : n \in Entries(buckets)}
    /\ \A p, q \in Positions(buckets) : At(buckets, p).ip = At(buckets, q).ip => p = q

\* find_node returns all the nodes of the bucket the target falls in, even
\* when nodes of the buckets visited after it are sorted in.
FindNodeCoversBucket ==
    \A target \in Ids :
        {p \in Positions(buckets) : p[1] = BucketIndex(target, Len(buckets))}
            \subseteq FindNode(buckets, target)

\* next_refresh_node finds a node as soon as one is old enough, whatever the
\* clock did meanwhile, and never offers one that is not.
RefreshFindsStale ==
    RefreshTarget = {} <=> \A n \in Entries(buckets) : n.seen + MinAge > clock

\* Seen from outside the table is a set of contacts: no step, and no split in
\* particular, loses, duplicates or regrades a contact it is not about.
ContactsOf(bs) == {[id |-> n.id, ip |-> n.ip, status |-> n.status] : n \in Entries(bs)}

Contacts == INSTANCE ContactSet WITH contacts <- ContactsOf(buckets)

RefinesContactSet == Contacts!Spec
=============================================================================
