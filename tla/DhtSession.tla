----------------------------- MODULE DhtSession -----------------------------
(***************************************************************************)
(* dht/dht_session.rs without the inside of its searches (DhtSearch): the  *)
(* answers to queries, the queries of the main loop, and what both do to   *)
(* the routing table.                                                      *)
(*                                                                         *)
(* Time is relative: the clock stays at MaxNow, at rest nodes grow older,  *)
(* at most MaxNow.  A packet is a token sequence of Bencode.  do_krpc is   *)
(* one step, its end: what it does to the table does not depend on how     *)
(* many run at once.  The searches for several buckets are one.            *)
(***************************************************************************)
EXTENDS RoutingTable, Messages

CONSTANTS
    Hashes,         \* info hashes
    IdOf,           \* the id each endpoint answers with
    Told,           \* nodes that answers to find_node may list
    RouterIps,      \* of the three bootstrap routers
    Enough,         \* nodes that are refreshed, 8 in the code
    Plenty,         \* nodes that make random searches unnecessary, 21
    MaxFill,        \* random searches after a bootstrap, 10
    MaxValues,      \* peers in an answer, 8
    Targets,        \* bound: what is asked for
    Mortal,         \* bound: endpoints that may fall silent
    Announcers,     \* bound: endpoints that announce a hash
    None            \* not an endpoint, not a port

ASSUME SessionAssumption ==
    /\ MaxNow >= MinAge
    /\ IdOf \in [Addrs -> Ids] /\ Told \subseteq Ids \X Addrs
    /\ RouterIps \cup Mortal \subseteq Addrs
    /\ Hashes \cup Targets \subseteq Ids
    /\ {Enough, Plenty, MaxFill, MaxValues} \subseteq Nat
    /\ None \notin Addrs

\* The nodes of an answer: thirteen of IPv6 have the bytes of nineteen of IPv4.
ASSUME AnswerAssumption == K < 13

VARIABLES
    peers,      \* endpoints announced for each hash
    phase,      \* of the main loop
    todo,       \* nodes to ask: a search's queue, or the pings
    visited,    \* by the search
    answered,   \* the endpoint whose answer the search has next, or None
    found,      \* has the search found nodes?
    filled,     \* random searches done
    up,         \* endpoints that answer
    busy        \* history: since "boot" a query was answered, or the loop sleeps

table == <<buckets, ips, routers, clock>>
loop == <<phase, todo, visited, answered, found, filled>>
svars == <<table, peers, loop, up, busy>>

Searching == phase \in {"self", "random", "buckets"}

\* find_node of the table, as pairs, the nearest first.
NodesNear(target) ==
    LET ps == FindNode(buckets, target)
        Rank(p) == Cardinality({q \in ps : Nearer(buckets, target, q, p)})
        Nth(i) == At(buckets, CHOOSE p \in ps : Rank(p) = i - 1)
    IN  [i \in 1..Cardinality(ps) |-> <<Nth(i).id, Nth(i).ip>>]

Stored == {<<n.id, n.ip>> : n \in Entries(buckets)}

DhtInit ==
    /\ buckets = << << >> >> /\ ips = {} /\ routers = {} /\ clock = MaxNow
    /\ peers = [h \in Hashes |-> {}]
    /\ phase = "boot" /\ todo = {} /\ visited = {} /\ answered = None
    /\ found = FALSE /\ filled = 0
    /\ up = Addrs /\ busy = TRUE

-----------------------------------------------------------------------------
(* process_udp: queries *)

Methods == {"ping", "find_node", "get_peers", "announce_peer", "sample_infohashes"}

\* The query in a packet: none if it is malformed.
QueryIn(packet) ==
    UNION {IF \E m \in Methods : Word(m) = part.method
           THEN QueryFromBencode(CHOOSE m \in Methods : Word(m) = part.method, {part.args})
           ELSE {[method |-> "unknown"]}
             : part \in ExtractQueryPart(Decode(packet))}

\* At most MaxValues of the peers, at random.
Chosen(s) == IF Cardinality(s) <= MaxValues THEN {s} ELSE kSubset(MaxValues, s)

\* What a query from ip may be answered.
RepliesTo(m, ip) ==
    CASE m.method = "ping" -> {[method |-> "ping", id |-> Self]}
      [] m.method = "find_node" ->
            {[method |-> "find_node", id |-> Self, nodes |-> NodesNear(m.target)]}
      [] m.method = "get_peers" ->
            {[method |-> "get_peers", id |-> Self, token |-> TokenOf(ip),
              nodes |-> NodesNear(m.info_hash), values |-> SetToSeq(s)]
                : s \in Chosen(peers[m.info_hash])}
      [] m.method = "announce_peer" ->
            {IF m.token = TokenOf(ip) THEN [method |-> "announce_peer", id |-> Self]
             ELSE [method |-> "error", code |-> 203]}
      [] m.method = "sample_infohashes" ->
            LET known == {h \in Hashes : peers[h] # {}}
            IN  {[method |-> "sample_infohashes", id |-> Self, interval |-> 1800,
                  nodes |-> NodesNear(m.target), num |-> Cardinality(known),
                  info_hashes |-> SetToSeq(s)] : s \in SUBSET known}
      [] OTHER -> {[method |-> "error", code |-> 202]}

\* Queries after which the sender is put in the table: not a sample, nor one that
\* was answered by an error.
Introduces(m, ip) ==
    /\ m.method \in Methods \ {"sample_infohashes"}
    /\ m.method = "announce_peer" => m.token = TokenOf(ip)

\* At the port it has sent from, None here, or at the one it names.
PeerOf(m, ip) == IF m.implied_port THEN <<ip, None>> ELSE <<ip, m.port>>

ProcessUdp(m, ip) ==
    /\ IF Introduces(m, ip) THEN UpdateOn(buckets, m.id, ip) ELSE UNCHANGED <<buckets, ips>>
    /\ peers' = IF Introduces(m, ip) /\ m.method = "announce_peer"
                THEN [peers EXCEPT ![m.info_hash] = @ \cup {PeerOf(m, ip)}]
                ELSE peers
    /\ UNCHANGED <<routers, clock, loop, up, busy>>

\* Queries of other nodes: their own id, or none.
Queries(ip) ==
    {[method |-> "ping", id |-> id] : id \in {IdOf[ip], Zero}}
    \cup {[method |-> method, id |-> IdOf[ip], target |-> t]
            : method \in {"find_node", "sample_infohashes"}, t \in Targets}
    \cup {[method |-> "get_peers", id |-> IdOf[ip], info_hash |-> h] : h \in Hashes}
    \cup {[method |-> "announce_peer", id |-> IdOf[ip], info_hash |-> h, port |-> port,
           token |-> TokenOf(t), implied_port |-> implied]
            : h \in IF ip \in Announcers THEN Hashes ELSE {},
              port \in {1, 2^16 + 1}, implied \in BOOLEAN, t \in Addrs}

\* Packets that are cut, do not name a method, or lack an id.
Malformed(ip) ==
    {Front(QueryPacket(m)) : m \in Queries(ip)}
    \cup {Packet(q, Dict(a)) : q \in {"ping", "vote"}, a \in {<< >>, Entry("id", Str(Word("short")))}}

\* What the packets of others are decoded to; what is malformed is not answered.
Incoming ==
    [ip \in Addrs |->
        UNION {QueryIn(p) : p \in {QueryPacket(m) : m \in Queries(ip)} \cup Malformed(ip)}]

\* clear_peers, every quarter of an hour.
ClearPeers ==
    /\ peers' = [h \in Hashes |-> {}]
    /\ UNCHANGED <<table, loop, up, busy>>

-----------------------------------------------------------------------------
(* do_krpc *)

\* Mutant: only what is known to be bad is graded down.
OnFailureLenient(id, ip) == UNCHANGED <<buckets, ips>>

OnFailure(id, ip) ==
    \/ id # Zero /\ NodeTimeout(id)
    \/ id \notin {n.id : n \in Entries(buckets)} /\ UNCHANGED <<buckets, ips>>

Fails(id, ip) ==
    /\ <<id, ip>> \in todo /\ answered = None
    /\ todo' = todo \ {<<id, ip>>}
    /\ OnFailure(id, ip)
    /\ visited' = IF Searching THEN visited \cup {ip} ELSE visited
    /\ UNCHANGED <<routers, clock, peers, phase, answered, found, filled, up, busy>>

Succeeds(id, ip) ==
    /\ <<id, ip>> \in todo /\ answered = None
    /\ ip \in up
    /\ todo' = todo \ {<<id, ip>>}
    /\ IF id = Zero THEN UNCHANGED <<buckets, ips>> ELSE UpdateOn(buckets, id, ip)
    /\ busy' = TRUE
    /\ answered' = IF Searching THEN ip ELSE None
    /\ UNCHANGED <<routers, clock, peers, phase, visited, found, filled, up>>

\* The search gets the answer: its sender is added, by the id it gives, and the
\* nodes it lists are asked unless they have been.
Joined ==
    /\ answered # None
    /\ AddNode(IdOf[answered], answered)
    /\ visited' = visited \cup {answered}
    /\ \E nodes \in SUBSET Told :
        /\ todo' = todo \cup {n \in nodes : n[2] \notin visited'}
        /\ found' = (found \/ nodes # {})
    /\ answered' = None
    /\ UNCHANGED <<peers, phase, filled, up, busy>>

-----------------------------------------------------------------------------
(* main_loop, bootstrap, refresh_routing_table *)

Search(queue) == todo' = queue /\ visited' = {} /\ found' = FALSE

Quiet == UNCHANGED <<peers, up, answered>>

\* Some routers may not be resolved.
Bootstrap ==
    /\ phase = "boot"
    /\ \E resolved \in SUBSET RouterIps :
        /\ routers' = routers \cup resolved
        /\ Search(Stored \cup {<<Zero, ip>> : ip \in resolved})
    /\ phase' = "self" /\ busy' = FALSE
    /\ UNCHANGED <<buckets, ips, clock, filled>> /\ Quiet

\* Mutant: the result of bootstrap is not looked at.
AfterSelfAny == "fill"

\* What follows the search for the own id.
AfterSelf == IF found /\ ips # {} THEN "fill" ELSE "nap"

\* Nobody left to ask; or the nearest nodes have been found.
SearchEnds ==
    /\ Searching /\ answered = None
    /\ todo = {} \/ found
    /\ phase' = CASE phase = "self"    -> AfterSelf
                  [] phase = "random"  -> "fill"
                  [] phase = "buckets" -> "rest"
    /\ filled' = IF phase = "random" THEN filled + 1 ELSE 0
    /\ todo' = {} /\ visited' = {} /\ found' = FALSE
    /\ UNCHANGED <<table, busy>> /\ Quiet

\* Random searches until there are plenty of nodes.
Fill ==
    /\ phase = "fill"
    /\ IF Cardinality(ips) >= Plenty \/ filled = MaxFill
       THEN phase' = "refresh" /\ filled' = 0 /\ UNCHANGED <<todo, visited, found>>
       ELSE \E id \in Ids :
            IF NodesNear(id) = << >>
            THEN filled' = filled + 1 /\ UNCHANGED <<phase, todo, visited, found>>
            ELSE phase' = "random" /\ Search(Range(NodesNear(id))) /\ UNCHANGED filled
    /\ UNCHANGED <<table, busy>> /\ Quiet

TooFew ==
    /\ phase = "refresh" /\ Cardinality(ips) < Enough
    /\ phase' = "boot"
    /\ UNCHANGED <<todo, visited, found, filled, table, busy>> /\ Quiet

\* The pings go out one by one, and may be over before the next.
Ping ==
    /\ phase \in {"refresh", "ping"}
    /\ phase = "refresh" => Cardinality(ips) >= Enough
    /\ RefreshTarget # {} /\ NextRefreshNode
    /\ phase' = "ping" /\ busy' = TRUE
    /\ todo' = todo \cup {<<At(buckets, p).id, At(buckets, p).ip>> : p \in RefreshTarget}
    /\ UNCHANGED <<visited, found, filled>> /\ Quiet

\* The ids that differ from ours for the first time at the bit of bucket b.
RandWithPrefix(b) == {id \in Ids : Clz[id] + 1 = b}

LessNodeBuckets == {b \in DOMAIN buckets : Len(buckets[b]) < K \div 2}

\* join_all of the pings; then a search for an id of each bucket that is less than
\* half full.
Pinged ==
    /\ phase = "ping" \/ (phase = "refresh" /\ Cardinality(ips) >= Enough)
    /\ RefreshTarget = {} /\ todo = {}
    /\ phase' = "buckets" /\ busy' = TRUE
    /\ LET ids == UNION {RandWithPrefix(b) : b \in LessNodeBuckets}
           OnePerBucket(s) ==
               \A i \in ids : Cardinality({j \in s : Clz[i] = Clz[j]}) = 1
       IN  \E s \in {t \in SUBSET ids : OnePerBucket(t)} :
                Search(UNION {Range(NodesNear(id)) : id \in s})
    /\ UNCHANGED <<filled, table>> /\ Quiet

\* MIN_REFRESH_INTERVAL later.
Older(bs) ==
    [b \in DOMAIN bs |-> [i \in DOMAIN bs[b] |->
        [bs[b][i] EXCEPT !.seen = IF @ < MinAge THEN 0 ELSE @ - MinAge]]]

Rested ==
    /\ phase = "rest"
    /\ phase' = "refresh" /\ busy' = TRUE
    /\ buckets' = Older(buckets)
    /\ UNCHANGED <<ips, routers, clock, todo, visited, found, filled>> /\ Quiet

Napped ==
    /\ phase = "nap"
    /\ phase' = "boot" /\ busy' = TRUE
    /\ UNCHANGED <<todo, visited, found, filled, table>> /\ Quiet

LoopStep ==
    \/ \E e \in todo : Fails(e[1], e[2]) \/ Succeeds(e[1], e[2])
    \/ Joined \/ Bootstrap \/ SearchEnds \/ Fill \/ TooFew \/ Ping \/ Pinged
    \/ Rested \/ Napped

\* A node falls silent, or is back.
Flip(ip) ==
    /\ up' = IF ip \in up THEN up \ {ip} ELSE up \cup {ip}
    /\ UNCHANGED <<table, peers, loop, busy>>

DhtNext ==
    \/ LoopStep
    \/ \E ip \in up \ RouterIps : \E m \in Incoming[ip] : ProcessUdp(m, ip)
    \/ ClearPeers
    \/ \E ip \in Mortal : Flip(ip)

\* The main loop is a task, its queries time out, and its sleeps end.
DhtSpec == DhtInit /\ [][DhtNext]_svars /\ WF_svars(LoopStep)

-----------------------------------------------------------------------------
(* Properties *)

DhtTypeOK ==
    /\ TypeOK /\ clock = MaxNow
    /\ peers \in [Hashes -> SUBSET (Addrs \X ({None} \cup 0..(2^16 - 1)))]
    /\ phase \in {"boot", "self", "fill", "random", "refresh", "ping", "buckets", "rest", "nap"}
    /\ todo \subseteq Ids \X Addrs /\ visited \subseteq Addrs
    /\ answered \in Addrs \cup {None} /\ found \in BOOLEAN
    /\ filled \in 0..MaxFill /\ up \subseteq Addrs /\ busy \in BOOLEAN

\* Whatever is asked, a node of this code reads from the packet that comes back
\* what was answered, and never takes an error for an answer (but for samples, whose
\* number has a key nobody reads).  Answers depend on the table and the peers only:
\* two phases of the loop show them all.
ReadBack ==
    phase \in {"boot", "rest"} =>
        \A ip \in Addrs : \A m \in Incoming[ip] : \A reply \in RepliesTo(m, ip) :
            m.method \in Methods \ {"sample_infohashes"} =>
                \A family \in {"v4", "v6"} :
                    ExtractReply(m.method, ReplyPacket(family, reply))
                        = IF reply.method = "error" THEN {} ELSE {reply}

\* Queries and the main loop leave the table and the rest of the state in shape
\* (ports cut to 16 bits), and answers are readable.
QueriesInv == DhtTypeOK /\ Placement /\ EndpointIndex /\ ReadBack

\* From one bootstrap to the next the loop has slept or had an answer: it cannot
\* run hot when no router and no node is to be reached.
NeverHot == [][phase # "boot" /\ phase' = "boot" => busy']_svars

\* Is this endpoint the only one stored by its id?
OneOfItsId(ip) == \A m, n \in Entries(buckets) : m.ip = ip /\ n.id = m.id => n.ip = ip

\* A node that has fallen silent is forgotten, as long as there are enough nodes for
\* the table to be refreshed, and nobody else is stored by its id.
DeadForgotten ==
    \A ip \in Mortal :
        <>[](ip \notin up /\ Cardinality(ips) >= Enough /\ OneOfItsId(ip)) => []<>(ip \notin ips)
=============================================================================
