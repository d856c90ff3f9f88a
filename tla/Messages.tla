------------------------------ MODULE Messages ------------------------------
(***************************************************************************)
(* The messages of krpc/messages.rs, to bencode and back, and the envelope *)
(* of krpc/krpc_context.rs.                                                *)
(*                                                                         *)
(* A string is a sequence of cells: an id or hash of 20 bytes, a compact   *)
(* IPv4 endpoint of 6, an IPv6 one of 18, a token or a word.  So the       *)
(* compact forms of core/compact.rs are sequences, and what is told apart  *)
(* is how many bytes they have.                                            *)
(***************************************************************************)
EXTENDS Bencode, FiniteSets

Word(w) == << <<"word", w>> >>

IdString(id) == Str(<< <<"id", id>> >>)
TokenOf(ip) == << <<"token", ip>> >>      \* ip.to_string()

Width == [id |-> 20, v4 |-> 6, v6 |-> 18, token |-> 16, word |-> 1]
Count(kind, s) == Cardinality({i \in DOMAIN s : s[i][1] = kind})
Bytes(s) == 20 * Count("id", s) + 6 * Count("v4", s) + 18 * Count("v6", s)
            + 16 * Count("token", s) + Count("word", s)

ParseNodeId(strs) == {s[1][2] : s \in {x \in strs : Len(x) = 1 /\ x[1][1] = "id"}}

IsIp(o) == o.t = "str" /\ Len(o.v) = 1 /\ o.v[1][1] \in {"v4", "v6"}
ParseIps(lists) ==
    {[i \in DOMAIN l |-> l[i].v[1][2]] : l \in {x \in lists : \A i \in DOMAIN x : IsIp(x[i])}}

\* encode_nodes_to; nodes are pairs of an id and an endpoint.
EncodeNodes(family, nodes) ==
    [i \in 1..(2 * Len(nodes)) |->
        IF i % 2 = 1 THEN <<"id", nodes[(i + 1) \div 2][1]>> ELSE <<family, nodes[i \div 2][2]>>]

\* parse_nodes: 26 bytes each or else 38 bytes each.
AreNodes(s) ==
    LET family == IF Bytes(s) % 26 = 0 THEN "v4" ELSE "v6"
    IN  /\ Bytes(s) % 26 = 0 \/ Bytes(s) % 38 = 0
        /\ Len(s) % 2 = 0
        /\ \A i \in DOMAIN s : s[i][1] = IF i % 2 = 1 THEN "id" ELSE family

ParseNodes(strs) ==
    {[i \in 1..(Len(s) \div 2) |-> <<s[2 * i - 1][2], s[2 * i][2]>>]
        : s \in {x \in strs : AreNodes(x)}}

NodesOf(objs) ==
    As("str", IF Get(objs, Word("nodes")) # {} THEN Get(objs, Word("nodes"))
              ELSE Get(objs, Word("nodes6")))

-----------------------------------------------------------------------------
(* to_bencode *)

Entry(name, o) == Str(Word(name)) \o o

\* Under the key of the family of the first node, of IPv4 if there is none.
NodesEntry(family, nodes) ==
    Entry(IF nodes = << >> \/ family = "v4" THEN "nodes" ELSE "nodes6",
          Str(EncodeNodes(family, nodes)))

PingQuery(m) == Entry("id", IdString(m.id))
FindNodeQuery(m) == Entry("id", IdString(m.id)) \o Entry("target", IdString(m.target))
SampleQuery(m) == Entry("id", IdString(m.id)) \o Entry("target", IdString(m.target))
GetPeersQuery(m) == Entry("id", IdString(m.id)) \o Entry("info_hash", IdString(m.info_hash))
AnnounceQuery(m) ==
    Entry("id", IdString(m.id)) \o
    Entry("implied_port", Num(IF m.implied_port THEN 1 ELSE 0)) \o
    Entry("info_hash", IdString(m.info_hash)) \o
    Entry("port", Num(m.port)) \o Entry("token", Str(m.token))

QueryToBencode(m) ==
    Dict(CASE m.method = "ping"              -> PingQuery(m)
           [] m.method = "find_node"         -> FindNodeQuery(m)
           [] m.method = "sample_infohashes" -> SampleQuery(m)
           [] m.method = "get_peers"         -> GetPeersQuery(m)
           [] m.method = "announce_peer"     -> AnnounceQuery(m))

\* Mutant: the values are one string, like the nodes.
ValuesInOne(family, values) ==
    Str([i \in DOMAIN values |-> <<family, values[i]>>])

Values(family, values) == List([i \in DOMAIN values |-> <<"s", << <<family, values[i]>> >> >>])

PingReply(m) == Entry("id", IdString(m.id))
AnnounceReply(m) == Entry("id", IdString(m.id))
FindNodeReply(family, m) == Entry("id", IdString(m.id)) \o NodesEntry(family, m.nodes)
GetPeersReply(family, m) ==
    Entry("id", IdString(m.id)) \o NodesEntry(family, m.nodes) \o
    Entry("token", Str(m.token)) \o
    IF m.values = << >> THEN << >> ELSE Entry("values", Values(family, m.values))
SampleReply(family, m) ==
    Entry("id", IdString(m.id)) \o Entry("interval", Num(m.interval)) \o
    NodesEntry(family, m.nodes) \o
    Entry("samples", Str([i \in DOMAIN m.info_hashes |-> <<"id", m.info_hashes[i]>>])) \o
    Entry("sum", Num(m.num))
ErrorReply(m) == Num(m.code) \o Str(Word("message"))

ReplyToBencode(family, m) ==
    CASE m.method = "ping"              -> Dict(PingReply(m))
      [] m.method = "announce_peer"     -> Dict(AnnounceReply(m))
      [] m.method = "find_node"         -> Dict(FindNodeReply(family, m))
      [] m.method = "get_peers"         -> Dict(GetPeersReply(family, m))
      [] m.method = "sample_infohashes" -> Dict(SampleReply(family, m))
      [] m.method = "error"             -> List(ErrorReply(m))

-----------------------------------------------------------------------------
(* from_bencode: nothing if a field is missing or malformed.               *)

IdField(objs, name) == ParseNodeId(As("str", Get(objs, Word(name))))
IntField(objs, name) == As("int", Get(objs, Word(name)))
StrField(objs, name) == As("str", Get(objs, Word(name)))

AsPort(n) == n % 2^16       \* as u16

\* A message with an id and nothing else: a ping and its reply, an announce's reply.
Plain(method, objs) == {[method |-> method, id |-> id] : id \in IdField(objs, "id")}
PingFrom(objs) == Plain("ping", objs)
PingReplyFrom(objs) == Plain("ping", objs)
AnnounceReplyFrom(objs) == Plain("announce_peer", objs)

Aimed(method, objs) ==
    {[method |-> method, id |-> id, target |-> target]
        : id \in IdField(objs, "id"), target \in IdField(objs, "target")}
FindNodeFrom(objs) == Aimed("find_node", objs)
SampleFrom(objs) == Aimed("sample_infohashes", objs)

GetPeersFrom(objs) ==
    {[method |-> "get_peers", id |-> id, info_hash |-> hash]
        : id \in IdField(objs, "id"), hash \in IdField(objs, "info_hash")}

\* The implied port may be missing, but not malformed.
AnnounceFrom(objs) ==
    {[method |-> "announce_peer", id |-> id, info_hash |-> hash, port |-> AsPort(port),
      token |-> token, implied_port |-> implied = 1]
        : id \in IdField(objs, "id"), hash \in IdField(objs, "info_hash"),
          port \in IntField(objs, "port"), token \in StrField(objs, "token"),
          implied \in IF Get(objs, Word("implied_port")) = {} THEN {0}
                      ELSE IntField(objs, "implied_port")}

QueryFromBencode(method, objs) ==
    CASE method = "ping"              -> PingFrom(objs)
      [] method = "find_node"         -> FindNodeFrom(objs)
      [] method = "sample_infohashes" -> SampleFrom(objs)
      [] method = "get_peers"         -> GetPeersFrom(objs)
      [] method = "announce_peer"     -> AnnounceFrom(objs)

FindNodeReplyFrom(objs) ==
    {[method |-> "find_node", id |-> id, nodes |-> nodes]
        : id \in IdField(objs, "id"), nodes \in ParseNodes(NodesOf(objs))}

\* Nodes and values may be missing, but not malformed.
GetPeersReplyFrom(objs) ==
    {[method |-> "get_peers", id |-> id, token |-> token, nodes |-> nodes, values |-> values]
        : id \in IdField(objs, "id"), token \in StrField(objs, "token"),
          nodes \in IF /\ Get(objs, Word("nodes")) = {}
                       /\ Get(objs, Word("nodes6")) = {}
                    THEN {<< >>} ELSE ParseNodes(NodesOf(objs)),
          values \in IF Get(objs, Word("values")) = {} THEN {<< >>}
                     ELSE ParseIps(As("list", Get(objs, Word("values"))))}

SampleReplyFrom(objs) ==
    {[method |-> "sample_infohashes", id |-> id, interval |-> interval, num |-> num,
      nodes |-> nodes, info_hashes |-> [i \in DOMAIN samples |-> samples[i][2]]]
        : id \in IdField(objs, "id"), interval \in IntField(objs, "interval"),
          num \in IntField(objs, "num"), nodes \in ParseNodes(NodesOf(objs)),
          samples \in StrField(objs, "samples")}

ReplyFromBencode(method, objs) ==
    CASE method = "ping"              -> PingReplyFrom(objs)
      [] method = "announce_peer"     -> AnnounceReplyFrom(objs)
      [] method = "find_node"         -> FindNodeReplyFrom(objs)
      [] method = "get_peers"         -> GetPeersReplyFrom(objs)
      [] method = "sample_infohashes" -> SampleReplyFrom(objs)

-----------------------------------------------------------------------------
(* The envelope: send_krpc_impl, send_reply_impl, extract_query_part,       *)
(* extract_reply.                                                          *)

Tid == Word("tid")

Packet(method, args) ==
    Dict(Entry("a", args) \o Entry("q", Str(Word(method))) \o
         Entry("t", Str(Tid)) \o Entry("y", Str(Word("q"))))

QueryPacket(m) == Packet(m.method, QueryToBencode(m))

ReplyPacket(family, m) ==
    Dict(Entry("r", ReplyToBencode(family, m)) \o
         Entry("t", Str(Tid)) \o Entry("y", Str(Word("r"))))

\* The method and the arguments of a query; without a tid it is none.
ExtractQueryPart(objs) ==
    {[method |-> method, args |-> args]
        : method \in StrField(objs, "q"), args \in Get(objs, Word("a")),
          tid \in StrField(objs, "t"), y \in StrField(objs, "y") \cap {Word("q")}}

ExtractReply(method, packet) ==
    LET objs == Decode(packet)
    IN  IF StrField(objs, "y") = {Word("r")} THEN ReplyFromBencode(method, Get(objs, Word("r")))
        ELSE {}
=============================================================================
