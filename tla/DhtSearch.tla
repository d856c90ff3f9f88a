----------------------------- MODULE DhtSearch -----------------------------
(***************************************************************************)
(* The iterative searches of dht/dht_session.rs: find_node_impl and        *)
(* get_peers_impl, which differ in what they keep of a reply.              *)
(*                                                                         *)
(* Up to Alpha queries are in flight, each a task of do_krpc that ends in  *)
(* its own time, in any order.  Its reply refills the queue of nodes still *)
(* to ask.  Ids are their distances to the target, so that their order is  *)
(* that of Nat.  A reply lists nodes of its own choice, and one peer at    *)
(* most.  What do_krpc and add_node tell the routing table is in           *)
(* DhtSession.                                                             *)
(***************************************************************************)
EXTENDS Integers, FiniteSets, Sequences, SequencesExt, SeqHelpers

CONSTANTS
    Entries,     \* nodes that replies and the table may name: <<distance, endpoint>>
    Starts,      \* the possible first queues, sequences of entries
    Replies,     \* what a reply may list, sequences of entries
    NonNative,   \* endpoints of the other IP version
    Peers,       \* what get_peers is after
    Alpha,       \* MAX_ALPHA, 10
    K,           \* 8, nodes of a result
    Cap,         \* 8 * 8, entries kept of a list
    MaxQueries,  \* MAX_ITERATIONS * NUM_QUERIES_PER_ITERATION, 48
    Converged,   \* NUM_QUERIES_PER_ITERATION * MAX_ITERATIONS_WITH_CONVERGENCE, 9
    MaxPeers     \* MAX_PEERS, 100

Endpoints == {e[2] : e \in Entries}

ASSUME DhtSearchAssumption ==
    /\ Entries \subseteq Nat \X Endpoints /\ IsFiniteSet(Endpoints) /\ IsFiniteSet(Peers)
    /\ Starts \subseteq Seq(Entries) /\ Replies \subseteq Seq(Entries)
    /\ NonNative \subseteq Endpoints
    /\ {Alpha, K, Cap, MaxQueries, Converged, MaxPeers} \subseteq Nat \ {0}
    /\ K <= Cap

VARIABLES
    kind,       \* "find_node" or "get_peers"
    queue,      \* entries to ask, nearest first
    inFlight,   \* how many queries are under way to each endpoint
    visited,    \* "no", or what the endpoint's last query gave: "token", "none"
    collected,  \* entries of all replies, nearest first
    output,     \* the K nearest of them (`nearest` in get_peers_impl)
    peers,      \* peers found
    streak,     \* iteration_with_convergence
    completed,  \* queries_completed
    result,     \* "none" while running, else the outcome
    reported,   \* history: every entry of a reply
    unchanged,  \* history: replies since the K nearest reported changed
    asked       \* history: endpoints a query has been started to

hvars == <<reported, unchanged, asked>>
vars == <<kind, queue, inFlight, visited, collected, output, peers, streak,
          completed, result, hvars>>

NumInFlight == FoldSet(LAMBDA p, n : inFlight[p] + n, 0, Endpoints)
Running == result = "none"

-----------------------------------------------------------------------------
(* sort_node_and_unique: a stable sort, and equal neighbours made one *)

\* The place of e in a sorted list: before the first entry that is farther.
Place(s, e) ==
    CHOOSE k \in 1..(Len(s) + 1) :
        /\ \A i \in 1..(k - 1) : s[i][1] <= e[1]
        /\ k <= Len(s) => s[k][1] > e[1]

ByDistance(s) ==
    LET sorted[i \in 0..Len(s)] ==
            IF i = 0 THEN << >>
            ELSE InsertAt(sorted[i - 1], Place(sorted[i - 1], s[i]), s[i])
    IN  sorted[Len(s)]

DedupBy(s) == KeepAt(s, {i \in DOMAIN s : i = 1 \/ s[i] # s[i - 1]})

\* Mutant: duplicates go, the order stays.
UniqueOnly(s) == DedupBy(s)

SortNodeAndUnique(s) == DedupBy(ByDistance(s))

UpTo(s, n) == SubSeq(s, 1, IF Len(s) < n THEN Len(s) ELSE n)

-----------------------------------------------------------------------------

Init ==
    /\ kind \in {"find_node", "get_peers"}
    /\ queue \in IF kind = "find_node" THEN {SortNodeAndUnique(s) : s \in Starts}
                                       ELSE Starts
    /\ inFlight = [p \in Endpoints |-> 0]
    /\ visited = [p \in Endpoints |-> "no"]
    /\ collected = << >>
    /\ output = << >>
    /\ peers = {}
    /\ streak = 0
    /\ completed = 0
    /\ result = "none"
    /\ reported = {}
    /\ unchanged = 0
    /\ asked = {}

\* Mutant: the search goes on when there is nobody left to ask.
NeverDry ==
    \/ completed >= MaxQueries
    \/ kind = "get_peers" /\ Cardinality(peers) >= MaxPeers
    \/ streak >= Converged

\* The conditions under which the loop ends, at its top or by `break`.
Enough ==
    \/ completed >= MaxQueries
    \/ queue = << >> /\ NumInFlight = 0
    \/ kind = "get_peers" /\ Cardinality(peers) >= MaxPeers
    \/ streak >= Converged

Slots == Alpha - NumInFlight

\* Top of the loop: as many queries as fit are started.
Spawn ==
    /\ Running /\ ~Enough
    /\ queue # << >> /\ NumInFlight < Alpha
    /\ LET now == UpTo(queue, Slots)
       IN  /\ inFlight' = [p \in Endpoints |-> inFlight[p] +
                              Cardinality({i \in DOMAIN now : now[i][2] = p})]
           /\ queue' = SubSeq(queue, Len(now) + 1, Len(queue))
           /\ asked' = asked \cup {e[2] : e \in Range(now)}
    /\ UNCHANGED <<kind, visited, collected, output, peers, streak, completed,
                   result, reported, unchanged>>

\* join_next: the loop waits for one of the queries in flight.
Waiting == Running /\ ~Enough /\ (queue = << >> \/ NumInFlight >= Alpha)

Joined(p) ==
    /\ Waiting
    /\ inFlight[p] > 0
    /\ inFlight' = [inFlight EXCEPT ![p] = @ - 1]
    /\ completed' = completed + 1

\* Mutant: only who has answered counts as visited.
FailedUnmarked(p) ==
    /\ Joined(p)
    /\ UNCHANGED <<kind, queue, visited, collected, output, peers, streak, result, hvars>>

\* do_krpc gave up on p.  A token from an earlier query of p is forgotten.
Failed(p) ==
    /\ Joined(p)
    /\ visited' = [visited EXCEPT ![p] = "none"]
    /\ UNCHANGED <<kind, queue, collected, output, peers, streak, result, hvars>>

\* Those of a reply's entries that are to be asked.
ToAsk(nodes, seen) ==
    Keep(nodes, {e \in Entries : e[2] \notin NonNative /\ seen[e[2]] = "no"})

\* Mutant: the lengths are not looked at.
SamePrefix(found) ==
    LET len == IF Len(output) < Len(UpTo(found, K)) THEN Len(output)
                                                   ELSE Len(UpTo(found, K))
    IN  SubSeq(output, 1, len) = SubSeq(found, 1, len)

\* Are the nearest nodes of `found` the ones of the last reply, and K of them?
Same(found) ==
    LET len == IF Len(output) < Len(UpTo(found, K)) THEN Len(output)
                                                   ELSE Len(UpTo(found, K))
    IN  SubSeq(output, 1, len) = SubSeq(found, 1, len) /\ len >= K

\* p answered with nodes, peers and a token (get_peers only).
Answered(p, nodes, values, token) ==
    LET found == SortNodeAndUnique(collected \o nodes)
        stops == Same(found) /\ streak + 1 >= Converged   \* break, no truncation
    IN  /\ Joined(p)
        /\ visited' = [visited EXCEPT ![p] = token]
        /\ LET all == SortNodeAndUnique(queue \o ToAsk(nodes, visited'))
           IN  queue' = IF stops THEN all ELSE UpTo(all, Cap)
        /\ collected' = IF stops THEN found ELSE UpTo(found, Cap)
        /\ output' = IF Same(found) THEN output ELSE UpTo(found, K)
        /\ streak' = IF Same(found) THEN streak + 1 ELSE 0
        /\ peers' = peers \cup values
        /\ reported' = reported \cup Range(nodes)
        /\ unchanged' = IF output' = output THEN unchanged + 1 ELSE 0
        /\ UNCHANGED <<kind, result, asked>>

\* The nodes of a get_peers result: nearest first, from endpoints with a token.
WithToken ==
    UpTo(Keep(collected, {e \in Entries : visited[e[2]] = "token"}), K)

\* After the loop: what is in flight is aborted.
Finish ==
    /\ Running /\ Enough
    /\ inFlight' = [p \in Endpoints |-> 0]
    /\ result' = IF kind = "find_node"
                 THEN IF output = << >> THEN "failed" ELSE "found"
                 ELSE IF peers = {} /\ collected = << >> THEN "failed" ELSE "found"
    /\ UNCHANGED <<kind, queue, visited, collected, output, peers, streak,
                   completed, hvars>>

Answer(p) ==
    \E nodes \in Replies :
        IF kind = "find_node"
        THEN Answered(p, nodes, {}, "none")
        ELSE \E values \in {{}} \cup {{q} : q \in Peers}, token \in {"token", "none"} :
                 Answered(p, nodes, values, token)

Next ==
    \/ Spawn
    \/ \E p \in Endpoints : Failed(p) \/ Answer(p)
    \/ Finish

Spec == Init /\ [][Next]_vars

\* do_krpc ends (EveryCallEnds of Krpc), and the search's own task is polled.
LiveSpec ==
    Spec /\ WF_vars(Spawn \/ Finish \/ \E p \in Endpoints : Failed(p) \/ Answer(p))

-----------------------------------------------------------------------------
(* Properties *)

\* Shape.
TypeOK ==
    /\ kind \in {"find_node", "get_peers"}
    /\ queue \in Seq(Entries) /\ collected \in Seq(Entries) /\ output \in Seq(Entries)
    /\ inFlight \in [Endpoints -> 0..Alpha] /\ NumInFlight <= Alpha
    /\ visited \in [Endpoints -> {"no", "token", "none"}]
    /\ peers \subseteq Peers
    /\ streak \in 0..Converged /\ completed \in 0..MaxQueries
    /\ result \in {"none", "found", "failed"}
    /\ Len(output) <= K

\* However replies are ordered and lists cut, the output has what is nearest of
\* everything ever reported: an entry left out is no nearer than any in it, and
\* room is left only when nothing was left out.  (Cutting `collected` after
\* sorting, and replacing `output` only when it differs, must not lose a node.)
NearestReported ==
    /\ \A e \in reported : e \in Range(output) \/
            (Len(output) = K /\ \A o \in Range(output) : o[1] <= e[1])
    /\ Range(output) \subseteq reported

\* An endpoint that has been asked is queued again only while all its queries are
\* still under way: once one has ended, in whatever way and order, what replies name
\* of it is left.  (What the queue has of it by then is still asked: Spawn does not look
\* at `visited`.)
RequeuedInFlight ==
    [][\A e \in Range(queue') \ Range(queue) :
            e[2] \in asked => inFlight'[e[2]] > 0 /\ visited'[e[2]] = "no"]_vars

\* A search that stops before its limits has K nodes, and has seen `Converged`
\* replies in a row bring no nearer one.
StopsConverged ==
    (~Running /\ completed < MaxQueries /\ queue # << >> /\ Cardinality(peers) < MaxPeers)
        => unchanged >= Converged /\ Len(output) = K

\* A search never waits with nothing in flight: join_next would yield at once
\* and the loop spin without an await.
NeverSpins == Waiting => NumInFlight > 0

\* What holds of a search at any time, by its parts: its shape, the best of what it was
\* told, and never a busy wait.
SearchInv == TypeOK /\ NearestReported /\ NeverSpins

\* A search comes to an end, whatever its queries bring.
SearchEnds == <>~Running
=============================================================================
