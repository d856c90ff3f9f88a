------------------------------ MODULE Sampler ------------------------------
(***************************************************************************)
(* crawler/sampler.rs: nodes that have sent a query are asked for samples  *)
(* of the hashes they know.                                                *)
(*                                                                         *)
(* `sampled` is the LRU cache of endpoints, the least recent one first,    *)
(* with what is known of the time of the next sample.  A slot is a task of *)
(* do_sample, and is used again after it.                                  *)
(***************************************************************************)
EXTENDS Integers, FiniteSets, Sequences, SequencesExt, SeqHelpers

CONSTANTS
    Addrs,      \* endpoints
    NoAddr,     \* not an endpoint
    Slots,      \* bound: tasks at once
    MaxSampled, \* size of the cache, 100000
    MaxSamples  \* permits, 5

ASSUME SamplerAssumption ==
    {MaxSampled, MaxSamples} \subseteq Nat \ {0} /\ NoAddr \notin Addrs

VARIABLES
    sampled,    \* <<endpoint, mark>>: "sampling" (None), "later" or "due"
    spc,        \* where each task is
    sip,        \* whom it samples, until it has
    got,        \* hashes it has got and not yet reported
    forgotten   \* history: endpoints that fell out of the cache while being sampled

smplvars == <<sampled, spc, sip, got, forgotten>>

Sampling(s) == spc[s] \notin {"idle", "reporting"}
SamplesOf(ip) == {s \in Slots : Sampling(s) /\ sip[s] = ip}
Marks(ip) == {sampled[i][2] : i \in {j \in DOMAIN sampled : sampled[j][1] = ip}}

Entry == Addrs \X {"sampling", "later", "due"}

\* LruCache::put, and get, which makes an entry the most recent one.
PutIn(lru, ip, mark) ==
    LET all == Append(Keep(lru, {e \in Entry : e[1] # ip}), <<ip, mark>>)
    IN  IF Len(all) > MaxSampled THEN Tail(all) ELSE all

BeingSampled(lru) == {e[1] : e \in {x \in Range(lru) : x[2] = "sampling"}}

SamplerInit ==
    /\ sampled = << >>
    /\ spc = [s \in Slots |-> "idle"]
    /\ sip = [s \in Slots |-> NoAddr]
    /\ got = [s \in Slots |-> {}]
    /\ forgotten = {}

\* Neither being sampled nor sampled a short time ago.
IsDue(ip) == Marks(ip) \subseteq {"due"}

\* add_sample_node
AddSampleNode(ip) ==
    IF IsDue(ip)
    THEN LET s == CHOOSE r \in Slots : spc[r] = "idle"      \* all alike
         IN /\ \E r \in Slots : spc[r] = "idle"
            /\ sampled' = PutIn(sampled, ip, "sampling")
            /\ forgotten' = forgotten \cup
                             (BeingSampled(sampled) \ (BeingSampled(sampled') \cup {ip}))
            /\ spc' = [spc EXCEPT ![s] = "queued"]
            /\ sip' = [sip EXCEPT ![s] = ip]
            /\ UNCHANGED got
    ELSE /\ \E mark \in Marks(ip) : sampled' = PutIn(sampled, ip, mark)
         /\ UNCHANGED <<spc, sip, got, forgotten>>

SampleTo(s, from, to) == spc[s] = from /\ spc' = [spc EXCEPT ![s] = to]

\* Mutant: the permit is kept until the hashes have been reported.
KeptPermits == {s \in Slots : spc[s] \in {"asking", "pinging", "collecting", "reporting"}}

Permits == {s \in Slots : spc[s] \in {"asking", "pinging", "collecting"}}

\* sem.acquire
SamplePermit(s) ==
    /\ Cardinality(Permits) < MaxSamples
    /\ SampleTo(s, "queued", "asking")
    /\ UNCHANGED <<sampled, sip, got, forgotten>>

\* The node answers with hashes; the peers of those that are wanted are asked for.
SampleReply(s, hashes) ==
    /\ SampleTo(s, "asking", "collecting")
    /\ got' = [got EXCEPT ![s] = hashes]
    /\ UNCHANGED <<sampled, sip, forgotten>>

\* join_all of the get_peers: each of them ends, and any may fail.
Collected(s) ==
    /\ SampleTo(s, "collecting", "marking")
    /\ UNCHANGED <<sampled, sip, got, forgotten>>

\* No sample: a ping tells for how long to leave the node alone.
SampleFails(s) ==
    /\ SampleTo(s, "asking", "pinging")
    /\ UNCHANGED <<sampled, sip, got, forgotten>>

Pinged(s) ==
    /\ SampleTo(s, "pinging", "marking")
    /\ UNCHANGED <<sampled, sip, got, forgotten>>

\* Mutant: a sample that brings nothing returns early.
MarkIfAny(s, lru, mark) == IF got[s] = {} THEN lru ELSE PutIn(lru, sip[s], mark)

MarkIn(s, lru, mark) == PutIn(lru, sip[s], mark)

\* The next time; at once, if the interval of the reply is 0.
Mark(s) ==
    /\ SampleTo(s, "marking", IF got[s] = {} THEN "idle" ELSE "reporting")
    /\ \E mark \in {"later", "due"} : sampled' = MarkIn(s, sampled, mark)
    /\ forgotten' =
           LET out == BeingSampled(sampled) \ (BeingSampled(sampled') \cup {sip[s]})
           IN  (forgotten \cup out) \ IF SamplesOf(sip[s]) = {s} THEN {sip[s]} ELSE {}
    /\ sip' = [sip EXCEPT ![s] = NoAddr]
    /\ UNCHANGED got

\* Hours pass.
Due(ip) ==
    /\ "later" \in Marks(ip)
    /\ sampled' = [i \in DOMAIN sampled |->
                      IF sampled[i][1] = ip THEN <<ip, "due">> ELSE sampled[i]]
    /\ UNCHANGED <<spc, sip, got, forgotten>>

SampleStep(s) ==
    SamplePermit(s) \/ Collected(s) \/ SampleFails(s) \/ Pinged(s) \/ Mark(s)

-----------------------------------------------------------------------------
(* Properties *)

\* A node is sampled by one task at a time, unless it has fallen out of the cache
\* meanwhile.
SampledOnce ==
    \A ip \in Addrs : Cardinality(SamplesOf(ip)) > 1 => ip \in forgotten

\* A sample ends, and does not keep the permits from the others, however long what it
\* has found takes to be reported.
SampleEnds == \A s \in Slots : spc[s] = "queued" ~> ~Sampling(s)

\* A node marked as being sampled is: whatever becomes of the sample, the ping and the
\* get_peers, and whichever task of an endpoint ends first, no mark is left behind that would bar the node for good.
NoStuckMark == \A ip \in Addrs : "sampling" \in Marks(ip) => SamplesOf(ip) # {}
=============================================================================
