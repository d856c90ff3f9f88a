------------------------------ MODULE Crawler ------------------------------
(***************************************************************************)
(* The callbacks of crawler/crawler.rs, which tie the finder, the sampler  *)
(* and the downloader together.                                            *)
(*                                                                         *)
(* A callback runs in the task that calls it: the loop on the UDP socket,  *)
(* one callback after the other, a finder task, a sampling task, a         *)
(* download worker.  Between its calls into the components others run.     *)
(* The downloader is reduced to the worker of a hash (Downloader), the     *)
(* application to what it has stored.                                      *)
(***************************************************************************)
EXTENDS PeerFinder, Sampler

CONSTANTS
    Udp,        \* the loop on the socket
    Unparsable, \* hashes whose metadata the application cannot parse
    HashLruSize, \* of the cache of hashes seen
    MaxBusy      \* bound: slots at work at a time once a hash has been announced

ASSUME CrawlerAssumption ==
    /\ Unparsable \subseteq Hashes /\ HashLruSize \in Nat \ {0} /\ MaxBusy \in Nat \ {0}
    /\ Udp \notin Slots \cup Tasks /\ Slots \cap Tasks = {}

Callers == {Udp} \cup Slots \cup Tasks

VARIABLES
    stored,     \* hashes the application has metadata of
    hashLru,    \* hashes seen, the least recent first
    at,         \* where each caller is in its callback
    about,      \* the hash it is about
    job,        \* the worker of each hash
    fetched,    \* history: downloads of each hash
    late        \* history: hashes that were let in before they were stored

callvars == <<hashLru, at, about>>
jobvars == <<stored, job, fetched>>
cvars == <<vars, smplvars, callvars, jobvars, late>>

CrawlerInit ==
    /\ Init /\ SamplerInit
    /\ stored = {}
    /\ hashLru = << >>
    /\ at = [c \in Callers |-> "idle"]
    /\ \E h \in Hashes : about = [c \in Callers |-> h]  \* of no consequence
    /\ job = [h \in Hashes |-> "none"]
    /\ fetched = [h \in Hashes |-> 0]
    /\ late = {}

-----------------------------------------------------------------------------
(* The downloader *)

\* add_peer: the worker of the hash gets the peer, or is started.
AddPeer(h) == job' = IF job[h] = "none" THEN [job EXCEPT ![h] = "working"] ELSE job

GivesUp(h) ==
    /\ job[h] = "working"
    /\ job' = [job EXCEPT ![h] = "none"]
    /\ UNCHANGED <<vars, smplvars, callvars, stored, fetched, late>>

\* Mutant: the finder goes on.
NotCancelled(h) == UNCHANGED vars

\* The finder's task is cancelled, if there is one.
CancelFinder(h) == IF pending[h] = NoTask THEN UNCHANGED vars ELSE Cancel(h)

\* on_metadata_downloaded: the finder first.
MetadataDownloaded(h) ==
    /\ job[h] = "working"
    /\ CancelFinder(h)
    /\ job' = [job EXCEPT ![h] = "storing"]
    /\ UNCHANGED <<smplvars, callvars, stored, fetched, late>>

\* Then the application, which saves to a file what it cannot parse.
Store(h) ==
    /\ job[h] = "storing"
    /\ job' = [job EXCEPT ![h] = "leaving"]
    /\ stored' = stored \cup ({h} \ Unparsable)
    /\ fetched' = [fetched EXCEPT ![h] = IF @ < 2 THEN @ + 1 ELSE @]
    /\ late' = late \cup {g \in {h} : \E c \in Callers : at[c] # "idle" /\ about[c] = g}
    /\ UNCHANGED <<vars, smplvars, callvars>>

WorkerLeaves(h) ==
    /\ job[h] = "leaving"
    /\ job' = [job EXCEPT ![h] = "none"]
    /\ UNCHANGED <<vars, smplvars, callvars, stored, fetched, late>>

-----------------------------------------------------------------------------
(* Callbacks *)

Busy == {s \in Slots : spc[s] # "idle"}
Unused == {t \in Tasks : pc[t] = "unused"}
NewTask == CHOOSE t \in Unused : TRUE     \* all alike

\* add_hash, with a task if it comes to that.
StartFinder(h) == Unused # {} /\ AddHash(h, NewTask)

\* Bounds: there is a task left for each who may add a hash; once a hash has been
\* announced at most MaxBusy nodes are sampled at a time.
MayAnnounce ==
    /\ Cardinality(Unused) > Cardinality({c \in Callers \ Tasks : at[c] \in {"checked", "new"}})
    /\ Cardinality(Busy) <= MaxBusy
MaySample ==
    \/ Cardinality(Busy) < MaxBusy
    \/ at[Udp] = "idle" /\ Unused = Tasks /\ Range(job) = {"none"} /\ stored = {}

\* Mutant: what the application has is not looked at.
NeverStored(h) == FALSE

HasMetadata(h) == h \in stored

\* The caller is let in: the application does not have h.
Enter(c, h, to) ==
    /\ at[c] = "idle" /\ ~HasMetadata(h)
    /\ at' = [at EXCEPT ![c] = to]
    /\ about' = [about EXCEPT ![c] = h]
    /\ UNCHANGED hashLru

Goes(c, from, to) ==
    /\ at[c] = from
    /\ at' = [at EXCEPT ![c] = to]
    /\ UNCHANGED about

\* check_hash_lru: is it new?
CheckHashLru(c) ==
    /\ Goes(c, "checked", IF about[c] \in Range(hashLru) THEN "peers" ELSE "new")
    /\ hashLru' =
           LET all == Append(Keep(hashLru, Hashes \ {about[c]}), about[c])
           IN  IF Len(all) > HashLruSize THEN Tail(all) ELSE all
    /\ UNCHANGED <<vars, smplvars, jobvars, late>>

\* peer_finder.add_hash
Seek(c) ==
    /\ Goes(c, "new", "peers")
    /\ IF pending[about[c]] # NoTask THEN UNCHANGED <<vars, late>>
       ELSE /\ StartFinder(about[c])
            /\ late' = late \cup {h \in {about[c]} : job[h] = "storing" \/ h \in stored}
    /\ UNCHANGED <<smplvars, hashLru, jobvars>>

\* The loop over add_peer, a peer at a time; an announce brings one.
Peers(c) ==
    /\ \E to \in {"idle"} \cup IF c = Udp THEN {} ELSE {"peers"} : Goes(c, "peers", to)
    /\ AddPeer(about[c])
    /\ UNCHANGED <<vars, smplvars, hashLru, stored, fetched, late>>

\* No peer is known.
NoPeers(c) ==
    /\ c \in Slots
    /\ Goes(c, "peers", "idle")
    /\ UNCHANGED <<vars, smplvars, hashLru, jobvars, late>>

\* on_peer_announce
PeerAnnounce(h) ==
    /\ MayAnnounce
    /\ Enter(Udp, h, "checked")
    /\ UNCHANGED <<vars, smplvars, jobvars, late>>

\* on_query: sampling may be off, by hand or because there are too many hashes.
Query(ip) ==
    /\ at[Udp] = "idle" /\ ~tooMany /\ MaySample
    /\ AddSampleNode(ip)
    /\ UNCHANGED <<vars, callvars, jobvars, late>>

\* What a node lists and the application does not have.
Sample(s) ==
    /\ \E hashes \in IF Cardinality(Busy) <= MaxBusy THEN SUBSET Hashes ELSE {{}} :
           SampleReply(s, {h \in hashes : ~HasMetadata(h)})
    /\ UNCHANGED <<vars, callvars, jobvars, late>>

\* on_hash_sampled, hash by hash, in any order.
HashSampled(s, h) ==
    /\ spc[s] = "reporting" /\ at[s] = "idle" /\ h \in got[s]
    /\ got' = [got EXCEPT ![s] = @ \ {h}]
    /\ IF HasMetadata(h) THEN UNCHANGED callvars
       ELSE MayAnnounce /\ Enter(s, h, "checked")
    /\ UNCHANGED <<vars, sampled, spc, sip, forgotten, jobvars, late>>

SampleOver(s) ==
    /\ at[s] = "idle" /\ got[s] = {}
    /\ SampleTo(s, "reporting", "idle")
    /\ UNCHANGED <<vars, sampled, sip, got, forgotten, callvars, jobvars, late>>

\* on_peers_found, within a task that reports.
PeersFound(t) ==
    /\ pc[t] = "reporting"
    /\ Enter(t, hash[t], "peers")
    /\ UNCHANGED <<vars, smplvars, jobvars, late>>

Finder(t) ==
    /\ TaskStep(t) /\ at[t] = "idle"
    /\ UNCHANGED <<smplvars, callvars, jobvars, late>>

Samples(s) ==
    /\ SampleStep(s)
    /\ UNCHANGED <<vars, callvars, jobvars, late>>

Later(ip) ==
    /\ Due(ip)
    /\ UNCHANGED <<vars, callvars, jobvars, late>>

\* Crawler::add_hash, on request: nothing is looked at.
UserAdds(h) ==
    /\ MayAnnounce /\ pending[h] = NoTask
    /\ StartFinder(h)
    /\ late' = late \cup {g \in {h} : job[g] = "storing" \/ g \in stored}
    /\ UNCHANGED <<smplvars, callvars, jobvars>>

CrawlerNext ==
    \/ \E h \in Hashes :
           \/ GivesUp(h) \/ MetadataDownloaded(h) \/ Store(h) \/ WorkerLeaves(h)
           \/ PeerAnnounce(h) \/ UserAdds(h)
    \/ \E c \in Callers : CheckHashLru(c) \/ Seek(c) \/ Peers(c) \/ NoPeers(c)
    \/ \E ip \in Addrs : Query(ip) \/ Later(ip)
    \/ \E s \in Slots : Sample(s) \/ Samples(s) \/ SampleOver(s)
                        \/ \E h \in Hashes : HashSampled(s, h)
    \/ \E t \in Tasks : PeersFound(t) \/ Finder(t)

\* Tasks are polled, queries end, and the semaphore serves those that wait in turn.
CrawlerSpec ==
    /\ CrawlerInit /\ [][CrawlerNext]_cvars
    /\ \A s \in Slots : WF_cvars(Sample(s) \/ Samples(s)) /\ SF_cvars(Samples(s))

-----------------------------------------------------------------------------
(* Properties *)

\* Shape.
CrawlerTypeOK ==
    /\ TypeOK
    /\ Len(sampled) <= MaxSampled /\ sip \in [Slots -> Addrs \cup {NoAddr}]
    /\ got \in [Slots -> SUBSET Hashes]
    /\ stored \subseteq Hashes /\ Len(hashLru) <= HashLruSize
    /\ job \in [Hashes -> {"none", "working", "storing", "leaving"}]

\* Through eviction, failures and repeated queries nodes are sampled by one task and
\* none is barred for good.
CrawlerInv == CrawlerTypeOK /\ SampledOnce /\ NoStuckMark

\* A hash is downloaded once, unless somebody was let in before it was stored and
\* gave it a peer afterwards (or the application cannot parse what it gets).
FetchedOnce == \A h \in Hashes : fetched[h] > 1 => h \in late \cup Unparsable

\* Nobody looks for peers of what is stored, unless the task was let in before, or
\* could not be cancelled because a predecessor had struck out its entry.
NoSearchForStored ==
    \A t \in Tasks :
        Alive(t) /\ Runnable(t) /\ hash[t] \in stored => hash[t] \in late \cup overtaken
=============================================================================
