----------------------------- MODULE Downloader -----------------------------
(***************************************************************************)
(* Download workers: crawler/downloader.rs.                                *)
(*                                                                         *)
(* `workers` maps an info hash to the abort handle of its worker and the   *)
(* sending end of its bounded queue of peers.  A worker waits for a        *)
(* permit, tries up to MaxConcurrent peers of its queue at once, and ends  *)
(* after a download, or when it has twice found nothing to do with a pause *)
(* between.  Then it cancels its hash, which removes whatever worker is    *)
(* listed for it.                                                          *)
(*                                                                         *)
(* Callers of add_peer and cancel run in parallel to the workers, under    *)
(* the lock of the map.  Nothing tells peers apart here, so a queue is its *)
(* length; a peer that is_self_ip refuses is one that is not added.  The   *)
(* LRU of hashes, which serves incoming handshakes only, is left out.      *)
(***************************************************************************)
EXTENDS Integers, FiniteSets

CONSTANTS
    Hashes,         \* info hashes
    Workers,        \* one per worker started
    NoWorker,       \* not a worker
    MaxWorkers,     \* MAX_WORKERS, 100
    MaxConcurrent,  \* MAX_CONCURRENT, 10
    MaxPending,     \* MAX_PENDING_PEERS, 100
    Incoming        \* are connections accepted? (bind_ip, None in the crawler)

ASSUME DownloaderAssumption ==
    /\ Hashes # {}
    /\ NoWorker \notin Workers
    /\ MaxWorkers \in Nat \ {0}
    /\ MaxConcurrent \in Nat \ {0}
    /\ MaxPending \in Nat \ {0}
    /\ Incoming \in BOOLEAN

VARIABLES
    workers,    \* the map: hash -> worker, or NoWorker
    pc,         \* where each worker is
    hash,       \* what it downloads
    queue,      \* peers in its queue
    active,     \* downloads in its JoinSet
    onceEmpty,  \* it has found nothing to do
    aborted,    \* workers whose handle has been aborted
    stopping    \* the guard of `run` is gone

wvars == <<queue, active, onceEmpty>>
vars == <<workers, pc, hash, wvars, aborted, stopping>>

\* worker_main has not returned: the receiver of the queue exists.
Receiving(w) == pc[w] \in {"queued", "filling", "joining", "pausing", "leaving"}

Alive(w) == Receiving(w) \/ pc[w] = "cleanup"

\* Workers with a permit.
Holders == {w \in Workers : pc[w] \in {"filling", "joining", "pausing", "leaving"}}

\* At an await point.  JoinSet::shutdown waits for the downloads it aborts.
Suspended(w) ==
    \/ pc[w] \in {"queued", "joining", "pausing"}
    \/ pc[w] = "leaving" /\ active[w] > 0

Runnable(w) == w \notin aborted

Init ==
    /\ workers = [h \in Hashes |-> NoWorker]
    /\ pc = [w \in Workers |-> "unused"]
    /\ \E h \in Hashes : hash = [w \in Workers |-> h]   \* of no consequence
    /\ queue = [w \in Workers |-> 0]
    /\ active = [w \in Workers |-> 0]
    /\ onceEmpty = [w \in Workers |-> FALSE]
    /\ aborted = {}
    /\ stopping = FALSE

Move(w, from, to) ==
    /\ pc[w] = from
    /\ pc' = [pc EXCEPT ![w] = to]

-----------------------------------------------------------------------------
(* Callers *)

\* add_peer, try_send to the worker of the hash: the peer is dropped if the
\* queue is full, or closed.
Offer(h) ==
    LET w == workers[h]
    IN  /\ w # NoWorker
        /\ queue' = IF Receiving(w) /\ queue[w] < MaxPending
                    THEN [queue EXCEPT ![w] = @ + 1]
                    ELSE queue
        /\ UNCHANGED <<workers, pc, hash, active, onceEmpty, aborted, stopping>>

\* Mutant: a worker for every peer that is added.
StartAlways(h, w) ==
    /\ pc[w] = "unused"
    /\ workers' = [workers EXCEPT ![h] = w]
    /\ pc' = [pc EXCEPT ![w] = "queued"]
    /\ hash' = [hash EXCEPT ![w] = h]
    /\ queue' = [queue EXCEPT ![w] = 1]
    /\ UNCHANGED <<active, onceEmpty, aborted, stopping>>

\* add_peer, no worker for the hash: one is started with the peer in its queue.
Start(h, w) ==
    /\ workers[h] = NoWorker
    /\ pc[w] = "unused"
    /\ workers' = [workers EXCEPT ![h] = w]
    /\ pc' = [pc EXCEPT ![w] = "queued"]
    /\ hash' = [hash EXCEPT ![w] = h]
    /\ queue' = [queue EXCEPT ![w] = 1]
    /\ UNCHANGED <<active, onceEmpty, aborted, stopping>>

\* Mutant: the worker of the hash is aborted but stays in the map.
UnlistKeeps(h) ==
    /\ workers' = workers
    /\ aborted' = aborted \cup ({workers[h]} \ {NoWorker})

\* cancel: whatever worker is listed for the hash is removed and aborted.
Unlist(h) ==
    /\ workers' = [workers EXCEPT ![h] = NoWorker]
    /\ aborted' = aborted \cup ({workers[h]} \ {NoWorker})

\* handle_incoming_impl: the metadata came over a connection of the peer's (its
\* task is not stopped with the crawler).
IncomingDownload(h) ==
    /\ Incoming
    /\ Unlist(h)
    /\ UNCHANGED <<pc, hash, wvars, stopping>>

\* The future of `run` is dropped with the crawler.
Stop ==
    /\ ~stopping
    /\ stopping' = TRUE
    /\ UNCHANGED <<workers, pc, hash, wvars, aborted>>

-----------------------------------------------------------------------------
(* A worker *)

Acquire(w) ==
    /\ Runnable(w)
    /\ Cardinality(Holders) < MaxWorkers
    /\ Move(w, "queued", "filling")
    /\ UNCHANGED <<workers, hash, wvars, aborted, stopping>>

\* Mutant: one download too many.
TakeOneMore(w) ==
    /\ pc[w] = "filling"
    /\ active[w] <= MaxConcurrent
    /\ queue[w] > 0
    /\ queue' = [queue EXCEPT ![w] = @ - 1]
    /\ active' = [active EXCEPT ![w] = @ + 1]
    /\ onceEmpty' = [onceEmpty EXCEPT ![w] = FALSE]
    /\ UNCHANGED <<workers, pc, hash, aborted, stopping>>

\* A peer is received and its download spawned.
Take(w) ==
    /\ pc[w] = "filling"
    /\ active[w] < MaxConcurrent
    /\ queue[w] > 0
    /\ queue' = [queue EXCEPT ![w] = @ - 1]
    /\ active' = [active EXCEPT ![w] = @ + 1]
    /\ onceEmpty' = [onceEmpty EXCEPT ![w] = FALSE]
    /\ UNCHANGED <<workers, pc, hash, aborted, stopping>>

\* Mutant: the pause does not count.
FilledForgets(w) ==
    /\ pc[w] = "filling"
    /\ active[w] = MaxConcurrent \/ queue[w] = 0
    /\ pc' = [pc EXCEPT ![w] = IF active[w] > 0 THEN "joining"
                               ELSE IF onceEmpty[w] THEN "leaving" ELSE "pausing"]
    /\ UNCHANGED <<workers, hash, wvars, aborted, stopping>>

\* No more peers to take: join_next waits, or there is nothing to wait for.
Filled(w) ==
    /\ pc[w] = "filling"
    /\ active[w] = MaxConcurrent \/ queue[w] = 0
    /\ pc' = [pc EXCEPT ![w] = IF active[w] > 0 THEN "joining"
                               ELSE IF onceEmpty[w] THEN "leaving" ELSE "pausing"]
    /\ onceEmpty' = [onceEmpty EXCEPT ![w] = @ \/ active[w] = 0]
    /\ UNCHANGED <<workers, hash, queue, active, aborted, stopping>>

\* A download ends: with the metadata, which is handed to the controller; or
\* with an error or its timeout.
Joined(w, to) ==
    /\ Runnable(w)
    /\ to \in {"leaving", "filling"}
    /\ Move(w, "joining", to)
    /\ active' = [active EXCEPT ![w] = @ - 1]
    /\ UNCHANGED <<workers, hash, queue, onceEmpty, aborted, stopping>>

\* The download has panicked, and `expect` makes the worker panic: all that
\* worker_main holds is dropped, but nothing is cancelled.
JoinPanics(w) ==
    /\ Runnable(w)
    /\ Move(w, "joining", "panicked")
    /\ queue' = [queue EXCEPT ![w] = 0]
    /\ active' = [active EXCEPT ![w] = 0]
    /\ UNCHANGED <<workers, hash, onceEmpty, aborted, stopping>>

Wake(w) ==
    /\ Runnable(w)
    /\ Move(w, "pausing", "filling")
    /\ UNCHANGED <<workers, hash, wvars, aborted, stopping>>

\* worker_main is over, and its locals are dropped: the queue, the downloads.
Exit(w, to) ==
    /\ pc' = [pc EXCEPT ![w] = to]
    /\ queue' = [queue EXCEPT ![w] = 0]
    /\ active' = [active EXCEPT ![w] = 0]
    /\ UNCHANGED <<workers, hash, onceEmpty, aborted, stopping>>

\* JoinSet::shutdown is done.
Leave(w) ==
    /\ pc[w] = "leaving"
    /\ Suspended(w) => Runnable(w)
    /\ Exit(w, "cleanup")

\* Mutant: the cancellation is looked at while waiting for a permit only.
StoppedQueued(w) ==
    /\ stopping
    /\ Runnable(w)
    /\ pc[w] = "queued"
    /\ Exit(w, "cleanup")

\* The other branch of the select: the cancel watch has changed.
Stopped(w) ==
    /\ stopping
    /\ Runnable(w)
    /\ Suspended(w)
    /\ Exit(w, "cleanup")

\* The runtime drops an aborted worker where it waits.
Drop(w) ==
    /\ ~Runnable(w)
    /\ Suspended(w)
    /\ Exit(w, "over")

\* this.cancel(hash)
Cleanup(w) ==
    /\ Move(w, "cleanup", "over")
    /\ Unlist(hash[w])
    /\ UNCHANGED <<hash, wvars, stopping>>

WorkerStep(w) ==
    \/ Acquire(w) \/ Take(w) \/ Filled(w) \/ Wake(w) \/ Leave(w)
    \/ \E to \in {"leaving", "filling"} : Joined(w, to)
    \/ JoinPanics(w) \/ Stopped(w) \/ Drop(w) \/ Cleanup(w)

-----------------------------------------------------------------------------
Next ==
    \/ \E h \in Hashes :
          \/ Offer(h) \/ IncomingDownload(h)
          \/ \E w \in Workers : Start(h, w)
    \/ Stop
    \/ \E w \in Workers : WorkerStep(w)

Spec == Init /\ [][Next]_vars

\* Workers are polled, timers fire (a download ends within MAX_DOWNLOAD_TIME),
\* and permits are given in turn.  With the cancel watch changed a worker ends
\* at the first poll that finds worker_main waiting, which comes again and again.
LiveSpec == Spec /\ \A w \in Workers : WF_vars(WorkerStep(w)) /\ SF_vars(Stopped(w))

-----------------------------------------------------------------------------
(* Properties *)

\* Shape of the state, with the limits on queues and downloads.
TypeOK ==
    /\ workers \in [Hashes -> Workers \cup {NoWorker}]
    /\ pc \in [Workers -> {"unused", "queued", "filling", "joining", "pausing", "leaving",
                           "cleanup", "over", "panicked"}]
    /\ hash \in [Workers -> Hashes]
    /\ queue \in [Workers -> 0..MaxPending]
    /\ active \in [Workers -> 0..MaxConcurrent]
    /\ onceEmpty \in [Workers -> BOOLEAN]
    /\ aborted \subseteq Workers
    /\ stopping \in BOOLEAN

\* Cancelling by hash can hit the worker of another download of that hash.  Yet
\* a worker that is no longer listed is never left running, so that no hash has
\* two of them at work and cancel reaches all.
WorkListed ==
    \A w \in Workers : Alive(w) /\ Runnable(w) => workers[hash[w]] = w

\* What is listed is a worker of that hash which will still clean up after
\* itself, or has panicked: nothing else leaves a dead entry, which would refuse
\* the peers of its hash for ever.
NoDeadEntry ==
    \A h \in Hashes : workers[h] # NoWorker =>
        LET w == workers[h]
        IN  hash[w] = h /\ ((Alive(w) /\ Runnable(w)) \/ pc[w] = "panicked")

\* "Doing cleanup", says the end of a worker, and "The task could not be
\* canceled" the `expect` on its downloads: no worker ends without its cleanup.
EndsWithCleanup ==
    \A h \in Hashes : workers[h] # NoWorker => Alive(workers[h])

\* When no peers are added any more the workers end, whatever their downloads do.
IdleEnds ==
    <>[][\A h \in Hashes : ~Offer(h)]_queue => \A w \in Workers : [](Alive(w) => <>~Alive(w))

\* Once the crawler is stopped its workers end, though peers are still added.
StopEnds ==
    \A w \in Workers : stopping /\ Alive(w) ~> ~Alive(w)
=============================================================================
