-------------------------- MODULE DownloaderProofs --------------------------
(***************************************************************************)
(* Theorems about Downloader, for any number of hashes and workers and any *)
(* limits, with incoming connections or without.                           *)
(***************************************************************************)
EXTENDS Downloader, TLAPS

\* A worker is listed, and its handle aborted, only once it has been spawned.
Started ==
    /\ \A w \in aborted : pc[w] # "unused"
    /\ \A h \in Hashes : workers[h] # NoWorker => pc[workers[h]] # "unused"

\* join_next waits for something.
JoiningActive == \A w \in Workers : pc[w] = "joining" => active[w] > 0

Shape == TypeOK /\ Started /\ JoiningActive

IInv == Shape /\ WorkListed /\ NoDeadEntry

\* The steps of a worker between its start and its cleanup: the map and the
\* LRU are left alone, and nobody is aborted.
MainStep(w) ==
    \/ Acquire(w) \/ Take(w) \/ Filled(w) \/ Wake(w) \/ Leave(w)
    \/ \E to \in {"leaving", "filling"} : Joined(w, to)
    \/ Stopped(w)

-----------------------------------------------------------------------------

LEMMA InitIInv == Init => IInv
  <1> SUFFICES ASSUME Init PROVE IInv
    OBVIOUS
  <1> USE DownloaderAssumption
  <1>1. hash \in [Workers -> Hashes]
    BY DEF Init
  <1>2. 0 \in 0..MaxPending /\ 0 \in 0..MaxConcurrent
    OBVIOUS
  <1>3. /\ queue \in [Workers -> 0..MaxPending]
        /\ active \in [Workers -> 0..MaxConcurrent]
        /\ onceEmpty \in [Workers -> BOOLEAN]
    BY <1>2 DEF Init
  <1>4. pc \in [Workers -> {"unused", "queued", "filling", "joining", "pausing", "leaving",
                           "cleanup", "over", "panicked"}]
    BY DEF Init
  <1>5. Shape
    BY <1>1, <1>3, <1>4 DEF Init, Shape, TypeOK, Started, JoiningActive
  <1>6. WorkListed /\ NoDeadEntry
    BY DEF Init, WorkListed, NoDeadEntry, Alive, Receiving
  <1> QED
    BY <1>5, <1>6 DEF IInv

\* Calls of others, and the steps of a worker, one at a time.
LEMMA ShapeStep == Shape /\ [Next]_vars => Shape'
  <1> SUFFICES ASSUME Shape, [Next]_vars PROVE Shape'
    OBVIOUS
  <1> USE DownloaderAssumption DEF Shape, TypeOK, Started, JoiningActive, wvars
  <1>2. ASSUME NEW h \in Hashes, Offer(h) PROVE Shape'
    <2>1. queue' \in [Workers -> 0..MaxPending]
      BY <1>2 DEF Offer
    <2> QED
      BY <1>2, <2>1 DEF Offer
  <1>3. ASSUME NEW h \in Hashes, NEW w \in Workers, Start(h, w) PROVE Shape'
    <2>1. queue' \in [Workers -> 0..MaxPending]
      BY <1>3 DEF Start
    <2> QED
      BY <1>3, <2>1 DEF Start
  <1>4. ASSUME NEW h \in Hashes, IncomingDownload(h) PROVE Shape'
    BY <1>4 DEF IncomingDownload, Unlist
  <1>5. CASE Stop
    BY <1>5 DEF Stop
  <1>6. ASSUME NEW w \in Workers, Acquire(w) \/ Wake(w) PROVE Shape'
    BY <1>6 DEF Acquire, Wake, Move
  <1>7. ASSUME NEW w \in Workers, Take(w) PROVE Shape'
    BY <1>7 DEF Take
  <1>8. ASSUME NEW w \in Workers, Filled(w) PROVE Shape'
    <2>1. onceEmpty' \in [Workers -> BOOLEAN]
      BY <1>8, Zenon DEF Filled
    <2>2. pc' \in [Workers -> {"unused", "queued", "filling", "joining", "pausing", "leaving",
                              "cleanup", "over", "panicked"}]
      BY <1>8 DEF Filled
    <2>3. Started' /\ JoiningActive'
      BY <1>8 DEF Filled
    <2> QED
      BY <1>8, <2>1, <2>2, <2>3 DEF Filled
  <1>9. ASSUME NEW w \in Workers, NEW to \in {"leaving", "filling"}, Joined(w, to) PROVE Shape'
    <2>1. active[w] - 1 \in 0..MaxConcurrent
      BY <1>9 DEF Joined, Move
    <2>2. active' \in [Workers -> 0..MaxConcurrent]
      BY <1>9, <2>1 DEF Joined
    <2> QED
      BY <1>9, <2>2 DEF Joined, Move
  <1>10. ASSUME NEW w \in Workers, NEW to \in {"cleanup", "over", "panicked"}, Exit(w, to) PROVE Shape'
    BY <1>10 DEF Exit
  <1>11. ASSUME NEW w \in Workers, JoinPanics(w) PROVE Shape'
    BY <1>11 DEF JoinPanics, Move
  <1>12. ASSUME NEW w \in Workers, Cleanup(w) PROVE Shape'
    BY <1>12 DEF Cleanup, Move, Unlist
  <1>13. CASE UNCHANGED vars
    BY <1>13 DEF vars
  <1> QED
    BY <1>2, <1>3, <1>4, <1>5, <1>6, <1>7, <1>8, <1>9, <1>10, <1>11, <1>12, <1>13
    DEF Next, WorkerStep, Leave, Stopped, Drop

\* Before its cleanup a worker stays alive, and the map is not touched.
LEMMA MainStepMap ==
    ASSUME TypeOK, NEW w \in Workers, MainStep(w)
    PROVE  /\ Alive(w) /\ Alive(w)'
           /\ \A v \in Workers \ {w} : pc'[v] = pc[v]
           /\ UNCHANGED <<workers, hash, aborted>>
  BY DEF MainStep, Acquire, Take, Filled, Wake, Leave, Joined, Stopped, Exit, Move, Suspended,
         Alive, Receiving, TypeOK

LEMMA WorkListedStep == Shape /\ WorkListed /\ [Next]_vars => WorkListed'
  <1> SUFFICES ASSUME Shape, WorkListed, [Next]_vars, NEW v \in Workers, Alive(v)', Runnable(v)'
               PROVE  workers'[hash'[v]] = v
    BY DEF WorkListed
  <1> USE DownloaderAssumption DEF Shape, TypeOK, WorkListed, Runnable
  <1>1. ASSUME NEW h \in Hashes, Offer(h) PROVE workers'[hash'[v]] = v
    BY <1>1 DEF Offer, Alive, Receiving
  <1>2. ASSUME NEW h \in Hashes, NEW w \in Workers, Start(h, w) PROVE workers'[hash'[v]] = v
    <2>1. CASE v = w
      BY <1>2, <2>1 DEF Start
    <2>2. CASE v # w
      <3>1. Alive(v) /\ Runnable(v) /\ hash'[v] = hash[v]
        BY <1>2, <2>2 DEF Start, Alive, Receiving
      <3>2. workers[hash[v]] = v /\ hash[v] # h
        BY <1>2, <3>1 DEF Start
      <3> QED
        BY <1>2, <3>1, <3>2 DEF Start
    <2> QED
      BY <2>1, <2>2
  <1>3. ASSUME NEW h \in Hashes, Unlist(h), Alive(v), hash' = hash PROVE workers'[hash'[v]] = v
    <2>1. workers[hash[v]] = v
      BY <1>3 DEF Unlist
    <2>2. hash[v] # h
      BY <1>3, <2>1 DEF Unlist
    <2> QED
      BY <1>3, <2>1, <2>2 DEF Unlist
  <1>4. ASSUME NEW h \in Hashes, IncomingDownload(h) PROVE workers'[hash'[v]] = v
    BY <1>3, <1>4 DEF IncomingDownload, Alive, Receiving
  <1>5. ASSUME NEW w \in Workers, Cleanup(w) PROVE workers'[hash'[v]] = v
    <2>1. Alive(v)
      BY <1>5 DEF Cleanup, Move, Alive, Receiving
    <2>2. hash[w] \in Hashes /\ Unlist(hash[w]) /\ hash' = hash
      BY <1>5 DEF Cleanup
    <2> QED
      BY <1>3, <2>1, <2>2
  <1>6. ASSUME NEW w \in Workers, MainStep(w) PROVE workers'[hash'[v]] = v
    <2>1. Alive(v)
      BY <1>6, MainStepMap DEF Alive, Receiving
    <2> QED
      BY <1>6, <2>1, MainStepMap
  <1>7. ASSUME NEW w \in Workers, JoinPanics(w) \/ Drop(w) PROVE workers'[hash'[v]] = v
    BY <1>7 DEF JoinPanics, Drop, Exit, Move, Alive, Receiving
  <1>8. CASE UNCHANGED vars \/ Stop
    BY <1>8 DEF vars, Stop, Alive, Receiving
  <1> QED
    BY <1>1, <1>2, <1>4, <1>5, <1>6, <1>7, <1>8 DEF Next, WorkerStep, MainStep

\* NoDeadEntry of one hash.
LiveEntry(h) ==
    LET w == workers[h]
    IN  hash[w] = h /\ ((Alive(w) /\ Runnable(w)) \/ pc[w] = "panicked")

LEMMA EntriesStep == Shape /\ NoDeadEntry /\ [Next]_vars => NoDeadEntry'
  <1> SUFFICES ASSUME Shape, NoDeadEntry, [Next]_vars,
                      NEW h \in Hashes, workers'[h] # NoWorker
               PROVE  LiveEntry(h)'
    BY DEF NoDeadEntry, LiveEntry
  <1> USE DownloaderAssumption DEF Shape, TypeOK, NoDeadEntry, Runnable, LiveEntry
  <1>1. ASSUME NEW g \in Hashes, Offer(g) PROVE LiveEntry(h)'
    BY <1>1 DEF Offer, Alive, Receiving
  <1>2. ASSUME NEW g \in Hashes, NEW w \in Workers, Start(g, w) PROVE LiveEntry(h)'
    <2>1. CASE h = g
      BY <1>2, <2>1 DEF Start, Started, Alive, Receiving
    <2>2. CASE h # g
      BY <1>2, <2>2 DEF Start, Started, Alive, Receiving
    <2> QED
      BY <2>1, <2>2
  <1>3. ASSUME NEW g \in Hashes, Unlist(g), hash' = hash
        PROVE  /\ workers'[h] = workers[h] /\ h # g
               /\ LiveEntry(h) /\ (workers[h] \in aborted' => workers[h] \in aborted)
    <2>1. h # g /\ workers'[h] = workers[h]
      BY <1>3 DEF Unlist
    <2>2. LiveEntry(h)
      BY <2>1
    <2>3. workers[h] # workers[g]
      BY <2>1, <2>2
    <2> QED
      BY <1>3, <2>1, <2>2, <2>3 DEF Unlist
  <1>4. ASSUME NEW g \in Hashes, IncomingDownload(g) PROVE LiveEntry(h)'
    BY <1>3, <1>4 DEF IncomingDownload, Alive, Receiving
  <1>5. ASSUME NEW w \in Workers, Cleanup(w) PROVE LiveEntry(h)'
    <2>1. hash[w] \in Hashes /\ Unlist(hash[w]) /\ hash' = hash
      BY <1>5 DEF Cleanup
    <2>2. workers[h] # w
      BY <1>3, <2>1
    <2> QED
      BY <1>3, <1>5, <2>1, <2>2 DEF Cleanup, Move, Alive, Receiving
  <1>6. ASSUME NEW w \in Workers, MainStep(w) PROVE LiveEntry(h)'
    <2>1. workers'[h] = workers[h] /\ hash' = hash /\ aborted' = aborted
      BY <1>6, MainStepMap
    <2>2. CASE workers[h] = w
      <3>1. Alive(w) /\ Alive(w)' /\ pc[w] # "panicked"
        BY <1>6, MainStepMap DEF Alive, Receiving
      <3> QED
        BY <2>1, <2>2, <3>1
    <2>3. CASE workers[h] # w
      BY <1>6, <2>1, <2>3, MainStepMap DEF Alive, Receiving
    <2> QED
      BY <2>2, <2>3
  <1>7. ASSUME NEW w \in Workers, Drop(w) PROVE LiveEntry(h)'
    BY <1>7 DEF Drop, Exit, Suspended, Alive, Receiving
  <1>8. ASSUME NEW w \in Workers, JoinPanics(w) PROVE LiveEntry(h)'
    BY <1>8 DEF JoinPanics, Move, Alive, Receiving
  <1>9. CASE UNCHANGED vars \/ Stop
    BY <1>9 DEF vars, Stop, Alive, Receiving
  <1> QED
    BY <1>1, <1>2, <1>4, <1>5, <1>6, <1>7, <1>8, <1>9 DEF Next, WorkerStep, MainStep

\* The invariant holds in every state.
THEOREM InductiveInvariant == Spec => []IInv
  <1>1. IInv /\ [Next]_vars => IInv'
    BY ShapeStep, WorkListedStep, EntriesStep DEF IInv
  <1> QED
    BY InitIInv, <1>1, PTL DEF Spec

\* Types hold; no queue and no JoinSet exceeds its limit (MAX_PENDING_PEERS,
\* MAX_CONCURRENT).
THEOREM TypeCorrect == Spec => []TypeOK
  BY InductiveInvariant, PTL DEF IInv, Shape

\* A worker that `workers` does not list has been aborted, however cancel by
\* hash, incoming connections, panics and new peers interleave.
THEOREM WorkListedHolds == Spec => []WorkListed
  BY InductiveInvariant, PTL DEF IInv

\* No hash is blocked by a dead worker, unless by one that panicked.
THEOREM NoDeadEntryHolds == Spec => []NoDeadEntry
  BY InductiveInvariant, PTL DEF IInv
=============================================================================
