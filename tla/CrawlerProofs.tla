--------------------------- MODULE CrawlerProofs ---------------------------
(***************************************************************************)
(* Theorems about the peer finder by itself (of Spec), and about the       *)
(* crawler with its sampler and its finder (of CrawlerSpec), for any       *)
(* number of hashes, nodes, tasks and entries of the caches.               *)
(***************************************************************************)
EXTENDS Crawler, DataLemmas

-----------------------------------------------------------------------------
(* The peer finder *)

\* A handle is aborted only once its task has been spawned.
AbortedStarted == \A t \in aborted : pc[t] # "unused"

\* A task that is to make another round has one left.
RoundsLeft ==
    \A t \in Tasks :
        pc[t] \in {"unused", "queued", "searching", "reporting", "sleeping"} => round[t] < MaxRetries

\* Nothing is listed for a hash while a cancelled task of it may still come to
\* the lock, unless the hash was added in just that time.
LateAlone ==
    \A t \in Tasks : Late(t) /\ hash[t] \notin overtaken => pending[hash[t]] = NoTask

Shape == TypeOK /\ AbortedStarted /\ RoundsLeft

Map == NoDeadEntry /\ LateAlone /\ WorkListed

IInv == Shape /\ Map /\ SwitchFollows

-----------------------------------------------------------------------------

LEMMA InitIInv == Init => IInv
  <1> SUFFICES ASSUME Init PROVE IInv
    OBVIOUS
  <1> USE PeerFinderAssumption
  <1>1. Shape
    <2>1. hash \in [Tasks -> Hashes]
      BY DEF Init
    <2>2. 0 \in 0..MaxRetries /\ 0 < MaxRetries
      OBVIOUS
    <2>3. pending \in [Hashes -> Tasks \cup {NoTask}] /\ round \in [Tasks -> 0..MaxRetries]
      BY <2>2 DEF Init
    <2>4. pc \in [Tasks -> {"unused", "queued", "searching", "reporting", "sleeping",
                            "leaving", "done", "dropped"}]
      BY DEF Init
    <2>5. RoundsLeft
      BY <2>2 DEF Init, RoundsLeft
    <2> QED
      BY <2>1, <2>3, <2>4, <2>5 DEF Init, Shape, TypeOK, AbortedStarted
  <1>2. Map
    BY DEF Init, Map, NoDeadEntry, LateAlone, WorkListed, Late, Alive
  <1>3. Listed = {}
    BY DEF Init, Listed
  <1>4. SwitchFollows
    BY <1>3, FS_EmptySet DEF SwitchFollows, Init
  <1> QED
    BY <1>1, <1>2, <1>4 DEF IInv

LEMMA ShapeStep == Shape /\ NoDeadEntry /\ [Next]_vars => Shape'
  <1> SUFFICES ASSUME Shape, NoDeadEntry, [Next]_vars PROVE Shape'
    OBVIOUS
  <1> USE PeerFinderAssumption DEF Shape, TypeOK, AbortedStarted, RoundsLeft
  <1>1. ASSUME NEW h \in Hashes, NEW t \in Tasks, AddHash(h, t) PROVE Shape'
    BY <1>1 DEF AddHash, NotifyLen, Notify
  <1>2. ASSUME NEW h \in Hashes, Cancel(h) PROVE Shape'
    BY <1>2 DEF Cancel, NotifyLen, Notify, NoDeadEntry, Alive
  <1>3. CASE CancelAll
    <2>1. aborted' \subseteq Tasks /\ \A t \in aborted' : pc[t] # "unused"
      BY <1>3 DEF CancelAll, NoDeadEntry, Alive, Listed
    <2> QED
      BY <1>3, <2>1 DEF CancelAll, Notify
  <1>4. ASSUME NEW t \in Tasks, Acquire(t) PROVE Shape'
    BY <1>4 DEF Acquire, Move
  <1>5. ASSUME NEW t \in Tasks, Searched(t) PROVE Shape'
    BY <1>5 DEF Searched, Move
  <1>6. ASSUME NEW t \in Tasks, Report(t) PROVE Shape'
    BY <1>6 DEF Report, Move
  <1>7. ASSUME NEW t \in Tasks, Wake(t) PROVE Shape'
    BY <1>7 DEF Wake, Move
  <1>8. ASSUME NEW t \in Tasks, Leave(t) PROVE Shape'
    BY <1>8 DEF Leave, Move, NotifyLen, Notify
  <1>9. ASSUME NEW t \in Tasks, Drop(t) PROVE Shape'
    BY <1>9 DEF Drop
  <1>10. CASE UNCHANGED vars
    BY <1>10 DEF vars
  <1> QED
    BY <1>1, <1>2, <1>3, <1>4, <1>5, <1>6, <1>7, <1>8, <1>9, <1>10 DEF Next, TaskStep

\* A step that only moves a task from one live place to another, and into the
\* last part of a round only if it is runnable, disturbs nothing in the map.
LEMMA MoveStep ==
    ASSUME Shape, Map, NEW t \in Tasks,
           Alive(t), Alive(t)', Late(t)' => Late(t),
           \A u \in Tasks \ {t} : pc'[u] = pc[u],
           UNCHANGED <<pending, hash, aborted, overtaken>>
    PROVE  Map'
  <1> USE DEF Shape, TypeOK
  <1>1. NoDeadEntry'
    BY DEF Map, NoDeadEntry, Alive, Runnable
  <1>2. LateAlone'
    BY DEF Map, LateAlone, Late, Runnable
  <1>3. WorkListed'
    BY DEF Map, WorkListed, Alive, Runnable
  <1> QED
    BY <1>1, <1>2, <1>3 DEF Map

LEMMA AddStep ==
    ASSUME Shape, Map, NEW h \in Hashes, NEW t \in Tasks, AddHash(h, t)
    PROVE  Map'
  <1> USE PeerFinderAssumption DEF Shape, TypeOK
  <1>1. t \notin aborted
    BY DEF AddHash, AbortedStarted
  <1>2. NoDeadEntry'
    BY <1>1 DEF Map, NoDeadEntry, AddHash, Alive, Runnable
  <1>3. LateAlone'
    <2> SUFFICES ASSUME NEW u \in Tasks, Late(u)', hash'[u] \notin overtaken'
                 PROVE  pending'[hash'[u]] = NoTask
      BY DEF LateAlone, AddHash
    <2>1. u # t /\ Late(u) /\ hash'[u] = hash[u]
      BY <1>1 DEF AddHash, Late
    <2>2. hash[u] # h
      BY <2>1 DEF AddHash
    <2> QED
      BY <2>1, <2>2 DEF Map, LateAlone, AddHash
  <1>4. WorkListed'
    <2> SUFFICES ASSUME NEW u \in Tasks, Alive(u)', Runnable(u)', hash'[u] \notin overtaken'
                 PROVE pending'[hash'[u]] = u
      BY DEF WorkListed
    <2>1. CASE u = t
      BY <2>1 DEF AddHash
    <2>2. CASE u # t
      BY <2>2 DEF AddHash, Map, WorkListed, Alive, Runnable
    <2> QED
      BY <2>1, <2>2
  <1> QED
    BY <1>2, <1>3, <1>4 DEF Map

LEMMA CancelStep ==
    ASSUME Shape, Map, NEW h \in Hashes, Cancel(h)
    PROVE  Map'
  <1> USE PeerFinderAssumption DEF Shape, TypeOK
  <1>1. NoDeadEntry'
    BY DEF Map, NoDeadEntry, Cancel, Alive, Runnable
  <1>2. hash[pending[h]] = h
    BY DEF Map, NoDeadEntry, Cancel
  <1>3. LateAlone'
    <2> SUFFICES ASSUME NEW u \in Tasks, Late(u)', hash'[u] \notin overtaken'
                 PROVE  pending'[hash'[u]] = NoTask
      BY DEF LateAlone, Cancel
    <2>1. CASE u = pending[h]
      BY <1>2, <2>1 DEF Cancel
    <2>2. CASE u # pending[h]
      BY <2>2 DEF Cancel, Late, Map, LateAlone
    <2> QED
      BY <2>1, <2>2
  <1>4. WorkListed'
    BY DEF Cancel, Map, WorkListed, Alive, Runnable
  <1> QED
    BY <1>1, <1>3, <1>4 DEF Map

LEMMA CancelAllStep ==
    ASSUME Shape, Map, CancelAll
    PROVE  Map'
  <1> USE PeerFinderAssumption DEF Shape, TypeOK
  <1>1. NoDeadEntry' /\ LateAlone'
    BY DEF NoDeadEntry, LateAlone, CancelAll
  <1>2. WorkListed'
    <2> SUFFICES ASSUME NEW u \in Tasks, Alive(u)', Runnable(u)', hash'[u] \notin overtaken' PROVE FALSE
      BY DEF WorkListed
    <2>1. pending[hash[u]] = u
      BY DEF CancelAll, Map, WorkListed, Alive, Runnable
    <2> QED
      BY <2>1 DEF CancelAll, Runnable, Listed
  <1> QED
    BY <1>1, <1>2 DEF Map

LEMMA LeaveStep ==
    ASSUME Shape, Map, NEW t \in Tasks, Leave(t)
    PROVE  Map'
  <1> USE PeerFinderAssumption DEF Shape, TypeOK, Leave, Move
  <1>1. NoDeadEntry'
    BY DEF Map, NoDeadEntry, Alive, Runnable
  <1>2. LateAlone'
    BY DEF Map, LateAlone, Late
  <1>3. WorkListed'
    <2> SUFFICES ASSUME NEW u \in Tasks, Alive(u)', Runnable(u)', hash'[u] \notin overtaken'
                 PROVE pending'[hash'[u]] = u
      BY DEF WorkListed
    <2>1. u # t /\ pending[hash[u]] = u
      BY DEF Map, WorkListed, Alive, Runnable
    <2>2. hash[u] # hash[t]
      BY <2>1 DEF Map, WorkListed, LateAlone, Late, Alive, Runnable
    <2> QED
      BY <2>1, <2>2
  <1> QED
    BY <1>1, <1>2, <1>3 DEF Map

LEMMA DropStep ==
    ASSUME Shape, Map, NEW t \in Tasks, Drop(t)
    PROVE  Map'
  <1> USE PeerFinderAssumption DEF Shape, TypeOK, Drop
  <1>1. NoDeadEntry'
    BY DEF Map, NoDeadEntry, Alive, Runnable
  <1>2. LateAlone'
    BY DEF Map, LateAlone, Late
  <1>3. WorkListed'
    BY DEF Map, WorkListed, Alive, Runnable
  <1> QED
    BY <1>1, <1>2, <1>3 DEF Map

LEMMA MapStep == Shape /\ Map /\ [Next]_vars => Map'
  <1> SUFFICES ASSUME Shape, Map, [Next]_vars PROVE Map'
    OBVIOUS
  <1> USE DEF Move
  <1>1. ASSUME NEW t \in Tasks, Acquire(t) PROVE Map'
    BY <1>1, MoveStep DEF Acquire, Alive, Late, Runnable, Shape, TypeOK
  <1>2. ASSUME NEW t \in Tasks, Searched(t) PROVE Map'
    BY <1>2, MoveStep DEF Searched, Alive, Late, Runnable, Shape, TypeOK
  <1>3. ASSUME NEW t \in Tasks, Report(t) PROVE Map'
    BY <1>3, MoveStep DEF Report, Alive, Late, Shape, TypeOK
  <1>4. ASSUME NEW t \in Tasks, Wake(t) PROVE Map'
    BY <1>4, MoveStep DEF Wake, Alive, Late, Runnable, Shape, TypeOK
  <1>5. CASE UNCHANGED vars
    BY <1>5 DEF vars, Map, NoDeadEntry, LateAlone, WorkListed, Late, Alive, Runnable
  <1> QED
    BY <1>1, <1>2, <1>3, <1>4, <1>5, AddStep, CancelStep, CancelAllStep, LeaveStep, DropStep
    DEF Next, TaskStep

LEMMA SwitchStep == Shape /\ SwitchFollows /\ [Next]_vars => SwitchFollows'
  <1> SUFFICES ASSUME Shape, SwitchFollows, [Next]_vars PROVE SwitchFollows'
    OBVIOUS
  <1> USE PeerFinderAssumption
  <1>1. Cardinality(Listed') \in Nat
    <2>1. Listed' \subseteq Hashes
      BY DEF Listed
    <2> QED
      BY <2>1, FS_Subset, FS_CardinalityType
  <1>2. ASSUME NotifyLen PROVE SwitchFollows'
    BY <1>1, <1>2 DEF NotifyLen, Notify, SwitchFollows, Listed
  <1>3. CASE CancelAll
    <2>1. Listed' = {}
      BY <1>3 DEF CancelAll, Listed
    <2>2. Cardinality(Listed') = 0
      BY <2>1, FS_EmptySet
    <2> QED
      BY <1>3, <2>2 DEF CancelAll, Notify, SwitchFollows
  <1>4. ASSUME UNCHANGED <<pending, tooMany>> PROVE SwitchFollows'
    BY <1>4 DEF SwitchFollows, Listed
  <1>5. NotifyLen \/ CancelAll \/ UNCHANGED <<pending, tooMany>>
    BY DEF Next, TaskStep, AddHash, Cancel, Acquire, Searched, Report, Wake, Leave, Drop, vars
  <1> QED
    BY <1>2, <1>3, <1>4, <1>5

\* The invariant holds in every state.
THEOREM InductiveInvariant == Spec => []IInv
  <1>1. IInv /\ [Next]_vars => IInv'
    BY ShapeStep, MapStep, SwitchStep DEF IInv, Map
  <1> QED
    BY InitIInv, <1>1, PTL DEF Spec

\* Types hold, and no task makes a round too many (for loop of find_peers).
THEOREM TypeCorrect == Spec => []TypeOK
  BY InductiveInvariant, PTL DEF IInv, Shape

\* What the map lists is alive, not aborted and of that hash: add_hash is never
\* refused for good.
THEOREM NoDeadEntryHolds == Spec => []NoDeadEntry
  BY InductiveInvariant, PTL DEF IInv, Map

\* too_many_hash follows the length of the map.
THEOREM SwitchHolds == Spec => []SwitchFollows
  BY InductiveInvariant, PTL DEF IInv

\* A task at work is listed, if its hash was never added while a cancelled task
\* of it was on its way to the lock.
THEOREM WorkListedHolds == Spec => []WorkListed
  BY InductiveInvariant, PTL DEF IInv, Map

-----------------------------------------------------------------------------
(* The caches *)

(* An element that is left out makes the sequence shorter. *)
LEMMA KeepShorter ==
    ASSUME NEW S, NEW s \in Seq(S), NEW T
    PROVE  /\ Keep(s, T) \in Seq(S) /\ Len(Keep(s, T)) <= Len(s)
           /\ \A i \in 1..Len(s) : s[i] \notin T => Len(Keep(s, T)) < Len(s)
<1>1. PICK h : KeptFrom(s, T, Len(s), Keep(s, T), h)
  BY KeepProperties
<1>2. PICK t \in Seq(S) : t = Keep(s, T)
  BY KeepProperties
<1>3. /\ Len(t) <= Len(s)
      /\ h \in [1..Len(t) -> 1..Len(s)]
      /\ \A j, k \in 1..Len(t) : j < k => h[j] < h[k]
      /\ \A k \in 1..Len(t) : t[k] = s[h[k]]
      /\ \A i \in 1..Len(s) : s[i] \in T <=> \E k \in 1..Len(t) : h[k] = i
  BY <1>1, <1>2 DEF KeptFrom
<1>4. PICK n \in Nat, m \in Nat : n = Len(s) /\ m = Len(t)
  OBVIOUS
<1>5. ASSUME NEW i \in 1..n, s[i] \notin T
      PROVE  m < n
  <2> DEFINE R == (1..n) \ {i}
  <2>1. h \in [1..m -> R]
    BY <1>3, <1>4, <1>5
  <2>2. \A j, k \in 1..m : h[j] = h[k] => j = k
    BY <1>3, <1>4
  <2>3. h \in Injection(1..m, R)
    BY <2>1, <2>2 DEF Injection, IsInjective
  <2>4. IsFiniteSet(1..n) /\ Cardinality(1..n) = n /\ Cardinality(1..m) = m
    BY FS_Interval
  <2>5. IsFiniteSet(R) /\ Cardinality(R) = n - 1
    BY <2>4, FS_RemoveElement
  <2>6. m <= n - 1
    BY <2>3, <2>4, <2>5, FS_Injection
  <2>7. QED
    BY <2>6
<1>6. QED
  BY <1>2, <1>3, <1>4, <1>5

\* No key is in the cache twice.
Keyed(lru) == \A i, j \in DOMAIN lru : lru[i][1] = lru[j][1] => i = j

Cache(lru) == lru \in Seq(Entry) /\ Len(lru) <= MaxSampled /\ Keyed(lru)

Holds(lru, e) == \E i \in DOMAIN lru : lru[i] = e

(* LruCache::put: the entry is in the cache, the others are as they were or, *)
(* if the key is a new one, one of them is gone.                             *)
LEMMA PutInProperties ==
    ASSUME NEW lru, Cache(lru), NEW ip \in Addrs, NEW mark \in {"sampling", "later", "due"}
    PROVE  /\ Cache(PutIn(lru, ip, mark))
           /\ Holds(PutIn(lru, ip, mark), <<ip, mark>>)
           /\ \A e \in Entry : Holds(PutIn(lru, ip, mark), e) =>
                  e = <<ip, mark>> \/ (e[1] # ip /\ Holds(lru, e))
           /\ \A other \in Entry : Holds(lru, other) /\ other[1] = ip =>
                  \A e \in Entry : Holds(lru, e) /\ e[1] # ip => Holds(PutIn(lru, ip, mark), e)
<1> DEFINE T == {e \in Entry : e[1] # ip}
           new == <<ip, mark>>
<1>1. lru \in Seq(Entry) /\ Len(lru) \in Nat /\ DOMAIN lru = 1..Len(lru)
      /\ Len(lru) <= MaxSampled /\ Keyed(lru) /\ MaxSampled \in Nat \ {0}
  BY SamplerAssumption DEF Cache
<1>2. PICK rest \in Seq(Entry) : rest = Keep(lru, T)
  BY <1>1, KeepProperties
<1>3. PICK h : KeptFrom(lru, T, Len(lru), rest, h)
  BY <1>1, <1>2, KeepProperties
<1>4. PICK m \in Nat : m = Len(rest)
  OBVIOUS
<1>5. /\ m <= Len(lru)
      /\ h \in [1..m -> 1..Len(lru)]
      /\ \A j, k \in 1..m : j < k => h[j] < h[k]
      /\ \A k \in 1..m : rest[k] = lru[h[k]]
      /\ \A i \in 1..Len(lru) : lru[i] \in T <=> \E k \in 1..m : h[k] = i
  BY <1>3, <1>4 DEF KeptFrom
<1>6. PICK all \in Seq(Entry) : all = Append(rest, new)
  <2>1. new \in Entry
    BY DEF Entry
  <2> HIDE DEF new
  <2>2. Append(rest, new) \in Seq(Entry)
    BY <2>1
  <2>3. QED
    BY <2>2
<1>7. Len(all) = m + 1 /\ all[m + 1] = new /\ \A k \in 1..m : all[k] = rest[k]
  BY <1>4, <1>6
<1>8. ASSUME NEW k \in 1..m
      PROVE  all[k] \in Entry /\ all[k][1] # ip /\ Holds(lru, all[k])
  <2>1. h[k] \in 1..Len(lru) /\ all[k] = lru[h[k]]
    BY <1>5, <1>7
  <2>2. lru[h[k]] \in T
    BY <1>5, <2>1
  <2>3. QED
    BY <1>1, <2>1, <2>2 DEF Holds
<1>9. \A j, k \in 1..(m + 1) : all[j][1] = all[k][1] => j = k
  <2>1. ASSUME NEW j \in 1..m, NEW k \in 1..m, all[j][1] = all[k][1]
        PROVE  j = k
    <3>1. h[j] \in 1..Len(lru) /\ h[k] \in 1..Len(lru) /\ lru[h[j]][1] = lru[h[k]][1]
      BY <1>5, <1>7, <2>1
    <3>2. h[j] = h[k]
      BY <1>1, <3>1 DEF Keyed
    <3>3. QED
      BY <1>5, <3>2
  <2>2. \A j \in 1..m : all[j][1] # all[m + 1][1]
    BY <1>7, <1>8
  <2>3. \A j \in 1..(m + 1) : j \in 1..m \/ j = m + 1
    OBVIOUS
  <2>4. QED
    BY <2>1, <2>2, <2>3
<1>10. ASSUME NEW e \in Entry, Holds(lru, e), e[1] # ip
       PROVE  \E k \in 1..m : all[k] = e
  <2>1. PICK i \in 1..Len(lru) : lru[i] = e
    BY <1>1, <1>10 DEF Holds
  <2>2. lru[i] \in T
    BY <1>10, <2>1
  <2>3. QED
    BY <1>5, <1>7, <2>1, <2>2
<1>11. PutIn(lru, ip, mark) = IF m + 1 > MaxSampled THEN Tail(all) ELSE all
  BY <1>2, <1>6, <1>7 DEF PutIn
<1>12. CASE m + 1 > MaxSampled
  <2>1. m = MaxSampled /\ m = Len(lru) /\ m >= 1
    BY <1>1, <1>5, <1>12
  <2>2. PICK t \in Seq(Entry) : t = Tail(all)
    <3>1. Len(all) # 0
      BY <1>7
    <3>2. all # << >>
      BY <3>1
    <3>3. Tail(all) \in Seq(Entry)
      BY <1>6, <3>2
    <3>4. QED
      BY <3>3
  <2>3. Len(t) = m /\ DOMAIN t = 1..m /\ \A k \in 1..m : t[k] = all[k + 1]
    BY <1>4, <1>6, <1>7, <2>1, <2>2
  <2>4. PutIn(lru, ip, mark) = t
    BY <1>11, <1>12, <2>2
  <2>5. Keyed(t)
    BY <1>9, <2>3 DEF Keyed
  <2>6. Cache(t)
    BY <2>1, <2>3, <2>5 DEF Cache
  <2>7. Holds(t, new)
    BY <1>7, <2>1, <2>3 DEF Holds
  <2>8. ASSUME NEW e \in Entry, Holds(t, e)
        PROVE  e = new \/ (e[1] # ip /\ Holds(lru, e))
    <3>1. PICK k \in 1..m : all[k + 1] = e
      BY <2>3, <2>8 DEF Holds
    <3>2. CASE k = m
      BY <1>7, <3>1, <3>2
    <3>3. CASE k # m
      BY <1>8, <3>1, <3>3
    <3>4. QED
      BY <3>2, <3>3
  <2>9. ASSUME NEW other \in Entry, Holds(lru, other), other[1] = ip
        PROVE  FALSE
    <3>1. PICK i \in 1..Len(lru) : lru[i] = other
      BY <1>1, <2>9 DEF Holds
    <3>2. lru[i] \notin T
      BY <2>9, <3>1
    <3>3. m < Len(lru)
      BY <1>1, <1>2, <1>4, <3>2, KeepShorter
    <3>4. QED
      BY <2>1, <3>3
  <2>10. QED
    BY <2>4, <2>6, <2>7, <2>8, <2>9
<1>13. CASE ~(m + 1 > MaxSampled)
  <2>1. PutIn(lru, ip, mark) = all
    BY <1>11, <1>13
  <2>2. DOMAIN all = 1..(m + 1)
    BY <1>4, <1>6, <1>7
  <2>3. Cache(all)
    BY <1>1, <1>7, <1>9, <1>13, <2>2 DEF Cache, Keyed
  <2>4. Holds(all, new)
    BY <1>7, <2>2 DEF Holds
  <2>5. ASSUME NEW e \in Entry, Holds(all, e)
        PROVE  e = new \/ (e[1] # ip /\ Holds(lru, e))
    <3>1. PICK k \in 1..(m + 1) : all[k] = e
      BY <2>2, <2>5 DEF Holds
    <3>2. CASE k = m + 1
      BY <1>7, <3>1, <3>2
    <3>3. CASE k # m + 1
      BY <1>8, <3>1, <3>3
    <3>4. QED
      BY <3>2, <3>3
  <2>6. ASSUME NEW e \in Entry, Holds(lru, e), e[1] # ip
        PROVE  Holds(all, e)
    BY <1>10, <2>2, <2>6 DEF Holds
  <2>7. QED
    BY <2>1, <2>3, <2>4, <2>5, <2>6
<1>14. QED
  BY <1>12, <1>13
-----------------------------------------------------------------------------
(* The sampler *)

SamplerTypes ==
    /\ Cache(sampled)
    /\ spc \in [Slots -> {"idle", "queued", "asking", "pinging", "collecting", "marking", "reporting"}]
    /\ sip \in [Slots -> Addrs \cup {NoAddr}]
    /\ got \in [Slots -> SUBSET Hashes]
    /\ \A s \in Slots : Sampling(s) => sip[s] \in Addrs

\* Who is being sampled is marked so, unless it fell out of the cache.
Marked == \A s \in Slots : Sampling(s) => sip[s] \in forgotten \/ Holds(sampled, <<sip[s], "sampling">>)

\* Two tasks have different nodes, unless the node fell out of the cache.
Alone ==
    \A s, r \in Slots : Sampling(s) /\ Sampling(r) /\ sip[s] = sip[r] => s = r \/ sip[s] \in forgotten

\* Who is marked as being sampled is.
MarkMeant ==
    \A ip \in Addrs : Holds(sampled, <<ip, "sampling">>) => \E s \in Slots : Sampling(s) /\ sip[s] = ip

\* The inductive invariant of the sampler.
SamplerInv == SamplerTypes /\ Marked /\ Alone /\ MarkMeant

(* What the entries of the cache say, in the words of the model. *)
LEMMA CacheEntries ==
    ASSUME NEW lru, Cache(lru)
    PROVE  /\ \A e \in Entry, f \in Entry : Holds(lru, e) /\ Holds(lru, f) /\ e[1] = f[1] => e = f
           /\ \A ip \in Addrs : ip \in BeingSampled(lru) <=> Holds(lru, <<ip, "sampling">>)
           /\ \A i \in DOMAIN lru : lru[i] \in Entry
<1>1. lru \in Seq(Entry) /\ Keyed(lru)
  BY DEF Cache
<1>2. \A i \in DOMAIN lru : lru[i] \in Entry
  BY <1>1
<1>3. \A e \in Entry, f \in Entry : Holds(lru, e) /\ Holds(lru, f) /\ e[1] = f[1] => e = f
  BY <1>1 DEF Keyed, Holds
<1>4. ASSUME NEW ip \in Addrs, ip \in BeingSampled(lru)
      PROVE  Holds(lru, <<ip, "sampling">>)
  <2>1. PICK x \in Range(lru) : x[2] = "sampling" /\ x[1] = ip
    BY <1>4 DEF BeingSampled
  <2>2. PICK i \in DOMAIN lru : lru[i] = x
    BY DEF Range
  <2>3. x = <<ip, "sampling">>
    BY <1>2, <2>1, <2>2 DEF Entry
  <2>4. QED
    BY <2>2, <2>3 DEF Holds
<1>5. ASSUME NEW ip \in Addrs, Holds(lru, <<ip, "sampling">>)
      PROVE  ip \in BeingSampled(lru)
  <2>1. PICK x : x = <<ip, "sampling">>
    OBVIOUS
  <2>2. x \in Range(lru) /\ x[1] = ip /\ x[2] = "sampling"
    BY <1>5, <2>1 DEF Holds, Range
  <2>3. QED
    BY <2>2 DEF BeingSampled
<1>6. QED
  BY <1>2, <1>3, <1>4, <1>5

LEMMA MarksHeld ==
    ASSUME Cache(sampled), NEW ip \in Addrs
    PROVE  /\ Marks(ip) \subseteq {"sampling", "later", "due"}
           /\ \A m : m \in Marks(ip) <=> Holds(sampled, <<ip, m>>)
<1>1. \A i \in DOMAIN sampled : sampled[i] \in Entry
  BY CacheEntries
<1>2. \A m : m \in Marks(ip) <=> \E i \in DOMAIN sampled : sampled[i][1] = ip /\ sampled[i][2] = m
  BY DEF Marks
<1>3. ASSUME NEW m, m \in Marks(ip)
      PROVE  m \in {"sampling", "later", "due"} /\ Holds(sampled, <<ip, m>>)
  <2>1. PICK i \in DOMAIN sampled : sampled[i][1] = ip /\ sampled[i][2] = m
    BY <1>2, <1>3
  <2>2. sampled[i] = <<ip, m>> /\ m \in {"sampling", "later", "due"}
    BY <1>1, <2>1 DEF Entry
  <2>3. QED
    BY <2>2 DEF Holds
<1>4. ASSUME NEW m, Holds(sampled, <<ip, m>>)
      PROVE  m \in Marks(ip)
  <2>1. PICK i \in DOMAIN sampled : sampled[i] = <<ip, m>>
    BY <1>4 DEF Holds
  <2>2. QED
    BY <1>2, <2>1
<1>5. QED
  BY <1>3, <1>4

(* A task goes from one place to the next, and neither begins nor ends. *)
LEMMA MovesOn ==
    ASSUME SamplerInv, UNCHANGED <<sampled, sip, forgotten>>,
           spc' \in [Slots -> {"idle", "queued", "asking", "pinging", "collecting", "marking", "reporting"}],
           got' \in [Slots -> SUBSET Hashes],
           \A s \in Slots : Sampling(s)' <=> Sampling(s)
    PROVE  SamplerInv'
BY DEF SamplerInv, SamplerTypes, Marked, Alone, MarkMeant, Sampling

(* add_sample_node *)
LEMMA AddSampleKeeps ==
    ASSUME SamplerInv, NEW ip \in Addrs, AddSampleNode(ip)
    PROVE  SamplerInv'
<1>1. Cache(sampled) /\ SamplerTypes
  BY DEF SamplerInv, SamplerTypes
<1>2. \A m \in {"sampling", "later", "due"} : <<ip, m>> \in Entry
  BY DEF Entry
<1>3. CASE IsDue(ip)
  <2>1. PICK s \in Slots :
            /\ spc[s] = "idle"
            /\ sampled' = PutIn(sampled, ip, "sampling")
            /\ forgotten' = forgotten \cup (BeingSampled(sampled) \ (BeingSampled(sampled') \cup {ip}))
            /\ spc' = [spc EXCEPT ![s] = "queued"]
            /\ sip' = [sip EXCEPT ![s] = ip]
            /\ UNCHANGED got
    <3>1. \E r \in Slots : spc[r] = "idle"
      BY <1>3 DEF AddSampleNode
    <3>2. PICK s : s = CHOOSE r \in Slots : spc[r] = "idle"
      OBVIOUS
    <3>3. s \in Slots /\ spc[s] = "idle"
      BY <3>1, <3>2
    <3>4. QED
      BY <1>3, <3>2, <3>3 DEF AddSampleNode
  <2>2. /\ Cache(sampled') /\ Holds(sampled', <<ip, "sampling">>)
        /\ \A e \in Entry : Holds(sampled', e) =>
                  e = <<ip, "sampling">> \/ (e[1] # ip /\ Holds(sampled, e))
    BY <1>1, <2>1, PutInProperties
  <2>3. ~Sampling(s) /\ Sampling(s)' /\ sip'[s] = ip
        /\ \A r \in Slots \ {s} : (Sampling(r)' <=> Sampling(r)) /\ sip'[r] = sip[r]
    BY <1>1, <2>1 DEF SamplerTypes, Sampling
  <2>4. SamplerTypes'
    <3>1. spc' \in [Slots -> {"idle", "queued", "asking", "pinging", "collecting", "marking", "reporting"}]
      BY <1>1, <2>1 DEF SamplerTypes
    <3>2. sip' \in [Slots -> Addrs \cup {NoAddr}]
      BY <1>1, <2>1 DEF SamplerTypes
    <3>3. \A r \in Slots : Sampling(r)' => sip'[r] \in Addrs
      BY <1>1, <2>3 DEF SamplerTypes
    <3>4. QED
      BY <1>1, <2>1, <2>2, <3>1, <3>2, <3>3 DEF SamplerTypes
  \* A node that is being sampled and was not forgotten is not due.
  <2>5. \A r \in Slots : Sampling(r) /\ sip[r] = ip => ip \in forgotten
    <3>1. "sampling" \notin Marks(ip)
      BY <1>3 DEF IsDue
    <3>2. ~Holds(sampled, <<ip, "sampling">>)
      BY <1>1, <3>1, MarksHeld
    <3>3. QED
      BY <3>2 DEF SamplerInv, Marked
  <2>6. \A r \in Slots : Sampling(r)' => sip'[r] \in forgotten' \/ Holds(sampled', <<sip'[r], "sampling">>)
    <3>1. ASSUME NEW r \in Slots, Sampling(r)', r # s, sip[r] # ip, sip[r] \notin forgotten
          PROVE  sip[r] \in forgotten' \/ Holds(sampled', <<sip[r], "sampling">>)
      <4>1. sip[r] \in Addrs /\ Holds(sampled, <<sip[r], "sampling">>)
        BY <1>1, <2>3, <3>1 DEF SamplerInv, SamplerTypes, Marked
      <4>2. sip[r] \in BeingSampled(sampled)
        BY <1>1, <4>1, CacheEntries
      <4>3. sip[r] \in BeingSampled(sampled') => Holds(sampled', <<sip[r], "sampling">>)
        BY <2>2, <4>1, CacheEntries
      <4>4. QED
        BY <2>1, <3>1, <4>2, <4>3
    <3>2. QED
      BY <2>1, <2>2, <2>3, <3>1
  <2>7. \A q, r \in Slots : Sampling(q)' /\ Sampling(r)' /\ sip'[q] = sip'[r] => q = r \/ sip'[q] \in forgotten'
    BY <2>1, <2>3, <2>5 DEF SamplerInv, Alone
  <2>8. ASSUME NEW a \in Addrs, Holds(sampled', <<a, "sampling">>)
        PROVE  \E r \in Slots : Sampling(r)' /\ sip'[r] = a
    <3>1. CASE a = ip
      BY <2>3, <3>1
    <3>2. CASE a # ip
      <4>1. <<a, "sampling">> \in Entry
        BY DEF Entry
      <4>2. Holds(sampled, <<a, "sampling">>)
        BY <2>2, <2>8, <3>2, <4>1
      <4>3. PICK r \in Slots : Sampling(r) /\ sip[r] = a
        BY <4>2 DEF SamplerInv, MarkMeant
      <4>4. QED
        BY <2>3, <4>3
    <3>3. QED
      BY <3>1, <3>2
  <2>9. QED
    BY <2>4, <2>6, <2>7, <2>8 DEF SamplerInv, Marked, Alone, MarkMeant
<1>4. CASE ~IsDue(ip)
  <2>1. PICK mark \in Marks(ip) : sampled' = PutIn(sampled, ip, mark)
    BY <1>4 DEF AddSampleNode
  <2>2. UNCHANGED <<spc, sip, got, forgotten>>
    BY <1>4 DEF AddSampleNode
  <2>3. mark \in {"sampling", "later", "due"} /\ Holds(sampled, <<ip, mark>>)
    BY <1>1, MarksHeld
  <2>4. PICK new \in Entry : new = <<ip, mark>> /\ new[1] = ip /\ Holds(sampled, new)
    BY <1>2, <2>3
  <2>5. /\ Cache(sampled')
        /\ \A e \in Entry : Holds(sampled', e) => e = new \/ Holds(sampled, e)
        /\ \A e \in Entry : Holds(sampled, e) /\ e[1] # ip => Holds(sampled', e)
        /\ Holds(sampled', new)
    BY <1>1, <2>1, <2>3, <2>4, PutInProperties
  <2>6. \A e \in Entry : Holds(sampled', e) <=> Holds(sampled, e)
    BY <1>1, <2>4, <2>5, CacheEntries
  <2>7. \A a \in Addrs : Holds(sampled', <<a, "sampling">>) <=> Holds(sampled, <<a, "sampling">>)
    BY <2>6 DEF Entry
  <2>8. SamplerTypes' /\ \A r \in Slots : Sampling(r)' <=> Sampling(r)
    BY <1>1, <2>2, <2>5 DEF SamplerTypes, Sampling
  <2>9. QED
    BY <1>1, <2>2, <2>7, <2>8 DEF SamplerInv, SamplerTypes, Marked, Alone, MarkMeant
<1>5. QED
  BY <1>3, <1>4

(* The task of a sample ends, and tells when the node is due again. *)
LEMMA MarkKeeps ==
    ASSUME SamplerInv, NEW s \in Slots, Mark(s)
    PROVE  SamplerInv'
<1>1. Cache(sampled) /\ SamplerTypes
  BY DEF SamplerInv, SamplerTypes
<1>2. PICK ip \in Addrs : ip = sip[s] /\ Sampling(s)
  BY <1>1 DEF Mark, SampleTo, SamplerTypes, Sampling
<1>3. PICK mark \in {"later", "due"} : sampled' = PutIn(sampled, ip, mark)
  BY <1>2 DEF Mark, MarkIn
<1>4. /\ Cache(sampled')
      /\ Holds(sampled', <<ip, mark>>)
      /\ \A e \in Entry : Holds(sampled', e) => e = <<ip, mark>> \/ (e[1] # ip /\ Holds(sampled, e))
  BY <1>1, <1>3, PutInProperties
<1>5. /\ sip' = [sip EXCEPT ![s] = NoAddr] /\ UNCHANGED got
      /\ \E to \in {"idle", "reporting"} : spc' = [spc EXCEPT ![s] = to]
  BY DEF Mark, SampleTo
<1>6. /\ spc' \in [Slots -> {"idle", "queued", "asking", "pinging", "collecting", "marking", "reporting"}]
      /\ sip' \in [Slots -> Addrs \cup {NoAddr}]
      /\ ~Sampling(s)'
      /\ \A r \in Slots \ {s} : (Sampling(r)' <=> Sampling(r)) /\ sip'[r] = sip[r]
  BY <1>1, <1>5 DEF SamplerTypes, Sampling
<1>7. SamplerTypes'
  BY <1>1, <1>4, <1>5, <1>6 DEF SamplerTypes
\* A node is still forgotten unless no task samples it any more.
<1>8. ASSUME NEW r \in Slots \ {s}, Sampling(r), sip[r] \in forgotten
      PROVE  sip[r] \in forgotten'
  <2>1. sip[r] = ip => SamplesOf(ip) # {s}
    BY <1>8 DEF SamplesOf
  <2>2. QED
    BY <1>2, <1>8, <2>1 DEF Mark
<1>9. ASSUME NEW r \in Slots \ {s}, Sampling(r)
      PROVE  sip[r] \in forgotten' \/ Holds(sampled', <<sip[r], "sampling">>)
  <2> SUFFICES ASSUME sip[r] \notin forgotten
               PROVE  sip[r] \in forgotten' \/ Holds(sampled', <<sip[r], "sampling">>)
    BY <1>8, <1>9
  <2>1. sip[r] # ip
    BY <1>2, <1>9 DEF SamplerInv, Alone
  <2>2. sip[r] \in Addrs /\ Holds(sampled, <<sip[r], "sampling">>)
    BY <1>1, <1>9 DEF SamplerInv, SamplerTypes, Marked
  <2>3. sip[r] \in BeingSampled(sampled)
    BY <1>1, <2>2, CacheEntries
  <2>4. sip[r] \in BeingSampled(sampled') => Holds(sampled', <<sip[r], "sampling">>)
    BY <1>4, <2>2, CacheEntries
  <2>5. sip[r] \notin BeingSampled(sampled') => sip[r] \in forgotten'
    BY <1>2, <2>1, <2>3 DEF Mark
  <2>6. QED
    BY <2>4, <2>5
<1>10. Marked'
  BY <1>6, <1>9 DEF Marked
<1>11. Alone'
  BY <1>6, <1>8 DEF SamplerInv, Alone
<1>12. ASSUME NEW a \in Addrs, Holds(sampled', <<a, "sampling">>)
       PROVE  \E r \in Slots : Sampling(r)' /\ sip'[r] = a
  <2>1. <<a, "sampling">> \in Entry
    BY DEF Entry
  <2>2. <<a, "sampling">> # <<ip, mark>>
    OBVIOUS
  <2>3. a # ip /\ Holds(sampled, <<a, "sampling">>)
    BY <1>4, <1>12, <2>1, <2>2
  <2>4. PICK r \in Slots : Sampling(r) /\ sip[r] = a
    BY <2>3 DEF SamplerInv, MarkMeant
  <2>5. QED
    BY <1>2, <1>6, <2>3, <2>4
<1>13. QED
  BY <1>7, <1>10, <1>11, <1>12 DEF SamplerInv, MarkMeant

(* The time of a node's next sample comes. *)
LEMMA DueKeeps ==
    ASSUME SamplerInv, NEW ip \in Addrs, Due(ip)
    PROVE  SamplerInv'
<1>1. Cache(sampled) /\ SamplerTypes
  BY DEF SamplerInv, SamplerTypes
<1>2. UNCHANGED <<spc, sip, got, forgotten>>
  BY DEF Due
<1>3. sampled' = [i \in DOMAIN sampled |-> IF sampled[i][1] = ip THEN <<ip, "due">> ELSE sampled[i]]
  BY DEF Due
<1>4. sampled \in Seq(Entry) /\ <<ip, "due">> \in Entry
      /\ Len(sampled) \in Nat /\ DOMAIN sampled = 1..Len(sampled)
      /\ Len(sampled) <= MaxSampled /\ Keyed(sampled)
      /\ \A i \in DOMAIN sampled : sampled[i] \in Entry
  BY <1>1 DEF Cache, Entry
<1>5. sampled' \in Seq(Entry) /\ Len(sampled') = Len(sampled) /\ DOMAIN sampled' = DOMAIN sampled
  BY <1>3, <1>4
<1>6. \A i \in DOMAIN sampled : sampled'[i][1] = sampled[i][1]
  BY <1>3
<1>7. Cache(sampled')
  BY <1>4, <1>5, <1>6 DEF Cache, Keyed
<1>8. Holds(sampled, <<ip, "later">>)
  BY <1>1, MarksHeld DEF Due
<1>9. ~Holds(sampled, <<ip, "sampling">>) /\ ~Holds(sampled', <<ip, "sampling">>)
  <2>1. PICK i \in DOMAIN sampled : sampled[i] = <<ip, "later">>
    BY <1>8 DEF Holds
  <2>2. \A j \in DOMAIN sampled : sampled[j][1] = ip => j = i
    BY <1>4, <2>1 DEF Keyed
  <2>3. \A j \in DOMAIN sampled : sampled[j] # <<ip, "sampling">>
    BY <2>1, <2>2
  <2>4. \A j \in DOMAIN sampled : sampled'[j] # <<ip, "sampling">>
    BY <1>3, <2>3
  <2>5. QED
    BY <1>5, <2>3, <2>4 DEF Holds
<1>10. ASSUME NEW a \in Addrs, a # ip
       PROVE  Holds(sampled', <<a, "sampling">>) <=> Holds(sampled, <<a, "sampling">>)
  BY <1>3, <1>5, <1>10 DEF Holds
<1>11. \A a \in Addrs : Holds(sampled', <<a, "sampling">>) <=> Holds(sampled, <<a, "sampling">>)
  BY <1>9, <1>10
<1>12. SamplerTypes' /\ \A r \in Slots : Sampling(r)' <=> Sampling(r)
  BY <1>1, <1>2, <1>7 DEF SamplerTypes, Sampling
<1>13. QED
  BY <1>1, <1>2, <1>11, <1>12 DEF SamplerInv, SamplerTypes, Marked, Alone, MarkMeant

(* The inductive invariant says what the sampler promises. *)
LEMMA SamplerPromises ==
    ASSUME SamplerInv
    PROVE  SampledOnce /\ NoStuckMark
<1>1. ASSUME NEW ip \in Addrs, Cardinality(SamplesOf(ip)) > 1
      PROVE  ip \in forgotten
  <2> SUFFICES ASSUME ip \notin forgotten PROVE FALSE
    OBVIOUS
  <2>1. \A s, r \in SamplesOf(ip) : s = r
    BY DEF SamplerInv, Alone, SamplesOf
  <2>2. SamplesOf(ip) = {} \/ \E s : SamplesOf(ip) = {s}
    BY <2>1
  <2>3. Cardinality(SamplesOf(ip)) \in {0, 1}
    BY <2>2, FS_EmptySet, FS_Singleton
  <2>4. QED
    BY <1>1, <2>3
<1>2. ASSUME NEW ip \in Addrs, "sampling" \in Marks(ip)
      PROVE  SamplesOf(ip) # {}
  <2>1. Holds(sampled, <<ip, "sampling">>)
    BY <1>2, MarksHeld DEF SamplerInv, SamplerTypes
  <2>2. QED
    BY <2>1 DEF SamplerInv, MarkMeant, SamplesOf
<1>3. QED
  BY <1>1, <1>2 DEF SampledOnce, NoStuckMark
-----------------------------------------------------------------------------
(* The crawler *)

CallTypes ==
    /\ stored \subseteq Hashes
    /\ hashLru \in Seq(Hashes) /\ Len(hashLru) <= HashLruSize
    /\ at \in [Callers -> {"idle", "checked", "new", "peers"}]
    /\ about \in [Callers -> Hashes]
    /\ job \in [Hashes -> {"none", "working", "storing", "leaving"}]
    /\ fetched \in [Hashes -> 0..2]

\* What is stored has nobody at work on it, unless somebody was let in before.
StoredLeft ==
    \A h \in stored \ late :
        /\ job[h] \in {"none", "leaving"}
        /\ \A c \in Callers : at[c] # "idle" => about[c] # h

\* What has been downloaded is stored.
FetchedStored == \A h \in Hashes : fetched[h] >= 1 => h \in stored \cup Unparsable

\* No finder is listed for what is stored or being stored, unless one was added late.
Unlisted ==
    \A h \in Hashes : (job[h] = "storing" \/ h \in stored) /\ h \notin late => pending[h] = NoTask

\* The inductive invariant of the calls.
CallInv == CallTypes /\ StoredLeft /\ FetchedStored /\ FetchedOnce /\ Unlisted

(* Every step of the crawler is a step of the finder, or none. *)
LEMMA FinderStep == CallTypes /\ [CrawlerNext]_cvars => [Next]_vars
<1> SUFFICES ASSUME CallTypes, [CrawlerNext]_cvars PROVE [Next]_vars
  OBVIOUS
<1>1. ASSUME NEW h \in Hashes, StartFinder(h)
      PROVE  Next
  <2>1. NewTask \in Tasks
    BY <1>1 DEF StartFinder, NewTask, Unused
  <2>2. QED
    BY <1>1, <2>1 DEF StartFinder, Next
<1>2. ASSUME NEW h \in Hashes, CancelFinder(h)
      PROVE  [Next]_vars
  BY <1>2 DEF CancelFinder, Next
<1>3. ASSUME NEW h \in Hashes,
             GivesUp(h) \/ MetadataDownloaded(h) \/ Store(h) \/ WorkerLeaves(h)
                \/ PeerAnnounce(h) \/ UserAdds(h)
      PROVE  [Next]_vars
  BY <1>1, <1>2, <1>3 DEF GivesUp, MetadataDownloaded, Store, WorkerLeaves, PeerAnnounce, UserAdds
<1>4. ASSUME NEW c \in Callers, CheckHashLru(c) \/ Seek(c) \/ Peers(c) \/ NoPeers(c)
      PROVE  [Next]_vars
  <2>1. about[c] \in Hashes
    BY DEF CallTypes
  <2>2. QED
    BY <1>1, <1>4, <2>1 DEF CheckHashLru, Seek, Peers, NoPeers
<1>5. ASSUME NEW ip \in Addrs, Query(ip) \/ Later(ip)
      PROVE  [Next]_vars
  BY <1>5 DEF Query, Later
<1>6. ASSUME NEW s \in Slots,
             Sample(s) \/ Samples(s) \/ SampleOver(s) \/ \E h \in Hashes : HashSampled(s, h)
      PROVE  [Next]_vars
  BY <1>6 DEF Sample, Samples, SampleOver, HashSampled
<1>7. ASSUME NEW t \in Tasks, PeersFound(t) \/ Finder(t)
      PROVE  [Next]_vars
  BY <1>7 DEF PeersFound, Finder, Next
<1>8. CASE UNCHANGED cvars
  BY <1>8 DEF cvars
<1>9. QED
  BY <1>3, <1>4, <1>5, <1>6, <1>7, <1>8 DEF CrawlerNext

(* Every step of the crawler keeps the invariant of the sampler. *)
LEMMA SamplerKeeps == SamplerInv /\ [CrawlerNext]_cvars => SamplerInv'
<1> SUFFICES ASSUME SamplerInv, [CrawlerNext]_cvars PROVE SamplerInv'
  OBVIOUS
<1>1. SamplerTypes
  BY DEF SamplerInv
<1>2. ASSUME UNCHANGED smplvars
      PROVE  SamplerInv'
  BY <1>1, <1>2, MovesOn DEF smplvars, SamplerTypes, Sampling
<1>3. ASSUME NEW s \in Slots, NEW from, NEW to, SampleTo(s, from, to),
             UNCHANGED <<sampled, sip, forgotten>>, got' \in [Slots -> SUBSET Hashes],
             \/ from = "queued" /\ to = "asking"
             \/ from = "asking" /\ to \in {"collecting", "pinging"}
             \/ from \in {"collecting", "pinging"} /\ to = "marking"
             \/ from = "reporting" /\ to = "idle"
      PROVE  SamplerInv'
  <2>1. spc' = [spc EXCEPT ![s] = to] /\ spc[s] = from
    BY <1>3 DEF SampleTo
  <2>2. spc' \in [Slots -> {"idle", "queued", "asking", "pinging", "collecting", "marking", "reporting"}]
    BY <1>1, <1>3, <2>1 DEF SamplerTypes
  <2>3. \A r \in Slots : Sampling(r)' <=> Sampling(r)
    BY <1>1, <1>3, <2>1 DEF SamplerTypes, Sampling
  <2>4. QED
    BY <1>3, <2>2, <2>3, MovesOn
<1>4. ASSUME NEW s \in Slots, Samples(s)
      PROVE  SamplerInv'
  <2>1. SampleStep(s)
    BY <1>4 DEF Samples
  <2>2. CASE SamplePermit(s) \/ Collected(s) \/ SampleFails(s) \/ Pinged(s)
    BY <1>1, <1>3, <2>2 DEF SamplePermit, Collected, SampleFails, Pinged, SamplerTypes
  <2>3. CASE Mark(s)
    BY <2>3, MarkKeeps
  <2>4. QED
    BY <2>1, <2>2, <2>3 DEF SampleStep
<1>5. ASSUME NEW s \in Slots, Sample(s)
      PROVE  SamplerInv'
  <2>1. PICK hashes : SampleReply(s, hashes) /\ hashes \subseteq Hashes
    BY <1>5 DEF Sample
  <2>2. got' \in [Slots -> SUBSET Hashes]
    BY <1>1, <2>1 DEF SampleReply, SamplerTypes
  <2>3. QED
    BY <1>3, <2>1, <2>2 DEF SampleReply
<1>6. ASSUME NEW s \in Slots, SampleOver(s)
      PROVE  SamplerInv'
  BY <1>1, <1>3, <1>6 DEF SampleOver, SamplerTypes
<1>7. ASSUME NEW s \in Slots, NEW h \in Hashes, HashSampled(s, h)
      PROVE  SamplerInv'
  <2>1. got' = [got EXCEPT ![s] = @ \ {h}] /\ UNCHANGED <<sampled, spc, sip, forgotten>>
    BY <1>7 DEF HashSampled
  <2>2. got' \in [Slots -> SUBSET Hashes]
    BY <1>1, <2>1 DEF SamplerTypes
  <2>3. QED
    BY <1>1, <2>1, <2>2, MovesOn DEF SamplerTypes, Sampling
<1>8. ASSUME NEW ip \in Addrs, Query(ip) \/ Later(ip)
      PROVE  SamplerInv'
  BY <1>8, AddSampleKeeps, DueKeeps DEF Query, Later
<1>9. ASSUME NEW h \in Hashes,
             GivesUp(h) \/ MetadataDownloaded(h) \/ Store(h) \/ WorkerLeaves(h)
                \/ PeerAnnounce(h) \/ UserAdds(h)
      PROVE  SamplerInv'
  BY <1>2, <1>9 DEF GivesUp, MetadataDownloaded, Store, WorkerLeaves, PeerAnnounce, UserAdds
<1>10. ASSUME NEW c \in Callers, CheckHashLru(c) \/ Seek(c) \/ Peers(c) \/ NoPeers(c)
       PROVE  SamplerInv'
  BY <1>2, <1>10 DEF CheckHashLru, Seek, Peers, NoPeers
<1>11. ASSUME NEW t \in Tasks, PeersFound(t) \/ Finder(t)
       PROVE  SamplerInv'
  BY <1>2, <1>11 DEF PeersFound, Finder
<1>12. CASE UNCHANGED cvars
  BY <1>2, <1>12 DEF cvars
<1>13. QED
  BY <1>4, <1>5, <1>6, <1>7, <1>8, <1>9, <1>10, <1>11, <1>12 DEF CrawlerNext

(* check_hash_lru: the cache keeps its size. *)
LEMMA HashCacheKeeps ==
    ASSUME CallTypes, NEW c \in Callers, CheckHashLru(c)
    PROVE  hashLru' \in Seq(Hashes) /\ Len(hashLru') <= HashLruSize
<1> DEFINE T == Hashes \ {about[c]}
<1>1. hashLru \in Seq(Hashes) /\ Len(hashLru) <= HashLruSize /\ about[c] \in Hashes
      /\ HashLruSize \in Nat \ {0} /\ Len(hashLru) \in Nat
  BY CrawlerAssumption DEF CallTypes
<1>2. PICK rest \in Seq(Hashes) : rest = Keep(hashLru, T)
  BY <1>1, KeepProperties
<1>3. Len(rest) \in Nat /\ Len(rest) <= Len(hashLru)
  BY <1>1, <1>2, KeepShorter
<1>4. PICK all \in Seq(Hashes) : all = Append(rest, about[c])
  <2>1. PICK h \in Hashes : h = about[c]
    BY <1>1
  <2>2. Append(rest, h) \in Seq(Hashes)
    OBVIOUS
  <2>3. QED
    BY <2>1, <2>2
<1>5. Len(all) = Len(rest) + 1
  BY <1>4
<1>6. hashLru' = IF Len(all) > HashLruSize THEN Tail(all) ELSE all
  BY <1>2, <1>4 DEF CheckHashLru
<1>7. all # << >>
  BY <1>3, <1>5
<1>8. Tail(all) \in Seq(Hashes) /\ Len(Tail(all)) = Len(all) - 1
  BY <1>7
<1>9. QED
  BY <1>1, <1>3, <1>4, <1>5, <1>6, <1>8

(* The types of the calls are kept. *)
LEMMA CallTypesKeep == TypeOK /\ CallTypes /\ [CrawlerNext]_cvars => CallTypes'
<1> SUFFICES ASSUME TypeOK, CallTypes, [CrawlerNext]_cvars PROVE CallTypes'
  OBVIOUS
<1> USE DEF CallTypes
<1>1. ASSUME UNCHANGED callvars, UNCHANGED jobvars
      PROVE  CallTypes'
  BY <1>1 DEF callvars, jobvars
<1>2. ASSUME NEW h \in Hashes, GivesUp(h) \/ MetadataDownloaded(h) \/ WorkerLeaves(h)
      PROVE  CallTypes'
  <2>1. UNCHANGED <<callvars, stored, fetched>>
        /\ \E x \in {"none", "storing"} : job' = [job EXCEPT ![h] = x]
    BY <1>2 DEF GivesUp, MetadataDownloaded, WorkerLeaves
  <2>2. QED
    BY <2>1 DEF callvars
<1>3. ASSUME NEW h \in Hashes, Store(h)
      PROVE  CallTypes'
  <2>1. fetched[h] \in 0..2
    OBVIOUS
  <2>2. PICK n : n = IF fetched[h] < 2 THEN fetched[h] + 1 ELSE fetched[h]
    OBVIOUS
  <2>3. n \in 0..2 /\ fetched' = [fetched EXCEPT ![h] = n]
    BY <1>3, <2>1, <2>2 DEF Store
  <2>4. fetched' \in [Hashes -> 0..2]
    BY <2>3
  <2>5. stored' \subseteq Hashes /\ UNCHANGED callvars
        /\ job' = [job EXCEPT ![h] = "leaving"]
    BY <1>3 DEF Store
  <2>6. QED
    BY <2>4, <2>5 DEF callvars
<1>4. ASSUME NEW c \in Callers, NEW h \in Hashes, NEW to \in {"checked", "peers"},
             Enter(c, h, to), UNCHANGED jobvars
      PROVE  CallTypes'
  BY <1>4 DEF Enter, jobvars
<1>5. ASSUME NEW c \in Callers, Peers(c)
      PROVE  CallTypes'
  <2>1. PICK to \in {"idle", "peers"} : Goes(c, "peers", to)
    BY <1>5 DEF Peers
  <2>2. QED
    BY <1>5, <2>1 DEF Peers, Goes, AddPeer
<1>6. ASSUME NEW c \in Callers, Seek(c) \/ NoPeers(c)
      PROVE  CallTypes'
  <2>1. UNCHANGED <<hashLru, about, jobvars>>
        /\ \E x \in {"peers", "idle"} : at' = [at EXCEPT ![c] = x]
    BY <1>6 DEF Seek, NoPeers, Goes
  <2>2. QED
    BY <2>1 DEF jobvars
<1>7. ASSUME NEW c \in Callers, CheckHashLru(c)
      PROVE  CallTypes'
  <2>1. UNCHANGED <<about, jobvars>>
        /\ \E x \in {"peers", "new"} : at' = [at EXCEPT ![c] = x]
    BY <1>7 DEF CheckHashLru, Goes
  <2>2. QED
    BY <1>7, <2>1, HashCacheKeeps DEF jobvars
<1>8. ASSUME NEW h \in Hashes, PeerAnnounce(h) \/ UserAdds(h)
      PROVE  CallTypes'
  BY <1>1, <1>4, <1>8 DEF PeerAnnounce, UserAdds, Callers
<1>9. ASSUME NEW ip \in Addrs, Query(ip) \/ Later(ip)
      PROVE  CallTypes'
  BY <1>1, <1>9 DEF Query, Later
<1>10. ASSUME NEW s \in Slots,
              Sample(s) \/ Samples(s) \/ SampleOver(s) \/ \E h \in Hashes : HashSampled(s, h)
       PROVE  CallTypes'
  <2>1. CASE Sample(s) \/ Samples(s) \/ SampleOver(s)
    BY <1>1, <2>1 DEF Sample, Samples, SampleOver
  <2>2. ASSUME NEW h \in Hashes, HashSampled(s, h)
        PROVE  CallTypes'
    BY <1>1, <1>4, <2>2 DEF HashSampled, Callers
  <2>3. QED
    BY <1>10, <2>1, <2>2
<1>11. ASSUME NEW t \in Tasks, Finder(t)
       PROVE  CallTypes'
  BY <1>1, <1>11 DEF Finder
<1>12. ASSUME NEW t \in Tasks, PeersFound(t)
       PROVE  CallTypes'
  BY <1>4, <1>12 DEF PeersFound, Callers, TypeOK
<1>13. CASE UNCHANGED cvars
  BY <1>1, <1>13 DEF cvars
<1>14. QED
  BY <1>2, <1>3, <1>5, <1>6, <1>7, <1>8, <1>9, <1>10, <1>11, <1>12, <1>13 DEF CrawlerNext
(* Nothing is stored or given up: at most somebody is let in for a hash that *)
(* is not stored, or a finder is listed for one.                             *)
LEMMA QuietStep ==
    ASSUME CallInv, CallTypes', UNCHANGED jobvars, late \subseteq late',
           \A c \in Callers : at'[c] # "idle" =>
               about'[c] \notin stored \/ (at[c] # "idle" /\ about'[c] = about[c]),
           \A h \in Hashes :
               \/ pending'[h] \in {pending[h], NoTask}
               \/ h \in late'
               \/ job[h] # "storing" /\ h \notin stored
    PROVE  CallInv'
<1>1. StoredLeft'
  BY DEF CallInv, StoredLeft, jobvars
<1>2. FetchedStored' /\ FetchedOnce'
  BY DEF CallInv, FetchedStored, FetchedOnce, jobvars
<1>3. Unlisted'
  BY DEF CallInv, Unlisted, jobvars
<1>4. QED
  BY <1>1, <1>2, <1>3 DEF CallInv

(* The worker of a hash that is not stored, or stored late, starts or ends. *)
LEMMA WorkerStep ==
    ASSUME CallInv, CallTypes', NEW h \in Hashes, NEW x \in {"none", "working"},
           job' = [job EXCEPT ![h] = x], x = "none" \/ h \notin stored \ late,
           UNCHANGED <<stored, fetched, late, pending, about>>,
           \A c \in Callers : at'[c] # "idle" => at[c] # "idle"
    PROVE  CallInv'
<1>1. \A g \in Hashes : job'[g] = IF g = h THEN x ELSE job[g]
  BY DEF CallInv, CallTypes
<1>2. StoredLeft'
  BY <1>1 DEF CallInv, CallTypes, StoredLeft
<1>3. FetchedStored' /\ FetchedOnce'
  BY DEF CallInv, FetchedStored, FetchedOnce
<1>4. Unlisted'
  BY <1>1 DEF CallInv, Unlisted
<1>5. QED
  BY <1>2, <1>3, <1>4 DEF CallInv

(* on_metadata_downloaded: the finder is cancelled before anything is stored. *)
LEMMA DownloadedKeeps ==
    ASSUME TypeOK, CallInv, CallTypes', NEW h \in Hashes, MetadataDownloaded(h)
    PROVE  CallInv'
<1>1. \A g \in Hashes : job'[g] = IF g = h THEN "storing" ELSE job[g]
  BY DEF CallInv, CallTypes, MetadataDownloaded
<1>2. UNCHANGED <<callvars, stored, fetched, late>> /\ job[h] = "working"
  BY DEF MetadataDownloaded
<1>3. pending'[h] = NoTask /\ \A g \in Hashes : pending'[g] \in {pending[g], NoTask}
  BY DEF TypeOK, MetadataDownloaded, CancelFinder, Cancel, vars
<1>4. h \notin stored \ late
  BY <1>2 DEF CallInv, StoredLeft
<1>5. StoredLeft'
  <2>1. ASSUME NEW g \in stored' \ late'
        PROVE  /\ job'[g] \in {"none", "leaving"}
               /\ \A c \in Callers : at'[c] # "idle" => about'[c] # g
    <3>1. g \in stored \ late /\ g \in Hashes /\ g # h
      BY <1>2, <1>4 DEF CallInv, CallTypes
    <3>2. job[g] \in {"none", "leaving"} /\ \A c \in Callers : at[c] # "idle" => about[c] # g
      BY <3>1 DEF CallInv, StoredLeft
    <3>3. QED
      BY <1>1, <1>2, <3>1, <3>2 DEF callvars
  <2>2. QED
    BY <2>1 DEF StoredLeft
<1>6. FetchedStored' /\ FetchedOnce'
  BY <1>2 DEF CallInv, FetchedStored, FetchedOnce
<1>7. Unlisted'
  BY <1>1, <1>2, <1>3 DEF CallInv, Unlisted
<1>8. QED
  BY <1>5, <1>6, <1>7 DEF CallInv

(* Store: what is stored for the second time had been let in before the first. *)
LEMMA StoreKeeps ==
    ASSUME CallInv, CallTypes', NEW h \in Hashes, Store(h)
    PROVE  CallInv'
<1>1. job[h] = "storing" /\ UNCHANGED <<pending, at, about>>
      /\ \A g \in Hashes : job'[g] = IF g = h THEN "leaving" ELSE job[g]
  BY DEF CallInv, CallTypes, Store, callvars, vars
<1>2. stored' = stored \cup ({h} \ Unparsable)
      /\ late' = late \cup {g \in {h} : \E c \in Callers : at[c] # "idle" /\ about[c] = g}
  BY DEF Store
<1>3. \A g \in Hashes : g # h => fetched'[g] = fetched[g]
  BY DEF CallInv, CallTypes, Store
<1>4. fetched[h] \in 0..2 /\ fetched'[h] = IF fetched[h] < 2 THEN fetched[h] + 1 ELSE fetched[h]
  BY DEF CallInv, CallTypes, Store
<1>5. h \notin stored \ late
  BY <1>1 DEF CallInv, StoredLeft
<1>6. StoredLeft'
  <2>1. ASSUME NEW g \in stored' \ late'
        PROVE  /\ job'[g] \in {"none", "leaving"}
               /\ \A c \in Callers : at'[c] # "idle" => about'[c] # g
    <3>1. CASE g = h
      BY <1>1, <1>2, <2>1, <3>1
    <3>2. CASE g # h
      <4>1. g \in stored \ late /\ g \in Hashes
        BY <1>2, <2>1, <3>2 DEF CallInv, CallTypes
      <4>2. job[g] \in {"none", "leaving"} /\ \A c \in Callers : at[c] # "idle" => about[c] # g
        BY <4>1 DEF CallInv, StoredLeft
      <4>3. QED
        BY <1>1, <3>2, <4>1, <4>2
    <3>3. QED
      BY <3>1, <3>2
  <2>2. QED
    BY <2>1 DEF StoredLeft
<1>7. FetchedStored'
  BY <1>2, <1>3 DEF CallInv, FetchedStored
<1>8. FetchedOnce'
  <2>1. ASSUME NEW g \in Hashes, fetched'[g] > 1
        PROVE  g \in late' \cup Unparsable
    <3>1. CASE g # h
      BY <1>2, <1>3, <2>1, <3>1 DEF CallInv, FetchedOnce
    <3>2. CASE g = h
      <4>1. fetched[h] >= 1
        BY <1>4, <2>1, <3>2
      <4>2. h \in stored \cup Unparsable
        BY <4>1 DEF CallInv, FetchedStored
      <4>3. QED
        BY <1>2, <1>5, <3>2, <4>2
    <3>3. QED
      BY <3>1, <3>2
  <2>2. QED
    BY <2>1 DEF FetchedOnce
<1>9. Unlisted'
  BY <1>1, <1>2 DEF CallInv, Unlisted
<1>10. QED
  BY <1>6, <1>7, <1>8, <1>9 DEF CallInv

(* Adding a hash lists one task, for that hash; the other steps of the finder *)
(* list none.                                                                 *)
LEMMA ListsOne ==
    ASSUME TypeOK
    PROVE  /\ \A g \in Hashes : StartFinder(g) =>
                  \A h \in Hashes : h # g => pending'[h] = pending[h]
           /\ \A t \in Tasks : TaskStep(t) =>
                  \A h \in Hashes : pending'[h] \in {pending[h], NoTask}
<1>1. ASSUME NEW g \in Hashes, StartFinder(g), NEW h \in Hashes, h # g
      PROVE  pending'[h] = pending[h]
  BY <1>1 DEF StartFinder, AddHash, TypeOK
<1>2. ASSUME NEW t \in Tasks, TaskStep(t), NEW h \in Hashes
      PROVE  pending'[h] \in {pending[h], NoTask}
  BY <1>2 DEF TaskStep, Acquire, Searched, Report, Wake, Leave, Drop, TypeOK
<1>3. QED
  BY <1>1, <1>2

(* Every step of the crawler keeps the invariant of the calls. *)
LEMMA CallsKeep == TypeOK /\ CallInv /\ [CrawlerNext]_cvars => CallInv'
<1> SUFFICES ASSUME TypeOK, CallInv, [CrawlerNext]_cvars PROVE CallInv'
  OBVIOUS
<1>1. CallTypes /\ CallTypes'
  BY CallTypesKeep DEF CallInv
<1>2. ASSUME UNCHANGED <<callvars, jobvars, late>>,
             \A h \in Hashes : pending'[h] \in {pending[h], NoTask}
      PROVE  CallInv'
  BY <1>1, <1>2, QuietStep DEF callvars
<1>3. ASSUME NEW c \in Callers, NEW h \in Hashes, NEW to, Enter(c, h, to),
             UNCHANGED <<pending, jobvars, late>>
      PROVE  CallInv'
  BY <1>1, <1>3, QuietStep DEF Enter, HasMetadata, CallTypes
<1>4. ASSUME NEW c \in Callers, NEW from, NEW to, Goes(c, from, to), from # "idle",
             UNCHANGED jobvars, late \subseteq late',
             \A h \in Hashes : \/ pending'[h] = pending[h]
                               \/ h \in late'
                               \/ job[h] # "storing" /\ h \notin stored
      PROVE  CallInv'
  BY <1>1, <1>4, QuietStep DEF Goes, CallTypes
<1>5. ASSUME NEW g \in Hashes, StartFinder(g),
             late' = late \cup {h \in {g} : job[h] = "storing" \/ h \in stored}
      PROVE  /\ late \subseteq late'
             /\ \A h \in Hashes : \/ pending'[h] = pending[h]
                                  \/ h \in late'
                                  \/ job[h] # "storing" /\ h \notin stored
  BY <1>5, ListsOne
<1>6. ASSUME NEW h \in Hashes, GivesUp(h) \/ WorkerLeaves(h)
      PROVE  CallInv'
  BY <1>1, <1>6, WorkerStep DEF GivesUp, WorkerLeaves, vars, callvars
<1>7. ASSUME NEW h \in Hashes, PeerAnnounce(h)
      PROVE  CallInv'
  BY <1>3, <1>7 DEF PeerAnnounce, vars, Callers
<1>8. ASSUME NEW h \in Hashes, UserAdds(h)
      PROVE  CallInv'
  <2>1. /\ late \subseteq late'
        /\ \A g \in Hashes : \/ pending'[g] = pending[g]
                             \/ g \in late'
                             \/ job[g] # "storing" /\ g \notin stored
    BY <1>5, <1>8 DEF UserAdds
  <2>2. UNCHANGED <<callvars, jobvars>>
    BY <1>8 DEF UserAdds
  <2>3. QED
    BY <1>1, <2>1, <2>2, QuietStep DEF callvars
<1>9. ASSUME NEW c \in Callers, CheckHashLru(c)
      PROVE  CallInv'
  BY <1>4, <1>9 DEF CheckHashLru, vars
<1>10. ASSUME NEW c \in Callers, Seek(c)
       PROVE  CallInv'
  <2>1. about[c] \in Hashes /\ Goes(c, "new", "peers") /\ UNCHANGED jobvars
    BY <1>1, <1>10 DEF CallTypes, Seek
  <2>2. /\ late \subseteq late'
        /\ \A g \in Hashes : \/ pending'[g] = pending[g]
                             \/ g \in late'
                             \/ job[g] # "storing" /\ g \notin stored
    BY <1>5, <1>10, <2>1 DEF Seek, vars
  <2>3. QED
    BY <1>4, <2>1, <2>2
<1>11. ASSUME NEW c \in Callers, Peers(c)
       PROVE  CallInv'
  <2>1. /\ about[c] \in Hashes /\ about[c] \notin stored \ late
        /\ UNCHANGED <<pending, stored, fetched, late, about>>
        /\ \A d \in Callers : at'[d] # "idle" => at[d] # "idle"
    <3>1. PICK to \in {"idle", "peers"} : Goes(c, "peers", to)
      BY <1>11 DEF Peers
    <3>2. UNCHANGED <<pending, stored, fetched, late, about>>
      BY <1>11, <3>1 DEF Peers, Goes, vars
    <3>3. QED
      BY <1>1, <3>1, <3>2 DEF CallInv, CallTypes, StoredLeft, Goes
  <2>2. CASE job[about[c]] = "none"
    <3>1. job' = [job EXCEPT ![about[c]] = "working"]
      BY <1>11, <2>2 DEF Peers, AddPeer
    <3>2. QED
      BY <1>1, <2>1, <3>1, WorkerStep
  <2>3. CASE job[about[c]] # "none"
    <3>1. job' = job
      BY <1>11, <2>3 DEF Peers, AddPeer
    <3>2. QED
      BY <1>1, <2>1, <3>1, QuietStep DEF jobvars
  <2>4. QED
    BY <2>2, <2>3
<1>12. ASSUME NEW c \in Callers, NoPeers(c)
       PROVE  CallInv'
  BY <1>4, <1>12 DEF NoPeers, vars
<1>13. ASSUME NEW ip \in Addrs, Query(ip) \/ Later(ip)
       PROVE  CallInv'
  BY <1>2, <1>13 DEF Query, Later, vars
<1>14. ASSUME NEW s \in Slots, Sample(s) \/ Samples(s) \/ SampleOver(s)
       PROVE  CallInv'
  BY <1>2, <1>14 DEF Sample, Samples, SampleOver, vars
<1>15. ASSUME NEW s \in Slots, NEW h \in Hashes, HashSampled(s, h)
       PROVE  CallInv'
  BY <1>2, <1>3, <1>15 DEF HashSampled, vars, Callers
<1>16. ASSUME NEW t \in Tasks, PeersFound(t)
       PROVE  CallInv'
  BY <1>3, <1>16 DEF PeersFound, vars, Callers, TypeOK
<1>17. ASSUME NEW t \in Tasks, Finder(t)
       PROVE  CallInv'
  BY <1>2, <1>17, ListsOne DEF Finder
<1>18. CASE UNCHANGED cvars
  BY <1>2, <1>18 DEF cvars, vars
<1>19. QED
  BY <1>1, <1>6, <1>7, <1>8, <1>9, <1>10, <1>11, <1>12, <1>13, <1>14, <1>15, <1>16, <1>17, <1>18,
     DownloadedKeeps, StoreKeeps DEF CrawlerNext
-----------------------------------------------------------------------------
(* The theorems *)

LEMMA InitCrawler == CrawlerInit => SamplerInv /\ CallInv
<1> SUFFICES ASSUME CrawlerInit PROVE SamplerInv /\ CallInv
  OBVIOUS
<1>1. SamplerInv
  <2>1. sampled = << >> /\ sampled \in Seq(Entry) /\ Len(sampled) = 0 /\ MaxSampled \in Nat
    BY SamplerAssumption DEF CrawlerInit, SamplerInit
  <2>2. Cache(sampled) /\ \A e : ~Holds(sampled, e)
    BY <2>1 DEF Cache, Keyed, Holds
  <2>3. \A s \in Slots : ~Sampling(s)
    BY DEF CrawlerInit, SamplerInit, Sampling
  <2>4. SamplerTypes
    BY <2>2, <2>3 DEF CrawlerInit, SamplerInit, SamplerTypes
  <2>5. QED
    BY <2>2, <2>3, <2>4 DEF SamplerInv, Marked, Alone, MarkMeant
<1>2. CallInv
  <2>1. hashLru \in Seq(Hashes) /\ Len(hashLru) <= HashLruSize
    BY CrawlerAssumption DEF CrawlerInit
  <2>2. CallTypes
    BY <2>1 DEF CrawlerInit, CallTypes
  <2>3. StoredLeft /\ FetchedStored /\ FetchedOnce /\ Unlisted
    BY DEF CrawlerInit, StoredLeft, FetchedStored, FetchedOnce, Unlisted
  <2>4. QED
    BY <2>2, <2>3 DEF CallInv
<1>3. QED
  BY <1>1, <1>2

(* The inductive invariant of the crawler: the finder's, which its callers do *)
(* not disturb, the sampler's and that of the calls between the parts.        *)
CrawlerIInv == IInv /\ SamplerInv /\ CallInv

(* In every behaviour of the crawler the inductive invariant holds. *)
THEOREM CrawlerInductive == CrawlerSpec => []CrawlerIInv
<1>1. CrawlerInit => CrawlerIInv
  BY InitIInv, InitCrawler DEF CrawlerInit, CrawlerIInv
<1>2. CrawlerIInv /\ [CrawlerNext]_cvars => CrawlerIInv'
  <2> SUFFICES ASSUME CrawlerIInv, [CrawlerNext]_cvars PROVE CrawlerIInv'
    OBVIOUS
  <2>1. IInv /\ SamplerInv /\ CallInv /\ TypeOK
    BY DEF CrawlerIInv, IInv, Shape
  <2>2. [Next]_vars
    BY <2>1, FinderStep DEF CallInv
  <2>3. IInv'
    BY <2>1, <2>2, ShapeStep, MapStep, SwitchStep DEF IInv, Map
  <2>4. SamplerInv'
    BY <2>1, SamplerKeeps
  <2>5. CallInv'
    BY <2>1, CallsKeep
  <2>6. QED
    BY <2>3, <2>4, <2>5 DEF CrawlerIInv
<1>3. QED
  BY <1>1, <1>2, PTL DEF CrawlerSpec

(* The crawler never does anything with its finder that the finder alone could *)
(* not do: every behaviour of the crawler is one of the finder, so that what   *)
(* is proved of the finder holds inside the crawler.                           *)
THEOREM RunsFinder == CrawlerSpec => Spec
<1>1. CrawlerInit => Init
  BY DEF CrawlerInit
<1>2. CrawlerIInv /\ [CrawlerNext]_cvars => [Next]_vars
  BY FinderStep DEF CrawlerIInv, CallInv
<1>3. QED
  BY <1>1, <1>2, CrawlerInductive, PTL DEF CrawlerSpec, Spec

(* CrawlerInv: for any number of nodes, tasks and entries of the cache, a node *)
(* is sampled by one task unless it fell out of the cache, and no mark bars a  *)
(* node that nobody samples (sampler.rs, add_sample_node and do_sample).       *)
THEOREM CrawlerInvHolds == CrawlerSpec => []CrawlerInv
<1>1. CrawlerIInv => CrawlerInv
  BY SamplerPromises
  DEF CrawlerIInv, CrawlerInv, CrawlerTypeOK, IInv, Shape, SamplerInv, SamplerTypes, Cache,
      CallInv, CallTypes
<1>2. QED
  BY <1>1, CrawlerInductive, PTL

(* FetchedOnce: what is downloaded a second time was let in before it was      *)
(* stored, or cannot be parsed (crawler.rs, has_metadata before add_hash).     *)
THEOREM FetchedOnceHolds == CrawlerSpec => []FetchedOnce
<1>1. CrawlerIInv => FetchedOnce
  BY DEF CrawlerIInv, CallInv
<1>2. QED
  BY <1>1, CrawlerInductive, PTL

(* NoSearchForStored: the finder is cancelled before anything is stored, so    *)
(* that nobody goes on looking for what is, but for the two races named there  *)
(* (crawler.rs, on_metadata_downloaded).                                       *)
THEOREM NoSearchForStoredHolds == CrawlerSpec => []NoSearchForStored
<1>1. CrawlerIInv => NoSearchForStored
  <2> SUFFICES ASSUME CrawlerIInv, NEW t \in Tasks, Alive(t), Runnable(t), hash[t] \in stored,
                      hash[t] \notin late, hash[t] \notin overtaken
               PROVE  FALSE
    BY DEF NoSearchForStored
  <2>1. hash[t] \in Hashes
    BY DEF CrawlerIInv, IInv, Shape, TypeOK
  <2>2. pending[hash[t]] = t
    BY DEF CrawlerIInv, IInv, Map, WorkListed
  <2>3. pending[hash[t]] = NoTask
    BY <2>1 DEF CrawlerIInv, CallInv, Unlisted
  <2>4. QED
    BY <2>2, <2>3, PeerFinderAssumption
<1>2. QED
  BY <1>1, CrawlerInductive, PTL
=============================================================================
