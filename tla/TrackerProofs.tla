--------------------------- MODULE TrackerProofs ---------------------------
(***************************************************************************)
(* Proofs about TrackerManager and the UDP tracker it shares with others:  *)
(* for any number of calls, workers, tasks and trackers, the transactions  *)
(* are exact, one connect runs at a time, who waits for it will be told,   *)
(* no announce outlives its place in a JoinSet, and the rounded mean a     *)
(* task sleeps for wakes it when a tracker is due.                         *)
(***************************************************************************)
EXTENDS TrackerManager, DataLemmas

\* Only calls subscribe, only workers tell.
Roles ==
    /\ \A w \in Workers : pc[w] # "subscribed"
    /\ \A c \in Calls : pc[c] # "telling"

\* An oneshot is dropped with its request.
AnswersWaited == \A r \in answered : Requesting(r)

\* The channel in the state is that of a worker at work.
WorkerWorks == worker # NoWorker => Requesting(worker) \/ pc[worker] = "done"

\* Who subscribed did so to a worker.
AwaitsWorker == \A c \in Calls : pc[c] = "subscribed" => awaits[c] \in Workers

Entries == \A r \in Requesters : r \in pending <=> Requesting(r) /\ r \notin answered

\* The inductive invariant of the UDP tracker.
UInv ==
    /\ UdpTypeOK
    /\ Roles
    /\ AnswersWaited
    /\ Entries
    /\ OneConnect
    /\ WorkerWorks
    /\ AwaitsWorker
    /\ SubscribersHeard

\* What task k waits for in the UDP tracker is its call there, and only while it
\* announces or stops, or when it has been dropped.
TaskInv(k) ==
    /\ results[k][Udp] = "flying" => phase[k] \in {"announcing", "stopping", "over"}
    /\ pc[k] # "idle" <=> results[k][Udp] = "flying"

TaskTypes ==
    /\ known \subseteq Trackers
    /\ actived \in [Tasks -> SUBSET Trackers]
    /\ phase \in [Tasks -> {"new", "resting", "sleeping", "announcing", "stopping", "over"}]
    /\ results \in [Tasks -> [Trackers -> {"none", "flying", "ok", "error"}]]

\* The inductive invariant of the two together.
IInv == UInv /\ TaskTypes /\ \A k \in Tasks : TaskInv(k)

-----------------------------------------------------------------------------
(* The UDP tracker *)

LEMMA UseIdKeeps ==
    ASSUME UInv, NEW c \in Calls, pc[c] = "idle", UseId(c), UNCHANGED <<answered, outcome>>
    PROVE  UInv'
<1> USE UdpTrackerAssumption DEF UseId, Register, Requesters
<1>1. UdpTypeOK'
  BY DEF UInv, UdpTypeOK
<1>2. (Roles /\ AnswersWaited /\ Entries)'
  BY DEF UInv, UdpTypeOK, Roles, AnswersWaited, Entries, Requesting
<1>3. (OneConnect /\ WorkerWorks)'
  BY DEF UInv, UdpTypeOK, OneConnect, WorkerWorks, Requesting
<1>4. (AwaitsWorker /\ SubscribersHeard)'
  BY DEF UInv, UdpTypeOK, AwaitsWorker, SubscribersHeard
<1> QED BY <1>1, <1>2, <1>3, <1>4 DEF UInv

LEMMA SubscribeKeeps ==
    ASSUME UInv, NEW c \in Calls, pc[c] = "idle", Subscribe(c), UNCHANGED <<answered, outcome>>
    PROVE  UInv'
<1> USE UdpTrackerAssumption DEF Register, Requesters
<1>1. CASE StartsWorker
  <2>1. PICK w \in Workers :
            /\ pc[w] = "idle"
            /\ worker' = w
            /\ awaits' = [awaits EXCEPT ![c] = w]
            /\ pc' = [pc EXCEPT ![c] = "subscribed", ![w] = "sending"]
            /\ pending' = pending \cup {w}
    BY <1>1 DEF Subscribe
  <2>2. UNCHANGED conId /\ ~conId /\ worker = NoWorker
    BY <1>1 DEF Subscribe, StartsWorker
  <2>3. UdpTypeOK'
    BY <2>1, <2>2 DEF UInv, UdpTypeOK
  <2>4. (Roles /\ AnswersWaited /\ Entries)'
    BY <2>1 DEF UInv, UdpTypeOK, Roles, AnswersWaited, Entries, Requesting
  <2>5. (OneConnect /\ WorkerWorks)'
    BY <2>1, <2>2 DEF UInv, UdpTypeOK, OneConnect, WorkerWorks, Requesting
  <2>6. (AwaitsWorker /\ SubscribersHeard)'
    BY <2>1 DEF UInv, UdpTypeOK, AwaitsWorker, SubscribersHeard
  <2> QED BY <2>3, <2>4, <2>5, <2>6 DEF UInv
<1>2. CASE ~StartsWorker
  <2>1. /\ awaits' = [awaits EXCEPT ![c] = worker]
        /\ pc' = [pc EXCEPT ![c] = "subscribed"]
        /\ UNCHANGED <<worker, pending, conId>>
        /\ worker \in Workers
    BY <1>2 DEF Subscribe, StartsWorker, UInv, UdpTypeOK
  <2>2. UdpTypeOK'
    BY <2>1 DEF UInv, UdpTypeOK
  <2>3. (Roles /\ AnswersWaited /\ Entries)'
    BY <2>1 DEF UInv, UdpTypeOK, Roles, AnswersWaited, Entries, Requesting
  <2>4. (OneConnect /\ WorkerWorks)'
    BY <2>1 DEF UInv, UdpTypeOK, OneConnect, WorkerWorks, Requesting
  <2>5. (AwaitsWorker /\ SubscribersHeard)'
    BY <2>1 DEF UInv, UdpTypeOK, AwaitsWorker, SubscribersHeard, WorkerWorks, Requesting
  <2> QED BY <2>2, <2>3, <2>4, <2>5 DEF UInv
<1> QED BY <1>1, <1>2

LEMMA BeginKeeps ==
    ASSUME UInv, NEW c \in Calls, Begin(c)
    PROVE  UInv'
BY UseIdKeeps, SubscribeKeeps DEF Begin

LEMMA ConnectedKeeps ==
    ASSUME UInv, NEW w \in Workers, Connected(w)
    PROVE  UInv'
<1> USE UdpTrackerAssumption DEF Connected, Requesters
<1>1. UdpTypeOK'
  BY DEF UInv, UdpTypeOK
<1>2. (Roles /\ AnswersWaited /\ Entries)'
  BY DEF UInv, UdpTypeOK, Roles, AnswersWaited, Entries, Requesting
<1>3. \A v \in Workers : v # w => ~Requesting(v) /\ pc[v] # "done"
  BY DEF UInv, OneConnect, Requesting
<1>4. (OneConnect /\ WorkerWorks)'
  BY <1>3 DEF UInv, UdpTypeOK, OneConnect, WorkerWorks, Requesting
<1>5. (AwaitsWorker /\ SubscribersHeard)'
  BY DEF UInv, UdpTypeOK, AwaitsWorker, SubscribersHeard
<1> QED BY <1>1, <1>2, <1>4, <1>5 DEF UInv

LEMMA BroadcastKeeps ==
    ASSUME UInv, NEW w \in Workers, Broadcast(w)
    PROVE  UInv' /\ \A c \in Calls : pc'[c] = "idle" <=> pc[c] = "idle"
<1> DEFINE told == Listeners(w)
           ok == outcome[w] = "ok"
<1> USE UdpTrackerAssumption DEF Requesters
<1>1. /\ pc[w] = "telling"
      /\ pc' = [r \in Requesters |->
                   IF r = w THEN "idle"
                   ELSE IF r \in told THEN IF ok THEN "sending" ELSE "done"
                   ELSE pc[r]]
      /\ outcome' = [r \in Requesters |->
                        IF r = w THEN "none"
                        ELSE IF r \in told /\ ~ok THEN "error" ELSE outcome[r]]
      /\ awaits' = [c \in Calls |-> IF c \in told THEN NoWorker ELSE awaits[c]]
      /\ pending' = pending \cup (IF ok THEN told ELSE {})
      /\ UNCHANGED <<conId, worker, answered>>
  BY DEF Broadcast, Register
<1>2. told = {c \in Calls : pc[c] = "subscribed" /\ awaits[c] = w}
  BY DEF Listeners
<1> HIDE DEF told, ok
<1>3. w \notin told /\ \A v \in Workers : v \notin told
  BY <1>2
<1>4. UdpTypeOK'
  BY <1>1, <1>2 DEF UInv, UdpTypeOK
<1>5. Roles' /\ AnswersWaited'
  BY <1>1, <1>2, <1>3 DEF UInv, UdpTypeOK, Roles, AnswersWaited, Requesting
<1>6. Entries'
  BY <1>1, <1>2, <1>3 DEF UInv, UdpTypeOK, AnswersWaited, Entries, Requesting
<1>7. (OneConnect /\ WorkerWorks)'
  BY <1>1, <1>3 DEF UInv, UdpTypeOK, OneConnect, WorkerWorks, Requesting
<1>8. (AwaitsWorker /\ SubscribersHeard)'
  BY <1>1, <1>2, <1>3 DEF UInv, UdpTypeOK, AwaitsWorker, SubscribersHeard
<1>9. \A c \in Calls : pc'[c] = "idle" <=> pc[c] = "idle"
  BY <1>1, <1>2
<1> QED BY <1>4, <1>5, <1>6, <1>7, <1>8, <1>9 DEF UInv

LEMMA ExpireKeeps ==
    ASSUME UInv, Expire
    PROVE  UInv'
<1>1. UNCHANGED <<worker, pc, awaits, pending, answered, outcome>> /\ conId' = FALSE
  BY DEF Expire
<1> QED
  BY <1>1 DEF UInv, UdpTypeOK, Roles, AnswersWaited, Entries, OneConnect, WorkerWorks,
              AwaitsWorker, SubscribersHeard, Requesting

\* A step of one request: r moves on among the states of a request, or its
\* answer arrives.
LEMMA RequestKeeps ==
    ASSUME UInv, NEW r \in Requesters, Sent(r) \/ GiveUp(r) \/ Receive(r) \/ ProcessUdp(r)
    PROVE  UInv' /\ \A c \in Calls : pc'[c] = "idle" <=> pc[c] = "idle"
<1> USE UdpTrackerAssumption DEF Requesters
<1>1. CASE Sent(r)
  <2>1. UdpTypeOK'
    BY <1>1 DEF Sent, UInv, UdpTypeOK
  <2>2. (Roles /\ AnswersWaited /\ Entries)'
    BY <1>1 DEF Sent, UInv, UdpTypeOK, Roles, AnswersWaited, Entries, Requesting
  <2>3. (OneConnect /\ WorkerWorks)'
    BY <1>1 DEF Sent, UInv, UdpTypeOK, OneConnect, WorkerWorks, Requesting
  <2>4. (AwaitsWorker /\ SubscribersHeard)'
    BY <1>1 DEF Sent, UInv, UdpTypeOK, AwaitsWorker, SubscribersHeard
  <2> QED BY <1>1, <2>1, <2>2, <2>3, <2>4 DEF UInv, UdpTypeOK, Sent
<1>2. CASE ProcessUdp(r)
  <2>1. UNCHANGED <<conId, worker, pc, awaits, outcome>> /\ Requesting(r)
    BY <1>2 DEF ProcessUdp, UInv, Entries
  <2>2. UdpTypeOK'
    BY <1>2 DEF ProcessUdp, UInv, UdpTypeOK
  <2>3. (Roles /\ AnswersWaited /\ Entries)'
    BY <1>2, <2>1 DEF ProcessUdp, UInv, UdpTypeOK, Roles, AnswersWaited, Entries, Requesting
  <2>4. (OneConnect /\ WorkerWorks /\ AwaitsWorker /\ SubscribersHeard)'
    BY <2>1 DEF UInv, OneConnect, WorkerWorks, Requesting, AwaitsWorker, SubscribersHeard
  <2> QED BY <2>1, <2>2, <2>3, <2>4 DEF UInv
<1>3. CASE GiveUp(r) \/ Receive(r)
  <2>1. PICK how \in {"ok", "error"} : Over(r, how) /\ Requesting(r) /\ pending' = pending \ {r}
    <3>1. CASE GiveUp(r)
      BY <3>1 DEF GiveUp, Unregister
    <3>2. CASE Receive(r)
      <4>1. \E how \in {"ok", "error"} : Over(r, how)
        BY <3>2 DEF Receive, ReadBy, ReadConnect, ReadAnnounce, ReadScrape
      <4>2. Requesting(r) /\ r \in answered /\ pending' = pending
        BY <3>2 DEF Receive, Requesting
      <4>3. r \notin pending
        BY <4>2 DEF UInv, Entries
      <4> QED BY <4>1, <4>2, <4>3
    <3> QED BY <1>3, <3>1, <3>2
  <2>2. UdpTypeOK'
    BY <2>1 DEF Over, UInv, UdpTypeOK
  <2>3. (Roles /\ AnswersWaited /\ Entries)'
    BY <2>1 DEF Over, UInv, UdpTypeOK, Roles, AnswersWaited, Entries, Requesting
  <2>4. (OneConnect /\ WorkerWorks)'
    BY <2>1 DEF Over, UInv, UdpTypeOK, OneConnect, WorkerWorks, Requesting
  <2>5. (AwaitsWorker /\ SubscribersHeard)'
    BY <2>1 DEF Over, UInv, UdpTypeOK, AwaitsWorker, SubscribersHeard, Requesting
  <2> QED BY <2>1, <2>2, <2>3, <2>4, <2>5 DEF Over, UInv, UdpTypeOK, Requesting
<1> QED BY <1>1, <1>2, <1>3

\* A call ends, with its result or dropped: c and no other call is idle then.
LEMMA EndOfCallKeeps ==
    ASSUME UInv, NEW c \in Calls, DropCall(c) \/ Return(c)
    PROVE  UInv' /\ pc' = [pc EXCEPT ![c] = "idle"]
<1> USE UdpTrackerAssumption DEF Requesters, DropCall, Return, Unregister
<1>1. UdpTypeOK'
  BY DEF UInv, UdpTypeOK
<1>2. (Roles /\ AnswersWaited /\ Entries)'
  BY DEF UInv, UdpTypeOK, Roles, AnswersWaited, Entries, Requesting
<1>3. (OneConnect /\ WorkerWorks)'
  BY DEF UInv, UdpTypeOK, OneConnect, WorkerWorks, Requesting
<1>4. (AwaitsWorker /\ SubscribersHeard)'
  BY DEF UInv, UdpTypeOK, AwaitsWorker, SubscribersHeard
<1> QED BY <1>1, <1>2, <1>3, <1>4 DEF UInv

LEMMA UnchangedKeeps ==
    ASSUME UInv, UNCHANGED uvars
    PROVE  UInv'
BY DEF uvars, UInv, UdpTypeOK, Roles, AnswersWaited, Entries, OneConnect, WorkerWorks,
       AwaitsWorker, SubscribersHeard, Requesting

\* A call is idle or not through every step the tracker takes on its own.
LEMMA UdpNextKeeps ==
    ASSUME UInv, UdpNext
    PROVE  UInv' /\ \A c \in Calls : pc'[c] = "idle" <=> pc[c] = "idle"
<1>1. CASE \E w \in Workers : Connected(w)
  <2>1. PICK w \in Workers : Connected(w)
    BY <1>1
  <2>2. \A c \in Calls : pc'[c] = pc[c]
    BY <2>1, UdpTrackerAssumption DEF Connected, UInv, UdpTypeOK, Requesters
  <2> QED BY <2>1, <2>2, ConnectedKeeps
<1>2. CASE \E w \in Workers : Broadcast(w)
  BY <1>2, BroadcastKeeps
<1>3. CASE Expire
  BY <1>3, ExpireKeeps DEF Expire
<1>4. CASE \E r \in Requesters : Sent(r) \/ GiveUp(r) \/ Receive(r) \/ ProcessUdp(r)
  BY <1>4, RequestKeeps
<1> QED BY <1>1, <1>2, <1>3, <1>4 DEF UdpNext, Progress

\* A call begins: c and no other call is under way then.
LEMMA BeginBusy ==
    ASSUME UInv, NEW c \in Calls, Begin(c)
    PROVE  /\ pc[c] = "idle" /\ pc'[c] # "idle"
           /\ \A d \in Calls : d # c => pc'[d] = pc[d]
<1> USE UdpTrackerAssumption DEF Requesters, UInv, UdpTypeOK
<1>1. CASE UseId(c)
  BY <1>1 DEF Begin, UseId
<1>2. CASE Subscribe(c) /\ StartsWorker
  BY <1>2 DEF Begin, Subscribe
<1>3. CASE Subscribe(c) /\ ~StartsWorker
  BY <1>3 DEF Begin, Subscribe
<1> QED BY <1>1, <1>2, <1>3 DEF Begin

-----------------------------------------------------------------------------
(* The announce tasks *)

LEMMA InitIInv == Init => IInv
<1> SUFFICES ASSUME Init PROVE IInv
  OBVIOUS
<1> USE UdpTrackerAssumption, TrackerManagerAssumption DEF Init, UdpInit, Requesters
<1>1. UInv
  BY DEF UInv, UdpTypeOK, Roles, AnswersWaited, Entries, OneConnect, WorkerWorks,
         AwaitsWorker, SubscribersHeard, Requesting
<1>2. TaskTypes /\ \A k \in Tasks : TaskInv(k)
  BY DEF TaskTypes, TaskInv, None
<1> QED BY <1>1, <1>2 DEF IInv

\* A task at rest starts its announces.
LEMMA SpawnKeeps ==
    ASSUME IInv, NEW k \in Tasks, NEW ts \in SUBSET Trackers, Spawn(k, ts),
           phase[k] \in {"resting", "sleeping"},
           NEW to \in {"announcing", "stopping", "over"}, phase' = [phase EXCEPT ![k] = to],
           UNCHANGED <<known, actived>>
    PROVE  IInv'
<1> USE TrackerManagerAssumption
<1>1. k \in Calls /\ Tasks \subseteq Calls /\ Udp \in Trackers
  OBVIOUS
<1>2. results' = [results EXCEPT ![k] =
                     [t \in Trackers |-> IF t \in ts THEN "flying" ELSE "none"]]
  BY DEF Spawn
<1>3. TaskTypes'
  BY <1>2 DEF IInv, TaskTypes
<1>4. /\ phase'[k] = to /\ results'[k][Udp] = IF Udp \in ts THEN "flying" ELSE "none"
      /\ \A j \in Tasks : j # k => phase'[j] = phase[j] /\ results'[j] = results[j]
  BY <1>1, <1>2 DEF IInv, TaskTypes
<1>5. pc[k] = "idle" /\ \A j \in Tasks : TaskInv(j)
  BY DEF IInv, TaskInv
<1>6. CASE Udp \in ts
  <2>1. Begin(k)
    BY <1>6 DEF Spawn
  <2>2. UInv'
    BY <1>1, <2>1, BeginKeeps DEF IInv
  <2>3. pc'[k] # "idle" /\ \A j \in Calls : j # k => pc'[j] = pc[j]
    BY <1>1, <2>1, BeginBusy DEF IInv
  <2>4. \A j \in Tasks : TaskInv(j)'
    BY <1>1, <1>4, <1>5, <1>6, <2>3 DEF TaskInv
  <2> QED BY <1>3, <2>2, <2>4 DEF IInv
<1>7. CASE Udp \notin ts
  <2>1. UNCHANGED uvars
    BY <1>7 DEF Spawn
  <2>2. UInv' /\ pc' = pc
    BY <2>1, UnchangedKeeps DEF IInv, uvars
  <2>3. \A j \in Tasks : TaskInv(j)'
    BY <1>4, <1>5, <1>7, <2>2 DEF TaskInv
  <2> QED BY <1>3, <2>2, <2>3 DEF IInv
<1> QED BY <1>6, <1>7

\* A step that leaves the UDP tracker and the announces in flight alone, and
\* that no task at work but k sees.
LEMMA AsideKeeps ==
    ASSUME IInv, UNCHANGED uvars, TaskTypes',
           \A k \in Tasks : results'[k][Udp] = "flying" <=> results[k][Udp] = "flying",
           \A k \in Tasks : results[k][Udp] = "flying" => phase'[k] = phase[k]
    PROVE  IInv'
<1>1. UInv' /\ pc' = pc
  BY UnchangedKeeps DEF IInv, uvars
<1>2. \A k \in Tasks : TaskInv(k)'
  BY <1>1 DEF IInv, TaskInv
<1> QED BY <1>1, <1>2 DEF IInv

LEMMA EndedKeeps ==
    ASSUME IInv, NEW k \in Tasks, NEW t \in Trackers, Ended(k, t)
    PROVE  IInv'
<1> USE TrackerManagerAssumption
<1>1. PICK how \in {"ok", "error"} :
          /\ results' = [results EXCEPT ![k][t] = how]
          /\ IF t = Udp THEN outcome[k] = how /\ Return(k) ELSE UNCHANGED uvars
  BY DEF Ended
<1>2. phase' = phase /\ results[k][t] = "flying"
  BY DEF Ended
<1>3. TaskTypes'
  BY <1>1, <1>2 DEF Ended, IInv, TaskTypes
<1>4. results'[k][t] = how /\ \A j \in Tasks : \A u \in Trackers : j # k \/ u # t => results'[j][u] = results[j][u]
  BY <1>1 DEF IInv, TaskTypes
<1>5. CASE t = Udp
  <2>1. UInv' /\ pc' = [pc EXCEPT ![k] = "idle"]
    BY <1>1, <1>5, EndOfCallKeeps DEF IInv
  <2>2. pc'[k] = "idle" /\ \A j \in Tasks : j # k => pc'[j] = pc[j]
    BY <2>1 DEF IInv, UInv, UdpTypeOK, Requesters
  <2>3. \A j \in Tasks : TaskInv(j)'
    BY <1>2, <1>4, <1>5, <2>2 DEF IInv, TaskInv
  <2> QED BY <1>3, <2>1, <2>3 DEF IInv
<1>6. CASE t # Udp
  BY <1>1, <1>2, <1>3, <1>4, <1>6, AsideKeeps
<1> QED BY <1>5, <1>6

LEMMA AbandonKeeps ==
    ASSUME IInv, NEW k \in Tasks, Abandon(k)
    PROVE  IInv'
<1> USE TrackerManagerAssumption
<1>1. /\ phase' = [phase EXCEPT ![k] = "resting"]
      /\ results' = [results EXCEPT ![k] = None]
  BY DEF Abandon
<1>2. TaskTypes'
  BY <1>1 DEF Abandon, IInv, TaskTypes, None
<1>3. /\ results'[k][Udp] = "none"
      /\ \A j \in Tasks : j # k => results'[j] = results[j] /\ phase'[j] = phase[j]
  BY <1>1 DEF IInv, TaskTypes, None
<1>4. CASE results[k][Udp] = "flying"
  <2>1. DropCall(k) \/ Return(k)
    BY <1>4 DEF Abandon, DropJoinSet
  <2>2. UInv' /\ pc' = [pc EXCEPT ![k] = "idle"]
    BY <2>1, EndOfCallKeeps DEF IInv
  <2>3. pc'[k] = "idle" /\ \A j \in Tasks : j # k => pc'[j] = pc[j]
    BY <2>2 DEF IInv, UInv, UdpTypeOK, Requesters
  <2>4. \A j \in Tasks : TaskInv(j)'
    BY <1>3, <2>3 DEF IInv, TaskInv
  <2> QED BY <1>2, <2>2, <2>4 DEF IInv
<1>5. CASE results[k][Udp] # "flying"
  <2>1. UNCHANGED uvars
    BY <1>5 DEF Abandon, DropJoinSet
  <2> QED BY <1>2, <1>3, <1>5, <2>1, AsideKeeps
<1> QED BY <1>4, <1>5

\* The users of the UDP tracker that are not tasks.
LEMMA UseKeeps ==
    ASSUME IInv, NEW c \in Calls \ Tasks, Use(c)
    PROVE  IInv'
<1> USE TrackerManagerAssumption
<1>1. UInv' /\ \A k \in Tasks : pc'[k] = pc[k]
  <2>1. CASE Begin(c)
    BY <2>1, BeginKeeps, BeginBusy DEF IInv
  <2>2. CASE DropCall(c) \/ Return(c)
    <3>1. UInv' /\ pc' = [pc EXCEPT ![c] = "idle"]
      BY <2>2, EndOfCallKeeps DEF IInv
    <3> QED BY <3>1 DEF IInv, UInv, UdpTypeOK, Requesters
  <2> QED BY <2>1, <2>2 DEF Use
<1>2. UNCHANGED <<known, actived, phase, results>>
  BY DEF Use, mvars
<1>3. TaskTypes' /\ \A k \in Tasks : TaskInv(k)'
  BY <1>1, <1>2 DEF IInv, TaskTypes, TaskInv
<1> QED BY <1>1, <1>3 DEF IInv

\* The steps of a task that make no call and drop none.
LEMMA QuietKeeps ==
    ASSUME IInv, NEW k \in Tasks,
           NewTask(k) \/ Announce(k) \/ RoundEnds(k) \/ ShutdownEnds(k)
    PROVE  IInv'
<1> USE TrackerManagerAssumption
<1>1. UNCHANGED uvars /\ results[k][Udp] # "flying"
  BY DEF NewTask, Announce, RoundEnds, ShutdownEnds, Move, Joined, IInv, TaskInv
<1>2. \A j \in Tasks : j # k => phase'[j] = phase[j]
  BY DEF NewTask, Announce, RoundEnds, ShutdownEnds, Move, IInv, TaskTypes
<1>3. CASE NewTask(k) \/ Announce(k)
  <2>1. TaskTypes' /\ results' = results
    BY <1>3 DEF NewTask, Announce, Move, IInv, TaskTypes
  <2> QED BY <1>1, <1>2, <2>1, AsideKeeps
<1>4. CASE RoundEnds(k) \/ ShutdownEnds(k)
  <2>1. results' = [results EXCEPT ![k] = None] /\ phase' = [phase EXCEPT ![k] = "resting"]
    BY <1>4 DEF RoundEnds, ShutdownEnds, Move
  <2>2. TaskTypes'
    BY <1>4, <2>1 DEF RoundEnds, ShutdownEnds, IInv, TaskTypes, None
  <2>3. results'[k][Udp] = "none" /\ \A j \in Tasks : j # k => results'[j] = results[j]
    BY <2>1 DEF IInv, TaskTypes, None
  <2> QED BY <1>1, <1>2, <2>2, <2>3, AsideKeeps
<1> QED BY <1>3, <1>4

LEMMA StepKeeps == IInv /\ [Next]_vars => IInv'
<1> SUFFICES ASSUME IInv, [Next]_vars PROVE IInv'
  OBVIOUS
<1> USE TrackerManagerAssumption
<1>1. CASE UdpNext /\ UNCHANGED mvars
  <2>1. UInv' /\ \A k \in Tasks : pc'[k] = "idle" <=> pc[k] = "idle"
    BY <1>1, UdpNextKeeps DEF IInv
  <2>2. UNCHANGED <<known, actived, phase, results>>
    BY <1>1 DEF mvars
  <2>3. TaskTypes' /\ \A k \in Tasks : TaskInv(k)'
    BY <2>1, <2>2 DEF IInv, TaskTypes, TaskInv
  <2> QED BY <2>1, <2>3 DEF IInv
<1>2. CASE UNCHANGED vars \/ Tick \/ \E t \in Trackers : AddTracker(t)
  <2>1. UNCHANGED <<uvars, phase, results>>
    BY <1>2 DEF vars, mvars, Tick, AddTracker
  <2>2. TaskTypes'
    BY <1>2, <2>1 DEF vars, mvars, Tick, AddTracker, IInv, TaskTypes
  <2> QED BY <2>1, <2>2, AsideKeeps
<1>3. ASSUME NEW k \in Tasks, NewTask(k) \/ Announce(k) \/ RoundEnds(k) \/ ShutdownEnds(k)
      PROVE  IInv'
  BY <1>3, QuietKeeps
<1>4. ASSUME NEW k \in Tasks, Woken(k) PROVE IInv'
  <2>1. Spawn(k, Due(k)) /\ phase[k] = "sleeping" /\ phase' = [phase EXCEPT ![k] = "announcing"]
    BY <1>4 DEF Woken, Move
  <2>2. Due(k) \in SUBSET Trackers
    BY DEF Due, IInv, TaskTypes
  <2> QED BY <1>4, <2>1, <2>2, SpawnKeeps DEF Woken
<1>5. ASSUME NEW k \in Tasks, Shutdown(k) \/ DropTask(k) PROVE IInv'
  <2>1. Announced(k) \in SUBSET Trackers
    BY DEF Announced, IInv, TaskTypes
  <2>2. /\ Spawn(k, Announced(k)) /\ phase[k] = "resting" /\ UNCHANGED <<known, actived>>
        /\ \E to \in {"stopping", "over"} : phase' = [phase EXCEPT ![k] = to]
    BY <1>5 DEF Shutdown, DropTask, Move
  <2> QED BY <2>1, <2>2, SpawnKeeps
<1>6. ASSUME NEW k \in Tasks, Abandon(k) PROVE IInv'
  BY <1>6, AbandonKeeps
<1>7. ASSUME NEW k \in Tasks, NEW t \in Trackers, Ended(k, t) PROVE IInv'
  BY <1>7, EndedKeeps
<1>8. ASSUME NEW c \in Calls \ Tasks, Use(c) PROVE IInv'
  BY <1>8, UseKeeps
<1> QED BY <1>1, <1>2, <1>3, <1>4, <1>5, <1>6, <1>7, <1>8 DEF Next

\* The invariant holds in every state.
THEOREM InductiveInvariant == Spec => []IInv
<1> QED BY InitIInv, StepKeeps, PTL DEF Spec

\* Whatever times out, fails or is dropped, the map of transactions of a UDP
\* tracker holds exactly the requests under way that have no answer.
THEOREM TransactionsHold == Spec => []TransactionsExact
<1>1. IInv => TransactionsExact
  BY DEF IInv, UInv, UdpTypeOK, Entries, AnswersWaited, TransactionsExact
<1> QED BY <1>1, InductiveInvariant, PTL

\* One connect runs at a time, though the id may expire at any moment and any
\* number of calls need it, and whoever waits for one waits for a worker that
\* has yet to tell it.
THEOREM ConnectsHold == Spec => [](OneConnect /\ SubscribersHeard)
<1>1. IInv => OneConnect /\ SubscribersHeard
  BY DEF IInv, UInv
<1> QED BY <1>1, InductiveInvariant, PTL

\* Whatever is abandoned or dropped, a task's call and its place in the JoinSet, or
\* among the announces that the drop of the task has spawned, come and go together.
THEOREM NoStrayCallHolds == Spec => []NoStrayCall
<1>1. IInv => NoStrayCall
  BY DEF IInv, TaskInv, NoStrayCall
<1> QED BY <1>1, InductiveInvariant, PTL

-----------------------------------------------------------------------------
(* The times *)

\* The spans a tracker's next time may be set to.
Spans == Intervals \cup {Retry}

Times == {Never} \cup {n \in Int : n >= -1 /\ \E m \in Spans : n <= m}

Waits == {n \in Nat : \E m \in Spans : n <= m}

\* A task that sleeps has a tracker whose time comes no later than its sleep ends.
Served(k) ==
    phase[k] = "sleeping" => \E t \in actived[k] : next[k][t] = Never \/ next[k][t] <= wake[k]

\* The inductive invariant of the times; a task has finitely many trackers, or
\* their mean would mean nothing.
TimesInv ==
    /\ next \in [Tasks -> [Trackers -> Times]]
    /\ wake \in [Tasks -> Waits]
    /\ IsFiniteSet(known) /\ \A k \in Tasks : IsFiniteSet(actived[k])
    /\ \A k \in Tasks : Served(k)

(* The sleep of `announce` is in range, and somebody is due by its end. *)
LEMMA MeanServes ==
    ASSUME TaskTypes, TimesInv, NEW k \in Tasks, actived[k] # {}
    PROVE  /\ AvgNextAnnounce(k) \in Waits
           /\ \E t \in actived[k] : next[k][t] = Never \/ next[k][t] <= AvgNextAnnounce(k)
<1>1. /\ actived[k] \subseteq Trackers /\ IsFiniteSet(actived[k])
      /\ \A t \in actived[k] : next[k][t] \in Times
  BY DEF TaskTypes, TimesInv
<1>2. /\ Spans \subseteq Nat /\ Retry \in Spans /\ Retry > 0 /\ 0 \in Waits /\ Never \notin Int
  <2>1. Spans \subseteq Nat /\ Retry \in Spans /\ Never \notin Int
    BY TrackerManagerAssumption DEF Spans
  <2>2. 0 <= Retry /\ Retry > 0
    <3>1. Retry \in Nat /\ Retry # 0
      BY TrackerManagerAssumption
    <3>2. QED
      BY <3>1
  <2>3. QED
    BY <2>1, <2>2 DEF Waits
<1>3. CASE Ahead(k) = {}
  <2>1. AvgNextAnnounce(k) = 0
    BY <1>3 DEF AvgNextAnnounce
  <2>2. PICK t \in actived[k] : ~(next[k][t] # Never /\ next[k][t] >= 0)
    BY <1>3 DEF Ahead
  <2>3. next[k][t] = Never \/ next[k][t] <= 0
    BY <1>1, <2>2 DEF Times
  <2>4. QED
    BY <1>2, <2>1, <2>3
<1>4. CASE Ahead(k) # {}
  <2> DEFINE S == Ahead(k)
             w == next[k]
             g == CHOOSE h : IsSum(S, w, h)
  <2>1. S \subseteq actived[k] /\ IsFiniteSet(S)
    BY <1>1, FS_Subset DEF Ahead
  <2>2. \A t \in S : w[t] \in Waits
    BY <1>1 DEF Ahead, Times, Waits
  <2>3. \A t \in S : w[t] \in Nat
    BY <2>2 DEF Waits
  <2>4. IsSum(S, w, g)
    BY <2>1, SumExists
  <2>5. SumAhead(k) = g[S]
    BY DEF SumAhead, FoldSet, MapThenFoldSet, IsSum, SumStep
  <2>6. AvgNextAnnounce(k) = g[S] \div Cardinality(S)
    BY <1>4, <2>5 DEF AvgNextAnnounce
  <2> HIDE DEF S, w, g
  <2>7. /\ g[S] \div Cardinality(S) \in Nat
        /\ \E t \in S : w[t] <= g[S] \div Cardinality(S)
        /\ \A m \in Nat : (\A t \in S : w[t] <= m) => g[S] \div Cardinality(S) <= m
    BY <1>4, <2>1, <2>3, <2>4, MeanBounds DEF S
  \* Were the mean beyond every span, it would be beyond each of its numbers, and
  \* these would not exceed one less.
  <2>8. \E m \in Spans : g[S] \div Cardinality(S) <= m
    <3> SUFFICES ASSUME \A m \in Spans : ~(g[S] \div Cardinality(S) <= m)
                 PROVE  FALSE
      OBVIOUS
    <3>1. PICK mean \in Nat : mean = g[S] \div Cardinality(S)
      BY <2>7
    <3>2. mean - 1 \in Nat
      BY <1>2, <3>1
    <3>3. \A t \in S : w[t] <= mean - 1
      BY <1>2, <2>2, <3>1 DEF Waits
    <3>4. mean <= mean - 1
      BY <2>7, <3>1, <3>2, <3>3
    <3>5. QED
      BY <3>1, <3>4
  <2>9. QED
    BY <2>1, <2>6, <2>7, <2>8 DEF Waits, w
<1>5. QED
  BY <1>3, <1>4

(* A tick brings every time nearer, and no sleep to its end before the time  *)
(* of the tracker that it is served by.                                      *)
LEMMA TickKeepsTimes ==
    ASSUME TaskTypes, TimesInv, Tick
    PROVE  TimesInv'
<1>1. Spans \subseteq Nat /\ Never \notin Int
  BY TrackerManagerAssumption DEF Spans
<1>2. /\ next' = [k \in Tasks |-> [t \in Trackers |-> Later(next[k][t])]]
      /\ wake' = [k \in Tasks |-> IF wake[k] > 0 THEN wake[k] - 1 ELSE 0]
      /\ UNCHANGED <<known, actived, phase>>
  BY DEF Tick
<1>3. \A n \in Times : Later(n) \in Times
  BY <1>1 DEF Later, Times
<1>4. next' \in [Tasks -> [Trackers -> Times]]
  BY <1>2, <1>3 DEF TimesInv
<1>5. wake' \in [Tasks -> Waits]
  BY <1>1, <1>2 DEF TimesInv, Waits
<1>6. ASSUME NEW k \in Tasks, phase'[k] = "sleeping"
      PROVE  \E t \in actived'[k] : next'[k][t] = Never \/ next'[k][t] <= wake'[k]
  <2>1. PICK t \in actived[k] : next[k][t] = Never \/ next[k][t] <= wake[k]
    BY <1>2, <1>6 DEF TimesInv, Served
  <2>2. t \in Trackers /\ next[k][t] \in Times /\ wake[k] \in Nat
    BY DEF TimesInv, TaskTypes, Waits
  <2>3. next'[k][t] = Later(next[k][t]) /\ wake'[k] = IF wake[k] > 0 THEN wake[k] - 1 ELSE 0
    BY <1>2, <2>2
  <2>4. next'[k][t] = Never \/ next'[k][t] <= wake'[k]
    BY <1>1, <2>1, <2>2, <2>3 DEF Later, Times
  <2>5. QED
    BY <1>2, <2>4
<1>7. QED
  BY <1>2, <1>4, <1>5, <1>6 DEF TimesInv, Served

LEMMA NextKeepsTimes == IInv /\ TimesInv /\ [Next]_vars => TimesInv'
<1> SUFFICES ASSUME IInv, TimesInv, [Next]_vars PROVE TimesInv'
  OBVIOUS
<1>1. TaskTypes
  BY DEF IInv
<1>2. Never \notin Int /\ 0 \in Waits /\ Retry \in Times /\ \A n \in Intervals : n \in Times
  <2>1. /\ Intervals \subseteq Nat /\ Retry \in Nat /\ Never \notin Int
        /\ Intervals \subseteq Spans /\ Retry \in Spans
    BY TrackerManagerAssumption DEF Spans
  <2>2. \A n \in Nat : 0 <= n /\ n >= -1 /\ n <= n /\ n \in Int
    OBVIOUS
  <2>3. 0 \in Waits
    BY <2>1, <2>2 DEF Waits
  <2>4. \A n \in Nat : n \in Spans => n \in Times
    BY <2>2 DEF Times
  <2>5. QED
    BY <2>1, <2>3, <2>4
<1>3. ASSUME UNCHANGED <<known, actived, next, phase, wake>>
      PROVE  TimesInv'
  BY <1>3 DEF TimesInv, Served
\* Steps that put no task to sleep and change no time but to end a sleep.
<1>4. ASSUME NEW k \in Tasks, UNCHANGED next, IsFiniteSet(known'), IsFiniteSet(actived'[k]),
             NEW to \in {"resting", "announcing", "stopping", "over"},
             phase' = [phase EXCEPT ![k] = to],
             wake' = wake \/ wake' = [wake EXCEPT ![k] = 0],
             \A j \in Tasks \ {k} : actived'[j] = actived[j]
      PROVE  TimesInv'
  <2>1. wake' \in [Tasks -> Waits]
    BY <1>2, <1>4 DEF TimesInv
  <2>2. \A j \in Tasks \ {k} : phase'[j] = phase[j] /\ wake'[j] = wake[j]
    BY <1>1, <1>4 DEF TaskTypes, TimesInv
  <2>3. phase'[k] # "sleeping"
    BY <1>1, <1>4 DEF TaskTypes
  <2>4. \A j \in Tasks : Served(j)'
    BY <1>4, <2>2, <2>3 DEF TimesInv, Served
  <2>5. \A j \in Tasks : IsFiniteSet(actived'[j])
    BY <1>4 DEF TimesInv
  <2>6. QED
    BY <1>4, <2>1, <2>4, <2>5 DEF TimesInv
<1>5. CASE UdpNext /\ UNCHANGED mvars
  BY <1>3, <1>5 DEF mvars
<1>6. ASSUME NEW t \in Trackers, AddTracker(t)
      PROVE  TimesInv'
  <2>1. IsFiniteSet(known')
    BY <1>6, FS_AddElement DEF AddTracker, TimesInv
  <2>2. QED
    BY <1>6, <2>1 DEF AddTracker, TimesInv, Served
<1>7. ASSUME NEW k \in Tasks, NewTask(k)
      PROVE  TimesInv'
  <2>1. /\ actived' = [actived EXCEPT ![k] = known] /\ UNCHANGED <<known, next, wake>>
        /\ phase' = [phase EXCEPT ![k] = "resting"]
    BY <1>7 DEF NewTask, Move
  <2>2. actived'[k] = known /\ \A j \in Tasks \ {k} : actived'[j] = actived[j]
    BY <1>1, <2>1 DEF TaskTypes
  <2>3. QED
    BY <1>4, <2>1, <2>2 DEF TimesInv
<1>8. ASSUME NEW k \in Tasks, Announce(k)
      PROVE  TimesInv'
  <2>1. /\ actived[k] # {} /\ UNCHANGED <<known, actived, next>>
        /\ phase' = [phase EXCEPT ![k] = "sleeping"]
        /\ wake' = [wake EXCEPT ![k] = AvgNextAnnounce(k)]
    BY <1>8 DEF Announce, Move
  <2>2. PICK m \in Waits : m = AvgNextAnnounce(k)
    BY <1>1, <2>1, MeanServes
  <2>3. \E t \in actived[k] : next[k][t] = Never \/ next[k][t] <= m
    BY <1>1, <2>1, <2>2, MeanServes
  <2>4. wake' \in [Tasks -> Waits] /\ wake'[k] = m
    BY <2>1, <2>2 DEF TimesInv
  <2>5. \A j \in Tasks \ {k} : phase'[j] = phase[j] /\ wake'[j] = wake[j]
    BY <1>1, <2>1 DEF TaskTypes, TimesInv
  <2>6. \A j \in Tasks : Served(j)'
    BY <2>1, <2>3, <2>4, <2>5 DEF TimesInv, Served
  <2>7. QED
    BY <2>1, <2>4, <2>6 DEF TimesInv
<1>9. ASSUME NEW k \in Tasks, Woken(k) \/ Shutdown(k) \/ DropTask(k) \/ Abandon(k)
      PROVE  TimesInv'
  <2>1. /\ UNCHANGED <<known, actived, next>>
        /\ wake' = wake \/ wake' = [wake EXCEPT ![k] = 0]
        /\ \E to \in {"resting", "announcing", "stopping", "over"} : phase' = [phase EXCEPT ![k] = to]
    BY <1>9 DEF Woken, Shutdown, DropTask, Abandon, Move
  <2>2. QED
    BY <1>4, <2>1 DEF TimesInv
<1>10. ASSUME NEW k \in Tasks, ShutdownEnds(k)
       PROVE  TimesInv'
  <2>1. /\ actived' = [actived EXCEPT ![k] = {}] /\ UNCHANGED <<known, next, wake>>
        /\ phase' = [phase EXCEPT ![k] = "resting"]
    BY <1>10 DEF ShutdownEnds, Move
  <2>2. actived'[k] = {} /\ \A j \in Tasks \ {k} : actived'[j] = actived[j]
    BY <1>1, <2>1 DEF TaskTypes
  <2>3. QED
    BY <1>4, <2>1, <2>2, FS_EmptySet DEF TimesInv
<1>11. ASSUME NEW k \in Tasks, RoundEnds(k)
       PROVE  TimesInv'
  <2> DEFINE Oks == {t \in Trackers : results[k][t] = "ok"}
  <2>0. /\ UNCHANGED <<known, actived, wake>>
        /\ phase' = [phase EXCEPT ![k] = "resting"]
    BY <1>11 DEF RoundEnds, Move
  <2>1. PICK interval \in [Oks -> Intervals] :
            next' = [next EXCEPT ![k] = [t \in Trackers |->
                CASE results[k][t] = "ok"    -> interval[t]
                  [] results[k][t] = "error" -> Retry
                  [] OTHER                   -> next[k][t]]]
    BY <1>11 DEF RoundEnds
  <2>2. [t \in Trackers |-> CASE results[k][t] = "ok"    -> interval[t]
                              [] results[k][t] = "error" -> Retry
                              [] OTHER                   -> next[k][t]] \in [Trackers -> Times]
    <3>1. ASSUME NEW t \in Trackers
          PROVE  (CASE results[k][t] = "ok"    -> interval[t]
                    [] results[k][t] = "error" -> Retry
                    [] OTHER                   -> next[k][t]) \in Times
      <4>1. CASE results[k][t] = "ok"
        <5>1. interval[t] \in Times
          BY <1>2, <4>1
        <5>2. QED
          BY <4>1, <5>1
      <4>2. CASE results[k][t] # "ok"
        BY <1>2, <4>2 DEF TimesInv
      <4>3. QED
        BY <4>1, <4>2
    <3>2. QED
      BY <3>1
  <2>3. next' \in [Tasks -> [Trackers -> Times]]
    BY <2>1, <2>2 DEF TimesInv
  <2>4. phase'[k] # "sleeping"
        /\ \A j \in Tasks \ {k} : phase'[j] = phase[j] /\ next'[j] = next[j]
    BY <1>1, <2>0, <2>1 DEF TaskTypes, TimesInv
  <2>5. \A j \in Tasks : Served(j)'
    BY <2>0, <2>4 DEF TimesInv, Served
  <2>6. QED
    BY <2>0, <2>3, <2>5 DEF TimesInv
<1>12. ASSUME NEW k \in Tasks, NEW t \in Trackers, Ended(k, t)
       PROVE  TimesInv'
  BY <1>3, <1>12 DEF Ended
<1>13. CASE \E c \in Calls \ Tasks : Use(c)
  BY <1>3, <1>13 DEF Use, mvars
<1>14. CASE Tick
  BY <1>1, <1>14, TickKeepsTimes
<1>15. CASE UNCHANGED vars
  BY <1>3, <1>15 DEF vars, mvars
<1>16. QED
  BY <1>5, <1>6, <1>7, <1>8, <1>9, <1>10, <1>11, <1>12, <1>13, <1>14, <1>15 DEF Next

LEMMA InitTimes == Init => TimesInv
<1> SUFFICES ASSUME Init PROVE TimesInv
  OBVIOUS
<1>1. 0 \in Waits /\ Never \in Times
  <2>1. Retry \in Nat /\ Retry \in Spans
    BY TrackerManagerAssumption DEF Spans
  <2>2. 0 <= Retry
    BY <2>1
  <2>3. QED
    BY <2>1, <2>2 DEF Waits, Times
<1>2. IsFiniteSet(known) /\ \A k \in Tasks : IsFiniteSet(actived[k])
  BY FS_EmptySet, FS_Singleton DEF Init
<1>3. next \in [Tasks -> [Trackers -> Times]] /\ wake \in [Tasks -> Waits]
  BY <1>1 DEF Init
<1>4. \A k \in Tasks : Served(k)
  BY DEF Init, Served
<1>5. QED
  BY <1>2, <1>3, <1>4 DEF TimesInv

\* The times stay in range, and every sleep is served.
THEOREM TimesHold == Spec => []TimesInv
BY InitTimes, NextKeepsTimes, InductiveInvariant, PTL DEF Spec

\* The sleep of `announce` is never too short, whatever interval each reply asks for,
\* none included, though it is a rounded mean over the times that are not past: when it
\* is over, somebody is due.
THEOREM RoundServesHolds == Spec => []RoundServes
<1>1. IInv /\ TimesInv => RoundServes
  <2> SUFFICES ASSUME IInv, TimesInv, NEW k \in Tasks, phase[k] = "sleeping", wake[k] <= 0
               PROVE  Due(k) # {}
    BY DEF RoundServes
  <2>1. PICK t \in actived[k] : next[k][t] = Never \/ next[k][t] <= wake[k]
    BY DEF TimesInv, Served
  <2>2. next[k][t] \in Times /\ wake[k] \in Nat
    BY DEF IInv, TaskTypes, TimesInv, Waits
  <2>3. next[k][t] = Never \/ next[k][t] <= 0
    BY <2>1, <2>2 DEF Times
  <2>4. QED
    BY <2>3 DEF Due
<1>2. QED
  BY <1>1, InductiveInvariant, TimesHold, PTL

\* All that holds of announce tasks and their UDP tracker at any time: the
\* shape of the state with its times, one connect at a time, nobody left waiting
\* for a worker that will not tell, no call but of an announce in the JoinSet or one
\* that the drop of the task has spawned.
THEOREM TrackerInvHolds == Spec => []TrackerInv
<1>1. IInv /\ TimesInv => TrackerInv
  <2> SUFFICES ASSUME IInv, TimesInv PROVE TrackerInv
    OBVIOUS
  <2>1. \A k \in Tasks : \A t \in Trackers : next[k][t] \in Times
    BY DEF TimesInv
  <2>2. \A k \in Tasks : wake[k] \in Waits
    BY DEF TimesInv
  <2>3. TypeOK
    BY <2>1, <2>2 DEF TypeOK, IInv, UInv, TaskTypes, Spans, Times, Waits
  <2>4. QED
    BY <2>3 DEF TrackerInv, IInv, UInv, TaskInv, NoStrayCall
<1>2. QED
  BY <1>1, InductiveInvariant, TimesHold, PTL
=============================================================================
