----------------------------- MODULE UdpTracker -----------------------------
(***************************************************************************)
(* A UDP tracker, bt/udp_tracker.rs: announces and scrapes that share a    *)
(* connection id, which one connect worker at a time fetches for all.      *)
(*                                                                         *)
(* A requester is a call of announce_impl or scrape_impl, or a connect     *)
(* worker.  Each has at most one request under way, so a transaction id    *)
(* (32 bits, never reused here) is its requester; an answer to an earlier  *)
(* request, whose tid is in no map, has no effect and no action.  An id    *)
(* that has expired (CONNECTION_EXPIRY) is as good as none.                *)
(***************************************************************************)
EXTENDS Integers, FiniteSets

CONSTANTS
    Calls,      \* calls of announce or scrape
    Workers,    \* connect workers, used again when they have ended
    NoWorker    \* not a worker

ASSUME UdpTrackerAssumption == NoWorker \notin Workers /\ Calls \cap Workers = {}

Requesters == Calls \cup Workers

VARIABLES
    conId,      \* ConnectionIdState.id: is there one that has not expired?
    worker,     \* ConnectionIdState.worker: whose channel is there, or NoWorker
    pc,         \* where each requester is
    awaits,     \* the worker whose broadcast a call waits for
    pending,    \* requesters whose sender is in the map
    answered,   \* requesters whose oneshot holds an answer
    outcome     \* "ok", "error" or "none": what the requester's last step gave

uvars == <<conId, worker, pc, awaits, pending, answered, outcome>>

\* A request is under way: send_to or rx is awaited, under the timeout.
Requesting(r) == pc[r] \in {"sending", "waiting"}

UdpInit ==
    /\ conId = FALSE
    /\ worker = NoWorker
    /\ pc = [r \in Requesters |-> "idle"]
    /\ awaits = [c \in Calls |-> NoWorker]
    /\ pending = {}
    /\ answered = {}
    /\ outcome = [r \in Requesters |-> "none"]

\* send_request_impl up to the first await: the tid is registered.
Register(rs) == pending' = pending \cup rs

-----------------------------------------------------------------------------
(* Connection id *)

\* Mutant: nobody looks whether a worker is there.
NeedsWorker == TRUE

\* No worker is fetching an id.
StartsWorker == worker = NoWorker

\* connection_id, a valid id: the call goes on at once.
UseId(c) ==
    /\ conId
    /\ pc' = [pc EXCEPT ![c] = "sending"]
    /\ Register({c})
    /\ UNCHANGED <<conId, worker, awaits>>

\* connection_id, none or an expired one: the call subscribes to the worker,
\* which it starts if there is none.
Subscribe(c) ==
    /\ ~conId
    /\ IF StartsWorker
       THEN \E w \in Workers :
                /\ pc[w] = "idle"
                /\ worker' = w
                /\ awaits' = [awaits EXCEPT ![c] = w]
                /\ pc' = [pc EXCEPT ![c] = "subscribed", ![w] = "sending"]
                /\ Register({w})
       ELSE /\ awaits' = [awaits EXCEPT ![c] = worker]
            /\ pc' = [pc EXCEPT ![c] = "subscribed"]
            /\ UNCHANGED <<worker, pending>>
    /\ UNCHANGED conId

\* announce_impl, scrape_impl (not more than MAX_SCRAPE hashes).
Begin(c) ==
    /\ pc[c] = "idle"
    /\ UseId(c) \/ Subscribe(c)
    /\ UNCHANGED <<answered, outcome>>

\* connect_worker has its answer: the id is kept, the channel taken out, under
\* the lock.
Connected(w) ==
    /\ pc[w] = "done"
    /\ conId' = (conId \/ outcome[w] = "ok")
    /\ worker' = NoWorker
    /\ pc' = [pc EXCEPT ![w] = "telling"]
    /\ UNCHANGED <<awaits, pending, answered, outcome>>

\* Mutant: a failed connect is told to nobody.
ToldTo(w) == {c \in Calls : pc[c] = "subscribed" /\ awaits[c] = w /\ outcome[w] = "ok"}

Listeners(w) == {c \in Calls : pc[c] = "subscribed" /\ awaits[c] = w}

\* ... and then its result is broadcast.  With an id, the calls go on to
\* register and send; an error is theirs as well.
Broadcast(w) ==
    /\ pc[w] = "telling"
    /\ LET told == Listeners(w)
           ok == outcome[w] = "ok"
       IN  /\ pc' = [r \in Requesters |->
                        IF r = w THEN "idle"
                        ELSE IF r \in told THEN IF ok THEN "sending" ELSE "done"
                        ELSE pc[r]]
           /\ outcome' = [r \in Requesters |->
                             IF r = w THEN "none"
                             ELSE IF r \in told /\ ~ok THEN "error" ELSE outcome[r]]
           /\ awaits' = [c \in Calls |-> IF c \in told THEN NoWorker ELSE awaits[c]]
           /\ Register(IF ok THEN told ELSE {})
    /\ UNCHANGED <<conId, worker, answered>>

\* A minute has passed since the id came.
Expire ==
    /\ conId
    /\ conId' = FALSE
    /\ UNCHANGED <<worker, pc, awaits, pending, answered, outcome>>

-----------------------------------------------------------------------------
(* Requests *)

\* Mutant: the guard is forgotten.
Leaks(r) == pending' = pending

\* The CancelGuard of r goes out of scope.
Unregister(r) == pending' = pending \ {r}

Over(r, how) ==
    /\ pc' = [pc EXCEPT ![r] = "done"]
    /\ outcome' = [outcome EXCEPT ![r] = how]
    /\ answered' = answered \ {r}
    /\ UNCHANGED <<conId, worker, awaits>>

Sent(r) ==
    /\ pc[r] = "sending"
    /\ pc' = [pc EXCEPT ![r] = "waiting"]
    /\ UNCHANGED <<conId, worker, awaits, pending, answered, outcome>>

\* send_to fails, or MAX_TIMEOUT is over: the request is dropped.
GiveUp(r) ==
    /\ Requesting(r)
    /\ Unregister(r)
    /\ Over(r, "error")

\* process_udp, a tid that is known: its sender is taken out of the map.
ProcessUdp(r) ==
    /\ r \in pending
    /\ pending' = pending \ {r}
    /\ answered' = answered \cup {r}
    /\ UNCHANGED <<conId, worker, pc, awaits, outcome>>

\* What an answer of n bytes is read as by connect, announce_impl and scrape_impl.
ReadConnect(n) == IF n = 8 THEN "ok" ELSE "error"
ReadAnnounce(n) ==
    IF n >= 12 /\ ((n - 12) % 6 = 0 \/ (n - 12) % 18 = 0) THEN "ok" ELSE "error"
ReadScrape(n, hashes) == IF n = 12 * hashes THEN "ok" ELSE "error"

ReadBy(r, n) ==
    IF r \in Workers THEN {ReadConnect(n)} ELSE {ReadAnnounce(n), ReadScrape(n, 1)}

\* rx yields.  The answer may be an error, or that of another action.
Receive(r) ==
    /\ pc[r] = "waiting"
    /\ r \in answered
    /\ \E n \in {8, 12, 18, 19}, action \in {"same", "other"} :
          \E how \in IF action = "same" THEN ReadBy(r, n) ELSE {"error"} : Over(r, how)
    /\ UNCHANGED pending

\* The caller of announce or scrape drops the call where it awaits.
DropCall(c) ==
    /\ pc[c] \in {"subscribed", "sending", "waiting"}
    /\ Unregister(c)
    /\ pc' = [pc EXCEPT ![c] = "idle"]
    /\ awaits' = [awaits EXCEPT ![c] = NoWorker]
    /\ answered' = answered \ {c}
    /\ UNCHANGED <<conId, worker, outcome>>

\* The caller has the result.
Return(c) ==
    /\ pc[c] = "done"
    /\ pc' = [pc EXCEPT ![c] = "idle"]
    /\ outcome' = [outcome EXCEPT ![c] = "none"]
    /\ UNCHANGED <<conId, worker, awaits, pending, answered>>

\* What the tracker does on its own; Begin, DropCall and the end of a call are
\* its callers'.
Progress ==
    \/ \E w \in Workers : Connected(w) \/ Broadcast(w)
    \/ \E r \in Requesters : Sent(r) \/ GiveUp(r) \/ Receive(r)

UdpNext == Progress \/ Expire \/ \E r \in Requesters : ProcessUdp(r)

UdpFairness ==
    /\ \A w \in Workers : WF_uvars(Connected(w)) /\ WF_uvars(Broadcast(w))
    /\ \A r \in Requesters : WF_uvars(Sent(r) \/ GiveUp(r) \/ Receive(r))

-----------------------------------------------------------------------------
(* Properties *)

UdpTypeOK ==
    /\ conId \in BOOLEAN
    /\ worker \in Workers \cup {NoWorker}
    /\ pc \in [Requesters -> {"idle", "subscribed", "sending", "waiting", "done", "telling"}]
    /\ awaits \in [Calls -> Workers \cup {NoWorker}]
    /\ pending \subseteq Requesters
    /\ answered \subseteq Requesters
    /\ outcome \in [Requesters -> {"none", "ok", "error"}]

\* However connects, expiry and failures interleave, one connect is under way at
\* a time, its channel is the one in the state, and no valid id is there then.
OneConnect ==
    \A w \in Workers : Requesting(w) \/ pc[w] = "done" => worker = w /\ ~conId

\* A call that waits for a connection id waits for a worker that will still
\* tell it: it subscribed before the result was sent.
SubscribersHeard ==
    \A c \in Calls : pc[c] = "subscribed" => pc[awaits[c]] \in {"sending", "waiting", "done", "telling"}

\* The map holds exactly the requests under way that have no answer yet, through
\* timeouts, dropped calls and answers that come as they do.
TransactionsExact ==
    pending = {r \in Requesters : Requesting(r)} \ answered
=============================================================================
