-------------------------------- MODULE Krpc --------------------------------
(***************************************************************************)
(* Queries in flight: krpc/krpc_context.rs under DhtSession::do_krpc.      *)
(*                                                                         *)
(* A call draws a transaction id from a 16-bit counter, registers a        *)
(* oneshot sender for it in the `pending` map, sends, and waits on the     *)
(* other end.  The receiving task takes the sender a datagram's tid names  *)
(* out of the map and sends through it.  However a call ends, its          *)
(* CancelGuard removes the map's entry for its tid, unless the guard was   *)
(* disarmed by an answer.                                                  *)
(*                                                                         *)
(* The runtime is multi-threaded, so drawing and registering are two       *)
(* steps, and a call may be dropped at each of its two await points        *)
(* ("sending", "waiting"), by its timeout or with its task.  The network   *)
(* loses, delays, reorders and duplicates: an answer to a query sent once  *)
(* may come at any time, any number of times, or never.                    *)
(***************************************************************************)
EXTENDS Integers, FiniteSets

CONSTANTS
    Calls,      \* the calls of do_krpc
    NoCall,     \* not a call
    TidMod,     \* 2^16 in the code
    Attempts,   \* 2 in the code: do_krpc tries again once
    Window      \* bound: see Recent

ASSUME KrpcAssumption ==
    /\ NoCall \notin Calls
    /\ TidMod \in Nat \ {0}
    /\ Attempts \in Nat \ {0}
    /\ Window \in Nat \ {0}

VARIABLES
    pc,         \* where each call is
    seq,        \* the draw its attempt got, the tid is seq % TidMod
    tries,      \* attempts begun
    chan,       \* its oneshot channel as the receiver sees it
    got,        \* the query that the message in the channel answers, as a set
    result,     \* what the call returned, "none" before that
    pending,    \* the map: tid -> the call whose sender is there, or NoCall
    draws,      \* the counter, as it would be if it did not wrap
    sent        \* the queries that have left the socket

vars == <<pc, seq, tries, chan, got, result, pending, draws, sent>>

Tids == 0..(TidMod - 1)

Query == [call : Calls, seq : Nat, try : Nat]

\* Calls that have a tid.
Live == {c \in Calls : pc[c] \in {"drawn", "sending", "waiting"}}

Suspended(c) == pc[c] \in {"sending", "waiting"}

\* The assumption of the runs about reuse: a call ends, and the answers to its
\* query have arrived or are lost, before Window more tids have been drawn.
\* (2^16 draws in 3 seconds are out of reach; a large Window drops the assumption.)
\* With a Window of two or more the answer to an attempt may come during the next.
Recent(n) == draws < n + Window

Init ==
    /\ pc = [c \in Calls |-> "idle"]
    /\ seq = [c \in Calls |-> 0]
    /\ tries = [c \in Calls |-> 0]
    /\ chan = [c \in Calls |-> "none"]
    /\ got = [c \in Calls |-> {}]
    /\ result = [c \in Calls |-> "none"]
    /\ pending = [t \in Tids |-> NoCall]
    /\ draws = 0
    /\ sent = {}

\* The entry of `t` leaves the map: its sender is dropped, and a receiver
\* still there sees the channel close.
Closing(t, chans) ==
    [c \in Calls |-> IF pending[t] = c /\ chans[c] = "empty" THEN "closed" ELSE chans[c]]

-----------------------------------------------------------------------------
(* A call *)

\* Mutant: a retry goes out under the tid of the attempt before.
DrawKept(c) ==
    /\ pc[c] = "idle"
    /\ \A d \in Live : Recent(seq[d])
    /\ pc' = [pc EXCEPT ![c] = "drawn"]
    /\ seq' = [seq EXCEPT ![c] = IF tries[c] > 0 THEN @ ELSE draws]
    /\ tries' = [tries EXCEPT ![c] = @ + 1]
    /\ draws' = IF tries[c] > 0 THEN draws ELSE draws + 1
    /\ UNCHANGED <<chan, got, result, pending, sent>>

\* tid.fetch_add.
Draw(c) ==
    /\ pc[c] = "idle"
    /\ \A d \in Live : Recent(seq[d])
    /\ pc' = [pc EXCEPT ![c] = "drawn"]
    /\ seq' = [seq EXCEPT ![c] = draws]
    /\ tries' = [tries EXCEPT ![c] = @ + 1]
    /\ draws' = draws + 1
    /\ UNCHANGED <<chan, got, result, pending, sent>>

\* pending.insert: a sender already there for this tid is dropped.
Register(c) ==
    LET t == seq[c] % TidMod
    IN  /\ pc[c] = "drawn"
        /\ pc' = [pc EXCEPT ![c] = "sending"]
        /\ chan' = [Closing(t, chan) EXCEPT ![c] = "empty"]
        /\ got' = [got EXCEPT ![c] = {}]
        /\ pending' = [pending EXCEPT ![t] = c]
        /\ UNCHANGED <<seq, tries, result, draws, sent>>

Send(c) ==
    /\ pc[c] = "sending"
    /\ pc' = [pc EXCEPT ![c] = "waiting"]
    /\ sent' = sent \cup {[call |-> c, seq |-> seq[c], try |-> tries[c]]}
    /\ UNCHANGED <<seq, tries, chan, got, result, pending, draws>>

\* Mutant: the call ends without taking its entry out of the map.
UnregisterForgets(c) ==
    /\ chan' = [chan EXCEPT ![c] = "none"]
    /\ got' = [got EXCEPT ![c] = {}]
    /\ pending' = pending

\* The guard goes out of scope armed, and the receiver with it.
Unregister(c) ==
    LET t == seq[c] % TidMod
    IN  /\ chan' = [Closing(t, chan) EXCEPT ![c] = "none"]
        /\ got' = [got EXCEPT ![c] = {}]
        /\ pending' = [pending EXCEPT ![t] = NoCall]

Return(c, outcome) ==
    /\ pc' = [pc EXCEPT ![c] = "done"]
    /\ result' = [result EXCEPT ![c] = outcome]

SendFails(c) ==
    /\ pc[c] = "sending"
    /\ Unregister(c)
    /\ Return(c, "NetworkError")
    /\ UNCHANGED <<seq, tries, draws, sent>>

\* rx.await returns a message; the guard is disarmed.
Receive(c) ==
    /\ pc[c] = "waiting"
    /\ \/ chan[c] = "reply" /\ Return(c, "Reply")
       \/ chan[c] = "other" /\ Return(c, "InvalidReply")
    /\ chan' = [chan EXCEPT ![c] = "none"]
    /\ UNCHANGED <<seq, tries, got, pending, draws, sent>>

\* rx.await fails: the sender is gone.  The guard is still armed.
ReceiveClosed(c) ==
    /\ pc[c] = "waiting"
    /\ chan[c] = "closed"
    /\ Unregister(c)
    /\ Return(c, "Unknown")
    /\ UNCHANGED <<seq, tries, draws, sent>>

\* Mutant: one attempt too many.
TimeoutOneMore(c) ==
    /\ Suspended(c)
    /\ Unregister(c)
    /\ IF tries[c] <= Attempts
       THEN pc' = [pc EXCEPT ![c] = "idle"] /\ UNCHANGED result
       ELSE Return(c, "TimedOut")
    /\ UNCHANGED <<seq, tries, draws, sent>>

\* Mutant: the timeout covers the wait for the answer only.
TimeoutOfWait(c) ==
    /\ pc[c] = "waiting"
    /\ Unregister(c)
    /\ IF tries[c] < Attempts
       THEN pc' = [pc EXCEPT ![c] = "idle"] /\ UNCHANGED result
       ELSE Return(c, "TimedOut")
    /\ UNCHANGED <<seq, tries, draws, sent>>

\* The timeout of send_krpc_with_timeout drops the attempt, which do_krpc puts
\* again or reports.  An answer may just have come in: timeout() polls the
\* attempt, then the timer, and the receiving task runs in parallel.
Timeout(c) ==
    /\ Suspended(c)
    /\ Unregister(c)
    /\ IF tries[c] < Attempts
       THEN pc' = [pc EXCEPT ![c] = "idle"] /\ UNCHANGED result
       ELSE Return(c, "TimedOut")
    /\ UNCHANGED <<seq, tries, draws, sent>>

\* The task is aborted (JoinSet::shutdown at the end of a search, for one).
Cancel(c) ==
    /\ Suspended(c)
    /\ Unregister(c)
    /\ Return(c, "Cancelled")
    /\ UNCHANGED <<seq, tries, draws, sent>>

-----------------------------------------------------------------------------
(* The receiving task: process_udp with an answer to query `q`, of which   *)
(* only the tid is looked at.  "reply": what extract_reply accepts.        *)

Deliver(q, body) ==
    LET t == q.seq % TidMod
        c == pending[t]
    IN  /\ Recent(q.seq)
        /\ c # NoCall
        /\ chan' = [chan EXCEPT ![c] = body]
        /\ got' = [got EXCEPT ![c] = {q}]
        /\ pending' = [pending EXCEPT ![t] = NoCall]
        /\ UNCHANGED <<pc, seq, tries, result, draws, sent>>

-----------------------------------------------------------------------------
Next ==
    \/ \E c \in Calls :
          \/ Draw(c) \/ Register(c) \/ Send(c) \/ SendFails(c)
          \/ Receive(c) \/ ReceiveClosed(c) \/ Timeout(c) \/ Cancel(c)
    \/ \E q \in sent, body \in {"reply", "other"} : Deliver(q, body)

Spec == Init /\ [][Next]_vars

\* What the runtime does for a call that has begun: it is polled, and the timer
\* fires.  Nothing is promised of the network or of the sockets.
Fairness ==
    \A c \in Calls :
        /\ WF_vars(tries[c] > 0 /\ Draw(c))
        /\ WF_vars(Register(c))
        /\ WF_vars(Timeout(c))

LiveSpec == Spec /\ Fairness

-----------------------------------------------------------------------------
(* Properties *)

\* Shape of the state: no call is put more than Attempts times.
TypeOK ==
    /\ pc \in [Calls -> {"idle", "drawn", "sending", "waiting", "done"}]
    /\ seq \in [Calls -> Nat]
    /\ tries \in [Calls -> 0..Attempts]
    /\ chan \in [Calls -> {"none", "empty", "closed", "reply", "other"}]
    /\ got \in [Calls -> SUBSET Query]
    /\ result \in [Calls -> {"none", "Reply", "InvalidReply", "TimedOut",
                              "Unknown", "NetworkError", "Cancelled"}]
    /\ pending \in [Tids -> Calls \cup {NoCall}]
    /\ draws \in Nat
    /\ sent \subseteq Query

\* Whatever tids are reused, dropped calls and late answers do: the map holds
\* an entry exactly for every call that still waits for its message.  None is
\* left behind (the map cannot grow), none is missing while its call waits.
PendingExact ==
    \A t \in Tids, c \in Calls :
        pending[t] = c <=> Suspended(c) /\ seq[c] % TidMod = t /\ chan[c] = "empty"

\* A call is given the answer to the query of its present attempt: neither one
\* to an earlier attempt nor one to another call.
AnswersItsQuery ==
    \A c \in Calls : \A q \in got[c] : q.call = c /\ q.try = tries[c] /\ q.seq = seq[c]

\* A call that has begun ends, though the network loses everything and the
\* socket never takes a datagram.
EveryCallEnds == \A c \in Calls : tries[c] > 0 ~> pc[c] = "done"

\* The attempts that the outcome of each call answers.
AnsweredBy ==
    [c \in Calls |->
        IF result[c] \in {"Reply", "InvalidReply"} THEN {<<q.call, q.try>> : q \in got[c]} ELSE {}]

\* What the callers see is Rpc.  In particular no call is failed by another
\* one's guard ("Unknown").
Abstract == INSTANCE Rpc WITH asked <- tries, outcome <- result, answered <- AnsweredBy

ImplementsRpc == Abstract!Spec
=============================================================================
