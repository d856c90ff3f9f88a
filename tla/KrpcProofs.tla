----------------------------- MODULE KrpcProofs -----------------------------
(***************************************************************************)
(* For any number of calls, any width of the transaction id and any number *)
(* of attempts: the state keeps its shape, the map of pending queries is   *)
(* exact, and - when neither calls nor answers outlive a turn of the tid   *)
(* counter - an answer reaches the query it answers, and callers see the   *)
(* abstract Rpc.                                                           *)
(***************************************************************************)
EXTENDS Krpc, TLAPS

\* TypeOK is not inductive: that a retried call has an attempt left is not part
\* of it.
IdleMayTry == \A c \in Calls : pc[c] = "idle" => tries[c] < Attempts

Shape == TypeOK /\ IdleMayTry

-----------------------------------------------------------------------------
(* Type correctness *)

LEMMA TidIsTid == \A n \in Nat : n % TidMod \in Tids
  BY KrpcAssumption, SMT DEF Tids

LEMMA ClosingType ==
    ASSUME NEW t, NEW chans \in [Calls -> {"none", "empty", "closed", "reply", "other"}]
    PROVE  Closing(t, chans) \in [Calls -> {"none", "empty", "closed", "reply", "other"}]
  BY DEF Closing

LEMMA UnregisterType ==
    ASSUME Shape, NEW c \in Calls, Unregister(c)
    PROVE  /\ chan' \in [Calls -> {"none", "empty", "closed", "reply", "other"}]
           /\ got' \in [Calls -> SUBSET Query]
           /\ pending' \in [Tids -> Calls \cup {NoCall}]
  <1>1. Closing(seq[c] % TidMod, chan) \in
            [Calls -> {"none", "empty", "closed", "reply", "other"}]
    BY ClosingType DEF Shape, TypeOK
  <1> QED
    BY <1>1 DEF Unregister, Shape, TypeOK

LEMMA ShapeInit == Init => Shape
  BY KrpcAssumption DEF Init, Shape, TypeOK, IdleMayTry

LEMMA ShapeNext == Shape /\ [Next]_vars => Shape'
  <1> SUFFICES ASSUME Shape, [Next]_vars PROVE Shape'
    OBVIOUS
  <1> USE KrpcAssumption
  <1>1. ASSUME NEW c \in Calls, Draw(c) PROVE Shape'
    BY <1>1 DEF Draw, Shape, TypeOK, IdleMayTry
  <1>2. ASSUME NEW c \in Calls, Register(c) PROVE Shape'
    <2> DEFINE t == seq[c] % TidMod
    <2>1. Closing(t, chan) \in [Calls -> {"none", "empty", "closed", "reply", "other"}]
      BY ClosingType DEF Shape, TypeOK
    <2> QED
      BY <1>2, <2>1 DEF Register, Shape, TypeOK, IdleMayTry
  <1>3. ASSUME NEW c \in Calls, Send(c) PROVE Shape'
    <2>1. [call |-> c, seq |-> seq[c], try |-> tries[c]] \in Query
      BY DEF Query, Shape, TypeOK
    <2> QED
      BY <1>3, <2>1 DEF Send, Shape, TypeOK, IdleMayTry
  <1>4. ASSUME NEW c \in Calls, SendFails(c) PROVE Shape'
    BY <1>4, UnregisterType DEF SendFails, Return, Shape, TypeOK, IdleMayTry
  <1>5. ASSUME NEW c \in Calls, Receive(c) PROVE Shape'
    BY <1>5 DEF Receive, Return, Shape, TypeOK, IdleMayTry
  <1>6. ASSUME NEW c \in Calls, ReceiveClosed(c) PROVE Shape'
    BY <1>6, UnregisterType DEF ReceiveClosed, Return, Shape, TypeOK, IdleMayTry
  <1>7. ASSUME NEW c \in Calls, Timeout(c) PROVE Shape'
    BY <1>7, UnregisterType DEF Timeout, Return, Shape, TypeOK, IdleMayTry
  <1>8. ASSUME NEW c \in Calls, Cancel(c) PROVE Shape'
    BY <1>8, UnregisterType DEF Cancel, Return, Shape, TypeOK, IdleMayTry
  <1>9. ASSUME NEW q \in sent, NEW body \in {"reply", "other"}, Deliver(q, body)
        PROVE  Shape'
    BY <1>9 DEF Deliver, Shape, TypeOK, IdleMayTry
  <1>10. CASE UNCHANGED vars
    BY <1>10 DEF vars, Shape, TypeOK, IdleMayTry
  <1> QED
    BY <1>1, <1>2, <1>3, <1>4, <1>5, <1>6, <1>7, <1>8, <1>9, <1>10 DEF Next

LEMMA ShapeHolds == Spec => []Shape
  BY ShapeInit, ShapeNext, PTL DEF Spec

\* The state keeps its shape, and no call is put more than Attempts times.
THEOREM TypeCorrect == Spec => []TypeOK
  <1>1. Shape => TypeOK
    BY DEF Shape
  <1> QED
    BY <1>1, ShapeHolds, PTL

-----------------------------------------------------------------------------
(* The map of pending queries *)

LEMMA PendingInit == Init => PendingExact
  BY KrpcAssumption DEF Init, PendingExact, Suspended

\* Whoever ends armed leaves the map exact for all the others.
LEMMA UnregisterExact ==
    ASSUME Shape, PendingExact, NEW c \in Calls, Suspended(c), Unregister(c),
           ~Suspended(c)', seq' = seq,
           \A d \in Calls \ {c} : pc'[d] = pc[d]
    PROVE  PendingExact'
  <1> DEFINE t == seq[c] % TidMod
  <1> SUFFICES ASSUME NEW u \in Tids, NEW d \in Calls
               PROVE (pending[u] = d <=> Suspended(d) /\ seq[d] % TidMod = u /\ chan[d] = "empty")'
    BY DEF PendingExact
  <1>1. t \in Tids
    BY TidIsTid DEF Shape, TypeOK
  <1>2. pending'[u] = IF u = t THEN NoCall ELSE pending[u]
    BY <1>1 DEF Unregister, Shape, TypeOK
  <1>3. CASE d = c
    <2>1. pending[u] = c => u = t
      BY DEF PendingExact
    <2> QED
      BY <1>2, <1>3, <2>1, KrpcAssumption
  <1>4. CASE d # c
    <2>1. chan'[d] = IF pending[t] = d /\ chan[d] = "empty" THEN "closed" ELSE chan[d]
      BY <1>4 DEF Unregister, Closing, Shape, TypeOK
    <2>2. \A v \in {u, t} :
              pending[v] = d <=> Suspended(d) /\ seq[d] % TidMod = v /\ chan[d] = "empty"
      BY <1>1 DEF PendingExact
    <2>3. Suspended(d)' <=> Suspended(d)
      BY <1>4 DEF Suspended
    <2> QED
      BY <1>1, <1>2, <2>1, <2>2, <2>3, KrpcAssumption
  <1> QED
    BY <1>3, <1>4

LEMMA PendingNext == Shape /\ PendingExact /\ [Next]_vars => PendingExact'
  <1> SUFFICES ASSUME Shape, PendingExact, [Next]_vars PROVE PendingExact'
    OBVIOUS
  <1> USE KrpcAssumption
  <1>1. ASSUME NEW c \in Calls, Draw(c) PROVE PendingExact'
    BY <1>1 DEF Draw, Shape, TypeOK, PendingExact, Suspended
  <1>2. ASSUME NEW c \in Calls, Register(c) PROVE PendingExact'
    <2> DEFINE t == seq[c] % TidMod
    <2> SUFFICES ASSUME NEW u \in Tids, NEW d \in Calls
                 PROVE (pending[u] = d <=>
                            Suspended(d) /\ seq[d] % TidMod = u /\ chan[d] = "empty")'
      BY DEF PendingExact
    <2>1. t \in Tids
      BY TidIsTid DEF Shape, TypeOK
    <2>2. pending'[u] = IF u = t THEN c ELSE pending[u]
      BY <1>2, <2>1 DEF Register, Shape, TypeOK
    <2>3. \A v \in {u, t} :
              pending[v] = d <=> Suspended(d) /\ seq[d] % TidMod = v /\ chan[d] = "empty"
      BY <2>1 DEF PendingExact
    <2>4. CASE d = c
      <3>1. Suspended(c)' /\ seq'[c] = seq[c] /\ chan'[c] = "empty" /\ ~Suspended(c)
        BY <1>2 DEF Register, Closing, Suspended, Shape, TypeOK
      <3> QED
        BY <2>2, <2>3, <2>4, <3>1
    <2>5. CASE d # c
      <3>1. chan'[d] = IF pending[t] = d /\ chan[d] = "empty" THEN "closed" ELSE chan[d]
        BY <1>2, <2>5 DEF Register, Closing, Shape, TypeOK
      <3>2. (Suspended(d)' <=> Suspended(d)) /\ seq'[d] = seq[d]
        BY <1>2, <2>5 DEF Register, Suspended, Shape, TypeOK
      <3> QED
        BY <2>1, <2>2, <2>3, <2>5, <3>1, <3>2
    <2> QED
      BY <2>4, <2>5
  <1>3. ASSUME NEW c \in Calls, Send(c) PROVE PendingExact'
    BY <1>3 DEF Send, Shape, TypeOK, PendingExact, Suspended
  <1>4. ASSUME NEW c \in Calls, SendFails(c) PROVE PendingExact'
    BY <1>4, UnregisterExact DEF SendFails, Return, Suspended, Shape, TypeOK
  <1>5. ASSUME NEW c \in Calls, Receive(c) PROVE PendingExact'
    BY <1>5 DEF Receive, Return, Shape, TypeOK, PendingExact, Suspended
  <1>6. ASSUME NEW c \in Calls, ReceiveClosed(c) PROVE PendingExact'
    BY <1>6, UnregisterExact DEF ReceiveClosed, Return, Suspended, Shape, TypeOK
  <1>7. ASSUME NEW c \in Calls, Timeout(c) PROVE PendingExact'
    BY <1>7, UnregisterExact DEF Timeout, Return, Suspended, Shape, TypeOK
  <1>8. ASSUME NEW c \in Calls, Cancel(c) PROVE PendingExact'
    BY <1>8, UnregisterExact DEF Cancel, Return, Suspended, Shape, TypeOK
  <1>9. ASSUME NEW q \in sent, NEW body \in {"reply", "other"}, Deliver(q, body)
        PROVE  PendingExact'
    <2>1. q.seq % TidMod \in Tids
      BY TidIsTid DEF Shape, TypeOK, Query
    <2> QED
      BY <1>9, <2>1 DEF Deliver, Shape, TypeOK, PendingExact, Suspended
  <1>10. CASE UNCHANGED vars
    BY <1>10 DEF vars, PendingExact, Suspended
  <1> QED
    BY <1>1, <1>2, <1>3, <1>4, <1>5, <1>6, <1>7, <1>8, <1>9, <1>10 DEF Next

\* The map holds an entry exactly for every call that waits for its message,
\* however tids are reused and calls are dropped.
THEOREM PendingHolds == Spec => []PendingExact
  <1>1. Shape /\ PendingExact /\ [Next]_vars => (Shape /\ PendingExact)'
    BY ShapeNext, PendingNext
  <1>2. Init => Shape /\ PendingExact
    BY ShapeInit, PendingInit
  <1> QED
    BY <1>1, <1>2, PTL DEF Spec

-----------------------------------------------------------------------------
(* Whose answer it is.  The numbers drawn are distinct and, for the calls    *)
(* that live, within Window of the counter; two numbers that close to each   *)
(* other have the same tid only when they are equal.                         *)

Numbered ==
    /\ \A c \in Live : seq[c] < draws /\ draws <= seq[c] + Window
    /\ \A c, d \in Live : seq[c] = seq[d] => c = d
    /\ \A q \in sent : q.seq < draws
    /\ \A q \in sent, c \in Live : q.seq = seq[c] => q.call = c /\ q.try = tries[c]

LEMMA SmallMultiple ==
    ASSUME NEW k \in Int, NEW m \in Nat \ {0}, m * k < m, -m < m * k
    PROVE  k = 0
  <1>1. CASE k >= 1
    BY <1>1, SMT
  <1>2. CASE k <= -1
    BY <1>2, SMT
  <1> QED
    BY <1>1, <1>2, SMT

LEMMA SameTid ==
    ASSUME NEW m \in Nat \ {0}, NEW a \in Nat, NEW b \in Nat,
           a % m = b % m, a < b + m, b < a + m
    PROVE  a = b
  <1> DEFINE k == (a \div m) - (b \div m)
  <1>1. a = m * (a \div m) + (a % m) /\ b = m * (b \div m) + (b % m)
    BY SMT
  <1>2. a \div m \in Int /\ b \div m \in Int /\ a % m \in Int
    BY SMT
  <1>3. a - b = m * k
    BY <1>1, <1>2, SMT
  <1>4. k = 0
    BY <1>2, <1>3, SmallMultiple, SMT
  <1> QED
    BY <1>3, <1>4, SMT

LEMMA NumberedInit == Init => Numbered
  BY DEF Init, Numbered, Live

LEMMA NumberedNext == Shape /\ Numbered /\ [Next]_vars => Numbered'
  <1> SUFFICES ASSUME Shape, Numbered, [Next]_vars PROVE Numbered'
    OBVIOUS
  <1> USE KrpcAssumption
  \* Steps that draw no number and send nothing only let calls leave Live.
  <1>0. ASSUME seq' = seq, tries' = tries, draws' = draws, sent' = sent, Live' \subseteq Live
        PROVE  Numbered'
    BY <1>0 DEF Numbered
  <1>1. ASSUME NEW c \in Calls, Draw(c) PROVE Numbered'
    <2>1. Live' = Live \cup {c} /\ c \notin Live
      BY <1>1 DEF Draw, Live, Shape, TypeOK
    <2>2. seq'[c] = draws /\ \A d \in Calls \ {c} : seq'[d] = seq[d]
      BY <1>1 DEF Draw, Shape, TypeOK
    <2>3. draws' = draws + 1 /\ sent' = sent /\ draws \in Nat
      BY <1>1 DEF Draw, Shape, TypeOK
    <2>4. \A d \in Live : d \in Calls /\ seq[d] \in Nat /\ seq[d] < draws /\ draws < seq[d] + Window
      BY <1>1 DEF Draw, Recent, Numbered, Live, Shape, TypeOK
    <2>5. \A q \in sent : q.seq \in Nat /\ q.seq < draws
      BY DEF Numbered, Shape, TypeOK, Query
    <2>6. \A d \in Live' : seq'[d] < draws' /\ draws' <= seq'[d] + Window
      BY <2>1, <2>2, <2>3, <2>4
    <2>7. \A d, e \in Live' : seq'[d] = seq'[e] => d = e
      BY <2>1, <2>2, <2>4 DEF Numbered
    <2>8. \A q \in sent' : q.seq < draws'
      BY <2>3, <2>5
    <2>9. \A d \in Calls \ {c} : tries'[d] = tries[d]
      BY <1>1 DEF Draw, Shape, TypeOK
    <2>10. \A q \in sent', d \in Live' : q.seq = seq'[d] => q.call = d /\ q.try = tries'[d]
      BY <2>1, <2>2, <2>3, <2>4, <2>5, <2>9 DEF Numbered
    <2> QED
      BY <2>6, <2>7, <2>8, <2>10 DEF Numbered
  <1>2. ASSUME NEW c \in Calls, Register(c) PROVE Numbered'
    BY <1>0, <1>2 DEF Register, Live, Shape, TypeOK
  <1>3. ASSUME NEW c \in Calls, Send(c) PROVE Numbered'
    <2>1. Live' = Live /\ c \in Live
      BY <1>3 DEF Send, Live, Shape, TypeOK
    <2>2. \A q \in sent' : q \in sent \/ (q.seq = seq[c] /\ q.call = c /\ q.try = tries[c])
      BY <1>3 DEF Send
    <2> QED
      BY <1>3, <2>1, <2>2 DEF Send, Numbered
  <1>4. ASSUME NEW c \in Calls, SendFails(c) PROVE Numbered'
    BY <1>0, <1>4 DEF SendFails, Return, Live, Shape, TypeOK
  <1>5. ASSUME NEW c \in Calls, Receive(c) PROVE Numbered'
    BY <1>0, <1>5 DEF Receive, Return, Live, Shape, TypeOK
  <1>6. ASSUME NEW c \in Calls, ReceiveClosed(c) PROVE Numbered'
    BY <1>0, <1>6 DEF ReceiveClosed, Return, Live, Shape, TypeOK
  <1>7. ASSUME NEW c \in Calls, Timeout(c) PROVE Numbered'
    BY <1>0, <1>7 DEF Timeout, Return, Live, Shape, TypeOK
  <1>8. ASSUME NEW c \in Calls, Cancel(c) PROVE Numbered'
    BY <1>0, <1>8 DEF Cancel, Return, Live, Shape, TypeOK
  <1>9. ASSUME NEW q \in sent, NEW body \in {"reply", "other"}, Deliver(q, body)
        PROVE  Numbered'
    BY <1>0, <1>9 DEF Deliver, Live
  <1>10. CASE UNCHANGED vars
    BY <1>0, <1>10 DEF vars, Live
  <1> QED
    BY <1>1, <1>2, <1>3, <1>4, <1>5, <1>6, <1>7, <1>8, <1>9, <1>10 DEF Next

\* A call between two attempts holds no message.
Held == \A c \in Calls : pc[c] \in {"idle", "drawn"} => got[c] = {}

Answered == Held /\ AnswersItsQuery

LEMMA AnsweredInit == Init => Answered
  BY DEF Init, Answered, Held, AnswersItsQuery

LEMMA UnregisterAnswered ==
    ASSUME Shape, Answered, NEW c \in Calls, Unregister(c), seq' = seq, tries' = tries,
           \A d \in Calls \ {c} : pc'[d] = pc[d]
    PROVE  Answered'
  BY DEF Unregister, Answered, Held, AnswersItsQuery, Shape, TypeOK

\* What Deliver hands over answers the query of the call that gets it.
LEMMA DeliverMatches ==
    ASSUME Window <= TidMod, Shape, PendingExact, Numbered,
           NEW q \in sent, Recent(q.seq), pending[q.seq % TidMod] # NoCall
    PROVE  LET c == pending[q.seq % TidMod]
           IN  c \in Calls /\ Suspended(c) /\ q.call = c /\ q.seq = seq[c] /\ q.try = tries[c]
  <1> DEFINE t == q.seq % TidMod
             c == pending[t]
  <1> USE KrpcAssumption
  <1>1. q.seq \in Nat /\ t \in Tids
    BY TidIsTid DEF Shape, TypeOK, Query
  <1>2. c \in Calls
    BY <1>1 DEF Shape, TypeOK
  <1>3. Suspended(c) /\ seq[c] % TidMod = t
    BY <1>1, <1>2 DEF PendingExact
  <1>4. c \in Live
    BY <1>2, <1>3 DEF Live, Suspended
  <1>5. seq[c] \in Nat /\ draws \in Nat
    BY <1>2 DEF Shape, TypeOK
  <1>6. seq[c] < draws /\ draws <= seq[c] + Window /\ q.seq < draws /\ draws < q.seq + Window
    BY <1>4 DEF Numbered, Recent
  <1>7. q.seq < seq[c] + TidMod /\ seq[c] < q.seq + TidMod
    BY <1>1, <1>5, <1>6
  <1>8. q.seq = seq[c]
    BY <1>1, <1>3, <1>5, <1>7, SameTid
  <1> QED
    BY <1>2, <1>3, <1>4, <1>8 DEF Numbered

LEMMA AnsweredNext ==
    ASSUME Window <= TidMod, Shape, PendingExact, Numbered, Answered, [Next]_vars
    PROVE  Answered'
  <1> USE KrpcAssumption
  <1>1. ASSUME NEW c \in Calls, Draw(c) PROVE Answered'
    BY <1>1 DEF Draw, Answered, Held, AnswersItsQuery, Shape, TypeOK
  <1>2. ASSUME NEW c \in Calls, Register(c) PROVE Answered'
    BY <1>2 DEF Register, Answered, Held, AnswersItsQuery, Shape, TypeOK
  <1>3. ASSUME NEW c \in Calls, Send(c) PROVE Answered'
    BY <1>3 DEF Send, Answered, Held, AnswersItsQuery, Shape, TypeOK
  <1>4. ASSUME NEW c \in Calls, SendFails(c) PROVE Answered'
    BY <1>4, UnregisterAnswered DEF SendFails, Return, Shape, TypeOK
  <1>5. ASSUME NEW c \in Calls, Receive(c) PROVE Answered'
    BY <1>5 DEF Receive, Return, Answered, Held, AnswersItsQuery, Shape, TypeOK
  <1>6. ASSUME NEW c \in Calls, ReceiveClosed(c) PROVE Answered'
    BY <1>6, UnregisterAnswered DEF ReceiveClosed, Return, Shape, TypeOK
  <1>7. ASSUME NEW c \in Calls, Timeout(c) PROVE Answered'
    BY <1>7, UnregisterAnswered DEF Timeout, Return, Shape, TypeOK
  <1>8. ASSUME NEW c \in Calls, Cancel(c) PROVE Answered'
    BY <1>8, UnregisterAnswered DEF Cancel, Return, Shape, TypeOK
  <1>9. ASSUME NEW q \in sent, NEW body \in {"reply", "other"}, Deliver(q, body)
        PROVE  Answered'
    <2> DEFINE c == pending[q.seq % TidMod]
    <2>1. c \in Calls /\ Suspended(c) /\ q.call = c /\ q.seq = seq[c] /\ q.try = tries[c]
      BY <1>9, DeliverMatches DEF Deliver
    <2> QED
      BY <1>9, <2>1 DEF Deliver, Suspended, Answered, Held, AnswersItsQuery, Shape, TypeOK
  <1>10. CASE UNCHANGED vars
    BY <1>10 DEF vars, Answered, Held, AnswersItsQuery
  <1> QED
    BY <1>1, <1>2, <1>3, <1>4, <1>5, <1>6, <1>7, <1>8, <1>9, <1>10 DEF Next

\* When no call and no answer outlives a turn of the counter, a call is given
\* the answer to the query of its present attempt and no other.
THEOREM AnswersHold ==
    ASSUME Window <= TidMod
    PROVE  Spec => []AnswersItsQuery
  <1> DEFINE I == Shape /\ PendingExact /\ Numbered /\ Answered
  <1>1. Init => I
    BY ShapeInit, PendingInit, NumberedInit, AnsweredInit
  <1>2. I /\ [Next]_vars => I'
    BY ShapeNext, PendingNext, NumberedNext, AnsweredNext
  <1>3. I => AnswersItsQuery
    BY DEF Answered
  <1> QED
    BY <1>1, <1>2, <1>3, PTL DEF Spec

-----------------------------------------------------------------------------
(* Krpc implements Rpc, for any constants with Window <= TidMod: every step *)
(* of a call is a step of Rpc or leaves what a caller sees unchanged.       *)


\* While calls do not outlive a turn of the counter, two live calls differ in
\* their tids.
LEMMA LiveTidsDiffer ==
    ASSUME Window <= TidMod, Shape, Numbered,
           NEW c \in Live, NEW d \in Live, seq[c] % TidMod = seq[d] % TidMod
    PROVE  c = d
  <1> USE KrpcAssumption
  <1>1. seq[c] \in Nat /\ seq[d] \in Nat /\ draws \in Nat
    BY DEF Live, Shape, TypeOK
  <1>2. seq[c] < seq[d] + TidMod /\ seq[d] < seq[c] + TidMod
    BY <1>1 DEF Numbered
  <1>3. seq[c] = seq[d]
    BY <1>1, <1>2, SameTid
  <1> QED
    BY <1>3 DEF Numbered

\* What the callers see agrees with where the calls are.
Visible ==
    \A c \in Calls :
        /\ pc[c] # "done" => result[c] = "none"
        /\ c \in Live => tries[c] > 0
        /\ chan[c] # "closed"
        /\ chan[c] \in {"reply", "other"} => \E q \in sent : got[c] = {q} /\ q.call = c /\ q.try = tries[c]
        /\ chan[c] \in {"reply", "other"} => Suspended(c)

RInv == Shape /\ PendingExact /\ Numbered /\ Visible

\* Nobody's entry is removed, or replaced, by another call.
LEMMA NoneClosed ==
    ASSUME Window <= TidMod, RInv, NEW c \in Live, NEW d \in Calls, d # c
    PROVE  Closing(seq[c] % TidMod, chan)[d] = chan[d]
  <1>1. seq[c] % TidMod \in Tids
    BY TidIsTid DEF RInv, Shape, TypeOK, Live
  <1>2. CASE pending[seq[c] % TidMod] = d
    <2>1. Suspended(d) /\ seq[d] % TidMod = seq[c] % TidMod
      BY <1>1, <1>2 DEF RInv, PendingExact
    <2>2. d \in Live
      BY <2>1 DEF Suspended, Live
    <2> QED
      BY <2>1, <2>2, LiveTidsDiffer DEF RInv
  <1>3. CASE pending[seq[c] % TidMod] # d
    BY <1>3 DEF Closing
  <1> QED
    BY <1>2, <1>3

LEMMA VisibleInit == Init => Visible
  BY DEF Init, Visible, Live

LEMMA UnregisterVisible ==
    ASSUME Window <= TidMod, RInv, NEW c \in Calls, Suspended(c), Unregister(c),
           seq' = seq, tries' = tries, sent' = sent, pc'[c] \in {"idle", "done"},
           pc'[c] = "idle" => result' = result,
           \A d \in Calls \ {c} : pc'[d] = pc[d] /\ result'[d] = result[d]
    PROVE  Visible'
  <1>1. c \in Live
    BY DEF Suspended, Live
  <1>2. chan'[c] = "none" /\ c \notin Live'
    BY DEF Unregister, Closing, Live, RInv, Shape, TypeOK
  <1>3. ASSUME NEW d \in Calls, d # c
        PROVE  chan'[d] = chan[d] /\ got'[d] = got[d] /\ (d \in Live' <=> d \in Live)
    BY <1>1, <1>3, NoneClosed DEF Unregister, Closing, Live, RInv, Shape, TypeOK
  <1>4. ASSUME NEW d \in Calls, d # c
        PROVE  Suspended(d)' <=> Suspended(d)
    BY <1>4 DEF Suspended
  <1> SUFFICES ASSUME NEW d \in Calls
               PROVE  (/\ pc[d] # "done" => result[d] = "none"
                       /\ d \in Live => tries[d] > 0
                       /\ chan[d] # "closed"
                       /\ chan[d] \in {"reply", "other"} =>
                              \E q \in sent : got[d] = {q} /\ q.call = d /\ q.try = tries[d]
                       /\ chan[d] \in {"reply", "other"} => Suspended(d))'
    BY DEF Visible
  <1>5. CASE d = c
    BY <1>2, <1>5 DEF RInv, Visible, Suspended
  <1>6. CASE d # c
    BY <1>3, <1>4, <1>6 DEF RInv, Visible
  <1> QED
    BY <1>5, <1>6

LEMMA VisibleNext ==
    ASSUME Window <= TidMod, RInv, [Next]_vars
    PROVE  Visible'
  <1> USE KrpcAssumption
  <1> USE DEF RInv
  <1>1. ASSUME NEW c \in Calls, Draw(c) PROVE Visible'
    BY <1>1 DEF Draw, Visible, Live, Suspended, Shape, TypeOK
  <1>2. ASSUME NEW c \in Calls, Register(c) PROVE Visible'
    <2>1. c \in Live
      BY <1>2 DEF Register, Live
    <2>2. \A d \in Calls \ {c} : chan'[d] = chan[d]
      BY <1>2, <2>1, NoneClosed DEF Register, Closing, Shape, TypeOK
    <2>3. chan'[c] = "empty"
      BY <1>2 DEF Register, Closing, Shape, TypeOK
    <2> QED
      BY <1>2, <2>2, <2>3 DEF Register, Visible, Live, Suspended, Shape, TypeOK
  <1>3. ASSUME NEW c \in Calls, Send(c) PROVE Visible'
    BY <1>3 DEF Send, Visible, Live, Suspended, Shape, TypeOK
  <1>4. ASSUME NEW c \in Calls, SendFails(c) PROVE Visible'
    BY <1>4, UnregisterVisible DEF SendFails, Return, Suspended, Shape, TypeOK
  <1>5. ASSUME NEW c \in Calls, Receive(c) PROVE Visible'
    BY <1>5 DEF Receive, Return, Visible, Live, Suspended, Shape, TypeOK
  <1>6. ASSUME NEW c \in Calls, ReceiveClosed(c) PROVE Visible'
    BY <1>6 DEF ReceiveClosed, Visible
  <1>7. ASSUME NEW c \in Calls, Timeout(c) PROVE Visible'
    BY <1>7, UnregisterVisible DEF Timeout, Return, Suspended, Shape, TypeOK
  <1>8. ASSUME NEW c \in Calls, Cancel(c) PROVE Visible'
    BY <1>8, UnregisterVisible DEF Cancel, Return, Suspended, Shape, TypeOK
  <1>9. ASSUME NEW q \in sent, NEW body \in {"reply", "other"}, Deliver(q, body)
        PROVE  Visible'
    <2> DEFINE c == pending[q.seq % TidMod]
    <2>1. c \in Calls /\ Suspended(c) /\ q.call = c /\ q.try = tries[c]
      BY <1>9, DeliverMatches DEF Deliver
    <2> QED
      BY <1>9, <2>1 DEF Deliver, Visible, Live, Suspended, Shape, TypeOK
  <1>10. CASE UNCHANGED vars
    BY <1>10 DEF vars, Visible, Live, Suspended
  <1> QED
    BY <1>1, <1>2, <1>3, <1>4, <1>5, <1>6, <1>7, <1>8, <1>9, <1>10 DEF Next

-----------------------------------------------------------------------------
LEMMA InitRefines == Init => Abstract!Init
  BY DEF Init, Abstract!Init, AnsweredBy

LEMMA AnsweredByKept ==
    ASSUME result' = result,
           \A d \in Calls : result[d] # "none" => got'[d] = got[d]
    PROVE  AnsweredBy' = AnsweredBy
  BY DEF AnsweredBy

\* A call that fails leaves what the others were told unchanged.
LEMMA FailRefines ==
    ASSUME RInv, NEW c \in Calls, Suspended(c), Unregister(c),
           NEW f \in {"TimedOut", "NetworkError", "Cancelled"}, Return(c, f),
           tries' = tries, f = "TimedOut" => tries[c] = Attempts
    PROVE  Abstract!Fail(c)
  <1>1. result[c] = "none"
    BY DEF RInv, Visible, Suspended
  <1>2. result' = [result EXCEPT ![c] = f]
    BY DEF Return
  <1>3. AnsweredBy' = AnsweredBy
    BY <1>1, <1>2 DEF AnsweredBy, Unregister, RInv, Shape, TypeOK
  <1> QED
    BY <1>1, <1>2, <1>3 DEF Abstract!Fail

LEMMA StepRefines ==
    ASSUME Window <= TidMod, RInv, [Next]_vars
    PROVE  [Abstract!Next]_<<tries, result, AnsweredBy>>
  <1> USE KrpcAssumption
  <1> USE DEF RInv
  <1>1. ASSUME NEW c \in Calls, Draw(c) PROVE Abstract!Ask(c)
    BY <1>1, AnsweredByKept DEF Draw, Abstract!Ask, Visible, Shape, TypeOK, IdleMayTry
  <1>2. ASSUME NEW c \in Calls, Register(c) PROVE UNCHANGED <<tries, result, AnsweredBy>>
    BY <1>2, AnsweredByKept DEF Register, Visible, Shape, TypeOK
  <1>3. ASSUME NEW c \in Calls, Send(c) PROVE UNCHANGED <<tries, result, AnsweredBy>>
    BY <1>3, AnsweredByKept DEF Send
  <1>4. ASSUME NEW c \in Calls, SendFails(c) PROVE Abstract!Fail(c)
    BY <1>4, FailRefines DEF SendFails, Suspended
  <1>5. ASSUME NEW c \in Calls, Receive(c) PROVE Abstract!Answer(c)
    <2>1. PICK q \in sent : got[c] = {q} /\ q.call = c /\ q.try = tries[c]
      BY <1>5 DEF Receive, Visible
    <2>2. PICK a \in {"Reply", "InvalidReply"} : result' = [result EXCEPT ![c] = a]
      BY <1>5 DEF Receive, Return
    <2>3. result[c] = "none" /\ tries[c] > 0 /\ got' = got /\ tries' = tries
      BY <1>5 DEF Receive, Visible, Live
    <2>4. {<<p.call, p.try>> : p \in got[c]} = {<<c, tries[c]>>}
      BY <2>1
    <2>5. AnsweredBy' = [AnsweredBy EXCEPT ![c] = {<<c, tries[c]>>}]
      BY <2>2, <2>3, <2>4 DEF AnsweredBy, Shape, TypeOK
    <2> QED
      BY <2>2, <2>3, <2>5 DEF Abstract!Answer
  <1>6. ASSUME NEW c \in Calls, ReceiveClosed(c) PROVE FALSE
    BY <1>6 DEF ReceiveClosed, Visible
  <1>7. ASSUME NEW c \in Calls, Timeout(c)
        PROVE  Abstract!Fail(c) \/ UNCHANGED <<tries, result, AnsweredBy>>
    <2>1. CASE tries[c] < Attempts
      BY <1>7, <2>1, AnsweredByKept DEF Timeout, Unregister, Visible, Suspended, Shape, TypeOK
    <2>2. CASE ~(tries[c] < Attempts)
      <3>1. tries[c] = Attempts
        BY <2>2 DEF Shape, TypeOK
      <3> QED
        BY <1>7, <2>2, <3>1, FailRefines DEF Timeout
    <2> QED
      BY <2>1, <2>2
  <1>8. ASSUME NEW c \in Calls, Cancel(c) PROVE Abstract!Fail(c)
    BY <1>8, FailRefines DEF Cancel
  <1>9. ASSUME NEW q \in sent, NEW body \in {"reply", "other"}, Deliver(q, body)
        PROVE  UNCHANGED <<tries, result, AnsweredBy>>
    <2> DEFINE c == pending[q.seq % TidMod]
    <2>1. c \in Calls /\ Suspended(c)
      BY <1>9, DeliverMatches DEF Deliver
    <2>2. result[c] = "none"
      BY <2>1 DEF Visible, Suspended
    <2> QED
      BY <1>9, <2>1, <2>2, AnsweredByKept DEF Deliver, Shape, TypeOK
  <1>10. CASE UNCHANGED vars
    BY <1>10, AnsweredByKept DEF vars
  <1> QED
    BY <1>1, <1>2, <1>3, <1>4, <1>5, <1>6, <1>7, <1>8, <1>9, <1>10 DEF Next, Abstract!Next

\* A caller of do_krpc sees Rpc: one outcome, an answer to its own present
\* attempt only, TimedOut after the last attempt only, never "Unknown".
THEOREM Refinement ==
    ASSUME Window <= TidMod
    PROVE  Spec => ImplementsRpc
  <1>1. Init => RInv
    BY ShapeInit, PendingInit, NumberedInit, VisibleInit DEF RInv
  <1>2. RInv /\ [Next]_vars => RInv'
    BY ShapeNext, PendingNext, NumberedNext, VisibleNext DEF RInv
  <1>3. RInv /\ [Next]_vars => [Abstract!Next]_<<tries, result, AnsweredBy>>
    BY StepRefines
  <1> QED
    BY <1>1, <1>2, <1>3, InitRefines, PTL DEF Spec, ImplementsRpc, Abstract!Spec
=============================================================================
