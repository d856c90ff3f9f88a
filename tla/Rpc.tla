-------------------------------- MODULE Rpc --------------------------------
(***************************************************************************)
(* What a caller of DhtSession::do_krpc may rely on: its query is put at   *)
(* most Attempts times, it ends once and for good, an answer it is given   *)
(* answers the attempt under way (not an earlier one, nor another caller's *)
(* query), and "TimedOut" means that every attempt has been spent.         *)
(***************************************************************************)
EXTENDS Naturals

CONSTANTS
    Calls,      \* the calls
    Attempts    \* how often one may be put

VARIABLES
    asked,      \* the attempts each call has begun
    outcome,    \* how each call ended, "none" before that
    answered    \* the <<call, attempt>> its outcome answers, as a set

Init ==
    /\ asked = [c \in Calls |-> 0]
    /\ outcome = [c \in Calls |-> "none"]
    /\ answered = [c \in Calls |-> {}]

Ask(c) ==
    /\ outcome[c] = "none"
    /\ asked[c] < Attempts
    /\ asked' = [asked EXCEPT ![c] = @ + 1]
    /\ UNCHANGED <<outcome, answered>>

Answer(c) ==
    /\ outcome[c] = "none"
    /\ asked[c] > 0
    /\ \E a \in {"Reply", "InvalidReply"} : outcome' = [outcome EXCEPT ![c] = a]
    /\ answered' = [answered EXCEPT ![c] = {<<c, asked[c]>>}]
    /\ UNCHANGED asked

Fail(c) ==
    /\ outcome[c] = "none"
    /\ \E f \in {"TimedOut", "NetworkError", "Cancelled"} :
          /\ f = "TimedOut" => asked[c] = Attempts
          /\ outcome' = [outcome EXCEPT ![c] = f]
    /\ UNCHANGED <<asked, answered>>

Next == \E c \in Calls : Ask(c) \/ Answer(c) \/ Fail(c)

Spec == Init /\ [][Next]_<<asked, outcome, answered>>
=============================================================================
