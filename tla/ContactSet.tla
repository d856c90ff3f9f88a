----------------------------- MODULE ContactSet -----------------------------
(***************************************************************************)
(* What the routing table of dht/routing_table.rs promises to the session  *)
(* that uses it, with no buckets, no order and no capacity: a set of       *)
(* contacts, each an endpoint with the node id it announced and a grade.   *)
(* An endpoint is listed once; a contact is forgotten only after it has    *)
(* failed while it was already graded Bad, and nothing but a failure       *)
(* lowers a grade.                                                         *)
(***************************************************************************)
CONSTANTS
    Ids,        \* node identifiers
    Zero,       \* the all-zero identifier, "not known"
    Self,       \* the identifier of this node
    Addrs       \* endpoints

VARIABLE contacts

Grades == {"Good", "Questionable", "Bad"}

Contact == [id : Ids \ {Zero, Self}, ip : Addrs, status : Grades]

Lowered == [Good |-> "Questionable", Questionable |-> "Bad"]

Init == contacts = {}

\* A new endpoint is learnt.
Learn(c) ==
    /\ c.status = "Good"
    /\ \A d \in contacts : d.ip # c.ip
    /\ contacts' = contacts \cup {c}

\* A listed contact was heard from.
Heard(c) ==
    /\ c \in contacts
    /\ contacts' = (contacts \ {c}) \cup {[c EXCEPT !.status = "Good"]}

\* A listed contact failed to answer: one grade lower.
Missed(c) ==
    /\ c \in contacts
    /\ c.status # "Bad"
    /\ contacts' = (contacts \ {c}) \cup {[c EXCEPT !.status = Lowered[c.status]]}

\* A contact that is already Bad failed once more.
Drop(c) ==
    /\ c \in contacts
    /\ c.status = "Bad"
    /\ contacts' = contacts \ {c}

Next == \E c \in Contact : Learn(c) \/ Heard(c) \/ Missed(c) \/ Drop(c)

Spec == Init /\ [][Next]_contacts
=============================================================================
