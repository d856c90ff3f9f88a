----------------------------- MODULE PeerFinder -----------------------------
(***************************************************************************)
(* Finder tasks: crawler/peer_finder.rs, with the switch that the crawler  *)
(* derives from their number (on_tasks_count_changed).                     *)
(*                                                                         *)
(* At most one task per info hash is listed in the map `pending`, beside   *)
(* its abort handle.  Aborting works at await points only: a task that is  *)
(* running (reporting peers, or past its last await and on its way to      *)
(* the lock of the map) goes on to its next await, or to its end.  The map *)
(* is keyed by hash, and a task that ends removes whatever is listed there. *)
(***************************************************************************)
EXTENDS Integers, FiniteSets

CONSTANTS
    Hashes,         \* info hashes
    Tasks,          \* one per call of find_peers
    NoTask,         \* not a task
    MaxConcurrent,  \* permits of the semaphore, 20 in the crawler
    MaxRetries,     \* rounds of a task, 1 in the crawler
    High, Low       \* thresholds of the switch, 1000 and 800

ASSUME PeerFinderAssumption ==
    /\ IsFiniteSet(Hashes) /\ Hashes # {}
    /\ NoTask \notin Tasks
    /\ MaxConcurrent \in Nat \ {0}
    /\ MaxRetries \in Nat \ {0}
    /\ High \in Nat /\ Low \in Nat /\ Low <= High

VARIABLES
    pending,    \* the map: hash -> the task listed for it, or NoTask
    pc,         \* where each task is
    hash,       \* what it looks for
    round,      \* rounds it has finished
    aborted,    \* the tasks whose handle has been aborted
    tooMany,    \* the crawler's too_many_hash
    overtaken   \* history: hashes added while a cancelled task of theirs ran on

vars == <<pending, pc, hash, round, aborted, tooMany, overtaken>>

Alive(t) == pc[t] \notin {"unused", "done", "dropped"}

\* At an await point: waiting for a permit, for the search, for the next round.
Suspended(t) == pc[t] \in {"queued", "searching", "sleeping"}

Runnable(t) == t \notin aborted

\* Aborted, and past the await points of its round.
Late(t) == t \in aborted /\ pc[t] \in {"reporting", "leaving"}

Holders == {t \in Tasks : pc[t] \in {"searching", "reporting"}}

Listed == {h \in Hashes : pending[h] # NoTask}

\* on_tasks_count_changed: in the middle the switch stays.
Notify(count) ==
    tooMany' = IF count > High THEN TRUE ELSE IF count < Low THEN FALSE ELSE tooMany

NotifyLen == Notify(Cardinality({h \in Hashes : pending'[h] # NoTask}))

Init ==
    /\ pending = [h \in Hashes |-> NoTask]
    /\ pc = [t \in Tasks |-> "unused"]
    /\ \E h \in Hashes : hash = [t \in Tasks |-> h]    \* of no consequence
    /\ round = [t \in Tasks |-> 0]
    /\ aborted = {}
    /\ tooMany = FALSE
    /\ overtaken = {}

-----------------------------------------------------------------------------
(* Callers, under the lock of the map *)

\* Mutant: a listed hash is given a second task.
AddHashTwice(h, t) ==
    /\ pc[t] = "unused"
    /\ pending' = [pending EXCEPT ![h] = t]
    /\ pc' = [pc EXCEPT ![t] = "queued"]
    /\ hash' = [hash EXCEPT ![t] = h]
    /\ overtaken' = overtaken \cup {g \in {h} : \E u \in Tasks : Late(u) /\ hash[u] = g}
    /\ NotifyLen
    /\ UNCHANGED <<round, aborted>>

\* add_hash; a hash that is listed is left alone.
AddHash(h, t) ==
    /\ pending[h] = NoTask
    /\ pc[t] = "unused"
    /\ pending' = [pending EXCEPT ![h] = t]
    /\ pc' = [pc EXCEPT ![t] = "queued"]
    /\ hash' = [hash EXCEPT ![t] = h]
    /\ overtaken' = overtaken \cup {g \in {h} : \E u \in Tasks : Late(u) /\ hash[u] = g}
    /\ NotifyLen
    /\ UNCHANGED <<round, aborted>>

\* Mutant: the handle stays in the map.
CancelKeeps(h) ==
    /\ pending[h] # NoTask
    /\ aborted' = aborted \cup {pending[h]}
    /\ UNCHANGED <<pending, pc, hash, round, overtaken>>
    /\ NotifyLen

\* cancel: the metadata of h has been downloaded.
Cancel(h) ==
    /\ pending[h] # NoTask
    /\ pending' = [pending EXCEPT ![h] = NoTask]
    /\ aborted' = aborted \cup {pending[h]}
    /\ NotifyLen
    /\ UNCHANGED <<pc, hash, round, overtaken>>

CancelAll ==
    /\ pending' = [h \in Hashes |-> NoTask]
    /\ aborted' = aborted \cup {pending[h] : h \in Listed}
    /\ Notify(0)
    /\ UNCHANGED <<pc, hash, round, overtaken>>

-----------------------------------------------------------------------------
(* A task: find_peers *)

Move(t, from, to) ==
    /\ pc[t] = from
    /\ pc' = [pc EXCEPT ![t] = to]

\* sem.acquire
Acquire(t) ==
    /\ Runnable(t)
    /\ Cardinality(Holders) < MaxConcurrent
    /\ Move(t, "queued", "searching")
    /\ UNCHANGED <<pending, hash, round, aborted, tooMany, overtaken>>

\* get_peers returns, with peers or without.
Searched(t) ==
    /\ Runnable(t)
    /\ Move(t, "searching", "reporting")
    /\ UNCHANGED <<pending, hash, round, aborted, tooMany, overtaken>>

\* Mutant: the round is not counted.
ReportAgain(t) ==
    /\ Move(t, "reporting", IF round[t] + 1 < MaxRetries THEN "sleeping" ELSE "leaving")
    /\ UNCHANGED <<pending, hash, round, aborted, tooMany, overtaken>>

\* Mutant: a counted round too many.
ReportLate(t) ==
    /\ Move(t, "reporting", IF round[t] < MaxRetries THEN "sleeping" ELSE "leaving")
    /\ round' = [round EXCEPT ![t] = @ + 1]
    /\ UNCHANGED <<pending, hash, aborted, tooMany, overtaken>>

\* on_peers_found, then the permit goes back: a further round, or the end.
Report(t) ==
    /\ Move(t, "reporting", IF round[t] + 1 < MaxRetries THEN "sleeping" ELSE "leaving")
    /\ round' = [round EXCEPT ![t] = @ + 1]
    /\ UNCHANGED <<pending, hash, aborted, tooMany, overtaken>>

\* The 15 minutes are over.
Wake(t) ==
    /\ Runnable(t)
    /\ Move(t, "sleeping", "queued")
    /\ UNCHANGED <<pending, hash, round, aborted, tooMany, overtaken>>

\* Mutant: the task leaves without a word to the crawler.
LeaveSilently(t) ==
    /\ Move(t, "leaving", "done")
    /\ pending' = [pending EXCEPT ![hash[t]] = NoTask]
    /\ UNCHANGED <<hash, round, aborted, tooMany, overtaken>>

\* Under the lock: whatever is listed for its hash is removed.
Leave(t) ==
    /\ Move(t, "leaving", "done")
    /\ pending' = [pending EXCEPT ![hash[t]] = NoTask]
    /\ NotifyLen
    /\ UNCHANGED <<hash, round, aborted, overtaken>>

\* The runtime drops an aborted task where it waits.
Drop(t) ==
    /\ t \in aborted
    /\ Suspended(t)
    /\ pc' = [pc EXCEPT ![t] = "dropped"]
    /\ UNCHANGED <<pending, hash, round, aborted, tooMany, overtaken>>

TaskStep(t) ==
    Acquire(t) \/ Searched(t) \/ Report(t) \/ Wake(t) \/ Leave(t) \/ Drop(t)

-----------------------------------------------------------------------------
Next ==
    \/ \E h \in Hashes : Cancel(h) \/ \E t \in Tasks : AddHash(h, t)
    \/ CancelAll
    \/ \E t \in Tasks : TaskStep(t)

Spec == Init /\ [][Next]_vars

\* Tasks are polled, timers fire, searches end (each of their queries does, see
\* Krpc), and permits go to those that wait for them in turn.
LiveSpec == Spec /\ \A t \in Tasks : WF_vars(TaskStep(t))

-----------------------------------------------------------------------------
(* Properties *)

\* Shape of the state; a task makes no more rounds than it is allowed.
TypeOK ==
    /\ pending \in [Hashes -> Tasks \cup {NoTask}]
    /\ pc \in [Tasks -> {"unused", "queued", "searching", "reporting", "sleeping",
                         "leaving", "done", "dropped"}]
    /\ hash \in [Tasks -> Hashes]
    /\ round \in [Tasks -> 0..MaxRetries]
    /\ aborted \subseteq Tasks
    /\ tooMany \in BOOLEAN
    /\ overtaken \subseteq Hashes

\* No dead entry, in whatever order tasks end, are cancelled and are started
\* again: what is listed for a hash is a task of that hash which is alive and
\* has not been aborted.  A dead entry would bar the hash for good (add_hash
\* leaves a listed hash alone) and count as a task for ever.
NoDeadEntry ==
    \A h \in Hashes : pending[h] # NoTask =>
        LET t == pending[h]
        IN  Alive(t) /\ Runnable(t) /\ hash[t] = h

\* The switch that stops sampling follows the number of listed tasks out of the
\* band between Low and High, whichever task or caller changed it last.
SwitchFollows ==
    /\ Cardinality(Listed) > High => tooMany
    /\ Cardinality(Listed) < Low => ~tooMany

\* Unless its hash was once added while a cancelled task of it was on its way to
\* the lock, a task that is at work is the one listed: it is counted, cancel
\* reaches it, and no other task of its hash is started.
WorkListed ==
    \A t \in Tasks :
        Alive(t) /\ Runnable(t) /\ hash[t] \notin overtaken => pending[hash[t]] = t

\* A task ends, and its permit is free again, whoever is cancelled or added.
EveryTaskEnds ==
    \A t \in Tasks : pc[t] = "queued" ~> ~Alive(t)
=============================================================================
