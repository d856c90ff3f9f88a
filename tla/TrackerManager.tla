--------------------------- MODULE TrackerManager ---------------------------
(***************************************************************************)
(* bt/tracker_manager.rs over the UDP tracker: the map of trackers, and    *)
(* announce tasks, each of which keeps its own copy of the map with the    *)
(* time of the next announce to each tracker.                              *)
(*                                                                         *)
(* Times are relative to now: a positive number of ticks to wait, 0 for    *)
(* this very instant, -1 for past.  A task announces to `udp` by a call of *)
(* UdpTracker named after it, beside the calls of others, and to the other *)
(* trackers (HTTP), whose announce is one step with either end.            *)
(***************************************************************************)
EXTENDS UdpTracker, FiniteSetsExt

CONSTANTS
    Tasks,      \* announce tasks; the other calls are of users of the UDP tracker
    Trackers,   \* URLs
    Udp,        \* the one that is a UdpTracker
    Intervals,  \* the intervals a reply may ask for, 0 among them
    Retry,      \* 30 minutes, after an error
    Never       \* next_announce = None

ASSUME TrackerManagerAssumption ==
    Tasks \subseteq Calls /\ Udp \in Trackers /\ Intervals \subseteq Nat /\ Retry \in Nat \ {0} /\ Never \notin Int

VARIABLES
    known,      \* TrackerManagerInner.trackers
    actived,    \* AnnounceTask.actived: the trackers of each task
    next,       \* next_announce of each
    phase,      \* "new", "resting", "sleeping", "announcing", "stopping", "over"
    wake,       \* when the sleep of `announce` is over
    results     \* of each announce in the task's JoinSet: "flying", "ok", "error"

mvars == <<known, actived, next, phase, wake, results>>
vars == <<uvars, mvars>>

None == [t \in Trackers |-> "none"]

Init ==
    /\ UdpInit
    /\ known = {Udp}
    /\ actived = [k \in Tasks |-> {}]
    /\ next = [k \in Tasks |-> [t \in Trackers |-> Never]]
    /\ phase = [k \in Tasks |-> "new"]
    /\ wake = [k \in Tasks |-> 0]
    /\ results = [k \in Tasks |-> None]

Move(k, from, to) == phase[k] = from /\ phase' = [phase EXCEPT ![k] = to]

-----------------------------------------------------------------------------
(* TrackerManager *)

\* add_tracker: a URL that is there is refused, and so is that of a UDP tracker
\* (add_tracker_instance takes those).  Of two calls for one URL both may look
\* before either inserts: both are counted, and the map is the same.
AddTracker(t) ==
    /\ t \notin known /\ t # Udp
    /\ known' = known \cup {t}
    /\ UNCHANGED <<uvars, actived, next, phase, wake, results>>

-----------------------------------------------------------------------------
(* AnnounceTask *)

\* AnnounceTask::new
NewTask(k) ==
    /\ Move(k, "new", "resting")
    /\ actived' = [actived EXCEPT ![k] = known]
    /\ UNCHANGED <<uvars, known, next, wake, results>>

\* Times that are not past.
Ahead(k) == {t \in actived[k] : next[k][t] # Never /\ next[k][t] >= 0}

SumAhead(k) == FoldSet(LAMBDA t, n : next[k][t] + n, 0, Ahead(k))

\* Mutant: divided by one too many.
MeanLow(k) == SumAhead(k) \div (Cardinality(Ahead(k)) + 1)

\* avg_next_announce: their mean, and now if there is none.
AvgNextAnnounce(k) ==
    IF Ahead(k) = {} THEN 0 ELSE SumAhead(k) \div Cardinality(Ahead(k))

\* announce, up to its sleep.
Announce(k) ==
    /\ actived[k] # {}
    /\ Move(k, "resting", "sleeping")
    /\ wake' = [wake EXCEPT ![k] = AvgNextAnnounce(k)]
    /\ UNCHANGED <<uvars, known, actived, next, results>>

\* An announce to each of ts is started; Begin is that of the UDP tracker.
Spawn(k, ts) ==
    /\ results' = [results EXCEPT ![k] =
                      [t \in Trackers |-> IF t \in ts THEN "flying" ELSE "none"]]
    /\ IF Udp \in ts THEN Begin(k) ELSE UNCHANGED uvars

\* Trackers whose time has come, or that have not answered yet.
Due(k) == {t \in actived[k] : next[k][t] = Never \/ next[k][t] <= 0}

\* announce, after its sleep.
Woken(k) ==
    /\ wake[k] <= 0
    /\ Move(k, "sleeping", "announcing")
    /\ Spawn(k, Due(k))
    /\ wake' = [wake EXCEPT ![k] = 0]
    /\ UNCHANGED <<known, actived, next>>

\* One announce of the JoinSet has ended.
Ended(k, t) ==
    /\ results[k][t] = "flying"
    /\ \E how \in {"ok", "error"} :
        /\ results' = [results EXCEPT ![k][t] = how]
        /\ IF t = Udp THEN outcome[k] = how /\ Return(k) ELSE UNCHANGED uvars
    /\ UNCHANGED <<known, actived, next, phase, wake>>

Joined(k) == \A t \in Trackers : results[k][t] # "flying"

\* join_all: all have ended, and the next time is set for each, after the interval of
\* its own reply if there is one.
RoundEnds(k) ==
    /\ Joined(k)
    /\ Move(k, "announcing", "resting")
    /\ \E interval \in [{t \in Trackers : results[k][t] = "ok"} -> Intervals] :
        next' = [next EXCEPT ![k] = [t \in Trackers |->
            CASE results[k][t] = "ok"    -> interval[t]
              [] results[k][t] = "error" -> Retry
              [] OTHER                   -> next[k][t]]]
    /\ results' = [results EXCEPT ![k] = None]
    /\ UNCHANGED <<uvars, known, actived, wake>>

\* Trackers that are told we stop.
Announced(k) == {t \in actived[k] : next[k][t] # Never}

\* shutdown, which waits for its announces.
Shutdown(k) ==
    /\ Move(k, "resting", "stopping")
    /\ Spawn(k, Announced(k))
    /\ UNCHANGED <<known, actived, next, wake>>

ShutdownEnds(k) ==
    /\ Joined(k)
    /\ Move(k, "stopping", "resting")
    /\ actived' = [actived EXCEPT ![k] = {}]
    /\ results' = [results EXCEPT ![k] = None]
    /\ UNCHANGED <<uvars, known, next, wake>>

\* drop of a task, which does not: its announces run on without it.
DropTask(k) ==
    /\ Move(k, "resting", "over")
    /\ Spawn(k, Announced(k))
    /\ UNCHANGED <<known, actived, next, wake>>

\* A JoinSet aborts what it holds.
DropJoinSet(k) ==
    IF results[k][Udp] # "flying" THEN UNCHANGED uvars
    ELSE Return(k) \/ DropCall(k)

\* The future of announce or shutdown is dropped, with its JoinSet.
Abandon(k) ==
    /\ phase[k] \in {"sleeping", "announcing", "stopping"}
    /\ phase' = [phase EXCEPT ![k] = "resting"]
    /\ results' = [results EXCEPT ![k] = None]
    /\ DropJoinSet(k)
    /\ wake' = [wake EXCEPT ![k] = 0]
    /\ UNCHANGED <<known, actived, next>>

\* Another user of the UDP tracker announces, scrapes, or is done with a call.
Use(c) ==
    /\ Begin(c) \/ DropCall(c) \/ Return(c)
    /\ UNCHANGED mvars

Later(n) == IF n = Never \/ n < 0 THEN n ELSE n - 1

Tick ==
    /\ next' = [k \in Tasks |-> [t \in Trackers |-> Later(next[k][t])]]
    /\ wake' = [k \in Tasks |-> IF wake[k] > 0 THEN wake[k] - 1 ELSE 0]
    /\ UNCHANGED <<uvars, known, actived, phase, results>>

Next ==
    \/ UdpNext /\ UNCHANGED mvars
    \/ \E t \in Trackers : AddTracker(t)
    \/ \E k \in Tasks :
        \/ NewTask(k) \/ Announce(k) \/ Woken(k) \/ RoundEnds(k)
        \/ Shutdown(k) \/ ShutdownEnds(k) \/ DropTask(k) \/ Abandon(k)
        \/ \E t \in Trackers : Ended(k, t)
    \/ \E c \in Calls \ Tasks : Use(c)
    \/ Tick

Spec == Init /\ [][Next]_vars

\* Timers fire and tasks are polled.  Nobody need announce, stop or drop.
LiveSpec ==
    /\ Spec
    /\ UdpFairness
    /\ WF_vars(Tick)
    /\ \A k \in Tasks :
        /\ SF_vars(Woken(k))     \* strong only because Workers is finite
        /\ WF_vars(RoundEnds(k)) /\ WF_vars(ShutdownEnds(k))
        /\ \A t \in Trackers : WF_vars(Ended(k, t))

-----------------------------------------------------------------------------
(* Properties *)

\* Shape.
TypeOK ==
    /\ UdpTypeOK
    /\ known \subseteq Trackers
    /\ actived \in [Tasks -> SUBSET Trackers]
    /\ \A k \in Tasks : \A t \in Trackers :
        next[k][t] = Never \/ (next[k][t] >= -1 /\ \E n \in Intervals \cup {Retry} : next[k][t] <= n)
    /\ \A k \in Tasks : wake[k] >= 0 /\ \E n \in Intervals \cup {Retry} : wake[k] <= n
    /\ phase \in [Tasks -> {"new", "resting", "sleeping", "announcing", "stopping", "over"}]
    /\ results \in [Tasks -> [Trackers -> {"none", "flying", "ok", "error"}]]

\* The sleep of `announce` is never too short: though it is a mean, over times
\* that are not past only, somebody is due when it is over.
RoundServes ==
    \A k \in Tasks : phase[k] = "sleeping" /\ wake[k] <= 0 => Due(k) # {}

\* A task's call of the UDP tracker is under way as long as it is counted in the
\* JoinSet, or among the announces that the drop of the task has spawned: an abandoned
\* round leaves no call behind, and none is waited for that is not made.
NoStrayCall ==
    \A k \in Tasks : pc[k] # "idle" <=> results[k][Udp] = "flying"

\* Shape; one connect at a time; who waits for it is told; each announce is accounted for.
TrackerInv == TypeOK /\ OneConnect /\ SubscribersHeard /\ NoStrayCall

\* Every round of announces that is not abandoned comes to an end, with its
\* connects, timeouts and shared waits; and so does every shutdown.
RoundsEnd ==
    \A k \in Tasks :
        phase[k] \in {"sleeping", "announcing", "stopping"} ~> phase[k] \in {"resting", "over"}
=============================================================================
