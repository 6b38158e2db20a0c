---------------------------- MODULE TimerService ----------------------------
(***************************************************************************)
(* What sched_alarm.h promises to its callers, without lists, rings and    *)
(* the one timer of the process: every call of schedule_alarm gets a new   *)
(* id, and its func is called once, with no other func running, unless     *)
(* unschedule_alarm comes first.  Nothing else ends the waiting of an      *)
(* event, and no func is called before its secs seconds have passed.       *)
(*                                                                         *)
(* A cancellation that comes too late (from a callback, for an event that  *)
(* is due in the same ring or was scheduled in it) is no step at all.      *)
(***************************************************************************)
EXTENDS Naturals

CONSTANTS
    Delay,   \* values of secs the callers pass
    Early    \* whether a func may be called before its time

VARIABLES
    last_id,     \* the id handed out last
    waiting,     \* the events to come: [id, owed], owed in seconds
    running,     \* the id of the event whose func is running, 0 if none
    cancelled    \* ids of the events that were cancelled in time

vars == <<last_id, waiting, running, cancelled>>

Init == last_id = 0 /\ waiting = {} /\ running = 0 /\ cancelled = {}

Schedule(secs) ==
    /\ last_id' = last_id + 1
    /\ waiting' = waiting \cup {[id |-> last_id + 1, owed |-> secs]}
    /\ UNCHANGED <<running, cancelled>>

Cancel(event) ==
    /\ waiting' = waiting \ {event}
    /\ cancelled' = cancelled \cup {event.id}
    /\ UNCHANGED <<last_id, running>>

Run(event) ==
    /\ running = 0
    /\ event.owed = 0 \/ Early
    /\ waiting' = waiting \ {event}
    /\ running' = event.id
    /\ UNCHANGED <<last_id, cancelled>>

Return ==
    /\ running # 0 /\ running' = 0
    /\ UNCHANGED <<last_id, waiting, cancelled>>

(* A second passes. *)
Later(event) == [event EXCEPT !.owed = IF event.owed > 0 THEN event.owed - 1 ELSE 0]

Tick ==
    /\ waiting' = {Later(event) : event \in waiting}
    /\ UNCHANGED <<last_id, running, cancelled>>

Next ==
    \/ \E secs \in Delay : Schedule(secs)
    \/ \E event \in waiting : Cancel(event) \/ Run(event)
    \/ Return \/ Tick

Spec == Init /\ [][Next]_vars
=============================================================================
