----------------------------- MODULE SchedAlarm -----------------------------
(***************************************************************************)
(* The alarm scheduler of util/sched_alarm.c: a list of events multiplexed *)
(* over the one alarm() timer of the process.                              *)
(*                                                                         *)
(* Two flows run over the same globals.  The main flow (the capture loop)  *)
(* calls schedule_alarm and unschedule_alarm; the SIGALRM handler may      *)
(* interrupt it, runs the due callbacks, and the callbacks call            *)
(* schedule_alarm and unschedule_alarm again.  schedule_alarm is split at  *)
(* its accesses to the timer and to the globals.                           *)
(*                                                                         *)
(* A list is the set of its nodes; the due nodes of one ring run in any    *)
(* order, where the code takes the order of insertion.                     *)
(***************************************************************************)
EXTENDS Integers

CONSTANTS
    Delay,    \* values of secs the callers pass to schedule_alarm
    INT_MAX,  \* the largest int, a sentinel of find_min_remaining
    MaxId,    \* bound: number of schedule_alarm calls in a behaviour
    Races     \* the timing hazards admitted, a subset of Hazard

(***************************************************************************)
(* "expiry":   the timer expires inside alarm(0) of schedule_alarm         *)
(* "stall":    a second or more passes inside schedule_alarm               *)
(* "slow":     a second or more passes before or in the signal handler     *)
(*             (popen of a DHCP script, a descheduled process)             *)
(* "rounding": alarm(0) rounds a partly elapsed second up                  *)
(***************************************************************************)
Hazard == {"expiry", "stall", "slow", "rounding"}

ASSUME DelayAssumption == Delay \subseteq Nat
ASSUME IntMaxAssumption == INT_MAX \in Nat \ {0} /\ \A d \in Delay : d < INT_MAX
ASSUME MaxIdAssumption == MaxId \in Nat
ASSUME RacesAssumption == Races \subseteq Hazard

VARIABLES
    g_alarm_list,           \* nodes of the main event list
    g_alarm_list_add_temp,  \* events scheduled while ringing
    g_last_id,
    g_ringing,
    g_last_set_time,
    call,        \* the main flow's schedule_alarm call in progress, or NoCall
    visited,     \* ids of the due nodes fire_single has visited in this ring
    callee,      \* id of the event whose func is running, 0 if none
    os_timer,    \* seconds until the kernel raises SIGALRM, 0 if disarmed
    sig_pending, \* SIGALRM raised and not yet delivered
    fired,       \* history: ids whose func has been called
    cancelled    \* history: ids whose cancellation must be honoured

vars == <<g_alarm_list, g_alarm_list_add_temp, g_last_id, g_ringing,
          g_last_set_time, call, visited, callee, os_timer, sig_pending,
          fired, cancelled>>

-----------------------------------------------------------------------------
(* An ALARM_EVENT.  func and user are named by the id; owed is history: the
   real seconds that have yet to pass before the event has waited secs.     *)
Event == [id : Nat, remaining : Int, marked_delete : BOOLEAN, owed : Nat]

NewEvent(secs) == [id |-> g_last_id + 1, remaining |-> secs,
                   marked_delete |-> FALSE, owed |-> secs]

Step == {"stopped", "armed", "recorded"}
NoCall == [step |-> "none"]

Ids(list) == {e.id : e \in list}

(* The results of find_min_remaining: the least nonzero remaining time, with
   INT_MAX as the starting value.  A one-element set.                       *)
find_min_remaining(list) ==
    LET candidates == {INT_MAX} \cup {e.remaining : e \in {f \in list : f.remaining # 0}}
    IN  {m \in candidates : \A c \in candidates : m <= c}

update_remaining(list, secs) ==
    {[e EXCEPT !.remaining = e.remaining - secs] : e \in list}

(* Mutant of alarm_valid: the marks are forgotten. *)
alarm_valid_KeepsMarked(e) == e.remaining > 0

(* alarm_valid_cmpfunc: nonzero, so remove_data keeps the node. *)
alarm_valid(e) == e.remaining > 0 /\ ~e.marked_delete

(* What alarm(0) can return: the time left, perhaps rounded up, never more
   than what the timer was set to.                                          *)
TimeLeft ==
    {os_timer} \cup
    {n \in {os_timer + 1} : /\ "rounding" \in Races
                            /\ 0 < os_timer /\ os_timer < g_last_set_time}

(* Mutants of NextSetTime: the running timer is ignored; the fix-up of a
   timer that is not set is missing.                                        *)
NextSetTime_IgnoresTimer(left, secs) == secs
NextSetTime_NoFixup(left, secs) == IF left < secs THEN left ELSE secs

(* alarm(0) returns 0 when no alarm is set: line 179 makes that INT_MAX. *)
NextSetTime(left, secs) ==
    LET curr == IF left = 0 THEN INT_MAX ELSE left
    IN  IF curr < secs THEN curr ELSE secs

-----------------------------------------------------------------------------
Init ==
    /\ g_alarm_list = {} /\ g_alarm_list_add_temp = {}
    /\ g_last_id = 0 /\ g_ringing = FALSE /\ g_last_set_time = 0
    /\ call = NoCall /\ visited = {} /\ callee = 0
    /\ os_timer = 0 /\ sig_pending = FALSE
    /\ fired = {} /\ cancelled = {}

MainIdle == call = NoCall /\ ~g_ringing
(* The handler preempts the main flow: a raised signal is delivered before
   the main flow executes anything else.                                    *)
MainRuns == ~g_ringing /\ ~sig_pending

(* schedule_alarm, not ringing: build the event, stop the timer.  The signal
   may be raised inside this alarm(0), which then returns 0.                *)
ScheduleStop(secs) ==
    /\ MainIdle
    /\ sig_pending => "expiry" \in Races
    /\ g_last_id < MaxId
    /\ \E left \in TimeLeft :
          call' = [step |-> "stopped", event |-> NewEvent(secs),
                   time |-> NextSetTime(left, secs)]
    /\ g_last_id' = g_last_id + 1
    /\ os_timer' = 0
    /\ UNCHANGED <<g_alarm_list, g_alarm_list_add_temp, g_ringing,
                   g_last_set_time, visited, callee, sig_pending, fired, cancelled>>

(* set_alarm, first statement: alarm(time). *)
ScheduleArm ==
    /\ MainRuns /\ call.step = "stopped"
    /\ os_timer' = call.time
    /\ call' = [call EXCEPT !.step = "armed"]
    /\ UNCHANGED <<g_alarm_list, g_alarm_list_add_temp, g_last_id, g_ringing,
                   g_last_set_time, visited, callee, sig_pending, fired, cancelled>>

(* Mutant of ScheduleRecord: the assignment to g_last_set_time is missing. *)
ScheduleRecord_Forgotten ==
    /\ MainRuns /\ call.step = "armed"
    /\ call' = [call EXCEPT !.step = "recorded"]
    /\ UNCHANGED <<g_alarm_list, g_alarm_list_add_temp, g_last_id, g_ringing,
                   g_last_set_time, visited, callee, os_timer, sig_pending, fired,
                   cancelled>>

(* set_alarm, second statement: g_last_set_time = time. *)
ScheduleRecord ==
    /\ MainRuns /\ call.step = "armed"
    /\ g_last_set_time' = call.time
    /\ call' = [call EXCEPT !.step = "recorded"]
    /\ UNCHANGED <<g_alarm_list, g_alarm_list_add_temp, g_last_id, g_ringing,
                   visited, callee, os_timer, sig_pending, fired, cancelled>>

(* insert_data and return. *)
ScheduleInsert ==
    /\ MainRuns /\ call.step = "recorded"
    /\ g_alarm_list' = g_alarm_list \cup {call.event}
    /\ call' = NoCall
    /\ UNCHANGED <<g_alarm_list_add_temp, g_last_id, g_ringing, g_last_set_time,
                   visited, callee, os_timer, sig_pending, fired, cancelled>>

(* unschedule_alarm, not ringing: remove_data by id; the timer keeps running. *)
Unschedule(id) ==
    /\ MainIdle /\ ~sig_pending
    /\ g_alarm_list' = {e \in g_alarm_list : e.id # id}
    /\ cancelled' = cancelled \cup ({id} \cap Ids(g_alarm_list))
    /\ UNCHANGED <<g_alarm_list_add_temp, g_last_id, g_ringing, g_last_set_time,
                   call, visited, callee, os_timer, sig_pending, fired>>

-----------------------------------------------------------------------------
(* alarm_sig_handler up to the first traverse. *)
RingStart ==
    /\ sig_pending /\ ~g_ringing
    /\ sig_pending' = FALSE
    /\ g_ringing' = TRUE
    /\ g_alarm_list' = update_remaining(g_alarm_list, g_last_set_time)
    /\ visited' = {}
    /\ UNCHANGED <<g_alarm_list_add_temp, g_last_id, g_last_set_time, call, callee,
                   os_timer, fired, cancelled>>

(* The nodes on which fire_single has yet to call func. *)
ToFire == {e \in g_alarm_list : e.id \notin visited /\ e.remaining <= 0}

(* list_traverse(fire_single): a due node not visited yet; func starts. *)
FireSingle ==
    /\ g_ringing /\ callee = 0
    /\ \E e \in ToFire :
          /\ callee' = e.id /\ visited' = visited \cup {e.id}
          /\ fired' = fired \cup {e.id}
    /\ UNCHANGED <<g_alarm_list, g_alarm_list_add_temp, g_last_id, g_ringing,
                   g_last_set_time, call, os_timer, sig_pending, cancelled>>

(* schedule_alarm from a callback: the insertion waits in add_temp. *)
CallbackSchedule(secs) ==
    /\ callee # 0
    /\ g_last_id < MaxId
    /\ g_alarm_list_add_temp' = g_alarm_list_add_temp \cup {NewEvent(secs)}
    /\ g_last_id' = g_last_id + 1
    /\ UNCHANGED <<g_alarm_list, g_ringing, g_last_set_time, call, visited, callee,
                   os_timer, sig_pending, fired, cancelled>>

(* unschedule_alarm from a callback marks nodes of the main list only.  An
   event due in this very ring, or still in add_temp, can no longer be
   stopped, so history promises a cancellation for the others.              *)
CallbackUnschedule(id) ==
    /\ callee # 0
    /\ g_alarm_list' = {IF e.id = id THEN [e EXCEPT !.marked_delete = TRUE] ELSE e
                           : e \in g_alarm_list}
    /\ cancelled' = cancelled \cup
                    ({id} \cap Ids({e \in g_alarm_list : e.remaining > 0}))
    /\ UNCHANGED <<g_alarm_list_add_temp, g_last_id, g_ringing, g_last_set_time,
                   call, visited, callee, os_timer, sig_pending, fired>>

CallbackReturn ==
    /\ callee # 0
    /\ callee' = 0
    /\ UNCHANGED <<g_alarm_list, g_alarm_list_add_temp, g_last_id, g_ringing,
                   g_last_set_time, call, visited, os_timer, sig_pending, fired,
                   cancelled>>

(* Mutant of RingEnd: the next timer value is computed before the clean-up. *)
RingEnd_MinTooSoon ==
    /\ g_ringing /\ callee = 0 /\ ToFire = {}
    /\ g_alarm_list' = {e \in g_alarm_list : alarm_valid(e)} \cup g_alarm_list_add_temp
    /\ g_alarm_list_add_temp' = {}
    /\ \E min \in find_min_remaining(g_alarm_list) :
          os_timer' = min /\ g_last_set_time' = min
    /\ g_ringing' = FALSE
    /\ UNCHANGED <<g_last_id, call, visited, callee, sig_pending, fired, cancelled>>

(* Mutant of RingEnd: add_temp is emptied before it is appended. *)
RingEnd_NewEventsLost ==
    /\ g_ringing /\ callee = 0 /\ ToFire = {}
    /\ g_alarm_list' = {e \in g_alarm_list : alarm_valid(e)}
    /\ g_alarm_list_add_temp' = {}
    /\ \E min \in find_min_remaining(g_alarm_list') :
          os_timer' = min /\ g_last_set_time' = min
    /\ g_ringing' = FALSE
    /\ UNCHANGED <<g_last_id, call, visited, callee, sig_pending, fired, cancelled>>

(* The rest of alarm_sig_handler: clean up, append, re-arm. *)
RingEnd ==
    /\ g_ringing /\ callee = 0 /\ ToFire = {}
    /\ g_alarm_list' = {e \in g_alarm_list : alarm_valid(e)} \cup g_alarm_list_add_temp
    /\ g_alarm_list_add_temp' = {}
    /\ \E min \in find_min_remaining(g_alarm_list') :
          os_timer' = min /\ g_last_set_time' = min
    /\ g_ringing' = FALSE
    /\ UNCHANGED <<g_last_id, call, visited, callee, sig_pending, fired, cancelled>>

-----------------------------------------------------------------------------
(* One second passes (the kernel, and the owed history of every event). *)
Countdown(n) == IF n > 0 THEN n - 1 ELSE 0
Aged(list) == {[e EXCEPT !.owed = Countdown(e.owed)] : e \in list}

Tick ==
    /\ sig_pending \/ g_ringing => "slow" \in Races
    /\ call # NoCall => "stall" \in Races
    /\ os_timer' = Countdown(os_timer)
    /\ sig_pending' = (sig_pending \/ os_timer = 1)
    /\ g_alarm_list' = Aged(g_alarm_list)
    /\ g_alarm_list_add_temp' = Aged(g_alarm_list_add_temp)
    /\ call' = IF call = NoCall THEN NoCall
               ELSE [call EXCEPT !.event.owed = Countdown(call.event.owed)]
    /\ UNCHANGED <<g_last_id, g_ringing, g_last_set_time, visited, callee, fired,
                   cancelled>>

ScheduleStep == ScheduleArm \/ ScheduleRecord \/ ScheduleInsert

Next ==
    \/ \E secs \in Delay : ScheduleStop(secs) \/ CallbackSchedule(secs)
    \/ ScheduleArm \/ ScheduleRecord \/ ScheduleInsert
    \/ \E id \in 1..g_last_id : Unschedule(id) \/ CallbackUnschedule(id)
    \/ RingStart \/ FireSingle \/ CallbackReturn \/ RingEnd
    \/ Tick

Spec == Init /\ [][Next]_vars

(* Time passes, a raised signal is delivered, and calls return: what the
   kernel's scheduling of one process gives.  Nobody is obliged to call
   schedule_alarm or unschedule_alarm.                                      *)
FairSpec ==
    /\ Spec
    /\ WF_vars(Tick) /\ WF_vars(ScheduleStep)
    /\ WF_vars(RingStart) /\ WF_vars(FireSingle)
    /\ WF_vars(CallbackReturn) /\ WF_vars(RingEnd)

-----------------------------------------------------------------------------
CallType == {NoCall} \cup [step : Step, event : Event, time : Nat]

(* Types of the globals of sched_alarm.c and of the kernel timer. *)
TypeOK ==
    /\ g_alarm_list \subseteq Event /\ g_alarm_list_add_temp \subseteq Event
    /\ g_last_id \in 0..MaxId /\ g_ringing \in BOOLEAN /\ g_last_set_time \in Nat
    /\ call \in CallType /\ visited \subseteq Nat /\ callee \in Nat
    /\ os_timer \in Nat /\ sig_pending \in BOOLEAN
    /\ fired \subseteq Nat /\ cancelled \subseteq Nat

(* No func is called before its secs seconds have passed: fire_single trusts
   remaining, which is maintained from the g_last_set_time bookkeeping that
   every schedule_alarm and every ring rewrites.                            *)
NeverEarly == \A e \in g_alarm_list : e.id \in fired => e.owed = 0

(* Whenever the scheduler is at rest and an event is listed, the timer is
   running and rings no later than the nearest event's remaining time, which
   is what sched_alarm.h calls "always set alarm() to time to nearest event". *)
NearestEventArmed ==
    MainIdle /\ ~sig_pending =>
        \A e \in g_alarm_list : 0 < os_timer /\ os_timer <= e.remaining

(* A cancelled event's func is not called afterwards: unschedule_alarm holds
   for the main flow, and in a callback for every event of a later ring.    *)
CancelledNeverFires ==
    [][callee' # callee /\ callee' # 0 => callee' \notin cancelled]_vars

(* What a caller of sched_alarm.h sees of the scheduler: the events whose func
   has yet to be called.  A marked event that is not due is out; one that is due
   in this ring is not, since fire_single does not look at marks.               *)
Events == g_alarm_list \cup g_alarm_list_add_temp
          \cup (IF call = NoCall THEN {} ELSE {call.event})
Waits(e) == e.id \notin fired /\ (e.marked_delete => e.remaining <= 0)
Seen(e) == [id |-> e.id, owed |-> e.owed]
Waiting == {Seen(e) : e \in {f \in Events : Waits(f)}}

Service == INSTANCE TimerService WITH
    Early <- "stall" \in Races,
    last_id <- g_last_id,
    waiting <- Waiting,
    running <- callee

(* The two lists, the rings, the marks and the one timer implement the service
   of sched_alarm.h: wherever the signal interrupts the main flow and whatever
   the callbacks do, an event leaves the lists only because its func is called
   (once, alone, in its time unless schedule_alarm stalls) or because it was
   cancelled; in particular the clean-up at the end of a ring loses none.       *)
ServiceRefined == Service!Spec

(* Every listed event is eventually run unless it is cancelled: no sequence
   of schedules, cancellations and rings strands an event in the list.      *)
EveryEventSettles ==
    \A id \in 1..MaxId : id \in Ids(g_alarm_list) ~> id \in fired \cup cancelled
=============================================================================
