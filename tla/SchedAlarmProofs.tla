-------------------------- MODULE SchedAlarmProofs --------------------------
(***************************************************************************)
(* Proofs about the alarm scheduler, for every set of delays and every     *)
(* number of calls: what happens to an event that fired or was cancelled,  *)
(* with every timing hazard admitted, then the promises about time, which  *)
(* some of the hazards break, and that it implements TimerService.         *)
(***************************************************************************)
EXTENDS SchedAlarm, TLAPS

USE DelayAssumption, IntMaxAssumption, MaxIdAssumption, RacesAssumption

Listed == g_alarm_list \cup g_alarm_list_add_temp

(* What a ring would subtract that real time has already consumed. *)
Elapsed ==
    IF sig_pending THEN g_last_set_time
    ELSE IF os_timer = 0 \/ call.step = "armed" THEN 0
    ELSE g_last_set_time - os_timer

(* The signal, the handler and the steps of schedule_alarm exclude each other. *)
Phases ==
    /\ sig_pending \/ g_ringing => os_timer = 0
    /\ g_ringing => ~sig_pending
    /\ callee # 0 => g_ringing
    /\ call.step \in {"armed", "recorded"} => ~sig_pending /\ ~g_ringing
    /\ call.step = "armed" => os_timer = call.time
    /\ call.step = "recorded" => os_timer = g_last_set_time
    /\ ~g_ringing /\ call.step # "armed" => os_timer <= g_last_set_time

(* remaining never promises an event less time than it is still owed. *)
Credit ==
    /\ \A e \in g_alarm_list : e.owed > 0 => e.owed + Elapsed <= e.remaining
    /\ \A e \in g_alarm_list_add_temp : e.owed <= e.remaining
    /\ call # NoCall => call.event.owed <= call.event.remaining

TimeInv == Phases /\ Credit /\ NeverEarly

-----------------------------------------------------------------------------
(* Events scheduled while ringing keep the delay they were given: the part of
   type correctness that find_min_remaining needs at the end of a ring.      *)
TempDelays == \A e \in g_alarm_list_add_temp : e.remaining \in Nat

TInv == TypeOK /\ TempDelays

LEMMA InCall ==
  ASSUME TypeOK, call.step \in Step
  PROVE  /\ call \in [step : Step, event : Event, time : Nat]
         /\ call # NoCall
BY DEF TypeOK, CallType, NoCall, Step

LEMMA NewEventType ==
  ASSUME TypeOK, NEW secs \in Delay
  PROVE  NewEvent(secs) \in Event
BY DEF TypeOK, NewEvent, Event

(* set_alarm is never given a negative value by schedule_alarm. *)
LEMMA NextSetTimeType ==
  ASSUME TypeOK, NEW secs \in Delay, NEW left \in TimeLeft
  PROVE  left \in Nat /\ NextSetTime(left, secs) \in Nat
BY DEF TypeOK, TimeLeft, NextSetTime

LEMMA AgedType ==
  ASSUME NEW list, list \subseteq Event
  PROVE  Aged(list) \subseteq Event
BY DEF Aged, Countdown, Event

(* The handler re-arms with a natural number: a node with a negative
   remaining time does not survive its clean-up.                            *)
LEMMA RearmType ==
  ASSUME TInv, RingEnd
  PROVE  g_alarm_list' \subseteq Event /\ os_timer' \in Nat /\ g_last_set_time' \in Nat
<1>1. g_alarm_list' \subseteq Event /\ \A e \in g_alarm_list' : e.remaining \in Nat
  BY DEF TInv, TypeOK, TempDelays, RingEnd, alarm_valid, Event
<1>2. \A m \in find_min_remaining(g_alarm_list') : m \in Nat
  BY <1>1 DEF find_min_remaining
<1>3. QED
  BY <1>1, <1>2 DEF RingEnd

LEMMA TypeStep == TInv /\ [Next]_vars => TInv'
<1> SUFFICES ASSUME TInv, [Next]_vars PROVE TInv'
  OBVIOUS
<1> USE DEF TInv, TypeOK, TempDelays
<1>1. ASSUME NEW secs \in Delay, ScheduleStop(secs) PROVE TInv'
  <2>1. PICK left \in TimeLeft :
          call' = [step |-> "stopped", event |-> NewEvent(secs),
                   time |-> NextSetTime(left, secs)]
    BY <1>1 DEF ScheduleStop
  <2>2. call' \in CallType
    BY <2>1, NewEventType, NextSetTimeType DEF CallType, Step
  <2>3. QED
    BY <1>1, <2>2 DEF ScheduleStop
<1>2. ASSUME NEW secs \in Delay, CallbackSchedule(secs) PROVE TInv'
  <2>1. NewEvent(secs) \in Event /\ NewEvent(secs).remaining \in Nat
    BY NewEventType DEF NewEvent
  <2>2. QED
    BY <1>2, <2>1 DEF CallbackSchedule
<1>3. CASE ScheduleArm
  <2>1. call \in [step : Step, event : Event, time : Nat]
    BY <1>3, InCall DEF ScheduleArm, Step
  <2>2. call' \in CallType /\ os_timer' \in Nat
    BY <1>3, <2>1 DEF ScheduleArm, CallType, Step
  <2>3. QED
    BY <1>3, <2>2 DEF ScheduleArm
<1>4. CASE ScheduleRecord
  <2>1. call \in [step : Step, event : Event, time : Nat]
    BY <1>4, InCall DEF ScheduleRecord, Step
  <2>2. call' \in CallType /\ g_last_set_time' \in Nat
    BY <1>4, <2>1 DEF ScheduleRecord, CallType, Step
  <2>3. QED
    BY <1>4, <2>2 DEF ScheduleRecord
<1>5. CASE ScheduleInsert
  <2>1. call \in [step : Step, event : Event, time : Nat]
    BY <1>5, InCall DEF ScheduleInsert, Step
  <2>2. QED
    BY <1>5, <2>1 DEF ScheduleInsert, CallType
<1>6. ASSUME NEW id \in 1..g_last_id, Unschedule(id) PROVE TInv'
  <2>1. id \in Nat
    OBVIOUS
  <2>2. cancelled' \subseteq Nat
    BY <1>6, <2>1, Zenon DEF Unschedule
  <2>3. g_alarm_list' \subseteq Event
    BY <1>6, Zenon DEF Unschedule
  <2>4. QED
    BY <1>6, <2>2, <2>3 DEF Unschedule
<1>7. ASSUME NEW id \in 1..g_last_id, CallbackUnschedule(id) PROVE TInv'
  <2>1. g_alarm_list' \subseteq Event
    BY <1>7 DEF CallbackUnschedule, Event
  <2>2. QED
    BY <1>7, <2>1 DEF CallbackUnschedule
<1>8. CASE RingStart
  <2>1. g_alarm_list' \subseteq Event
    BY <1>8 DEF RingStart, update_remaining, Event
  <2>2. QED
    BY <1>8, <2>1 DEF RingStart
<1>9. CASE FireSingle
  BY <1>9 DEF FireSingle, ToFire, Event
<1>10. CASE CallbackReturn
  BY <1>10 DEF CallbackReturn
<1>11. CASE RingEnd
  BY <1>11, RearmType DEF RingEnd
<1>12. CASE Tick
  <2>1. g_alarm_list' \subseteq Event /\ g_alarm_list_add_temp' \subseteq Event
    BY <1>12, AgedType DEF Tick
  <2>2. TempDelays'
    BY <1>12 DEF Tick, Aged, Event
  <2>3. call' \in CallType
    BY <1>12 DEF Tick, CallType, Countdown, Event
  <2>4. os_timer' \in Nat /\ sig_pending' \in BOOLEAN
    BY <1>12 DEF Tick, Countdown
  <2>5. QED
    BY <1>12, <2>1, <2>2, <2>3, <2>4 DEF Tick
<1>13. CASE UNCHANGED vars
  BY <1>13 DEF vars
<1>14. QED
  BY <1>1, <1>2, <1>3, <1>4, <1>5, <1>6, <1>7, <1>8, <1>9, <1>10, <1>11, <1>12,
     <1>13 DEF Next

LEMMA TypeInit == Init => TInv
<1>1. Init => call \in CallType
  BY DEF Init, CallType
<1>2. 0 \in 0..MaxId /\ 0 \in Nat
  OBVIOUS
<1>3. QED
  BY <1>1, <1>2, Zenon DEF Init, TInv, TypeOK, TempDelays

(* Every behaviour of the scheduler, with every timing hazard admitted, keeps
   the globals of sched_alarm.c and the kernel timer in their types; the
   timer is never set to a negative value.                                   *)
THEOREM TypeCorrect == Spec => []TypeOK
<1>1. TInv => TypeOK
  BY DEF TInv
<1>2. QED
  BY <1>1, TypeInit, TypeStep, PTL DEF Spec

-----------------------------------------------------------------------------
(* Ids name events: each is given out once, and a fired id never comes back. *)
FreshIds ==
    /\ \A id \in fired : id <= g_last_id
    /\ \A e \in Listed : e.id <= g_last_id
    /\ \A e, f \in g_alarm_list : e.id = f.id => e = f
    /\ \A e, f \in g_alarm_list_add_temp : e.id = f.id => e = f
    /\ \A e \in g_alarm_list, f \in g_alarm_list_add_temp : e.id # f.id
    /\ \A e \in g_alarm_list_add_temp : e.id \notin fired
    /\ call # NoCall => /\ call.event.id <= g_last_id
                        /\ call.event.id \notin fired
                        /\ \A e \in Listed : e.id # call.event.id

LEMMA FreshInit == Init => FreshIds
BY DEF Init, FreshIds, Listed

(* Events that only change in their other fields keep FreshIds. *)
LEMMA SameIds ==
  ASSUME FreshIds, UNCHANGED <<g_last_id, fired>>,
         call' = NoCall \/ (call # NoCall /\ call'.event.id = call.event.id),
         \A e \in g_alarm_list' : \E f \in g_alarm_list : e.id = f.id,
         \A e \in g_alarm_list_add_temp' : \E f \in g_alarm_list_add_temp : e.id = f.id,
         \A e, f \in g_alarm_list' : e.id = f.id => e = f,
         \A e, f \in g_alarm_list_add_temp' : e.id = f.id => e = f
  PROVE  FreshIds'
BY DEF FreshIds, Listed

(* The passing of time keeps the ids of a list, each once. *)
LEMMA AgedIds ==
  ASSUME NEW list, list \subseteq Event, \A e, f \in list : e.id = f.id => e = f
  PROVE  /\ \A e \in Aged(list) : \E f \in list : e.id = f.id
         /\ \A e, f \in Aged(list) : e.id = f.id => e = f
<1>1. ASSUME NEW e \in Aged(list)
      PROVE  \E f \in list : e.id = f.id /\ e = [f EXCEPT !.owed = Countdown(f.owed)]
  BY DEF Aged, Event
<1>2. ASSUME NEW e \in Aged(list), NEW f \in Aged(list), e.id = f.id PROVE e = f
  <2>1. PICK a \in list : e.id = a.id /\ e = [a EXCEPT !.owed = Countdown(a.owed)]
    BY <1>1
  <2>2. PICK b \in list : f.id = b.id /\ f = [b EXCEPT !.owed = Countdown(b.owed)]
    BY <1>1
  <2>3. a = b
    BY <1>2, <2>1, <2>2
  <2>4. QED
    BY <2>1, <2>2, <2>3
<1>3. QED
  BY <1>1, <1>2

(* Every action keeps the ids fresh, whatever races are admitted: a new event
   takes an id above all others, and rewriting a list keeps its ids. *)
LEMMA FreshStep == TypeOK /\ FreshIds /\ [Next]_vars => FreshIds'
<1> SUFFICES ASSUME TypeOK, FreshIds, [Next]_vars PROVE FreshIds'
  OBVIOUS
<1>0. /\ \A e \in Listed : e.id \in Nat /\ e.id <= g_last_id
      /\ \A id \in fired : id \in Nat /\ id <= g_last_id
      /\ call # NoCall => call.event.id \in Nat /\ call.event.id <= g_last_id
      /\ g_last_id \in Nat
  BY DEF TypeOK, FreshIds, Listed, Event, CallType
<1>1. ASSUME NEW secs \in Delay, ScheduleStop(secs) PROVE FreshIds'
  <2>1. /\ call' # NoCall /\ call'.event.id = g_last_id + 1 /\ g_last_id' = g_last_id + 1
        /\ UNCHANGED <<g_alarm_list, g_alarm_list_add_temp, fired>>
    BY <1>1 DEF ScheduleStop, NoCall, NewEvent
  <2>2. QED
    BY <1>0, <2>1 DEF FreshIds, Listed
<1>2. ASSUME NEW secs \in Delay, CallbackSchedule(secs) PROVE FreshIds'
  <2> DEFINE new == NewEvent(secs)
  <2>1. new.id = g_last_id + 1
    BY DEF NewEvent
  <2>2. /\ g_alarm_list_add_temp' = g_alarm_list_add_temp \cup {new}
        /\ g_last_id' = g_last_id + 1
        /\ UNCHANGED <<g_alarm_list, call, fired>>
    BY <1>2 DEF CallbackSchedule
  <2> HIDE DEF new
  <2>3. QED
    BY <1>0, <2>1, <2>2 DEF FreshIds, Listed
<1>3. CASE ScheduleArm \/ ScheduleRecord
  <2>1. call # NoCall /\ call'.event = call.event
    BY <1>3, InCall DEF ScheduleArm, ScheduleRecord, Step
  <2>2. UNCHANGED <<g_alarm_list, g_alarm_list_add_temp, g_last_id, fired>>
    BY <1>3 DEF ScheduleArm, ScheduleRecord
  <2>3. QED
    BY <2>1, <2>2 DEF FreshIds, Listed
<1>4. CASE ScheduleInsert
  <2>1. call # NoCall
    BY <1>4, InCall DEF ScheduleInsert, Step
  <2>2. QED
    BY <1>4, <2>1 DEF ScheduleInsert, FreshIds, Listed
<1>5. ASSUME NEW id \in 1..g_last_id, Unschedule(id) PROVE FreshIds'
  BY <1>5 DEF Unschedule, FreshIds, Listed
<1>6. ASSUME NEW id \in 1..g_last_id, CallbackUnschedule(id) PROVE FreshIds'
  <2>1. \A e \in g_alarm_list' : \E f \in g_alarm_list :
           e.id = f.id /\ e = IF f.id = id THEN [f EXCEPT !.marked_delete = TRUE] ELSE f
    BY <1>6 DEF CallbackUnschedule, TypeOK, Event
  <2>2. \A e, f \in g_alarm_list' : e.id = f.id => e = f
    <3> SUFFICES ASSUME NEW e \in g_alarm_list', NEW f \in g_alarm_list', e.id = f.id
                 PROVE  e = f
      OBVIOUS
    <3>1. PICK a \in g_alarm_list :
            e.id = a.id /\ e = IF a.id = id THEN [a EXCEPT !.marked_delete = TRUE] ELSE a
      BY <2>1
    <3>2. PICK b \in g_alarm_list :
            f.id = b.id /\ f = IF b.id = id THEN [b EXCEPT !.marked_delete = TRUE] ELSE b
      BY <2>1
    <3>3. a = b
      BY <3>1, <3>2 DEF FreshIds
    <3>4. QED
      BY <3>1, <3>2, <3>3
  <2>3. QED
    BY <1>6, <2>1, <2>2 DEF CallbackUnschedule, FreshIds, Listed
<1>7. CASE RingStart
  <2>1. \A e \in g_alarm_list' : \E f \in g_alarm_list :
           e.id = f.id /\ e = [f EXCEPT !.remaining = f.remaining - g_last_set_time]
    BY <1>7 DEF RingStart, update_remaining, TypeOK, Event
  <2>2. \A e, f \in g_alarm_list' : e.id = f.id => e = f
    BY <2>1 DEF FreshIds
  <2>3. QED
    BY <1>7, <2>1, <2>2 DEF RingStart, FreshIds, Listed
<1>8. CASE FireSingle
  <2>1. PICK e \in g_alarm_list : fired' = fired \cup {e.id}
    BY <1>8 DEF FireSingle, ToFire
  <2>2. QED
    BY <1>8, <2>1 DEF FireSingle, FreshIds, Listed
<1>9. CASE CallbackReturn
  BY <1>9 DEF CallbackReturn, FreshIds, Listed
<1>10. CASE RingEnd
  BY <1>10 DEF RingEnd, FreshIds, Listed
<1>11. CASE Tick
  <2>1. /\ \A e \in g_alarm_list' : \E f \in g_alarm_list : e.id = f.id
        /\ \A e, f \in g_alarm_list' : e.id = f.id => e = f
    BY <1>11, AgedIds DEF Tick, TypeOK, FreshIds
  <2>2. /\ \A e \in g_alarm_list_add_temp' : \E f \in g_alarm_list_add_temp : e.id = f.id
        /\ \A e, f \in g_alarm_list_add_temp' : e.id = f.id => e = f
    BY <1>11, AgedIds DEF Tick, TypeOK, FreshIds
  <2>3. call' = NoCall \/ (call # NoCall /\ call'.event.id = call.event.id)
    BY <1>11 DEF Tick, TypeOK, CallType, Event
  <2>4. UNCHANGED <<g_last_id, fired>>
    BY <1>11 DEF Tick
  <2>5. QED
    BY <2>1, <2>2, <2>3, <2>4, SameIds
<1>12. CASE UNCHANGED vars
  BY <1>12 DEF vars, FreshIds, Listed
<1>13. QED
  BY <1>1, <1>2, <1>3, <1>4, <1>5, <1>6, <1>7, <1>8, <1>9, <1>10, <1>11, <1>12 DEF Next

LEMMA FreshAlways == Spec => []FreshIds
BY FreshInit, FreshStep, TypeCorrect, PTL DEF Spec

-----------------------------------------------------------------------------
(* While no ring is under way, neither a fired nor a cancelled event is
   listed.  During a ring the fired ones are due and visited, the cancelled
   ones are marked and not due: the handler runs neither, and its clean-up
   (alarm_valid) removes both.                                              *)
Settled ==
    /\ callee # 0 => g_ringing
    /\ \A e \in g_alarm_list : e.id \in fired =>
          g_ringing /\ e.remaining <= 0 /\ e.id \in visited
    /\ \A id \in cancelled : id <= g_last_id
    /\ \A e \in g_alarm_list_add_temp : e.id \notin cancelled
    /\ call # NoCall => call.event.id \notin cancelled
    /\ \A e \in g_alarm_list : e.id \in cancelled =>
          g_ringing /\ e.remaining > 0 /\ e.marked_delete

LEMMA SettledInit == Init => Settled
BY DEF Init, Settled

(* Events that keep their id, and during a ring their remaining time and
   their mark, keep Settled when no history grows.                          *)
LEMMA SameSettled ==
  ASSUME Settled, UNCHANGED <<g_last_id, fired, cancelled, callee, g_ringing, visited>>,
         call' = NoCall \/ (call # NoCall /\ call'.event.id = call.event.id),
         \A e \in g_alarm_list' : \E f \in g_alarm_list :
            /\ e.id = f.id /\ e.remaining = f.remaining
            /\ e.marked_delete = f.marked_delete,
         \A e \in g_alarm_list_add_temp' : \E f \in g_alarm_list_add_temp : e.id = f.id
  PROVE  Settled'
BY DEF Settled

(* The fields the passing of time leaves alone. *)
LEMMA AgedFields ==
  ASSUME NEW list, list \subseteq Event
  PROVE  \A e \in Aged(list) : \E f \in list :
            /\ e.id = f.id /\ e.remaining = f.remaining
            /\ e.marked_delete = f.marked_delete
BY DEF Aged, Event

LEMMA SettledStep == TypeOK /\ FreshIds /\ Settled /\ [Next]_vars => Settled'
<1> SUFFICES ASSUME TypeOK, FreshIds, Settled, [Next]_vars PROVE Settled'
  OBVIOUS
<1>0. /\ g_last_id \in Nat
      /\ \A e \in Listed : e.id \in Nat /\ e.id <= g_last_id /\ e.remaining \in Int
      /\ \A id \in cancelled : id \in Nat /\ id <= g_last_id
  BY DEF TypeOK, FreshIds, Listed, Event, Settled
<1>1. ASSUME NEW secs \in Delay, ScheduleStop(secs) PROVE Settled'
  <2>1. /\ call' # NoCall /\ call'.event.id = g_last_id + 1 /\ g_last_id' = g_last_id + 1
        /\ UNCHANGED <<g_alarm_list, g_alarm_list_add_temp, fired, cancelled, callee,
                       g_ringing, visited>>
    BY <1>1 DEF ScheduleStop, NoCall, NewEvent
  <2>2. QED
    BY <1>0, <2>1 DEF Settled
<1>2. ASSUME NEW secs \in Delay, CallbackSchedule(secs) PROVE Settled'
  <2> DEFINE new == NewEvent(secs)
  <2>1. new.id = g_last_id + 1
    BY DEF NewEvent
  <2>2. /\ g_alarm_list_add_temp' = g_alarm_list_add_temp \cup {new}
        /\ g_last_id' = g_last_id + 1
        /\ UNCHANGED <<g_alarm_list, call, fired, cancelled, callee, g_ringing, visited>>
    BY <1>2 DEF CallbackSchedule
  <2> HIDE DEF new
  <2>3. QED
    BY <1>0, <2>1, <2>2 DEF Settled
<1>3. CASE ScheduleArm \/ ScheduleRecord
  <2>1. call # NoCall /\ call'.event = call.event
    BY <1>3, InCall DEF ScheduleArm, ScheduleRecord, Step
  <2>2. UNCHANGED <<g_alarm_list, g_alarm_list_add_temp, g_last_id, fired, cancelled,
                    callee, g_ringing, visited>>
    BY <1>3 DEF ScheduleArm, ScheduleRecord
  <2>3. QED
    BY <2>1, <2>2, SameSettled
<1>4. CASE ScheduleInsert
  <2>1. call # NoCall /\ call' = NoCall
    BY <1>4, InCall DEF ScheduleInsert, Step
  <2>2. call.event.id \notin fired /\ call.event.id \notin cancelled
    BY <2>1 DEF FreshIds, Settled
  <2>3. QED
    BY <1>4, <2>1, <2>2 DEF ScheduleInsert, Settled
<1>5. ASSUME NEW id \in 1..g_last_id, Unschedule(id) PROVE Settled'
  <2>1. /\ call' = NoCall /\ ~g_ringing /\ id <= g_last_id
        /\ g_alarm_list' = {e \in g_alarm_list : e.id # id}
        /\ cancelled' \subseteq cancelled \cup {id}
        /\ id \in cancelled' => id \in cancelled \/ \E e \in g_alarm_list : e.id = id
        /\ UNCHANGED <<g_alarm_list_add_temp, g_last_id, g_ringing, callee, visited, fired>>
    BY <1>5 DEF Unschedule, MainIdle, Ids
  <2>2. \A e \in g_alarm_list_add_temp : e.id \notin cancelled'
    BY <2>1 DEF FreshIds, Settled
  <2>3. QED
    BY <2>1, <2>2 DEF Settled
<1>6. ASSUME NEW id \in 1..g_last_id, CallbackUnschedule(id) PROVE Settled'
  <2>1. \A e \in g_alarm_list' : \E f \in g_alarm_list :
           /\ e.id = f.id /\ e.remaining = f.remaining
           /\ f.marked_delete \/ f.id = id => e.marked_delete
    BY <1>6 DEF CallbackUnschedule, TypeOK, Event
  <2>2. /\ g_ringing /\ id <= g_last_id
        /\ UNCHANGED <<g_alarm_list_add_temp, g_last_id, g_ringing, call, callee, visited,
                       fired>>
    BY <1>6 DEF CallbackUnschedule, Settled
  <2>3. \A c \in cancelled' : c \in cancelled \/
           (c = id /\ \E e \in g_alarm_list : e.id = id /\ e.remaining > 0)
    BY <1>6 DEF CallbackUnschedule, Ids
  <2>4. /\ \A c \in cancelled' : c <= g_last_id
        /\ \A e \in g_alarm_list_add_temp : e.id \notin cancelled'
        /\ call # NoCall => call.event.id \notin cancelled'
    BY <2>2, <2>3 DEF FreshIds, Listed, Settled
  <2>5. ASSUME NEW e \in g_alarm_list', e.id \in cancelled'
        PROVE  e.remaining > 0 /\ e.marked_delete
    <3>1. PICK f \in g_alarm_list : /\ e.id = f.id /\ e.remaining = f.remaining
                                    /\ f.marked_delete \/ f.id = id => e.marked_delete
      BY <2>1
    <3>2. CASE e.id \in cancelled
      BY <3>1, <3>2 DEF Settled
    <3>3. CASE e.id = id /\ \E d \in g_alarm_list : d.id = id /\ d.remaining > 0
      BY <3>1, <3>3 DEF FreshIds
    <3>4. QED
      BY <2>3, <2>5, <3>2, <3>3
  <2>6. \A e \in g_alarm_list' : e.id \in fired => e.remaining <= 0 /\ e.id \in visited
    BY <2>1 DEF Settled
  <2>7. QED
    BY <2>2, <2>4, <2>5, <2>6 DEF Settled
<1>7. CASE RingStart
  <2>1. \A e \in g_alarm_list : e.id \notin fired /\ e.id \notin cancelled
    BY <1>7 DEF RingStart, Settled
  <2>2. \A e \in g_alarm_list' : \E f \in g_alarm_list : e.id = f.id
    BY <1>7 DEF RingStart, update_remaining, TypeOK, Event
  <2>3. QED
    BY <1>7, <2>1, <2>2 DEF RingStart, Settled
<1>8. CASE FireSingle
  <2>1. PICK e \in g_alarm_list :
          /\ e.remaining <= 0
          /\ fired' = fired \cup {e.id} /\ visited' = visited \cup {e.id}
    BY <1>8 DEF FireSingle, ToFire
  <2>2. \A f \in g_alarm_list : f.id = e.id => f = e
    BY DEF FreshIds
  <2>3. QED
    BY <1>8, <2>1, <2>2 DEF FireSingle, Settled
<1>9. CASE CallbackReturn
  BY <1>9 DEF CallbackReturn, Settled
<1>10. CASE RingEnd
  <2>1. \A e \in g_alarm_list' :
           \/ e \in g_alarm_list /\ e.remaining > 0 /\ ~e.marked_delete
           \/ e \in g_alarm_list_add_temp
    BY <1>10 DEF RingEnd, alarm_valid
  <2>2. \A e \in g_alarm_list' : e.id \notin fired /\ e.id \notin cancelled
    BY <1>0, <2>1 DEF Settled, FreshIds, Listed
  <2>3. QED
    BY <1>10, <2>2 DEF RingEnd, Settled
<1>11. CASE Tick
  <2>1. /\ g_alarm_list' = Aged(g_alarm_list)
        /\ g_alarm_list_add_temp' = Aged(g_alarm_list_add_temp)
        /\ UNCHANGED <<g_last_id, fired, cancelled, callee, g_ringing, visited>>
    BY <1>11 DEF Tick
  <2>2. call' = NoCall \/ (call # NoCall /\ call'.event.id = call.event.id)
    BY <1>11 DEF Tick, TypeOK, CallType, Event
  <2>3. QED
    BY <2>1, <2>2, AgedFields, SameSettled DEF TypeOK
<1>12. CASE UNCHANGED vars
  BY <1>12 DEF vars, Settled
<1>13. QED
  BY <1>1, <1>2, <1>3, <1>4, <1>5, <1>6, <1>7, <1>8, <1>9, <1>10, <1>11, <1>12 DEF Next

LEMMA SettledAlways == Spec => []Settled
BY SettledInit, SettledStep, TypeCorrect, FreshAlways, PTL DEF Spec

(* With every timing hazard admitted, an event whose func was called is in no
   list at rest: alarm_valid drops it although the callback may have scheduled
   and cancelled others meanwhile, and no later ring can fire it again.       *)
FiredAreGone == MainIdle => fired \cap Ids(g_alarm_list) = {}

THEOREM FiredAreGoneHolds == Spec => []FiredAreGone
<1>1. Settled => FiredAreGone
  BY DEF Settled, FiredAreGone, MainIdle, Ids
<1>2. QED
  BY <1>1, SettledAlways, PTL

(* A func starts only for a listed, due event that this ring has not visited. *)
LEMMA FiresOnlyDue ==
  ASSUME TypeOK, Settled, [Next]_vars, callee' # callee, callee' # 0
  PROVE  \E e \in g_alarm_list :
            callee' = e.id /\ e.remaining \in Int /\ e.remaining <= 0 /\ e.id \notin visited
<1>1. FireSingle
  BY DEF Next, vars, ScheduleStop, CallbackSchedule, ScheduleArm, ScheduleRecord,
         ScheduleInsert, Unschedule, CallbackUnschedule, RingStart, CallbackReturn,
         RingEnd, Tick
<1>2. QED
  BY <1>1 DEF FireSingle, ToFire, TypeOK, Event

(* unschedule_alarm is honoured, with every timing hazard admitted: the func of
   an event the main flow removed, or a callback marked before it was due, is
   not called in this ring or in a later one.                                *)
THEOREM CancelledNeverFiresHolds == Spec => CancelledNeverFires
<1>1. TypeOK /\ Settled /\ [Next]_vars =>
         [callee' # callee /\ callee' # 0 => callee' \notin cancelled]_vars
  BY FiresOnlyDue DEF Settled
<1>2. QED
  BY <1>1, TypeCorrect, SettledAlways, PTL DEF Spec, CancelledNeverFires

(* fire_single never calls the func of one schedule_alarm twice, with every
   timing hazard admitted: not within a ring, where the node stays listed after
   its func returned, and not in a later ring.                               *)
THEOREM FiredOnce ==
  Spec => [][callee' # callee /\ callee' # 0 => callee' \notin fired]_vars
<1>1. TypeOK /\ Settled /\ [Next]_vars =>
         [callee' # callee /\ callee' # 0 => callee' \notin fired]_vars
  BY FiresOnlyDue DEF Settled
<1>2. QED
  BY <1>1, TypeCorrect, SettledAlways, PTL DEF Spec

-----------------------------------------------------------------------------
(* Each action preserves TimeInv; one lemma per group of actions. *)
LEMMA StopStep ==
  ASSUME TypeOK, TypeOK', TimeInv, NEW secs \in Delay, ScheduleStop(secs)
  PROVE  TimeInv'
<1> USE DEF TypeOK, TimeInv, ScheduleStop, MainIdle
<1>1. call = NoCall /\ call.step = "none"
  BY DEF NoCall
<1>2. /\ call'.step = "stopped" /\ call' # NoCall
      /\ call'.event = NewEvent(secs)
  BY DEF NoCall
<1>3. Phases'
  BY <1>1, <1>2 DEF Phases
<1>4. Elapsed \in Nat /\ Elapsed' \in Nat /\ Elapsed' <= Elapsed
  BY <1>1, <1>2 DEF Elapsed, Phases
<1>5. Credit'
  BY <1>1, <1>2, <1>4 DEF Credit, NewEvent, Event
<1>6. NeverEarly'
  BY DEF NeverEarly
<1>7. QED
  BY <1>3, <1>5, <1>6

LEMMA ArmStep ==
  ASSUME TypeOK, TypeOK', TimeInv, ScheduleArm PROVE TimeInv'
<1> USE DEF TypeOK, TimeInv, ScheduleArm, MainRuns
<1>1. call \in [step : Step, event : Event, time : Nat] /\ call # NoCall
  BY InCall DEF Step
<1>2. call'.step = "armed" /\ call'.event = call.event
  BY <1>1 DEF Step
<1>3. Elapsed \in Nat /\ Elapsed' = 0
  BY <1>1, <1>2 DEF Elapsed, Phases
<1>4. Phases'
  BY <1>1, <1>2 DEF Phases
<1>5. Credit'
  BY <1>1, <1>2, <1>3 DEF Credit, Event
<1>6. NeverEarly'
  BY DEF NeverEarly
<1>7. QED
  BY <1>4, <1>5, <1>6

LEMMA RecordStep ==
  ASSUME TypeOK, TypeOK', TimeInv, ScheduleRecord PROVE TimeInv'
<1> USE DEF TypeOK, TimeInv, ScheduleRecord, MainRuns
<1>1. call \in [step : Step, event : Event, time : Nat] /\ call # NoCall
  BY InCall DEF Step
<1>2. call'.step = "recorded" /\ call'.event = call.event
  BY <1>1 DEF Step
<1>3. Phases'
  BY <1>1, <1>2 DEF Phases
<1>4. Elapsed = 0 /\ Elapsed' = 0
  BY <1>1, <1>2 DEF Elapsed, Phases
<1>5. Credit'
  BY <1>1, <1>2, <1>4 DEF Credit, Event
<1>6. NeverEarly'
  BY DEF NeverEarly
<1>7. QED
  BY <1>3, <1>5, <1>6

LEMMA InsertStep ==
  ASSUME TypeOK, TypeOK', FreshIds, TimeInv, ScheduleInsert PROVE TimeInv'
<1> USE DEF TypeOK, TimeInv, ScheduleInsert, MainRuns
<1>1. call \in [step : Step, event : Event, time : Nat] /\ call # NoCall
  BY InCall DEF Step
<1>2. call' = NoCall /\ call'.step = "none"
  BY DEF NoCall
<1>3. Phases'
  BY <1>1, <1>2 DEF Phases
<1>4. Elapsed = 0 /\ Elapsed' = 0
  BY <1>1, <1>2 DEF Elapsed, Phases
<1>5. Credit'
  BY <1>1, <1>2, <1>4 DEF Credit, Event
<1>6. NeverEarly'
  BY <1>1 DEF NeverEarly, FreshIds
<1>7. QED
  BY <1>3, <1>5, <1>6

LEMMA UnscheduleStep ==
  ASSUME TypeOK, TypeOK', TimeInv, NEW id \in 1..g_last_id,
         Unschedule(id) \/ CallbackUnschedule(id)
  PROVE  TimeInv'
<1>0. /\ UNCHANGED <<g_alarm_list_add_temp, g_last_id, g_ringing, g_last_set_time,
                     call, callee, os_timer, sig_pending, fired>>
      /\ \A e \in g_alarm_list' : \E f \in g_alarm_list :
           e.id = f.id /\ e.owed = f.owed /\ e.remaining = f.remaining
  BY DEF Unschedule, CallbackUnschedule, TypeOK, Event
<1>1. Phases'
  BY <1>0 DEF TimeInv, Phases
<1>2. Credit'
  BY <1>0 DEF TimeInv, Credit, Elapsed
<1>3. NeverEarly'
  BY <1>0 DEF TimeInv, NeverEarly
<1>4. QED
  BY <1>1, <1>2, <1>3 DEF TimeInv

LEMMA RingStartStep ==
  ASSUME TypeOK, TypeOK', TimeInv, RingStart PROVE TimeInv'
<1> USE DEF TypeOK, TimeInv, RingStart
<1>1. Phases'
  BY DEF Phases
<1>2. Elapsed = g_last_set_time /\ Elapsed' = 0
  BY DEF Elapsed, Phases
<1>3. \A e \in g_alarm_list' : \E f \in g_alarm_list :
         /\ e = [f EXCEPT !.remaining = f.remaining - g_last_set_time]
         /\ e.id = f.id /\ e.owed = f.owed /\ e.remaining = f.remaining - g_last_set_time
  BY DEF update_remaining, Event
<1>4. Credit'
  BY <1>2, <1>3 DEF Credit, Event
<1>5. NeverEarly'
  BY <1>3 DEF NeverEarly
<1>6. QED
  BY <1>1, <1>4, <1>5

LEMMA FireStep ==
  ASSUME TypeOK, TypeOK', FreshIds, TimeInv, FireSingle PROVE TimeInv'
<1> USE DEF TypeOK, TimeInv, FireSingle
<1>1. PICK e \in g_alarm_list : e.remaining <= 0 /\ fired' = fired \cup {e.id}
  BY DEF ToFire
<1>2. Phases'
  BY DEF Phases
<1>3. Credit'
  BY DEF Credit, Elapsed
<1>4. e.owed = 0
  <2>1. Elapsed = 0
    BY DEF Elapsed, Phases
  <2>2. QED
    BY <1>1, <2>1 DEF Credit, Event
<1>5. NeverEarly'
  BY <1>1, <1>4 DEF NeverEarly, FreshIds
<1>6. QED
  BY <1>2, <1>3, <1>5

LEMMA CallbackStep ==
  ASSUME TypeOK, TypeOK', TimeInv,
         CallbackReturn \/ \E secs \in Delay : CallbackSchedule(secs)
  PROVE  TimeInv'
<1>1. CASE CallbackReturn
  BY <1>1 DEF CallbackReturn, TypeOK, TimeInv, Phases, Credit, Elapsed,
              NeverEarly
<1>2. ASSUME NEW secs \in Delay, CallbackSchedule(secs) PROVE TimeInv'
  <2>1. Phases'
    BY <1>2 DEF CallbackSchedule, TypeOK, TimeInv, Phases
  <2>2. Credit'
    BY <1>2 DEF CallbackSchedule, TypeOK, TimeInv, Credit, Elapsed, NewEvent
  <2>3. NeverEarly'
    BY <1>2 DEF CallbackSchedule, TimeInv, NeverEarly
  <2>4. QED
    BY <2>1, <2>2, <2>3 DEF TimeInv
<1>3. QED
  BY <1>1, <1>2

LEMMA RingEndStep ==
  ASSUME TypeOK, TypeOK', FreshIds, TimeInv, RingEnd PROVE TimeInv'
<1> USE DEF TypeOK, TimeInv, RingEnd
<1>1. os_timer' = g_last_set_time' /\ Elapsed = 0
  BY DEF Elapsed, Phases
<1>2. call.step # "armed" /\ call.step # "recorded"
  BY DEF Phases
<1>3. Elapsed' = 0
  BY <1>1, <1>2 DEF Elapsed, Phases
<1>4. Phases'
  BY <1>1, <1>2 DEF Phases
<1>5. Credit'
  BY <1>1, <1>3 DEF Credit, Event
<1>6. NeverEarly'
  BY DEF NeverEarly, FreshIds
<1>7. QED
  BY <1>4, <1>5, <1>6

LEMMA TickStep ==
  ASSUME TypeOK, TypeOK', TimeInv, Tick, "stall" \notin Races PROVE TimeInv'
<1> USE DEF TypeOK, TimeInv
<1>1. /\ call = NoCall /\ call' = NoCall /\ call.step = "none"
      /\ UNCHANGED <<g_last_id, g_ringing, g_last_set_time, callee, fired>>
  BY DEF Tick, NoCall
<1>2. os_timer' = Countdown(os_timer) /\ sig_pending' = (sig_pending \/ os_timer = 1)
  BY DEF Tick
<1>3. Phases'
  BY <1>1, <1>2 DEF Phases, Countdown
<1>4. /\ \A e \in g_alarm_list' : \E f \in g_alarm_list :
           /\ e = [f EXCEPT !.owed = Countdown(f.owed)]
           /\ e.id = f.id /\ e.remaining = f.remaining /\ e.owed = Countdown(f.owed)
      /\ \A e \in g_alarm_list_add_temp' : \E f \in g_alarm_list_add_temp :
           /\ e = [f EXCEPT !.owed = Countdown(f.owed)]
           /\ e.id = f.id /\ e.remaining = f.remaining /\ e.owed = Countdown(f.owed)
  BY DEF Tick, Aged, Event
<1>5. Elapsed \in Nat /\ Elapsed' \in Nat /\ Elapsed' <= Elapsed + 1
  BY <1>1, <1>2, <1>3 DEF Elapsed, Phases, Countdown
<1>6. Credit'
  BY <1>1, <1>4, <1>5 DEF Credit, Countdown, Event
<1>7. NeverEarly'
  BY <1>1, <1>4 DEF NeverEarly, Countdown
<1>8. QED
  BY <1>3, <1>6, <1>7

LEMMA TimeInit == Init => TimeInv
BY DEF Init, TimeInv, Phases, Credit, Elapsed, NeverEarly, NoCall

LEMMA TimeAlways ==
  ASSUME "stall" \notin Races
  PROVE  Spec => []TimeInv
<1>1. TypeOK /\ TypeOK' /\ FreshIds /\ TimeInv /\ [Next]_vars => TimeInv'
  <2> SUFFICES ASSUME TypeOK, TypeOK', FreshIds, TimeInv, [Next]_vars PROVE TimeInv'
    OBVIOUS
  <2>1. CASE UNCHANGED vars
    BY <2>1 DEF vars, TimeInv, Phases, Credit, Elapsed, NeverEarly
  <2>2. QED
    BY <2>1, StopStep, ArmStep, RecordStep, InsertStep, UnscheduleStep, RingStartStep,
       FireStep, CallbackStep, RingEndStep, TickStep DEF Next
<1>2. QED
  BY <1>1, TimeInit, TypeCorrect, FreshAlways, PTL DEF Spec

(* The scheduler never calls a func early: for every set of delays (zero
   included), any interleaving of the main flow with the signal handler, a
   timer that expires inside alarm(0), slow callbacks and rounded times, as
   long as schedule_alarm itself does not stall for a second.                *)
THEOREM NeverEarlyHolds ==
  ASSUME "stall" \notin Races
  PROVE  Spec => []NeverEarly
<1>1. TimeInv => NeverEarly
  BY DEF TimeInv
<1>2. QED
  BY <1>1, TimeAlways, PTL

-----------------------------------------------------------------------------
(* Outside the handler the timer was set to no more than any listed event's
   remaining time, and it runs unless its signal is already raised.          *)
Covered ==
    ~g_ringing =>
       \A e \in g_alarm_list : 0 < g_last_set_time /\ g_last_set_time <= e.remaining

Running ==
    /\ call = NoCall /\ ~g_ringing => os_timer <= g_last_set_time
    /\ call = NoCall /\ ~g_ringing /\ ~sig_pending /\ g_alarm_list # {} => os_timer > 0

(* A schedule_alarm call in progress is not interrupted, and arms the timer
   for no more than the remaining time of its own and of every listed event. *)
CallCovers ==
    call # NoCall =>
       /\ ~sig_pending /\ ~g_ringing
       /\ 0 < call.time /\ call.time <= call.event.remaining
       /\ \A e \in g_alarm_list : call.time <= e.remaining
       /\ call.step = "armed" => os_timer = call.time
       /\ call.step = "recorded" => os_timer = call.time /\ g_last_set_time = call.time

TempPositive == \A e \in g_alarm_list_add_temp : e.remaining > 0

ArmInv ==
    /\ callee # 0 => g_ringing
    /\ g_ringing => ~sig_pending
    /\ sig_pending \/ g_ringing => os_timer = 0
    /\ Covered /\ Running /\ CallCovers /\ TempPositive

LEMMA ArmInit == Init => ArmInv
BY DEF Init, ArmInv, Covered, Running, CallCovers, TempPositive

LEMMA ArmStopStep ==
  ASSUME TypeOK, TypeOK', ArmInv, 0 \notin Delay, "expiry" \notin Races,
         NEW secs \in Delay, ScheduleStop(secs)
  PROVE  ArmInv'
<1> USE DEF TypeOK, ArmInv, ScheduleStop, MainIdle
<1>1. PICK left \in TimeLeft :
        call' = [step |-> "stopped", event |-> NewEvent(secs),
                 time |-> NextSetTime(left, secs)]
  OBVIOUS
<1>2. /\ call' # NoCall /\ call'.step = "stopped"
      /\ call'.time = NextSetTime(left, secs) /\ call'.event.remaining = secs
  BY <1>1 DEF NoCall, NewEvent
<1>3. left \in Nat /\ left <= g_last_set_time /\ (left = 0 => os_timer = 0)
  BY DEF TimeLeft, Running
<1>4. left = 0 => g_alarm_list = {}
  BY <1>3 DEF Running
<1>5. /\ 0 < NextSetTime(left, secs) /\ NextSetTime(left, secs) <= secs
      /\ left # 0 => NextSetTime(left, secs) <= left
  BY <1>3 DEF NextSetTime
<1>6. \A e \in g_alarm_list : NextSetTime(left, secs) <= e.remaining
  BY <1>3, <1>4, <1>5, NextSetTimeType DEF Covered, Event
<1>7. CallCovers'
  BY <1>2, <1>5, <1>6 DEF CallCovers
<1>8. QED
  BY <1>2, <1>7 DEF Covered, Running, TempPositive

LEMMA ArmScheduleStep ==
  ASSUME TypeOK, TypeOK', ArmInv, ScheduleArm \/ ScheduleRecord \/ ScheduleInsert
  PROVE  ArmInv'
<1>1. call \in [step : Step, event : Event, time : Nat] /\ call # NoCall
  BY InCall DEF ScheduleArm, ScheduleRecord, ScheduleInsert, Step
<1> USE DEF TypeOK, ArmInv, MainRuns
<1>2. CASE ScheduleArm
  BY <1>1, <1>2 DEF ScheduleArm, NoCall, CallCovers, Covered, Running, TempPositive
<1>3. CASE ScheduleRecord
  BY <1>1, <1>3 DEF ScheduleRecord, NoCall, CallCovers, Covered, Running, TempPositive
<1>4. CASE ScheduleInsert
  BY <1>1, <1>4 DEF ScheduleInsert, CallCovers, Covered, Running, TempPositive
<1>5. QED
  BY <1>2, <1>3, <1>4

LEMMA ArmUnscheduleStep ==
  ASSUME TypeOK, TypeOK', ArmInv, NEW id \in 1..g_last_id,
         Unschedule(id) \/ CallbackUnschedule(id)
  PROVE  ArmInv'
<1> USE DEF TypeOK, ArmInv
<1>1. CASE Unschedule(id)
  BY <1>1 DEF Unschedule, MainIdle, CallCovers, Covered, Running, TempPositive
<1>2. CASE CallbackUnschedule(id)
  BY <1>2 DEF CallbackUnschedule, CallCovers, Covered, Running, TempPositive
<1>3. QED
  BY <1>1, <1>2

LEMMA ArmHandlerStep ==
  ASSUME TypeOK, TypeOK', ArmInv, 0 \notin Delay,
         \/ RingStart \/ FireSingle \/ CallbackReturn
         \/ \E secs \in Delay : CallbackSchedule(secs)
  PROVE  ArmInv'
<1> USE DEF TypeOK, ArmInv
<1>1. CASE RingStart
  BY <1>1 DEF RingStart, CallCovers, Covered, Running, TempPositive
<1>2. CASE FireSingle
  BY <1>2 DEF FireSingle, CallCovers, Covered, Running, TempPositive
<1>3. CASE CallbackReturn
  BY <1>3 DEF CallbackReturn, CallCovers, Covered, Running, TempPositive
<1>4. ASSUME NEW secs \in Delay, CallbackSchedule(secs) PROVE ArmInv'
  <2>1. NewEvent(secs).remaining > 0
    BY DEF NewEvent
  <2>2. QED
    BY <1>4, <2>1 DEF CallbackSchedule, CallCovers, Covered, Running, TempPositive
<1>5. QED
  BY <1>1, <1>2, <1>3, <1>4

(* At the end of a ring every surviving node has time left, so the nonzero
   minimum that find_min_remaining takes is the minimum.                     *)
LEMMA ArmRingEndStep ==
  ASSUME TypeOK, TypeOK', ArmInv, RingEnd PROVE ArmInv'
<1> USE DEF TypeOK, ArmInv
<1>1. \A e \in g_alarm_list' : e.remaining \in Int /\ e.remaining > 0
  BY DEF RingEnd, alarm_valid, TempPositive, Event
<1>2. \A m \in find_min_remaining(g_alarm_list') :
         m > 0 /\ \A e \in g_alarm_list' : m <= e.remaining
  BY <1>1 DEF find_min_remaining
<1>3. /\ os_timer' = g_last_set_time' /\ os_timer' > 0
      /\ \A e \in g_alarm_list' : g_last_set_time' <= e.remaining
  BY <1>2 DEF RingEnd
<1>4. /\ call' = NoCall /\ callee' = 0 /\ ~g_ringing' /\ ~sig_pending'
      /\ g_alarm_list_add_temp' = {}
  BY DEF RingEnd, CallCovers
<1>5. QED
  BY <1>3, <1>4 DEF CallCovers, Covered, Running, TempPositive

LEMMA ArmTickStep ==
  ASSUME TypeOK, TypeOK', ArmInv, Tick, "stall" \notin Races PROVE ArmInv'
<1> USE DEF TypeOK, ArmInv
<1>1. /\ call = NoCall /\ call' = NoCall
      /\ UNCHANGED <<g_ringing, g_last_set_time, callee>>
      /\ os_timer' = Countdown(os_timer) /\ sig_pending' = (sig_pending \/ os_timer = 1)
      /\ g_ringing => ~sig_pending
  BY DEF Tick
<1>2. /\ \A e \in g_alarm_list' : \E f \in g_alarm_list : e.remaining = f.remaining
      /\ \A e \in g_alarm_list_add_temp' : \E f \in g_alarm_list_add_temp :
            e.remaining = f.remaining
  BY DEF Tick, Aged, Event
<1>3. TempPositive' /\ Covered' /\ CallCovers'
  BY <1>1, <1>2 DEF CallCovers, Covered, TempPositive
<1>4. Running'
  <2>1. ~sig_pending' => ~sig_pending /\ os_timer # 1
    BY <1>1
  <2>2. g_alarm_list' # {} => g_alarm_list # {}
    BY <1>2
  <2>3. QED
    BY <1>1, <2>1, <2>2 DEF Running, Countdown
<1>5. /\ callee' # 0 => g_ringing'
      /\ g_ringing' => ~sig_pending'
      /\ sig_pending' \/ g_ringing' => os_timer' = 0
  BY <1>1 DEF Countdown
<1>6. QED
  BY <1>3, <1>4, <1>5

(* The promise of sched_alarm.h, "always set alarm() to time to nearest
   event": with positive delays, and a schedule_alarm that is neither
   interrupted nor stalled, a listed event always has a running timer that
   rings no later than its remaining time, so none is ever stranded.         *)
THEOREM NearestEventArmedHolds ==
  ASSUME 0 \notin Delay, Races \cap {"stall", "expiry"} = {}
  PROVE  Spec => []NearestEventArmed
<1>1. TypeOK /\ TypeOK' /\ ArmInv /\ [Next]_vars => ArmInv'
  <2> SUFFICES ASSUME TypeOK, TypeOK', ArmInv, [Next]_vars PROVE ArmInv'
    OBVIOUS
  <2>1. CASE UNCHANGED vars
    BY <2>1 DEF vars, ArmInv, Covered, Running, CallCovers, TempPositive
  <2>2. QED
    BY <2>1, ArmStopStep, ArmScheduleStep, ArmUnscheduleStep, ArmHandlerStep,
       ArmRingEndStep, ArmTickStep DEF Next
<1>2. TypeOK /\ ArmInv => NearestEventArmed
  BY DEF TypeOK, ArmInv, Covered, Running, NearestEventArmed, MainIdle, Event
<1>3. QED
  BY <1>1, <1>2, ArmInit, TypeCorrect, PTL DEF Spec
-----------------------------------------------------------------------------
(* Marks are set by callbacks and are gone when the handler is done.  A marked
   event that is not due was cancelled, and what a ring has visited was called. *)
MarkInv ==
    /\ visited \subseteq fired
    /\ \A e \in g_alarm_list : e.marked_delete =>
          g_ringing /\ (e.remaining > 0 => e.id \in cancelled)
    /\ \A e \in g_alarm_list_add_temp : ~e.marked_delete
    /\ call # NoCall => ~call.event.marked_delete

LEMMA MarkInit == Init => MarkInv
BY DEF Init, MarkInv

LEMMA MarkStep == TypeOK /\ Settled /\ MarkInv /\ [Next]_vars => MarkInv'
<1> SUFFICES ASSUME TypeOK, Settled, MarkInv, [Next]_vars PROVE MarkInv'
  OBVIOUS
<1>1. ASSUME NEW secs \in Delay, ScheduleStop(secs) PROVE MarkInv'
  BY <1>1 DEF ScheduleStop, NewEvent, NoCall, MarkInv
<1>2. ASSUME NEW secs \in Delay, CallbackSchedule(secs) PROVE MarkInv'
  <2>1. ~NewEvent(secs).marked_delete
    BY DEF NewEvent
  <2>2. QED
    BY <1>2, <2>1 DEF CallbackSchedule, MarkInv
<1>3. CASE ScheduleArm \/ ScheduleRecord
  <2>1. call # NoCall /\ call'.event = call.event
    BY <1>3, InCall DEF ScheduleArm, ScheduleRecord, Step
  <2>2. QED
    BY <1>3, <2>1 DEF ScheduleArm, ScheduleRecord, MarkInv
<1>4. CASE ScheduleInsert
  <2>1. call # NoCall
    BY <1>4, InCall DEF ScheduleInsert, Step
  <2>2. QED
    BY <1>4, <2>1 DEF ScheduleInsert, MarkInv
<1>5. ASSUME NEW id \in 1..g_last_id, Unschedule(id) PROVE MarkInv'
  BY <1>5 DEF Unschedule, MarkInv
<1>6. ASSUME NEW id \in 1..g_last_id, CallbackUnschedule(id) PROVE MarkInv'
  <2>1. \A e \in g_alarm_list' : \E f \in g_alarm_list :
           /\ e.id = f.id /\ e.remaining = f.remaining
           /\ e.marked_delete => f.marked_delete \/ f.id = id
    BY <1>6 DEF CallbackUnschedule, TypeOK, Event
  <2>2. cancelled \subseteq cancelled'
        /\ \A f \in g_alarm_list : f.id = id /\ f.remaining > 0 => f.id \in cancelled'
    BY <1>6 DEF CallbackUnschedule, Ids
  <2>3. g_ringing /\ g_ringing'
    BY <1>6 DEF CallbackUnschedule, Settled
  <2>4. \A e \in g_alarm_list' : e.marked_delete =>
           g_ringing' /\ (e.remaining > 0 => e.id \in cancelled')
    BY <2>1, <2>2, <2>3 DEF MarkInv
  <2>5. QED
    BY <1>6, <2>4 DEF CallbackUnschedule, MarkInv
<1>7. CASE RingStart
  <2>1. \A e \in g_alarm_list' : \E f \in g_alarm_list : e.marked_delete = f.marked_delete
    BY <1>7 DEF RingStart, update_remaining, TypeOK, Event
  <2>2. \A e \in g_alarm_list' : ~e.marked_delete
    BY <1>7, <2>1 DEF RingStart, MarkInv
  <2>3. QED
    BY <1>7, <2>2 DEF RingStart, MarkInv
<1>8. CASE FireSingle
  BY <1>8 DEF FireSingle, MarkInv
<1>9. CASE CallbackReturn
  BY <1>9 DEF CallbackReturn, MarkInv
<1>10. CASE RingEnd
  BY <1>10 DEF RingEnd, alarm_valid, MarkInv
<1>11. CASE Tick
  <2>1. /\ \A e \in g_alarm_list' : \E f \in g_alarm_list :
              e.id = f.id /\ e.remaining = f.remaining /\ e.marked_delete = f.marked_delete
        /\ \A e \in g_alarm_list_add_temp' : \E f \in g_alarm_list_add_temp :
              e.marked_delete = f.marked_delete
    BY <1>11, AgedFields DEF Tick, TypeOK
  <2>2. call' = NoCall \/ (call # NoCall /\ call'.event.marked_delete = call.event.marked_delete)
    BY <1>11 DEF Tick, TypeOK, CallType, Event
  <2>3. QED
    BY <1>11, <2>1, <2>2 DEF Tick, MarkInv
<1>12. CASE UNCHANGED vars
  BY <1>12 DEF vars, MarkInv
<1>13. QED
  BY <1>1, <1>2, <1>3, <1>4, <1>5, <1>6, <1>7, <1>8, <1>9, <1>10, <1>11, <1>12 DEF Next

-----------------------------------------------------------------------------
(* What the service has waiting, before and after a step. *)
LEMMA WaitingIs ==
  /\ \A w : w \in Waiting <=> \E e \in Events : Waits(e) /\ w = Seen(e)
  /\ \A w : w \in Waiting' <=> \E e \in Events' : Waits(e)' /\ w = Seen(e)
BY DEF Waiting, Waits, Seen

(* An event is in one place only, and is known by its id. *)
LEMMA EventsApart ==
  ASSUME FreshIds
  PROVE  /\ \A e, f \in Events : e.id = f.id => e = f
         /\ \A e \in Events : e.id <= g_last_id
BY DEF FreshIds, Events, Listed

LEMMA SeenApart ==
  ASSUME NEW e, NEW f, Seen(e) = Seen(f)
  PROVE  e.id = f.id /\ e.owed = f.owed
<1>1. Seen(e).id = e.id /\ Seen(f).id = f.id /\ Seen(e).owed = e.owed /\ Seen(f).owed = f.owed
  BY DEF Seen
<1>2. QED
  BY <1>1

(* Lists that are rewritten without a change that a caller could see. *)
LEMMA SameWaiting ==
  ASSUME \A e \in Events' : Waits(e)' => \E f \in Events : Waits(f) /\ Seen(e) = Seen(f),
         \A f \in Events : Waits(f) => \E e \in Events' : Waits(e)' /\ Seen(e) = Seen(f)
  PROVE  Waiting' = Waiting
<1>1. \A w : w \in Waiting' <=> w \in Waiting
  BY WaitingIs
<1>2. QED
  BY <1>1

(* A new event waits. *)
LEMMA NewWaits ==
  ASSUME FreshIds, TypeOK, NEW secs \in Delay, UNCHANGED fired,
         Events' = Events \cup {NewEvent(secs)}
  PROVE  Waiting' = Waiting \cup {[id |-> g_last_id + 1, owed |-> secs]}
<1>0. PICK new : new = NewEvent(secs)
  OBVIOUS
<1>1. /\ new.id = g_last_id + 1 /\ ~new.marked_delete
      /\ Seen(new) = [id |-> g_last_id + 1, owed |-> secs]
  BY <1>0 DEF NewEvent, Seen
<1>2. new.id \notin fired
  BY <1>1 DEF FreshIds, TypeOK
<1>3. Waits(new)' /\ \A e : Waits(e)' <=> Waits(e)
  BY <1>1, <1>2 DEF Waits
<1>4. \A w : w \in Waiting' <=> w \in Waiting \/ w = Seen(new)
  BY <1>0, <1>3, WaitingIs
<1>5. QED
  BY <1>1, <1>4

(* One event less waits. *)
LEMMA OneLess ==
  ASSUME FreshIds, NEW e \in Events, Waits(e),
         \A f \in Events' : Waits(f)' => \E g \in Events : Waits(g) /\ Seen(f) = Seen(g)
                                                          /\ g.id # e.id,
         \A g \in Events : Waits(g) /\ g.id # e.id =>
            \E f \in Events' : Waits(f)' /\ Seen(f) = Seen(g)
  PROVE  Seen(e) \in Waiting /\ Waiting' = Waiting \ {Seen(e)}
<1>1. Seen(e) \in Waiting
  BY WaitingIs
<1>2. \A g \in Events : Seen(g) = Seen(e) <=> g.id = e.id
  BY EventsApart, SeenApart
<1>3. \A w : w \in Waiting' <=> w \in Waiting /\ w # Seen(e)
  BY <1>2, WaitingIs
<1>4. QED
  BY <1>1, <1>3

-----------------------------------------------------------------------------
(* Step by step: what an action of the scheduler is for the service. *)
LEMMA ScheduleIsSchedule ==
  ASSUME TypeOK, FreshIds, NEW secs \in Delay, ScheduleStop(secs) \/ CallbackSchedule(secs)
  PROVE  Service!Schedule(secs)
<1>1. Events' = Events \cup {NewEvent(secs)}
  <2>1. CASE ScheduleStop(secs)
    <3>1. call = NoCall /\ call' # NoCall /\ call'.event = NewEvent(secs)
      BY <2>1 DEF ScheduleStop, MainIdle, NoCall
    <3>2. QED
      BY <2>1, <3>1 DEF ScheduleStop, Events
  <2>2. CASE CallbackSchedule(secs)
    BY <2>2 DEF CallbackSchedule, Events
  <2>3. QED
    BY <2>1, <2>2
<1>2. g_last_id' = g_last_id + 1 /\ UNCHANGED <<callee, cancelled, fired>>
  BY DEF ScheduleStop, CallbackSchedule
<1>3. QED
  BY <1>1, <1>2, NewWaits DEF Service!Schedule

LEMMA ScheduleGoesOn ==
  ASSUME TypeOK, ScheduleArm \/ ScheduleRecord \/ ScheduleInsert
  PROVE  UNCHANGED Service!vars
<1>1. call # NoCall
  BY InCall DEF ScheduleArm, ScheduleRecord, ScheduleInsert, Step
<1>2. Events' = Events
  <2>1. CASE ScheduleArm \/ ScheduleRecord
    <3>1. call' # NoCall /\ call'.event = call.event
      BY <2>1, <1>1, InCall DEF ScheduleArm, ScheduleRecord, Step, NoCall
    <3>2. QED
      BY <1>1, <2>1, <3>1 DEF ScheduleArm, ScheduleRecord, Events
  <2>2. CASE ScheduleInsert
    BY <1>1, <2>2 DEF ScheduleInsert, Events
  <2>3. QED
    BY <2>1, <2>2
<1>3. UNCHANGED <<g_last_id, callee, cancelled, fired>>
  BY DEF ScheduleArm, ScheduleRecord, ScheduleInsert
<1>4. Waiting' = Waiting
  BY <1>2, <1>3 DEF Waiting, Waits
<1>5. QED
  BY <1>3, <1>4 DEF Service!vars

(* The main flow's cancellation is honoured for every listed event. *)
LEMMA UnscheduleCancels ==
  ASSUME FreshIds, Settled, MarkInv, NEW id \in 1..g_last_id, Unschedule(id)
  PROVE  (\E event \in Waiting : Service!Cancel(event)) \/ UNCHANGED Service!vars
<1>1. /\ call = NoCall /\ call' = NoCall /\ ~g_ringing
      /\ g_alarm_list' = {e \in g_alarm_list : e.id # id}
      /\ cancelled' = cancelled \cup ({id} \cap Ids(g_alarm_list))
      /\ UNCHANGED <<g_alarm_list_add_temp, g_last_id, callee, fired>>
  BY DEF Unschedule, MainIdle
<1>2. CASE id \in Ids(g_alarm_list)
  <2>1. PICK e \in g_alarm_list : e.id = id
    BY <1>2 DEF Ids
  <2>2. e \in Events /\ Waits(e)
    BY <1>1 DEF Events, Waits, Settled, MarkInv
  <2>3. /\ \A f \in Events' : f \in Events /\ f.id # e.id
        /\ \A f \in Events : f.id # e.id => f \in Events'
    BY <1>1, <2>1 DEF Events, FreshIds
  <2>4. \A f : Waits(f)' <=> Waits(f)
    BY <1>1 DEF Waits
  <2>5. Seen(e) \in Waiting /\ Waiting' = Waiting \ {Seen(e)}
    BY <2>2, <2>3, <2>4, OneLess
  <2>6. Seen(e).id = id /\ cancelled' = cancelled \cup {id}
    BY <1>1, <1>2, <2>1 DEF Seen
  <2>7. Service!Cancel(Seen(e))
    BY <1>1, <2>5, <2>6 DEF Service!Cancel
  <2>8. QED
    BY <2>5, <2>7
<1>3. CASE id \notin Ids(g_alarm_list)
  <2>1. g_alarm_list' = g_alarm_list /\ cancelled' = cancelled
    BY <1>1, <1>3 DEF Ids
  <2>2. Waiting' = Waiting
    BY <1>1, <2>1 DEF Waiting, Waits, Events
  <2>3. QED
    BY <1>1, <2>1, <2>2 DEF Service!vars
<1>4. QED
  BY <1>2, <1>3

(* A callback's cancellation is honoured for a listed event that is not due. *)
LEMMA CallbackCancels ==
  ASSUME TypeOK, FreshIds, Settled, MarkInv, NEW id \in 1..g_last_id, CallbackUnschedule(id)
  PROVE  (\E event \in Waiting : Service!Cancel(event)) \/ UNCHANGED Service!vars
<1> DEFINE Mark(e) == IF e.id = id THEN [e EXCEPT !.marked_delete = TRUE] ELSE e
<1>1. /\ g_alarm_list' = {Mark(e) : e \in g_alarm_list}
      /\ cancelled' = cancelled \cup ({id} \cap Ids({e \in g_alarm_list : e.remaining > 0}))
      /\ UNCHANGED <<g_alarm_list_add_temp, g_last_id, callee, fired, call>>
  BY DEF CallbackUnschedule
<1>2. \A e \in g_alarm_list :
         /\ Mark(e).id = e.id /\ Mark(e).remaining = e.remaining /\ Seen(Mark(e)) = Seen(e)
         /\ e.id # id => Mark(e) = e
         /\ e.id = id => Mark(e).marked_delete
         /\ e.marked_delete => Mark(e).marked_delete
  BY DEF Seen, TypeOK, Event
<1> HIDE DEF Mark
<1>3. \A e \in Events' : \/ \E f \in g_alarm_list : e = Mark(f)
                         \/ e \in Events /\ e \notin g_alarm_list /\ e.id # id
                         \/ e \in Events /\ e \notin g_alarm_list /\ e.id = id
  BY <1>1, <1>2 DEF Events, FreshIds, Listed
<1>4. /\ \A e \in g_alarm_list : Mark(e) \in Events'
      /\ \A e \in Events : e \notin g_alarm_list => e \in Events'
  BY <1>1 DEF Events
<1>5. \A e : Waits(e)' <=> Waits(e)
  BY <1>1 DEF Waits
<1>6. CASE \E e \in g_alarm_list : e.id = id /\ e.remaining > 0 /\ ~e.marked_delete
  <2>1. PICK e \in g_alarm_list : e.id = id /\ e.remaining > 0 /\ ~e.marked_delete
    BY <1>6
  <2>2. e \in Events /\ Waits(e)
    BY <2>1 DEF Events, Waits, Settled, TypeOK, Event
  <2>3. ~Waits(Mark(e))
    BY <1>2, <2>1 DEF Waits, TypeOK, Event
  <2>4. \A f \in Events : f.id = id => f = e
    BY <2>1, <2>2, EventsApart
  <2>5. \A f \in g_alarm_list : f.id = id => f = e
    BY <2>1 DEF FreshIds
  <2>6. ASSUME NEW f \in Events', Waits(f)
        PROVE  \E g \in Events : Waits(g) /\ Seen(f) = Seen(g) /\ g.id # e.id
    <3>1. CASE \E g \in g_alarm_list : f = Mark(g)
      <4>1. PICK g \in g_alarm_list : f = Mark(g)
        BY <3>1
      <4>2. g.id # id
        BY <4>1, <2>3, <2>5, <2>6
      <4>3. f = g /\ g \in Events
        BY <1>2, <4>1, <4>2 DEF Events
      <4>4. QED
        BY <2>1, <2>6, <4>2, <4>3
    <3>2. CASE f \in Events /\ f \notin g_alarm_list
      BY <2>1, <2>4, <2>6, <3>2
    <3>3. QED
      BY <1>3, <3>1, <3>2
  <2>7. ASSUME NEW g \in Events, Waits(g), g.id # e.id
        PROVE  \E f \in Events' : Waits(f) /\ Seen(f) = Seen(g)
    <3>1. g \in g_alarm_list => Mark(g) = g
      BY <1>2, <2>1, <2>7
    <3>2. g \in Events'
      BY <1>4, <3>1
    <3>3. QED
      BY <2>7, <3>2
  <2>8. Seen(e) \in Waiting /\ Waiting' = Waiting \ {Seen(e)}
    BY <1>5, <2>2, <2>6, <2>7, OneLess
  <2>9. Seen(e).id = id /\ cancelled' = cancelled \cup {id}
    BY <1>1, <2>1 DEF Seen, Ids
  <2>10. Service!Cancel(Seen(e))
    BY <1>1, <2>8, <2>9 DEF Service!Cancel
  <2>11. QED
    BY <2>8, <2>10
<1>7. CASE ~ \E e \in g_alarm_list : e.id = id /\ e.remaining > 0 /\ ~e.marked_delete
  <2>1. \A e \in g_alarm_list : Waits(Mark(e)) <=> Waits(e)
    <3>1. ASSUME NEW e \in g_alarm_list PROVE Waits(Mark(e)) <=> Waits(e)
      <4>1. CASE e.id # id
        BY <1>2, <4>1
      <4>2. CASE e.id = id
        <5>1. e.remaining \in Int /\ (e.remaining <= 0 \/ e.marked_delete)
          BY <1>7, <4>2 DEF TypeOK, Event
        <5>2. QED
          BY <1>2, <4>2, <5>1 DEF Waits
      <4>3. QED
        BY <4>1, <4>2
    <3>2. QED
      BY <3>1
  <2>2. \A f \in Events' : Waits(f)' => \E g \in Events : Waits(g) /\ Seen(f) = Seen(g)
    <3>1. ASSUME NEW f \in Events', Waits(f)
          PROVE  \E g \in Events : Waits(g) /\ Seen(f) = Seen(g)
      <4>1. CASE \E g \in g_alarm_list : f = Mark(g)
        BY <1>2, <2>1, <3>1, <4>1 DEF Events
      <4>2. CASE f \in Events
        BY <3>1, <4>2
      <4>3. QED
        BY <1>3, <4>1, <4>2
    <3>2. QED
      BY <1>5, <3>1
  <2>3. \A g \in Events : Waits(g) => \E f \in Events' : Waits(f)' /\ Seen(f) = Seen(g)
    <3>1. ASSUME NEW g \in Events, Waits(g)
          PROVE  \E f \in Events' : Waits(f) /\ Seen(f) = Seen(g)
      <4>1. CASE g \in g_alarm_list
        BY <1>2, <1>4, <2>1, <3>1, <4>1
      <4>2. CASE g \notin g_alarm_list
        BY <1>4, <3>1, <4>2
      <4>3. QED
        BY <4>1, <4>2
    <3>2. QED
      BY <1>5, <3>1
  <2>4. Waiting' = Waiting
    BY <2>2, <2>3, SameWaiting
  <2>5. cancelled' = cancelled
    BY <1>1, <1>7 DEF Ids, MarkInv
  <2>6. QED
    BY <1>1, <2>4, <2>5 DEF Service!vars
<1>8. QED
  BY <1>6, <1>7

(* Aging by what the timer was set to is not seen: no mark is left at rest. *)
LEMMA RingIsNotSeen ==
  ASSUME TypeOK, MarkInv, RingStart
  PROVE  UNCHANGED Service!vars
<1>1. \A e \in g_alarm_list : ~e.marked_delete
  BY DEF RingStart, MarkInv
<1> DEFINE Less(e) == [e EXCEPT !.remaining = e.remaining - g_last_set_time]
<1>2. \A e \in g_alarm_list :
         Less(e).id = e.id /\ ~Less(e).marked_delete /\ Seen(Less(e)) = Seen(e)
  BY <1>1 DEF Seen, TypeOK, Event
<1>3. /\ g_alarm_list' = {Less(e) : e \in g_alarm_list}
      /\ UNCHANGED <<g_alarm_list_add_temp, g_last_id, callee, cancelled, fired, call>>
  BY DEF RingStart, update_remaining
<1> HIDE DEF Less
<1>4. \A e : Waits(e)' <=> Waits(e)
  BY <1>3 DEF Waits
<1>5. \A e \in g_alarm_list : Waits(Less(e)) <=> Waits(e)
  BY <1>1, <1>2 DEF Waits
<1>6. /\ \A e \in Events' : (\E f \in g_alarm_list : e = Less(f)) \/ e \in Events
      /\ \A f \in g_alarm_list : Less(f) \in Events' /\ f \in Events
      /\ \A f \in Events : f \in g_alarm_list \/ f \in Events'
  BY <1>3 DEF Events
<1>7. \A e \in Events' : Waits(e)' => \E f \in Events : Waits(f) /\ Seen(e) = Seen(f)
  BY <1>2, <1>4, <1>5, <1>6
<1>8. \A f \in Events : Waits(f) => \E e \in Events' : Waits(e)' /\ Seen(e) = Seen(f)
  BY <1>2, <1>4, <1>5, <1>6
<1>9. Waiting' = Waiting
  BY <1>7, <1>8, SameWaiting
<1>10. QED
  BY <1>3, <1>9 DEF Service!vars

(* What fire_single calls was waiting, and had waited long enough. *)
LEMMA FireIsRun ==
  ASSUME TypeOK, FreshIds, Settled, "stall" \in Races \/ TimeInv, FireSingle
  PROVE  \E event \in Waiting : Service!Run(event)
<1>1. PICK e \in g_alarm_list :
        /\ e.id \notin visited /\ e.remaining <= 0
        /\ callee = 0 /\ callee' = e.id /\ fired' = fired \cup {e.id}
  BY DEF FireSingle, ToFire
<1>2. e \in Events /\ Waits(e)
  BY <1>1 DEF Events, Waits, Settled
<1>3. Events' = Events /\ UNCHANGED <<g_last_id, cancelled>>
  BY DEF FireSingle, Events
<1>4. \A f : Waits(f)' <=> Waits(f) /\ f.id # e.id
  BY <1>1 DEF Waits
<1>5. Seen(e) \in Waiting /\ Waiting' = Waiting \ {Seen(e)}
  BY <1>2, <1>3, <1>4, OneLess
<1>6. Seen(e).id = e.id /\ Seen(e).owed = e.owed
  BY DEF Seen
<1>7. e.owed = 0 \/ "stall" \in Races
  <2>1. CASE TimeInv
    <3>1. Elapsed = 0
      BY <2>1 DEF TimeInv, Phases, Elapsed, FireSingle
    <3>2. e.owed \in Nat /\ e.remaining \in Int
      BY DEF TypeOK, Event
    <3>3. QED
      BY <1>1, <2>1, <3>1, <3>2 DEF TimeInv, Credit
  <2>2. QED
    BY <2>1
<1>8. Service!Run(Seen(e))
  BY <1>1, <1>3, <1>5, <1>6, <1>7 DEF Service!Run
<1>9. QED
  BY <1>5, <1>8

(* The clean-up removes nothing that waits: what is due has been called, and what
   is marked and not due was cancelled.                                         *)
LEMMA CleanUpIsNotSeen ==
  ASSUME TypeOK, MarkInv, RingEnd
  PROVE  UNCHANGED Service!vars
<1>1. /\ g_alarm_list' = {e \in g_alarm_list : alarm_valid(e)} \cup g_alarm_list_add_temp
      /\ g_alarm_list_add_temp' = {}
      /\ \A e \in g_alarm_list : e.id \in visited \/ ~(e.remaining <= 0)
      /\ UNCHANGED <<g_last_id, callee, cancelled, fired, call>>
  BY DEF RingEnd, ToFire
<1>2. \A e : Waits(e)' <=> Waits(e)
  BY <1>1 DEF Waits
<1>3. \A e \in g_alarm_list : Waits(e) => alarm_valid(e)
  <2>1. ASSUME NEW e \in g_alarm_list, Waits(e) PROVE alarm_valid(e)
    <3>1. e.remaining \in Int /\ e.id \notin fired
      BY <2>1 DEF Waits, TypeOK, Event
    <3>2. e.id \notin visited
      BY <3>1 DEF MarkInv
    <3>3. QED
      BY <1>1, <2>1, <3>1, <3>2 DEF Waits, alarm_valid
  <2>2. QED
    BY <2>1
<1>4. /\ \A e \in Events' : e \in Events
      /\ \A e \in Events : Waits(e) => e \in Events'
  BY <1>1, <1>3 DEF Events
<1>5. Waiting' = Waiting
  BY <1>2, <1>4, SameWaiting
<1>6. QED
  BY <1>1, <1>5 DEF Service!vars

LEMMA TickIsTick ==
  ASSUME TypeOK, Tick
  PROVE  Service!Tick
<1> DEFINE Older(e) == [e EXCEPT !.owed = Countdown(e.owed)]
<1>1. \A e \in Events : e \in Event
  BY DEF Events, TypeOK, CallType, NoCall
<1>2. \A e \in Events :
         /\ Older(e).id = e.id /\ Older(e).remaining = e.remaining
         /\ Older(e).marked_delete = e.marked_delete
         /\ Seen(Older(e)) = Service!Later(Seen(e))
  BY <1>1 DEF Event, Seen, Countdown, Service!Later
<1>3. /\ g_alarm_list' = {Older(e) : e \in g_alarm_list}
      /\ g_alarm_list_add_temp' = {Older(e) : e \in g_alarm_list_add_temp}
      /\ UNCHANGED <<g_last_id, callee, cancelled, fired>>
  BY DEF Tick, Aged
<1>4. \/ call = NoCall /\ call' = NoCall
      \/ call # NoCall /\ call' # NoCall /\ call'.event = Older(call.event)
  <2>1. CASE call = NoCall
    BY <2>1 DEF Tick
  <2>2. CASE call # NoCall
    <3>1. call \in [step : Step, event : Event, time : Nat]
      BY <2>2 DEF TypeOK, CallType
    <3>2. call' = [call EXCEPT !.event.owed = Countdown(call.event.owed)]
      BY <2>2 DEF Tick
    <3>3. call'.event = Older(call.event) /\ call'.step = call.step
      BY <3>1, <3>2 DEF Event
    <3>4. call'.step # "none"
      BY <3>1, <3>3 DEF Step
    <3>5. QED
      BY <2>2, <3>3, <3>4 DEF NoCall
  <2>3. QED
    BY <2>1, <2>2
<1> HIDE DEF Older
<1>5. Events' = {Older(e) : e \in Events}
  BY <1>3, <1>4 DEF Events
<1>6. \A e \in Events : Waits(Older(e))' <=> Waits(e)
  BY <1>2, <1>3 DEF Waits
<1>7. \A w : w \in Waiting' <=> \E v \in Waiting : w = Service!Later(v)
  BY <1>2, <1>5, <1>6, WaitingIs
<1>8. Waiting' = {Service!Later(v) : v \in Waiting}
  BY <1>7
<1>9. QED
  BY <1>3, <1>8 DEF Service!Tick

LEMMA StepRefined ==
  ASSUME TypeOK, FreshIds, Settled, MarkInv, "stall" \in Races \/ TimeInv, [Next]_vars
  PROVE  [Service!Next]_(Service!vars)
<1>1. ASSUME NEW secs \in Delay, ScheduleStop(secs) \/ CallbackSchedule(secs)
      PROVE  [Service!Next]_(Service!vars)
  BY <1>1, ScheduleIsSchedule DEF Service!Next
<1>2. CASE ScheduleArm \/ ScheduleRecord \/ ScheduleInsert
  BY <1>2, ScheduleGoesOn
<1>3. ASSUME NEW id \in 1..g_last_id, Unschedule(id) \/ CallbackUnschedule(id)
      PROVE  [Service!Next]_(Service!vars)
  BY <1>3, UnscheduleCancels, CallbackCancels DEF Service!Next
<1>4. CASE RingStart \/ RingEnd
  BY <1>4, RingIsNotSeen, CleanUpIsNotSeen
<1>5. CASE FireSingle
  BY <1>5, FireIsRun DEF Service!Next
<1>6. CASE CallbackReturn
  <2>1. Waiting' = Waiting
    BY <1>6 DEF CallbackReturn, Waiting, Waits, Events
  <2>2. Service!Return
    BY <1>6, <2>1 DEF CallbackReturn, Service!Return
  <2>3. QED
    BY <2>2 DEF Service!Next
<1>7. CASE Tick
  BY <1>7, TickIsTick DEF Service!Next
<1>8. CASE UNCHANGED vars
  <2>1. Waiting' = Waiting
    BY <1>8 DEF vars, Waiting, Waits, Events
  <2>2. QED
    BY <1>8, <2>1 DEF vars, Service!vars
<1>9. QED
  BY <1>1, <1>2, <1>3, <1>4, <1>5, <1>6, <1>7, <1>8 DEF Next

(* The scheduler implements the service of sched_alarm.h, with every timing hazard
   admitted: whatever the signal interrupts, whatever the callbacks schedule and
   cancel, an event stops waiting only by being run, once and alone, or by being
   cancelled; and it is run in its time unless schedule_alarm stalls.            *)
THEOREM ServiceRefinedHolds == Spec => ServiceRefined
<1>1. Init => Service!Init
  BY DEF Init, Service!Init, Waiting, Events
<1>2. Spec => []MarkInv
  BY MarkInit, MarkStep, TypeCorrect, SettledAlways, PTL DEF Spec
<1>3. CASE "stall" \in Races
  <2>1. TypeOK /\ FreshIds /\ Settled /\ MarkInv /\ [Next]_vars => [Service!Next]_(Service!vars)
    BY <1>3, StepRefined
  <2>2. QED
    BY <1>1, <1>2, <2>1, TypeCorrect, FreshAlways, SettledAlways, PTL
    DEF Spec, ServiceRefined, Service!Spec
<1>4. CASE "stall" \notin Races
  <2>1. TypeOK /\ FreshIds /\ Settled /\ MarkInv /\ TimeInv /\ [Next]_vars
        => [Service!Next]_(Service!vars)
    BY StepRefined
  <2>2. Spec => []TimeInv
    BY <1>4, TimeAlways
  <2>3. QED
    BY <1>1, <1>2, <2>1, <2>2, TypeCorrect, FreshAlways, SettledAlways, PTL
    DEF Spec, ServiceRefined, Service!Spec
<1>5. QED
  BY <1>3, <1>4

=============================================================================
