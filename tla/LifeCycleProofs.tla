--------------------------- MODULE LifeCycleProofs --------------------------
(***************************************************************************)
(* Proofs about the instances of the program and their PID file, for any   *)
(* number of instances and any use of -k.                                  *)
(***************************************************************************)
EXTENDS LifeCycle, FiniteSetTheorems, TLAPS

USE LifeAssumption

Started == {p \in Proc : pc[p] # "off"}

(* A new file is created by an instance that starts, so there are never more
   files than instances that have started.                                   *)
FileCount == files <= Cardinality(Started) /\ path <= files

(* main has the file open until it fails; an instance that is off does not. *)
Descriptors ==
    \A p \in Proc : /\ pc[p] \in Main => pid_lock_fd[p] # 0
                    /\ pc[p] = "off" => pid_lock_fd[p] = 0

(* Alarms ring from the end of main until exit_handler stops the timer. *)
AlarmTimes ==
    \A p \in Proc : alarms[p] => pc[p] \in {"run", "free_if_impl", "sched_destroy"} \union Ended

(* RunningIsLocked goes on in exit_handler as long as alarms ring. *)
NeedsLock(p) == pc[p] \in AfterLock \/ (alarms[p] /\ pc[p] \in Exiting)
LockKept ==
    \A p \in Proc : NeedsLock(p) /\ pid_lock_fd[p] > 0 /\ kill_type[p] # "KILL_AND_START"
                    => holder[pid_lock_fd[p]] = p

(* A lock belongs to an instance that has the file open and has not closed it. *)
HolderAlive ==
    \A f \in File : holder[f] # NoProc =>
        /\ pc[holder[f]] \in AfterLock \union {"free_if_impl", "sched_destroy", "pid_close"}
        /\ pid_lock_fd[holder[f]] = f

(* While the name is there, someone who will remove it is on the way. *)
NameHasOwner == ~killed /\ path # 0 => \E p \in Proc : Alive(p) /\ pid_lock_fd[p] > 0

LifeInv ==
    /\ TypeOK /\ FileCount /\ Descriptors /\ AlarmTimes
    /\ LockKept /\ HolderAlive /\ NameHasOwner

-----------------------------------------------------------------------------
LEMMA StartedFinite ==
  ASSUME NEW S \in SUBSET Proc
  PROVE  /\ IsFiniteSet(S) /\ Cardinality(S) \in Nat
         /\ Cardinality(Proc) \in Nat /\ Cardinality(S) <= Cardinality(Proc)
BY FS_Subset, FS_CardinalityType

LEMMA FileType == \A f \in File : f \in Nat /\ f > 0
BY StartedFinite DEF File

(* An instance that starts is one more; every other step leaves the set. *)
LEMMA StartCounts ==
  ASSUME TypeOK, NEW p \in Proc, pc[p] = "off",
         NEW to, to # "off", pc' = [pc EXCEPT ![p] = to]
  PROVE  /\ Cardinality(Started') = Cardinality(Started) + 1
         /\ Cardinality(Started) \in Nat
         /\ Cardinality(Started') <= Cardinality(Proc)
<1>1. Started' = Started \union {p} /\ p \notin Started
  BY DEF Started, TypeOK
<1>2. Started \in SUBSET Proc /\ Started' \in SUBSET Proc
  BY <1>1 DEF Started
<1>3. QED
  BY <1>1, <1>2, StartedFinite, FS_AddElement

LEMMA StaysStarted ==
  ASSUME TypeOK, FileCount, NEW p \in Proc, pc[p] # "off", NEW to, to # "off",
         pc' = [pc EXCEPT ![p] = to], UNCHANGED <<path, files>>
  PROVE  FileCount'
<1>1. Started' = Started
  BY DEF Started, TypeOK
<1>2. QED
  BY <1>1 DEF FileCount

-----------------------------------------------------------------------------
(* One lemma for each action. *)
LEMMA InitStep ==
  ASSUME LifeInv, NEW p \in Proc, pid_lock_init(p) PROVE LifeInv'
<1> USE DEF LifeInv, pid_lock_init, Goto
<1>1. /\ Cardinality(Started') = Cardinality(Started) + 1 /\ Cardinality(Started) \in Nat
      /\ Cardinality(Started') <= Cardinality(Proc) /\ Cardinality(Proc) \in Nat
  BY StartCounts, StartedFinite
<1>2. path \in Nat /\ files \in Nat
  BY FileType DEF TypeOK
<1>3. FileCount'
  BY <1>1, <1>2 DEF FileCount
<1>4. path' \in File /\ files' \in File
  BY <1>1, <1>2, <1>3 DEF FileCount, File
<1>5. TypeOK'
  BY <1>4 DEF TypeOK, Main, BeforeLock
<1>6. Descriptors' /\ AlarmTimes'
  BY <1>4, FileType DEF TypeOK, Descriptors, AlarmTimes, Main, Ended
<1>7. LockKept'
  BY DEF LockKept, NeedsLock, AfterLock, Exiting, TypeOK
<1>8. HolderAlive'
  BY DEF HolderAlive, AfterLock, TypeOK
<1>9. NameHasOwner'
  BY <1>4, FileType DEF NameHasOwner, Alive, Ended, TypeOK
<1>10. QED
  BY <1>3, <1>5, <1>6, <1>7, <1>8, <1>9

LEMMA WithoutStep ==
  ASSUME LifeInv, NEW p \in Proc, pid_lock_init_Without(p) PROVE LifeInv'
<1> USE DEF LifeInv, pid_lock_init_Without, file_vars
<1>1. PICK to \in {"if", "free_if_impl"} : pc' = [pc EXCEPT ![p] = to]
  OBVIOUS
<1>2. /\ Cardinality(Started') = Cardinality(Started) + 1 /\ Cardinality(Started) \in Nat
  BY <1>1, StartCounts
<1>3. FileCount'
  BY <1>2, FileType DEF FileCount, TypeOK
<1>4. TypeOK'
  BY <1>1 DEF TypeOK, Main, BeforeLock, Exiting
<1>5. Descriptors' /\ AlarmTimes'
  BY <1>1 DEF TypeOK, Descriptors, AlarmTimes, Main, Ended
<1>6. LockKept'
  BY <1>1 DEF LockKept, NeedsLock, AfterLock, Exiting, AlarmTimes, Ended, TypeOK
<1>7. HolderAlive'
  BY <1>1 DEF HolderAlive, AfterLock, TypeOK
<1>8. NameHasOwner'
  BY <1>1 DEF NameHasOwner, Alive, TypeOK, Descriptors
<1>9. QED
  BY <1>3, <1>4, <1>5, <1>6, <1>7, <1>8

(* init_if, Quit, signal_handler, exit_handler and sched_alarm_destroy move an
   instance on and touch neither its descriptor nor the file.                  *)
LEMMA MoveStep ==
  ASSUME LifeInv, NEW p \in Proc,
         \/ init_if(p) \/ Quit(p) \/ signal_handler(p)
         \/ exit_handler(p) \/ sched_alarm_destroy(p)
  PROVE  LifeInv'
<1> DEFINE Moves(to) ==
      /\ pc' = [pc EXCEPT ![p] = to]
      /\ to = "lock" => pc[p] = "if"
      /\ to = "free_if_impl" => pc[p] \in Main
      /\ to = "sched_destroy" => pc[p] = "free_if_impl"
      /\ to = "pid_close" => pc[p] = "sched_destroy" /\ ~alarms'[p]
<1> DEFINE Keeps ==
      /\ UNCHANGED <<kill_type, pid_lock_fd, path, files, holder, pid_text, killed>>
      /\ alarms' \in [Proc -> BOOLEAN] /\ term' \in [Proc -> {"no", "pending", "handled"}]
      /\ \A q \in Proc \ {p} : alarms'[q] = alarms[q]
      /\ alarms'[p] => alarms[p]
<1>1. Keeps
  <2> USE DEF LifeInv, TypeOK, file_vars
  <2>1. CASE init_if(p) \/ exit_handler(p)
    BY <2>1 DEF init_if, exit_handler
  <2>2. CASE Quit(p)
    BY <2>2 DEF Quit
  <2>3. CASE signal_handler(p)
    BY <2>3 DEF signal_handler
  <2>4. CASE sched_alarm_destroy(p)
    BY <2>4 DEF sched_alarm_destroy
  <2>5. QED
    BY <2>1, <2>2, <2>3, <2>4
<1>2. PICK to \in {"lock", "free_if_impl", "sched_destroy", "pid_close"} : Moves(to)
  <2> USE DEF Goto, Fail, LifeInv, TypeOK, Main, BeforeLock, AfterLock
  <2>1. CASE pc' = [pc EXCEPT ![p] = "lock"] /\ pc[p] = "if"
    BY <2>1
  <2>2. CASE pc' = [pc EXCEPT ![p] = "free_if_impl"] /\ pc[p] \in Main
    BY <2>2
  <2>3. CASE exit_handler(p)
    BY <2>3 DEF exit_handler
  <2>4. CASE sched_alarm_destroy(p)
    BY <2>4 DEF sched_alarm_destroy
  <2>5. QED
    BY <2>1, <2>2, <2>3, <2>4 DEF init_if, Quit, signal_handler
<1> USE DEF LifeInv
<1>3. FileCount'
  BY <1>1, <1>2, StaysStarted DEF Main, BeforeLock, AfterLock, Exiting
<1>4. TypeOK'
  BY <1>1, <1>2 DEF TypeOK, Main, BeforeLock, Exiting
<1>5. Descriptors'
  BY <1>1, <1>2 DEF TypeOK, Descriptors, Main, BeforeLock, AfterLock, Exiting
<1>6. AlarmTimes'
  BY <1>1, <1>2 DEF TypeOK, AlarmTimes, Main, BeforeLock, AfterLock, Exiting, Ended
<1>7. LockKept'
  BY <1>1, <1>2 DEF TypeOK, LockKept, NeedsLock, AlarmTimes, Main, BeforeLock, AfterLock,
                    Exiting, Ended
<1>8. HolderAlive'
  BY <1>1, <1>2 DEF TypeOK, HolderAlive, Main, BeforeLock, AfterLock
<1>9. NameHasOwner'
  <2>1. \A q \in Proc : Alive(q) => Alive(q)'
    BY <1>1, <1>2 DEF Alive, TypeOK, Main, BeforeLock, AfterLock, Exiting, Ended
  <2>2. QED
    BY <1>1, <2>1 DEF NameHasOwner
<1>10. QED
  BY <1>3, <1>4, <1>5, <1>6, <1>7, <1>8, <1>9

LEMMA LockStep ==
  ASSUME LifeInv, NEW p \in Proc, pid_lock_lock(p) PROVE LifeInv'
<1> USE DEF LifeInv, pid_lock_lock, Goto
<1>1. FileCount'
  BY StaysStarted
<1>2. pid_lock_fd[p] = -1 \/ pid_lock_fd[p] \in File
  BY DEF TypeOK, Descriptors, Main, BeforeLock
<1>3. TypeOK'
  BY <1>2 DEF TypeOK, Main, AfterLock
<1>4. Descriptors' /\ AlarmTimes'
  BY DEF TypeOK, Descriptors, AlarmTimes, Main, BeforeLock, Ended
<1>5. LockKept'
  BY <1>2, FileType DEF TypeOK, LockKept, NeedsLock, AlarmTimes, AfterLock, Exiting, Ended
<1>6. HolderAlive'
  BY <1>2 DEF TypeOK, HolderAlive, AfterLock
<1>7. NameHasOwner'
  BY DEF NameHasOwner, Alive, Ended, TypeOK
<1>8. QED
  BY <1>1, <1>3, <1>4, <1>5, <1>6, <1>7

(* Who loses the lock closes the file: its holder is alive and has it open. *)
LEMMA MultipleStep ==
  ASSUME LifeInv, NEW p \in Proc, pid_lock_handle_multiple_instance(p) PROVE LifeInv'
<1> USE DEF LifeInv, pid_lock_handle_multiple_instance, Goto, Fail, file_vars
<1>1. PICK to \in {"save_pid", "free_if_impl"} : pc' = [pc EXCEPT ![p] = to]
  OBVIOUS
<1>2. pc[p] = "lock" /\ pid_lock_fd[p] \in File
  BY DEF TypeOK, Descriptors, Main, BeforeLock
<1>3. /\ pid_lock_fd' \in [Proc -> {-1, 0} \union File]
      /\ \A q \in Proc \ {p} : pid_lock_fd'[q] = pid_lock_fd[q]
      /\ to = "save_pid" => pid_lock_fd'[p] = pid_lock_fd[p]
                            /\ kill_type[p] = "KILL_AND_START"
  BY <1>1, <1>2 DEF TypeOK
<1>4. term' \in [Proc -> {"no", "pending", "handled"}]
  BY DEF SendTerm, TypeOK
<1>5. FileCount'
  BY <1>1, <1>2, StaysStarted
<1>6. TypeOK'
  BY <1>1, <1>3, <1>4 DEF TypeOK, Main, AfterLock, Exiting
<1>7. Descriptors' /\ AlarmTimes'
  BY <1>1, <1>2, <1>3, FileType
     DEF TypeOK, Descriptors, AlarmTimes, Main, BeforeLock, AfterLock, Ended
<1>8. LockKept'
  BY <1>1, <1>2, <1>3 DEF TypeOK, LockKept, NeedsLock, AlarmTimes, AfterLock, Exiting, Ended
<1>9. HolderAlive'
  BY <1>1, <1>2, <1>3 DEF TypeOK, HolderAlive, AfterLock
<1>10. NameHasOwner'
  <2>1. PICK q \in Proc :
           /\ q # p /\ pid_lock_fd[q] = pid_lock_fd[p]
           /\ pc[q] \in AfterLock \union {"free_if_impl", "sched_destroy", "pid_close"}
    BY <1>2 DEF TypeOK, HolderAlive, AfterLock
  <2>2. pid_lock_fd'[q] > 0
    BY <1>2, <1>3, <2>1, FileType
  <2>3. Alive(q)'
    BY <1>1, <2>1 DEF Alive, AfterLock, Ended, TypeOK
  <2>4. QED
    BY <2>2, <2>3 DEF NameHasOwner
<1>11. QED
  BY <1>5, <1>6, <1>7, <1>8, <1>9, <1>10

LEMMA SaveStep ==
  ASSUME LifeInv, NEW p \in Proc, pid_lock_save_pid(p) PROVE LifeInv'
<1> USE DEF LifeInv, pid_lock_save_pid, Goto
<1>1. FileCount'
  BY StaysStarted
<1>2. pid_text' \in [File -> Proc \union {NoProc, Mixed}]
  BY DEF TypeOK
<1>3. TypeOK'
  BY <1>2 DEF TypeOK, Main, AfterLock
<1>4. Descriptors' /\ AlarmTimes'
  BY DEF TypeOK, Descriptors, AlarmTimes, Main, AfterLock
<1>5. LockKept' /\ HolderAlive'
  BY DEF TypeOK, LockKept, HolderAlive, NeedsLock, AfterLock, Exiting
<1>6. NameHasOwner'
  BY DEF NameHasOwner, Alive, Ended, TypeOK
<1>7. QED
  BY <1>1, <1>3, <1>4, <1>5, <1>6

(* Giving up one's own locks leaves those of the others. *)
LEMMA UnlockedOthers ==
  ASSUME TypeOK, NEW p \in Proc
  PROVE  /\ Unlocked(p) \in [File -> Proc \union {NoProc}]
         /\ \A f \in File : Unlocked(p)[f] # p
         /\ \A f \in File : Unlocked(p)[f] # NoProc => Unlocked(p)[f] = holder[f]
         /\ \A f \in File : holder[f] # p => Unlocked(p)[f] = holder[f]
BY DEF Unlocked, TypeOK

LEMMA DieStep ==
  ASSUME LifeInv, NEW p \in Proc, ExitAgain(p) \/ Crash(p) \/ AlarmInExit(p) PROVE LifeInv'
<1>1. /\ pc[p] # "off" /\ pc' = [pc EXCEPT ![p] = "crashed"]
      /\ holder' = Unlocked(p) /\ pid_lock_fd' = [pid_lock_fd EXCEPT ![p] = 0]
      /\ killed' = TRUE /\ term' \in [Proc -> {"no", "pending", "handled"}]
      /\ UNCHANGED <<kill_type, alarms, path, files, pid_text>>
  BY DEF ExitAgain, Crash, AlarmInExit, Alive, Exiting, LifeInv, TypeOK
<1> USE DEF LifeInv
<1>2. FileCount'
  BY <1>1, StaysStarted
<1>3. TypeOK'
  BY <1>1, UnlockedOthers DEF TypeOK, Ended
<1>4. Descriptors' /\ AlarmTimes'
  BY <1>1 DEF TypeOK, Descriptors, AlarmTimes, Main, BeforeLock, AfterLock, Ended
<1>5. LockKept'
  <2>1. \A q \in Proc : NeedsLock(q)' => q # p /\ NeedsLock(q)
    BY <1>1 DEF NeedsLock, AfterLock, Exiting, TypeOK
  <2>2. QED
    BY <1>1, <2>1, UnlockedOthers DEF LockKept, TypeOK
<1>6. HolderAlive'
  BY <1>1, UnlockedOthers DEF HolderAlive, TypeOK
<1>7. NameHasOwner'
  BY <1>1 DEF NameHasOwner
<1>8. QED
  BY <1>2, <1>3, <1>4, <1>5, <1>6, <1>7

LEMMA CloseStep ==
  ASSUME LifeInv, NEW p \in Proc, pid_lock_close(p) PROVE LifeInv'
<1> USE DEF LifeInv, pid_lock_close, Goto
<1>1. PICK to \in {"pid_unlink", "ended"} :
         pc' = [pc EXCEPT ![p] = to] /\ (pid_lock_fd[p] > 0 => to = "pid_unlink")
  OBVIOUS
<1>2. FileCount'
  BY <1>1, StaysStarted
<1>3. TypeOK'
  BY <1>1, UnlockedOthers DEF TypeOK, Exiting, Ended
<1>4. Descriptors' /\ AlarmTimes'
  BY <1>1 DEF TypeOK, Descriptors, AlarmTimes, Main, BeforeLock, AfterLock, Ended
<1>5. LockKept'
  <2>1. \A q \in Proc : NeedsLock(q)' => q # p /\ NeedsLock(q)
    BY <1>1 DEF NeedsLock, AlarmTimes, AfterLock, Exiting, Ended, TypeOK
  <2>2. QED
    BY <2>1, UnlockedOthers DEF LockKept, TypeOK
<1>6. HolderAlive'
  BY <1>1, UnlockedOthers DEF HolderAlive, TypeOK
<1>7. NameHasOwner'
  BY <1>1 DEF NameHasOwner, Alive, Ended, TypeOK
<1>8. QED
  BY <1>2, <1>3, <1>4, <1>5, <1>6, <1>7

LEMMA UnlinkStep ==
  ASSUME LifeInv, NEW p \in Proc, pid_lock_unlink(p) PROVE LifeInv'
<1> USE DEF LifeInv, pid_lock_unlink, Goto
<1>1. FileCount'
  <2>1. Started' = Started
    BY DEF Started, TypeOK
  <2>2. QED
    BY <2>1, FileType DEF FileCount, TypeOK
<1>2. TypeOK'
  BY DEF TypeOK, Ended
<1>3. Descriptors' /\ AlarmTimes'
  BY DEF TypeOK, Descriptors, AlarmTimes, Main, BeforeLock, AfterLock, Ended
<1>4. LockKept' /\ HolderAlive'
  BY DEF TypeOK, LockKept, HolderAlive, NeedsLock, AfterLock, Exiting
<1>5. NameHasOwner'
  BY DEF NameHasOwner
<1>6. QED
  BY <1>1, <1>2, <1>3, <1>4, <1>5

LEMMA SignalStep ==
  ASSUME LifeInv, NEW p \in Proc, Signal(p) PROVE LifeInv'
<1>1. /\ UNCHANGED <<pc, kill_type, pid_lock_fd, alarms, path, files, holder, pid_text, killed>>
      /\ term' \in [Proc -> {"no", "pending", "handled"}]
  BY DEF Signal, file_vars, LifeInv, TypeOK
<1>2. QED
  BY <1>1 DEF LifeInv, TypeOK, FileCount, Started, Descriptors, AlarmTimes, LockKept, NeedsLock,
              HolderAlive, NameHasOwner, Alive

LEMMA LifeInit == Init => LifeInv
<1> SUFFICES ASSUME Init PROVE LifeInv
  OBVIOUS
<1>1. Started = {} /\ Cardinality(Started) = 0
  BY FS_EmptySet DEF Init, Started
<1>2. TypeOK
  BY DEF Init, TypeOK
<1>3. FileCount
  BY <1>1 DEF Init, FileCount
<1>4. QED
  BY <1>2, <1>3 DEF Init, LifeInv, Descriptors, AlarmTimes, LockKept, NeedsLock, HolderAlive,
                    NameHasOwner, Main, BeforeLock, AfterLock, Exiting

LEMMA LifeStep == LifeInv /\ [Next]_vars => LifeInv'
<1> SUFFICES ASSUME LifeInv, [Next]_vars PROVE LifeInv'
  OBVIOUS
<1>1. CASE UNCHANGED vars
  BY <1>1 DEF vars, process_vars, file_vars, LifeInv, TypeOK, FileCount, Started, Descriptors,
              AlarmTimes, LockKept, NeedsLock, HolderAlive, NameHasOwner, Alive
<1>2. QED
  BY <1>1, InitStep, WithoutStep, MoveStep, LockStep, MultipleStep, SaveStep, DieStep,
     CloseStep, UnlinkStep, SignalStep DEF Next, Step

LEMMA LifeAlways == Spec => []LifeInv
BY LifeInit, LifeStep, PTL DEF Spec

-----------------------------------------------------------------------------
(* main and exit_handler keep the state of the processes and of the file in
   their types: an instance never needs more files than there are instances.   *)
THEOREM TypeCorrect == Spec => []TypeOK
<1>1. LifeInv => TypeOK
  BY DEF LifeInv
<1>2. QED
  BY <1>1, LifeAlways, PTL

(* pid_lock_lock keeps two instances that were not started with -k 1 from
   running on the same file, however many start, fail, crash and are killed.   *)
THEOREM OneInstancePerFileHolds == Spec => []OneInstancePerFile
<1>1. LifeInv => OneInstancePerFile
  <2> SUFFICES ASSUME LifeInv, NEW p \in Proc, NEW q \in Proc, p # q,
                      {pc[p], pc[q]} \subseteq AfterLock, pid_lock_fd[p] = pid_lock_fd[q],
                      pid_lock_fd[p] # -1, kill_type[p] # "KILL_AND_START",
                      kill_type[q] # "KILL_AND_START"
               PROVE  FALSE
    BY DEF OneInstancePerFile
  <2>1. pid_lock_fd[p] > 0 /\ pid_lock_fd[q] > 0
    <3>1. pc[p] \in AfterLock /\ pid_lock_fd[p] # 0
      BY DEF LifeInv, Descriptors, Main
    <3>2. pid_lock_fd[p] \in File
      BY <3>1 DEF LifeInv, TypeOK
    <3>3. QED
      BY <3>2, FileType
  <2>2. holder[pid_lock_fd[p]] = p /\ holder[pid_lock_fd[q]] = q
    BY <2>1 DEF LifeInv, LockKept, NeedsLock
  <2>3. QED
    BY <2>2
<1>2. QED
  BY <1>1, LifeAlways, PTL

(* pid_lock_destroy leaves no stale file: when all instances have ended through
   exit_handler the name is gone.                                              *)
THEOREM NoStalePidFileHolds == Spec => []NoStalePidFile
<1>1. LifeInv => NoStalePidFile
  BY DEF LifeInv, NameHasOwner, NoStalePidFile
<1>2. QED
  BY <1>1, LifeAlways, PTL

(* exit_handler stops the alarms before it gives up the lock. *)
THEOREM AlarmsEndBeforeLockHolds == Spec => []AlarmsEndBeforeLock
<1>1. LifeInv => AlarmsEndBeforeLock
  BY DEF LifeInv, LockKept, NeedsLock, AlarmsEndBeforeLock
<1>2. QED
  BY <1>1, LifeAlways, PTL
=============================================================================
