------------------------------ MODULE LifeCycle -----------------------------
(***************************************************************************)
(* Instances of the program from main to exit_handler (minieap.c), with    *)
(* the PID file that should keep them apart (pid_lock.c).                  *)
(*                                                                         *)
(* An action is the code between two points where another instance or a    *)
(* signal can be noticed.  flock, open and unlink are the kernel's: a lock *)
(* belongs to a file, not to its name, and goes when its owner closes the  *)
(* file or ends.  A process that goes into the background is, as far as    *)
(* the file is concerned, the same one: the lock is inherited and the      *)
(* parent ends without exit_handler.                                       *)
(***************************************************************************)
EXTENDS Integers, FiniteSets

CONSTANTS
    Proc,        \* instances that may be started
    KillType,    \* the values of -k that are tried
    Mixed,       \* what reads like no PID: digits of several
    NoProc       \* stands for no instance

ASSUME LifeAssumption ==
    /\ IsFiniteSet(Proc) /\ NoProc \notin Proc /\ Mixed \notin Proc \union {NoProc}
    /\ KillType \subseteq {"KILL_NONE", "KILL_ONLY", "KILL_AND_START"}

VARIABLES
    pc,           \* where an instance is
    kill_type,    \* its -k
    pid_lock_fd,  \* the file it has open; 0 none, -1 switched off
    term,         \* SIGTERM: "no", "pending" or "handled"
    alarms,       \* SIGALRM can interrupt it
    path,         \* the file the name stands for, 0 if it is gone
    files,        \* number of files created so far
    holder,       \* who has the lock of a file
    pid_text,     \* whose PID a file holds; NoProc if none
    killed        \* an instance ended without its whole exit_handler

process_vars == <<pc, kill_type, pid_lock_fd, term, alarms>>
file_vars == <<path, files, holder, pid_text>>
vars == <<process_vars, file_vars, killed>>

File == 1..Cardinality(Proc)

BeforeLock == {"if", "lock"}
AfterLock == {"save_pid", "run"}
Exiting == {"free_if_impl", "sched_destroy", "pid_close", "pid_unlink"}
Main == BeforeLock \union AfterLock
Ended == {"ended", "crashed"}

TypeOK ==
    /\ pc \in [Proc -> {"off"} \union Main \union Exiting \union Ended]
    /\ kill_type \in [Proc -> KillType]
    /\ pid_lock_fd \in [Proc -> {-1, 0} \union File]
    /\ term \in [Proc -> {"no", "pending", "handled"}]
    /\ alarms \in [Proc -> BOOLEAN]
    /\ path \in {0} \union File
    /\ files \in {0} \union File
    /\ holder \in [File -> Proc \union {NoProc}]
    /\ pid_text \in [File -> Proc \union {NoProc, Mixed}]
    /\ killed \in BOOLEAN

Init ==
    /\ pc = [p \in Proc |-> "off"]
    /\ kill_type \in [Proc -> KillType]
    /\ pid_lock_fd = [p \in Proc |-> 0]
    /\ term = [p \in Proc |-> "no"]
    /\ alarms = [p \in Proc |-> FALSE]
    /\ path = 0 /\ files = 0
    /\ holder = [f \in File |-> NoProc]
    /\ pid_text = [f \in File |-> NoProc]
    /\ killed = FALSE

-----------------------------------------------------------------------------
Goto(p, from, to) == pc[p] = from /\ pc' = [pc EXCEPT ![p] = to]

(* The kernel drops the lock of the process when its last descriptor goes. *)
Unlocked(p) == [f \in File |-> IF holder[f] = p THEN NoProc ELSE holder[f]]

(* A FAILURE in main returns from it, and exit_handler follows. *)
Fail(p) == pc' = [pc EXCEPT ![p] = "free_if_impl"]

(* main sets up exit_handler and the signals and init_cfg reads the settings;
   then pid_lock_init opens the file the name stands for, or creates it.      *)
pid_lock_init(p) ==
    /\ Goto(p, "off", "if")
    /\ path' = IF path = 0 THEN files + 1 ELSE path
    /\ files' = IF path = 0 THEN files + 1 ELSE files
    /\ pid_lock_fd' = [pid_lock_fd EXCEPT ![p] = path']
    /\ UNCHANGED <<kill_type, term, alarms, holder, pid_text, killed>>

(* --pid-file none, or a file that cannot be opened. *)
pid_lock_init_Without(p) ==
    /\ pc[p] = "off"
    /\ pc' \in {[pc EXCEPT ![p] = to] : to \in {"if", "free_if_impl"}}
    /\ pid_lock_fd' = [pid_lock_fd EXCEPT ![p] = -1]
    /\ UNCHANGED <<kill_type, term, alarms, file_vars, killed>>

(* init_if, eap_state_machine_init and sched_alarm_init *)
init_if(p) ==
    /\ pc[p] = "if"
    /\ Goto(p, "if", "lock") \/ Fail(p)
    /\ UNCHANGED <<kill_type, pid_lock_fd, term, alarms, file_vars, killed>>

(* pid_lock_lock when flock succeeds, or locking is switched off. *)
pid_lock_lock(p) ==
    LET f == pid_lock_fd[p]
    IN  /\ Goto(p, "lock", "save_pid")
        /\ f # -1 => holder[f] = NoProc
        /\ holder' = IF f = -1 THEN holder ELSE [holder EXCEPT ![f] = p]
        /\ UNCHANGED <<kill_type, pid_lock_fd, term, alarms, path, files, pid_text, killed>>

Alive(q) == pc[q] \notin {"off"} \union Ended

(* kill(pid, SIGTERM) for what the file says; a file without a PID leaves
   readbuf as it was, and a mixed one names nobody.                        *)
SendTerm(f) ==
    LET q == pid_text[f]
    IN  term' = IF q \in Proc THEN [term EXCEPT ![q] = IF Alive(q) /\ @ = "no" THEN "pending" ELSE @]
                ELSE term

(* Mutant of pid_lock_handle_multiple_instance: it goes on when not told to. *)
pid_lock_handle_multiple_instance_GoesOn(p) ==
    LET f == pid_lock_fd[p]
    IN  /\ pc[p] = "lock" /\ f # -1 /\ holder[f] # NoProc
        /\ Goto(p, "lock", "save_pid")
        /\ UNCHANGED <<kill_type, pid_lock_fd, term, alarms, file_vars, killed>>

(* pid_lock_lock when another process has the lock, with
   pid_lock_handle_multiple_instance: only -k 1 goes on, without the lock; the
   others close the file, so that exit_handler leaves it alone.               *)
pid_lock_handle_multiple_instance(p) ==
    LET f == pid_lock_fd[p]
        unknown == pid_text[f] = NoProc
    IN  /\ pc[p] = "lock" /\ f # -1 /\ holder[f] # NoProc
        /\ \/ /\ kill_type[p] = "KILL_AND_START"
              /\ Goto(p, "lock", "save_pid")
              /\ SendTerm(f)
              /\ UNCHANGED pid_lock_fd
           \/ /\ kill_type[p] # "KILL_AND_START" \/ unknown
              /\ Fail(p)
              /\ pid_lock_fd' = [pid_lock_fd EXCEPT ![p] = 0]
              /\ IF kill_type[p] = "KILL_ONLY" THEN SendTerm(f) ELSE UNCHANGED term
        /\ UNCHANGED <<kill_type, alarms, file_vars, killed>>

(* After apply_log_daemon_params: pid_lock_save_pid writes where the descriptor
   is, at the start of the file over what is there, or behind what has been
   read.  The digits of an earlier PID that is longer stay.                  *)
pid_lock_save_pid(p) ==
    LET f == pid_lock_fd[p]
    IN  /\ Goto(p, "save_pid", "run")
        /\ IF f <= 0 THEN UNCHANGED pid_text
           ELSE \E text \in {p, Mixed} :
                   /\ text = Mixed => pid_text[f] # NoProc
                   /\ pid_text' = [pid_text EXCEPT ![f] = text]
        /\ alarms' = [alarms EXCEPT ![p] = TRUE]
        /\ UNCHANGED <<kill_type, pid_lock_fd, term, path, files, holder, killed>>

(* The session ends: capturing ends, or a failure calls exit, in the main flow
   or in an alarm's callback; inside it another alarm has to wait.             *)
Quit(p) ==
    /\ Goto(p, "run", "free_if_impl")
    /\ alarms' \in {alarms, [alarms EXCEPT ![p] = FALSE]}
    /\ UNCHANGED <<kill_type, pid_lock_fd, term, file_vars, killed>>

-----------------------------------------------------------------------------
(* SIGTERM, SIGINT or SIGHUP from outside. *)
Signal(p) ==
    /\ Alive(p) /\ term[p] = "no"
    /\ term' = [term EXCEPT ![p] = "pending"]
    /\ UNCHANGED <<pc, kill_type, pid_lock_fd, alarms, file_vars, killed>>

(* signal_handler calls exit. *)
signal_handler(p) ==
    /\ term[p] = "pending" /\ pc[p] \in Main
    /\ Fail(p)
    /\ term' = [term EXCEPT ![p] = "handled"]
    /\ UNCHANGED <<kill_type, pid_lock_fd, alarms, file_vars, killed>>

(* exit called again, inside exit_handler, ends the process at once. *)
ExitAgain(p) ==
    /\ term[p] = "pending" /\ pc[p] \in Exiting
    /\ pc' = [pc EXCEPT ![p] = "crashed"]
    /\ term' = [term EXCEPT ![p] = "handled"]
    /\ holder' = Unlocked(p)
    /\ pid_lock_fd' = [pid_lock_fd EXCEPT ![p] = 0]
    /\ killed' = TRUE
    /\ UNCHANGED <<kill_type, alarms, path, files, pid_text>>

Crash(p) ==
    /\ Alive(p)
    /\ pc' = [pc EXCEPT ![p] = "crashed"]
    /\ holder' = Unlocked(p)
    /\ pid_lock_fd' = [pid_lock_fd EXCEPT ![p] = 0]
    /\ killed' = TRUE
    /\ UNCHANGED <<kill_type, term, alarms, path, files, pid_text>>

(* An alarm between two steps of exit_handler: its callback uses the driver and
   the plugins that have just been freed, and the process may end there.        *)
AlarmInExit(p) ==
    /\ alarms[p] /\ pc[p] \in Exiting \ {"free_if_impl"}
    /\ pc' = [pc EXCEPT ![p] = "crashed"]
    /\ holder' = Unlocked(p)
    /\ pid_lock_fd' = [pid_lock_fd EXCEPT ![p] = 0]
    /\ killed' = TRUE
    /\ UNCHANGED <<kill_type, term, alarms, path, files, pid_text>>

(* exit_handler: free_if_impl, packet_plugin_destroy and
   eap_state_machine_destroy in this order.              *)
exit_handler(p) ==
    /\ Goto(p, "free_if_impl", "sched_destroy")
    /\ UNCHANGED <<kill_type, pid_lock_fd, term, alarms, file_vars, killed>>

(* Mutant of sched_alarm_destroy: alarm(0) is missing. *)
sched_alarm_destroy_TimerRuns(p) ==
    /\ Goto(p, "sched_destroy", "pid_close")
    /\ UNCHANGED <<kill_type, pid_lock_fd, term, alarms, file_vars, killed>>

(* Then sched_alarm_destroy stops the timer. *)
sched_alarm_destroy(p) ==
    /\ Goto(p, "sched_destroy", "pid_close")
    /\ alarms' = [alarms EXCEPT ![p] = FALSE]
    /\ UNCHANGED <<kill_type, pid_lock_fd, term, file_vars, killed>>

(* Mutant of pid_lock_close: an instance without the lock leaves the name. *)
pid_lock_close_KeepsName(p) ==
    /\ IF pid_lock_fd[p] > 0 /\ holder[pid_lock_fd[p]] = p THEN Goto(p, "pid_close", "pid_unlink")
       ELSE Goto(p, "pid_close", "ended")
    /\ holder' = Unlocked(p)
    /\ UNCHANGED <<kill_type, pid_lock_fd, term, alarms, path, files, pid_text, killed>>

(* pid_lock_destroy, first half: closing the file gives up the lock. *)
pid_lock_close(p) ==
    /\ IF pid_lock_fd[p] > 0 THEN Goto(p, "pid_close", "pid_unlink")
       ELSE Goto(p, "pid_close", "ended")
    /\ holder' = Unlocked(p)
    /\ UNCHANGED <<kill_type, pid_lock_fd, term, alarms, path, files, pid_text, killed>>

(* Second half: the name is removed, whatever file it stands for by now;
   free_config and close_log end the process.                            *)
pid_lock_unlink(p) ==
    /\ Goto(p, "pid_unlink", "ended")
    /\ path' = 0
    /\ UNCHANGED <<kill_type, pid_lock_fd, term, alarms, files, holder, pid_text, killed>>

-----------------------------------------------------------------------------
Step(p) ==
    \/ pid_lock_init(p) \/ pid_lock_init_Without(p) \/ init_if(p) \/ pid_lock_lock(p)
    \/ pid_lock_handle_multiple_instance(p) \/ pid_lock_save_pid(p)
    \/ exit_handler(p) \/ sched_alarm_destroy(p) \/ pid_lock_close(p) \/ pid_lock_unlink(p)
    \/ signal_handler(p) \/ ExitAgain(p)

Next == \E p \in Proc : \/ Step(p) \/ Quit(p) \/ Signal(p) \/ Crash(p) \/ AlarmInExit(p)

Spec == Init /\ [][Next]_vars

-----------------------------------------------------------------------------
(* An instance that is past pid_lock_lock and was not told to go on without it
   has the lock of its file until it closes it, through the fork and the saving
   of the PID and however others lock, kill and unlink.                         *)
RunningIsLocked ==
    \A p \in Proc : pc[p] \in AfterLock /\ pid_lock_fd[p] # -1 /\ kill_type[p] # "KILL_AND_START"
                    => holder[pid_lock_fd[p]] = p

(* So two instances that did not use -k 1 never run on the same file. *)
OneInstancePerFile ==
    \A p, q \in Proc :
        p # q /\ {pc[p], pc[q]} \subseteq AfterLock /\ pid_lock_fd[p] = pid_lock_fd[q]
        => pid_lock_fd[p] = -1 \/ "KILL_AND_START" \in {kill_type[p], kill_type[q]}

(* When every instance that was started has ended through exit_handler, no PID
   file is left: whoever lost the lock leaves the file to the one that has it.  *)
NoStalePidFile ==
    ~killed /\ (\A p \in Proc : ~Alive(p)) => path = 0

(* exit_handler stops the scheduler after it has freed what the alarms use, but
   before the PID file goes: an instance that an alarm can still bring down in
   exit_handler has the lock of its file, so no other has taken its place.      *)
AlarmsEndBeforeLock ==
    \A p \in Proc : alarms[p] /\ pc[p] \in Exiting /\ pid_lock_fd[p] > 0
                    /\ kill_type[p] # "KILL_AND_START" => holder[pid_lock_fd[p]] = p
=============================================================================
