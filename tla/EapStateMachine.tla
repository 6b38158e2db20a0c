--------------------------- MODULE EapStateMachine ---------------------------
(***************************************************************************)
(* The 802.1X client state machine of eap_state_machine.c.                 *)
(*                                                                         *)
(* An action is one activation of the machine from outside: main starting  *)
(* it, a frame arriving from the interface, a restart_auth alarm, a packet *)
(* plugin asking for a new EAPOL-Start.  The switch_to_state calls nested  *)
(* in one activation happen inside its action, in the code's order.        *)
(* Alarms fire between activations, at any time after they are scheduled.  *)
(*                                                                         *)
(* The state watchdog has no action: the only call that would arm it is in *)
(* the commented-out half of switch_to_state, so state_alarm_id stays 0    *)
(* and disable_state_watchdog removes nothing.                             *)
(***************************************************************************)
EXTENDS Naturals

CONSTANTS
    cfg_auth_round,         \* PROG_CONFIG.auth_round
    cfg_max_failures,       \* PROG_CONFIG.max_failures
    cfg_restart_on_logoff,  \* PROG_CONFIG.restart_on_logoff
    MaxRestarts             \* bound: restart_auth alarms pending at once

ASSUME CfgAssumption ==
    /\ cfg_auth_round \in Nat \ {0}
    /\ cfg_max_failures \in Nat
    /\ cfg_restart_on_logoff \in BOOLEAN
    /\ MaxRestarts \in Nat

VARIABLES
    running,          \* the process has not exited
    state,
    auth_round,
    fail_count,
    server_mac,
    last_recv_frame,  \* what the machine's copy of the last frame is, or NULL
    restarts,         \* number of restart_auth alarms pending
    last_sent,        \* the frame given to send_frame last
    streak            \* history: FAILUREs during authentication since a SUCCESS

eap == <<state, auth_round, fail_count, server_mac, last_recv_frame, restarts,
         last_sent, streak>>
vars == <<running, state, auth_round, fail_count, server_mac, last_recv_frame,
          restarts, last_sent, streak>>

NULL == "null"
BCAST_ADDR == "bcast"
SERVER == "server"

EapState == {"UNKNOWN", "PREPARING", "START_SENT", "IDENTITY_SENT",
             "CHALLENGE_SENT", "SUCCESS", "FAILURE"}
Request == {"identity", "md5", "other_request"}
Frame == Request \cup {"success", "failure", "unhandled"}
NoFrame == [type |-> "none", dst |-> BCAST_ADDR]
Sent == [type : {"none", "start", "identity", "md5"}, dst : {BCAST_ADDR, SERVER}]

-----------------------------------------------------------------------------
(* eap_state_machine_init. *)
Init ==
    /\ running = TRUE
    /\ state = "UNKNOWN"
    /\ auth_round = 1
    /\ fail_count = 0
    /\ server_mac = BCAST_ADDR
    /\ last_recv_frame = NULL
    /\ restarts = 0
    /\ last_sent = NoFrame
    /\ streak = 0

(* main has entered trans_to_preparing, so frames and alarms reach the machine. *)
Started == running /\ state # "UNKNOWN"

(* The part of eap_state_machine_reset that survives the state assignment of
   the switch_to_state around it.                                           *)
reset ==
    /\ last_recv_frame' = NULL
    /\ auth_round' = 1
    /\ fail_count' = 0
    /\ server_mac' = BCAST_ADDR

(* Building, preparing and sending a frame succeeds, or a plugin or the
   interface reports an error and switch_to_state exits.                    *)
Send(type, dst, ok, target, onError) ==
    IF ok THEN /\ last_sent' = [type |-> type, dst |-> dst]
               /\ state' = target
               /\ UNCHANGED running
          ELSE /\ running' = FALSE
               /\ state' = onError
               /\ UNCHANGED last_sent

(* switch_to_state(PREPARING): EAPOL-Start, then the blocking capture. *)
Launch(ok) ==
    /\ running /\ state = "UNKNOWN"
    /\ Send("start", server_mac, ok, "START_SENT", state)
    /\ UNCHANGED <<auth_round, fail_count, server_mac, last_recv_frame, restarts,
                   streak>>

(* start_capture returned: PREPARING is assigned at last and main returns. *)
CaptureEnds ==
    /\ Started
    /\ running' = FALSE
    /\ state' = "PREPARING"
    /\ UNCHANGED <<auth_round, fail_count, server_mac, last_recv_frame, restarts,
                   last_sent, streak>>

(* signal_handler, a crash, or an error in a plugin's own EAPOL-Start: the
   process ends with the machine as it is.                                  *)
Exit ==
    /\ running
    /\ running' = FALSE
    /\ UNCHANGED eap

-----------------------------------------------------------------------------
(* A plugin calls switch_to_state(START_SENT) from an alarm. *)
PluginStart(ok) ==
    /\ Started
    /\ Send("start", server_mac, ok, "START_SENT", state)
    /\ UNCHANGED <<auth_round, fail_count, server_mac, last_recv_frame, restarts,
                   streak>>

(* Mutant of RecvRequest: the answer is sent before the server's address is kept. *)
RecvRequest_AddressTooLate(type, ok) ==
    /\ Started
    /\ last_recv_frame' = type
    /\ server_mac' = SERVER
    /\ CASE type = "identity" -> Send("identity", server_mac, ok, "IDENTITY_SENT", state)
         [] type = "md5" -> Send("md5", server_mac, ok, "CHALLENGE_SENT", state)
         [] OTHER -> UNCHANGED <<running, state, last_sent>>
    /\ UNCHANGED <<auth_round, fail_count, restarts, streak>>

(* recv_handler on an EAP Request: keep the server's address, answer. *)
RecvRequest(type, ok) ==
    /\ Started
    /\ last_recv_frame' = type
    /\ server_mac' = SERVER
    /\ CASE type = "identity" -> Send("identity", SERVER, ok, "IDENTITY_SENT", state)
         [] type = "md5" -> Send("md5", SERVER, ok, "CHALLENGE_SENT", state)
         [] OTHER -> UNCHANGED <<running, state, last_sent>>
    /\ UNCHANGED <<auth_round, fail_count, restarts, streak>>

(* recv_handler on another EAP code or another EAPOL type: only the copy. *)
RecvUnhandled ==
    /\ Started
    /\ last_recv_frame' = "unhandled"
    /\ UNCHANGED <<running, state, auth_round, fail_count, server_mac, restarts,
                   last_sent, streak>>

(* recv_handler on an EAP Success.  The plugins run first, and one of them may
   send an EAPOL-Start of its own.  Then process_success ends the last round
   or starts the next one, and switch_to_state assigns SUCCESS over whatever
   state those nested switches left.                                        *)
LastRound(pluginStarts) ==
    /\ Started /\ auth_round = cfg_auth_round
    /\ last_sent' = IF pluginStarts THEN [type |-> "start", dst |-> server_mac]
                    ELSE last_sent
    /\ reset
    /\ state' = "SUCCESS"
    /\ streak' = 0
    /\ UNCHANGED <<running, restarts>>

(* Mutant of NextRound: the round is compared with <= instead of ==. *)
NextRound_OffByOne(ok) ==
    /\ Started /\ auth_round <= cfg_auth_round
    /\ last_recv_frame' = "success"
    /\ fail_count' = 0
    /\ auth_round' = auth_round + 1
    /\ Send("start", server_mac, ok, "SUCCESS", state)
    /\ streak' = 0
    /\ UNCHANGED <<server_mac, restarts>>

NextRound(ok) ==
    /\ Started /\ auth_round # cfg_auth_round
    /\ last_recv_frame' = "success"
    /\ fail_count' = 0
    /\ auth_round' = auth_round + 1
    /\ Send("start", server_mac, ok, "SUCCESS", state)
    /\ streak' = 0
    /\ UNCHANGED <<server_mac, restarts>>

ScheduleRestart ==
    /\ restarts < MaxRestarts
    /\ restarts' = restarts + 1

(* Mutant of ForcedOffline: no restart_auth is scheduled. *)
ForcedOffline_NoRestart ==
    /\ Started /\ state = "SUCCESS"
    /\ last_recv_frame' = "failure"
    /\ IF cfg_restart_on_logoff
       THEN state' = "FAILURE" /\ UNCHANGED <<running, restarts>>
       ELSE running' = FALSE /\ UNCHANGED <<restarts, state>>
    /\ UNCHANGED <<auth_round, fail_count, server_mac, last_sent, streak>>

(* recv_handler on an EAP Failure: process_failure tells a session that was
   cut off from a failed authentication.                                    *)
ForcedOffline ==
    /\ Started /\ state = "SUCCESS"
    /\ last_recv_frame' = "failure"
    /\ IF cfg_restart_on_logoff
       THEN ScheduleRestart /\ state' = "FAILURE" /\ UNCHANGED running
       ELSE running' = FALSE /\ UNCHANGED <<restarts, state>>
    /\ UNCHANGED <<auth_round, fail_count, server_mac, last_sent, streak>>

(* Mutant of AuthFailed: the limit is compared before the count is raised. *)
AuthFailed_CheckedTooSoon ==
    /\ Started /\ state # "SUCCESS"
    /\ last_recv_frame' = "failure"
    /\ fail_count' = fail_count + 1
    /\ streak' = IF streak < cfg_max_failures THEN streak + 1 ELSE streak
    /\ IF fail_count = cfg_max_failures
       THEN running' = FALSE /\ UNCHANGED <<restarts, state>>
       ELSE ScheduleRestart /\ state' = "FAILURE" /\ UNCHANGED running
    /\ UNCHANGED <<auth_round, server_mac, last_sent>>

AuthFailed ==
    /\ Started /\ state # "SUCCESS"
    /\ last_recv_frame' = "failure"
    /\ fail_count' = fail_count + 1
    /\ streak' = IF streak < cfg_max_failures THEN streak + 1 ELSE streak
    /\ IF fail_count' = cfg_max_failures
       THEN running' = FALSE /\ UNCHANGED <<restarts, state>>
       ELSE ScheduleRestart /\ state' = "FAILURE" /\ UNCHANGED running
    /\ UNCHANGED <<auth_round, server_mac, last_sent>>

(* Mutant of Restart: the alarm sets itself again instead of switching the state. *)
Restart_NoSwitch(ok) ==
    /\ Started /\ restarts > 0
    /\ reset
    /\ UNCHANGED <<running, state, restarts, last_sent, streak>>

(* A restart_auth alarm. *)
Restart(ok) ==
    /\ Started /\ restarts > 0
    /\ restarts' = restarts - 1
    /\ reset
    /\ Send("start", BCAST_ADDR, ok, "START_SENT", "UNKNOWN")
    /\ UNCHANGED streak

Terminated == ~running /\ UNCHANGED vars

Next ==
    \/ \E ok \in BOOLEAN :
          \/ Launch(ok) \/ Restart(ok) \/ PluginStart(ok)
          \/ \E type \in Request : RecvRequest(type, ok)
          \/ NextRound(ok)
    \/ \E pluginStarts \in BOOLEAN : LastRound(pluginStarts)
    \/ RecvUnhandled \/ ForcedOffline \/ AuthFailed
    \/ CaptureEnds \/ Exit \/ Terminated

Spec == Init /\ [][Next]_vars

(* A pending alarm rings: the scheduler strands no event (SchedAlarm). *)
FairSpec ==
    /\ Spec
    /\ WF_vars(\E ok \in BOOLEAN : Launch(ok))
    /\ WF_vars(\E ok \in BOOLEAN : Restart(ok))

-----------------------------------------------------------------------------
(* Types of STATE_MACH_PRIV; the round stays within the configured rounds. *)
TypeOK ==
    /\ running \in BOOLEAN
    /\ state \in EapState
    /\ auth_round \in 1..cfg_auth_round
    /\ fail_count \in Nat
    /\ server_mac \in {BCAST_ADDR, SERVER}
    /\ last_recv_frame \in Frame \cup {NULL}
    /\ restarts \in 0..MaxRestarts
    /\ last_sent \in Sent
    /\ streak \in Nat

(* A running machine in FAILURE always has a restart_auth alarm pending: no
   sequence of frames and alarms consumes the alarm and leaves FAILURE behind. *)
FailureWillRestart == running /\ state = "FAILURE" => restarts > 0

(* The "==" of process_failure never misses its limit: while the process runs
   the count stays below it, so the next increment cannot jump past it.      *)
FailCountBelowMax == running /\ cfg_max_failures > 0 => fail_count < cfg_max_failures

(* The state names the frame that is waiting for an answer, and the answers to
   requests were sent to the server's own address, never to the group address. *)
StateTellsLastSent ==
    running =>
      /\ state = "START_SENT" => last_sent.type = "start"
      /\ state = "IDENTITY_SENT" => last_sent = [type |-> "identity", dst |-> SERVER]
      /\ state = "CHALLENGE_SENT" => last_sent = [type |-> "md5", dst |-> SERVER]

(* A failed or cut-off client does not stay failed: it starts over or exits. *)
LeavesFailure == (running /\ state = "FAILURE") ~> ~(running /\ state = "FAILURE")

(* config.h on max_failures: "Max number of CONTINOUS failures before we exit". *)
MaxFailuresHonoured == running /\ cfg_max_failures > 0 => streak < cfg_max_failures
=============================================================================
