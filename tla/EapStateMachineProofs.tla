------------------------ MODULE EapStateMachineProofs ------------------------
(***************************************************************************)
(* Proofs about the state machine, for every number of rounds, every       *)
(* failure limit and every bound on pending restarts.                      *)
(***************************************************************************)
EXTENDS EapStateMachine, TLAPS

USE CfgAssumption DEF NULL, BCAST_ADDR, SERVER

(* Sending a frame, or failing to, keeps the three fields it assigns typed. *)
LEMMA SendType ==
  ASSUME TypeOK, NEW type \in {"start", "identity", "md5"},
         NEW dst \in {BCAST_ADDR, SERVER}, NEW ok \in BOOLEAN,
         NEW target \in EapState, NEW onError \in EapState,
         Send(type, dst, ok, target, onError)
  PROVE  running' \in BOOLEAN /\ state' \in EapState /\ last_sent' \in Sent
<1>1. CASE ok
  BY <1>1 DEF Send, TypeOK, Sent
<1>2. CASE ~ok
  BY <1>2 DEF Send, TypeOK
<1>3. QED
  BY <1>1, <1>2

LEMMA TypeStep == TypeOK /\ [Next]_vars => TypeOK'
<1> SUFFICES ASSUME TypeOK, [Next]_vars PROVE TypeOK'
  OBVIOUS
<1> USE DEF Started
<1>0. \A s \in {"UNKNOWN", "START_SENT", "IDENTITY_SENT", "CHALLENGE_SENT", "SUCCESS",
               "FAILURE", "PREPARING"} : s \in EapState
  BY DEF EapState
<1>1. ASSUME NEW ok \in BOOLEAN, Launch(ok) \/ PluginStart(ok) PROVE TypeOK'
  <2>1. running' \in BOOLEAN /\ state' \in EapState /\ last_sent' \in Sent
    BY <1>0, <1>1, SendType DEF TypeOK, Launch, PluginStart
  <2>2. QED
    BY <1>1, <2>1 DEF TypeOK, Launch, PluginStart
<1>2. ASSUME NEW ok \in BOOLEAN, Restart(ok) PROVE TypeOK'
  <2>1. running' \in BOOLEAN /\ state' \in EapState /\ last_sent' \in Sent
    BY <1>0, <1>2, SendType DEF TypeOK, Restart
  <2>2. QED
    BY <1>2, <2>1 DEF TypeOK, Restart, reset
<1>3. ASSUME NEW ok \in BOOLEAN, NEW type \in Request, RecvRequest(type, ok)
      PROVE TypeOK'
  <2>1. running' \in BOOLEAN /\ state' \in EapState /\ last_sent' \in Sent
    <3>1. CASE type = "identity"
      BY <1>0, <1>3, <3>1, SendType DEF TypeOK, RecvRequest
    <3>2. CASE type = "md5"
      BY <1>0, <1>3, <3>2, SendType DEF TypeOK, RecvRequest
    <3>3. CASE type = "other_request"
      BY <1>3, <3>3 DEF TypeOK, RecvRequest
    <3>4. QED
      BY <3>1, <3>2, <3>3 DEF Request
  <2>2. QED
    BY <1>3, <2>1 DEF TypeOK, RecvRequest, Frame
<1>4. ASSUME NEW ok \in BOOLEAN, NextRound(ok) PROVE TypeOK'
  <2>1. running' \in BOOLEAN /\ state' \in EapState /\ last_sent' \in Sent
    BY <1>0, <1>4, SendType DEF TypeOK, NextRound
  <2>2. QED
    BY <1>4, <2>1 DEF TypeOK, NextRound, Frame
<1>5. ASSUME NEW pluginStarts \in BOOLEAN, LastRound(pluginStarts) PROVE TypeOK'
  <2>1. last_sent' \in Sent
    BY <1>5 DEF TypeOK, LastRound, Sent
  <2>2. QED
    BY <1>0, <1>5, <2>1 DEF TypeOK, LastRound, reset
<1>6. CASE RecvUnhandled
  BY <1>6 DEF TypeOK, RecvUnhandled, Frame
<1>7. CASE ForcedOffline
  <2>1. CASE cfg_restart_on_logoff
    BY <1>0, <1>7, <2>1 DEF TypeOK, ForcedOffline, ScheduleRestart, Frame
  <2>2. CASE ~cfg_restart_on_logoff
    BY <1>7, <2>2 DEF TypeOK, ForcedOffline, Frame
  <2>3. QED
    BY <2>1, <2>2
<1>8. CASE AuthFailed
  <2>1. streak' \in Nat /\ fail_count' \in Nat
    BY <1>8 DEF TypeOK, AuthFailed
  <2>2. CASE fail_count' = cfg_max_failures
    <3>1. running' = FALSE /\ restarts' = restarts /\ state' = state
      BY <1>8, <2>2 DEF AuthFailed
    <3>2. QED
      BY <1>8, <2>1, <3>1 DEF TypeOK, AuthFailed, Frame
  <2>3. CASE fail_count' # cfg_max_failures
    BY <1>0, <1>8, <2>1, <2>3 DEF TypeOK, AuthFailed, ScheduleRestart, Frame
  <2>4. QED
    BY <2>2, <2>3
<1>9. CASE CaptureEnds \/ Exit \/ Terminated
  BY <1>0, <1>9 DEF TypeOK, CaptureEnds, Exit, Terminated, eap, vars
<1>10. CASE UNCHANGED vars
  BY <1>10 DEF TypeOK, vars
<1>11. QED
  BY <1>1, <1>2, <1>3, <1>4, <1>5, <1>6, <1>7, <1>8, <1>9, <1>10 DEF Next

(* The state machine keeps its fields in their types, and auth_round within
   the configured number of rounds.                                          *)
THEOREM TypeCorrect == Spec => []TypeOK
<1>1. Init => TypeOK
  BY DEF Init, TypeOK, EapState, Sent, NoFrame
<1>2. QED
  BY <1>1, TypeStep, PTL DEF Spec

-----------------------------------------------------------------------------
(* What the two guarantees about failures need of each other: nothing but the
   types, so each is inductive next to TypeOK.                               *)
FailureInv == FailureWillRestart /\ FailCountBelowMax

LEMMA FailureStep == TypeOK /\ FailureInv /\ [Next]_vars => FailureInv'
<1> SUFFICES ASSUME TypeOK, FailureInv, [Next]_vars PROVE FailureInv'
  OBVIOUS
<1> USE DEF TypeOK, FailureInv, FailureWillRestart, FailCountBelowMax, Started
<1>1. ASSUME NEW ok \in BOOLEAN, Launch(ok) \/ PluginStart(ok) PROVE FailureInv'
  BY <1>1 DEF Send, Launch, PluginStart
<1>2. ASSUME NEW ok \in BOOLEAN, Restart(ok) PROVE FailureInv'
  BY <1>2 DEF Send, Restart, reset
<1>3. ASSUME NEW ok \in BOOLEAN, NEW type \in Request, RecvRequest(type, ok)
      PROVE FailureInv'
  BY <1>3 DEF Send, RecvRequest, Request
<1>4. ASSUME NEW ok \in BOOLEAN, NextRound(ok) PROVE FailureInv'
  BY <1>4 DEF Send, NextRound
<1>5. ASSUME NEW pluginStarts \in BOOLEAN, LastRound(pluginStarts) PROVE FailureInv'
  BY <1>5 DEF LastRound, reset
<1>6. CASE RecvUnhandled
  BY <1>6 DEF RecvUnhandled
<1>7. CASE ForcedOffline
  <2>1. CASE cfg_restart_on_logoff
    BY <1>7, <2>1 DEF ForcedOffline, ScheduleRestart
  <2>2. CASE ~cfg_restart_on_logoff
    BY <1>7, <2>2 DEF ForcedOffline
  <2>3. QED
    BY <2>1, <2>2
<1>8. CASE AuthFailed
  <2>1. CASE fail_count' = cfg_max_failures
    <3>1. running' = FALSE
      BY <1>8, <2>1 DEF AuthFailed
    <3>2. QED
      BY <3>1
  <2>2. CASE fail_count' # cfg_max_failures
    <3>1. running /\ fail_count' = fail_count + 1 /\ restarts' > 0
      BY <1>8, <2>2 DEF AuthFailed, ScheduleRestart
    <3>2. QED
      BY <2>2, <3>1
  <2>3. QED
    BY <2>1, <2>2
<1>9. CASE CaptureEnds \/ Exit \/ Terminated
  BY <1>9 DEF CaptureEnds, Exit, Terminated, eap, vars
<1>10. CASE UNCHANGED vars
  BY <1>10 DEF vars
<1>11. QED
  BY <1>1, <1>2, <1>3, <1>4, <1>5, <1>6, <1>7, <1>8, <1>9, <1>10 DEF Next

LEMMA FailureInvariant == Spec => []FailureInv
<1>1. Init => FailureInv
  BY DEF Init, FailureInv, FailureWillRestart, FailCountBelowMax
<1>2. QED
  BY <1>1, FailureStep, TypeCorrect, PTL DEF Spec

(* No sequence of frames, alarms and plugin requests leaves a running client
   in FAILURE without a restart_auth alarm.                                  *)
THEOREM FailureWillRestartHolds == Spec => []FailureWillRestart
<1>1. FailureInv => FailureWillRestart
  BY DEF FailureInv
<1>2. QED
  BY <1>1, FailureInvariant, PTL

(* The equality test on fail_count cannot be jumped over. *)
THEOREM FailCountBelowMaxHolds == Spec => []FailCountBelowMax
<1>1. FailureInv => FailCountBelowMax
  BY DEF FailureInv
<1>2. QED
  BY <1>1, FailureInvariant, PTL

-----------------------------------------------------------------------------
LEMMA LastSentStep == TypeOK /\ StateTellsLastSent /\ [Next]_vars => StateTellsLastSent'
<1> SUFFICES ASSUME TypeOK, StateTellsLastSent, [Next]_vars PROVE StateTellsLastSent'
  OBVIOUS
<1> USE DEF TypeOK, StateTellsLastSent, Started
<1>1. ASSUME NEW ok \in BOOLEAN, Launch(ok) \/ PluginStart(ok) \/ Restart(ok)
      PROVE StateTellsLastSent'
  <2>1. running' = FALSE \/ (state' = "START_SENT" /\ last_sent'.type = "start")
    BY <1>1 DEF Send, Launch, PluginStart, Restart
  <2>2. QED
    BY <2>1
<1>2. ASSUME NEW ok \in BOOLEAN, NEW type \in Request, RecvRequest(type, ok)
      PROVE StateTellsLastSent'
  BY <1>2 DEF Send, RecvRequest, Request
<1>3. ASSUME NEW ok \in BOOLEAN, NextRound(ok) PROVE StateTellsLastSent'
  BY <1>3 DEF Send, NextRound
<1>4. ASSUME NEW pluginStarts \in BOOLEAN, LastRound(pluginStarts)
      PROVE StateTellsLastSent'
  BY <1>4 DEF LastRound
<1>5. CASE RecvUnhandled
  BY <1>5 DEF RecvUnhandled
<1>6. CASE ForcedOffline \/ AuthFailed
  <2>1. running' = FALSE \/ state' = "FAILURE"
    BY <1>6 DEF ForcedOffline, AuthFailed
  <2>2. QED
    BY <2>1
<1>7. CASE CaptureEnds \/ Exit \/ Terminated
  BY <1>7 DEF CaptureEnds, Exit, Terminated, eap, vars
<1>8. CASE UNCHANGED vars
  BY <1>8 DEF vars
<1>9. QED
  BY <1>1, <1>2, <1>3, <1>4, <1>5, <1>6, <1>7, <1>8 DEF Next

(* The state of a running machine always names the frame it sent last, and the
   answers to requests went to the server's own address.                     *)
THEOREM StateTellsLastSentHolds == Spec => []StateTellsLastSent
<1>1. Init => StateTellsLastSent
  BY DEF Init, StateTellsLastSent
<1>2. QED
  BY <1>1, LastSentStep, TypeCorrect, PTL DEF Spec
=============================================================================
