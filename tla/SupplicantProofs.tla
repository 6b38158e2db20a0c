-------------------------- MODULE SupplicantProofs --------------------------
(***************************************************************************)
(* Proofs about the composed client, for every value of the constants.     *)
(* Refinement carries the components' own theorems over; they are then     *)
(* used for what neither component can say alone.                          *)
(***************************************************************************)
EXTENDS Supplicant, TLAPS

E == INSTANCE EapStateMachineProofs
R == INSTANCE Rjv3PluginProofs

-----------------------------------------------------------------------------
(* The component modules and the modules of their proofs say the same. *)
LEMMA Assumptions == E!CfgAssumption /\ R!PluginAssumption
BY ConfigAssumption DEF R!PluginAssumption, R!DhcpType, RJ!DhcpType, R!NULL, RJ!NULL, R!ZeroKey,
   RJ!ZeroKey, R!NoKey, RJ!NoKey

LEMMA SameEap == EAP!Spec <=> E!Spec
BY DEF EAP!Spec, E!Spec, EAP!Init, E!Init, EAP!Next, E!Next, EAP!vars, E!vars,
   EAP!eap, E!eap, EAP!Launch, E!Launch, EAP!Restart, E!Restart, EAP!PluginStart,
   E!PluginStart, EAP!RecvRequest, E!RecvRequest, EAP!RecvUnhandled,
   E!RecvUnhandled, EAP!NextRound, E!NextRound, EAP!LastRound, E!LastRound,
   EAP!ForcedOffline, E!ForcedOffline, EAP!AuthFailed, E!AuthFailed,
   EAP!CaptureEnds, E!CaptureEnds, EAP!Exit, E!Exit, EAP!Terminated, E!Terminated,
   EAP!ScheduleRestart, E!ScheduleRestart, EAP!reset, E!reset, EAP!Send, E!Send,
   EAP!Started, E!Started, EAP!Request, E!Request, EAP!NULL, E!NULL,
   EAP!BCAST_ADDR, E!BCAST_ADDR, EAP!SERVER, E!SERVER, EAP!NoFrame, E!NoFrame

LEMMA SameRj == RJ!Spec <=> R!Spec
BY DEF RJ!Spec, R!Spec, RJ!Init, R!Init, RJ!Next, R!Next, RJ!vars, R!vars,
   RJ!OnOtherFrame, R!OnOtherFrame, RJ!OnFailure, R!OnFailure,
   RJ!KeepaliveTimer, R!KeepaliveTimer, RJ!OnSuccessSingle, R!OnSuccessSingle,
   RJ!OnSuccessFirst, R!OnSuccessFirst, RJ!OnSuccessSecond, R!OnSuccessSecond,
   RJ!SecondaryTimer, R!SecondaryTimer, RJ!StartSecondaryAuth,
   R!StartSecondaryAuth, RJ!LeaseReady, R!LeaseReady, RJ!LeaseMissing,
   R!LeaseMissing, RJ!LeaseGivenUp, R!LeaseGivenUp, RJ!KeyAfter, R!KeyAfter,
   RJ!KeepalivesAfterReset, R!KeepalivesAfterReset, RJ!StartHeartbeat,
   R!StartHeartbeat, RJ!IdLeft, R!IdLeft, RJ!NewId, R!NewId, RJ!Double, R!Double,
   RJ!Offer, R!Offer, RJ!NULL, R!NULL, RJ!ZeroKey, R!ZeroKey, RJ!NoKey, R!NoKey

-----------------------------------------------------------------------------
(* Every step of the client is a step of the state machine, or leaves it alone. *)
LEMMA EapStep == [Next]_vars => [EAP!Next]_(EAP!vars)
<1> SUFFICES ASSUME [Next]_vars PROVE [EAP!Next]_(EAP!vars)
  OBVIOUS
<1>1. ASSUME NEW ok \in BOOLEAN, Start(ok) \/ RestartAuth(ok) \/ SecondaryAuthStarts(ok)
      PROVE EAP!Next
  BY <1>1 DEF Start, RestartAuth, SecondaryAuthStarts, EAP!Next
<1>2. ASSUME NEW ok \in BOOLEAN, NEW type \in EAP!Request, RecvRequest(type, ok)
      PROVE EAP!Next
  BY <1>2 DEF RecvRequest, EAP!Next
<1>3. ASSUME NEW ok \in BOOLEAN, NEW offer \in RJ!Offer, NEW lease \in BOOLEAN,
             RecvSuccess(offer, lease, ok)
      PROVE EAP!Next
  <2>1. StartsAtOnce(lease) \in BOOLEAN
    BY DEF StartsAtOnce
  <2>2. EAP!LastRound(StartsAtOnce(lease)) \/ EAP!NextRound(ok)
    BY <1>3 DEF RecvSuccess
  <2>3. QED
    BY <2>1, <2>2 DEF EAP!Next
<1>4. ASSUME NEW offer \in RJ!Offer, RecvSuccessFails(offer) PROVE EAP!Next
  BY <1>4 DEF RecvSuccessFails, EAP!Next
<1>5. CASE RecvUnhandled \/ RecvFailure
  BY <1>5 DEF RecvUnhandled, RecvFailure, EAP!Next
<1>6. CASE SendKeepaliveTimed \/ SecondaryAuthWaits
  BY <1>6 DEF SendKeepaliveTimed, SecondaryAuthWaits, eap_vars, EAP!vars
<1>7. CASE SecondaryAuthCrashes \/ Stop
  BY <1>7 DEF SecondaryAuthCrashes, Stop, EAP!Next
<1>8. CASE Terminated \/ UNCHANGED vars
  BY <1>8 DEF Terminated, vars, eap_vars, EAP!vars
<1>9. QED
  BY <1>1, <1>2, <1>3, <1>4, <1>5, <1>6, <1>7, <1>8 DEF Next

(* Whatever the plugin does to it, the state machine of the composed client
   behaves as EapStateMachine specifies.                                    *)
THEOREM EapRefinedHolds == Spec => EapRefined
<1>1. Init => EAP!Init
  BY DEF Init
<1>2. QED
  BY <1>1, EapStep, PTL DEF Spec, EapRefined, EAP!Spec

-----------------------------------------------------------------------------
(* A crashed plugin is a dead process, so no step follows its crash. *)
CrashIsExit == crashed => ~running

(* The plugin's part of a step, when its process is running. *)
LEMMA RjStep == CrashIsExit /\ [Next]_vars => [RJ!Next]_(RJ!vars)
<1> SUFFICES ASSUME CrashIsExit, [Next]_vars PROVE [RJ!Next]_(RJ!vars)
  OBVIOUS
<1> USE DEF CrashIsExit
<1>1. ASSUME NEW ok \in BOOLEAN, Start(ok) \/ RestartAuth(ok) PROVE UNCHANGED RJ!vars
  BY <1>1 DEF Start, RestartAuth, rj_vars, RJ!vars
<1>2. ASSUME NEW ok \in BOOLEAN, SecondaryAuthStarts(ok) PROVE RJ!Next
  BY <1>2 DEF SecondaryAuthStarts, EAP!PluginStart, EAP!Started, RJ!Next
<1>3. ASSUME NEW ok \in BOOLEAN, NEW type \in EAP!Request, RecvRequest(type, ok)
      PROVE RJ!Next
  BY <1>3 DEF RecvRequest, EAP!RecvRequest, EAP!Started, RJ!Next
<1>4. ASSUME NEW ok \in BOOLEAN, NEW offer \in RJ!Offer, NEW lease \in BOOLEAN,
             RecvSuccess(offer, lease, ok)
      PROVE RJ!Next
  <2>1. ~crashed
    BY <1>4 DEF RecvSuccess, EAP!LastRound, EAP!NextRound, EAP!Started
  <2>2. QED
    BY <1>4, <2>1 DEF RecvSuccess, PluginSuccess, RJ!Next
<1>5. ASSUME NEW offer \in RJ!Offer, RecvSuccessFails(offer) PROVE RJ!Next
  BY <1>5 DEF RecvSuccessFails, EAP!Started, RJ!Next
<1>6. CASE RecvUnhandled
  BY <1>6 DEF RecvUnhandled, EAP!RecvUnhandled, EAP!Started, RJ!Next
<1>7. CASE RecvFailure
  BY <1>7 DEF RecvFailure, EAP!ForcedOffline, EAP!AuthFailed, EAP!Started, RJ!Next
<1>8. CASE SendKeepaliveTimed \/ SecondaryAuthWaits \/ SecondaryAuthCrashes
  BY <1>8 DEF SendKeepaliveTimed, SecondaryAuthWaits, SecondaryAuthCrashes,
     EAP!Started, RJ!Next
<1>9. CASE Stop \/ Terminated \/ UNCHANGED vars
  BY <1>9 DEF Stop, Terminated, vars, rj_vars, RJ!vars
<1>10. QED
  BY <1>1, <1>2, <1>3, <1>4, <1>5, <1>6, <1>7, <1>8, <1>9 DEF Next

(* The plugin cannot crash while a Success is handled: the copy is fresh. *)
LEMMA NoCrashOnSuccess ==
  ASSUME NEW offer \in RJ!Offer, NEW lease \in BOOLEAN, PluginSuccess(offer, lease)
  PROVE  crashed' = crashed
<1>1. offer # RJ!NULL
  BY ConfigAssumption DEF RJ!Offer, RJ!NULL, RJ!NoKey
<1>2. QED
  BY <1>1 DEF PluginSuccess, RJ!OnSuccessSingle, RJ!OnSuccessFirst,
     RJ!OnSuccessSecond, RJ!StartSecondaryAuth, RJ!LeaseReady, RJ!LeaseMissing,
     RJ!LeaseGivenUp

LEMMA CrashStep == CrashIsExit /\ [Next]_vars => CrashIsExit'
<1> SUFFICES ASSUME CrashIsExit, [Next]_vars PROVE CrashIsExit'
  OBVIOUS
<1> USE DEF CrashIsExit
<1>1. ASSUME NEW ok \in BOOLEAN, Start(ok) PROVE CrashIsExit'
  BY <1>1 DEF Start, EAP!Launch, rj_vars
<1>2. ASSUME NEW ok \in BOOLEAN, RestartAuth(ok) PROVE CrashIsExit'
  BY <1>2 DEF RestartAuth, EAP!Restart, EAP!Started, rj_vars
<1>3. ASSUME NEW ok \in BOOLEAN, SecondaryAuthStarts(ok) PROVE CrashIsExit'
  BY <1>3 DEF SecondaryAuthStarts, EAP!PluginStart, EAP!Started, RJ!SecondaryTimer,
     RJ!StartSecondaryAuth, RJ!LeaseReady
<1>4. ASSUME NEW ok \in BOOLEAN, NEW type \in EAP!Request, RecvRequest(type, ok)
      PROVE CrashIsExit'
  BY <1>4 DEF RecvRequest, EAP!RecvRequest, EAP!Started, RJ!OnOtherFrame
<1>5. ASSUME NEW ok \in BOOLEAN, NEW offer \in RJ!Offer, NEW lease \in BOOLEAN,
             RecvSuccess(offer, lease, ok)
      PROVE CrashIsExit'
  <2>1. crashed' = crashed
    BY <1>5, NoCrashOnSuccess DEF RecvSuccess
  <2>2. running
    BY <1>5 DEF RecvSuccess, EAP!LastRound, EAP!NextRound, EAP!Started
  <2>3. QED
    BY <2>1, <2>2
<1>6. ASSUME NEW offer \in RJ!Offer, RecvSuccessFails(offer) PROVE CrashIsExit'
  BY <1>6 DEF RecvSuccessFails, EAP!Exit
<1>7. CASE RecvUnhandled
  BY <1>7 DEF RecvUnhandled, EAP!RecvUnhandled, EAP!Started, RJ!OnOtherFrame
<1>8. CASE RecvFailure
  BY <1>8 DEF RecvFailure, EAP!ForcedOffline, EAP!AuthFailed, EAP!Started,
     RJ!OnFailure
<1>9. CASE SendKeepaliveTimed
  BY <1>9 DEF SendKeepaliveTimed, EAP!Started, RJ!KeepaliveTimer
<1>10. CASE SecondaryAuthWaits
  BY <1>10 DEF SecondaryAuthWaits
<1>11. CASE SecondaryAuthCrashes \/ Stop
  BY <1>11 DEF SecondaryAuthCrashes, Stop, EAP!Exit, EAP!CaptureEnds
<1>12. CASE Terminated \/ UNCHANGED vars
  BY <1>12 DEF Terminated, vars, eap_vars, rj_vars
<1>13. QED
  BY <1>1, <1>2, <1>3, <1>4, <1>5, <1>6, <1>7, <1>8, <1>9, <1>10, <1>11, <1>12 DEF Next

LEMMA CrashInvariant == Spec => []CrashIsExit
<1>1. Init => CrashIsExit
  BY DEF Init, RJ!Init, CrashIsExit
<1>2. QED
  BY <1>1, CrashStep, PTL DEF Spec

(* The plugin of the composed client behaves as Rjv3Plugin specifies. *)
THEOREM Rjv3RefinedHolds == Spec => Rjv3Refined
<1>1. Init => RJ!Init
  BY DEF Init
<1>2. QED
  BY <1>1, RjStep, CrashInvariant, PTL DEF Spec, Rjv3Refined, RJ!Spec

-----------------------------------------------------------------------------
(* The state machine's recovery from FAILURE, proved for EapStateMachine, holds
   with the plugin's own EAPOL-Starts and crashes in the picture.           *)
THEOREM FailureWillRestartComposed == Spec => []EAP!FailureWillRestart
<1>1. E!FailureWillRestart <=> EAP!FailureWillRestart
  BY DEF E!FailureWillRestart, EAP!FailureWillRestart
<1>2. EAP!Spec => []E!FailureWillRestart
  BY Assumptions, SameEap, E!FailureWillRestartHolds
<1>3. QED
  BY <1>1, <1>2, EapRefinedHolds, PTL DEF EapRefined

(* The plugin's type invariant, carried over from its own proofs. *)
THEOREM PluginTypeOKHolds == Spec => []PluginTypeOK
<1>1. R!TypeOK <=> PluginTypeOK
  BY DEF PluginTypeOK, R!TypeOK, RJ!TypeOK, R!Double, RJ!Double, R!Offer, RJ!Offer,
     R!NULL, RJ!NULL, R!NoKey, RJ!NoKey, R!ZeroKey, RJ!ZeroKey
<1>2. RJ!Spec => []R!TypeOK
  BY Assumptions, SameRj, R!TypeCorrect
<1>3. QED
  BY <1>1, <1>2, Rjv3RefinedHolds, PTL DEF Rjv3Refined

LEMMA HeartbeatStarts ==
  ASSUME NEW pending, RJ!StartHeartbeat(pending)
  PROVE  keepalives' # {}
BY DEF RJ!StartHeartbeat

-----------------------------------------------------------------------------
(* An action that sends an EAPOL-Start or an answer leaves SUCCESS and FAILURE,
   or exits.                                                                 *)
LEMMA SendLeaves ==
  ASSUME NEW type, NEW dst, NEW ok \in BOOLEAN, NEW target, NEW onError,
         target \notin {"SUCCESS", "FAILURE"}, EAP!Send(type, dst, ok, target, onError)
  PROVE  ~(running' /\ state' = "SUCCESS") /\ ~(running' /\ state' = "FAILURE")
<1>1. CASE ok
  BY <1>1 DEF EAP!Send
<1>2. CASE ~ok
  BY <1>2 DEF EAP!Send
<1>3. QED
  BY <1>1, <1>2

(* A Success frame with a key always starts a chain: of heartbeats, of attempts
   at the second authentication, or the second authentication itself.       *)
LEMMA SuccessStartsChain ==
  ASSUME PluginTypeOK, NEW ok \in BOOLEAN, NEW offer \in RJ!Offer,
         NEW lease \in BOOLEAN, RecvSuccess(offer, lease, ok)
  PROVE  OnlineHasHeartbeat'
<1> SUFFICES ASSUME running', offered' \in Key
             PROVE  keepalives' # {} \/ secondaries' > 0 \/ last_sent'.type = "start"
  BY DEF OnlineHasHeartbeat
<1>1. offer # RJ!NULL
  BY ConfigAssumption DEF RJ!Offer, RJ!NULL, RJ!NoKey
<1>2. PluginSuccess(offer, lease)
  BY DEF RecvSuccess
<1>3. CASE RJ!OnSuccessSingle(offer)
  BY <1>3, HeartbeatStarts DEF RJ!OnSuccessSingle
<1>4. CASE RJ!OnSuccessSecond(offer)
  BY <1>4, HeartbeatStarts DEF RJ!OnSuccessSecond
<1>5. CASE RJ!OnSuccessFirst(offer, lease) /\ ~lease
  BY <1>1, <1>5, HeartbeatStarts DEF RJ!OnSuccessFirst, RJ!StartSecondaryAuth,
     RJ!LeaseMissing, RJ!LeaseGivenUp, PluginTypeOK, RJ!TypeOK
<1>6. CASE RJ!OnSuccessFirst(offer, lease) /\ lease
  <2>1. StartsAtOnce(lease)
    BY <1>6 DEF RJ!OnSuccessFirst, StartsAtOnce
  <2>2. CASE EAP!LastRound(StartsAtOnce(lease))
    BY <2>1, <2>2 DEF EAP!LastRound
  <2>3. CASE EAP!NextRound(ok)
    <3>1. EAP!Send("start", server_mac, ok, "SUCCESS", state)
      BY <2>3 DEF EAP!NextRound
    <3>2. CASE ok
      BY <3>1, <3>2 DEF EAP!Send
    <3>3. CASE ~ok
      BY <3>1, <3>3 DEF EAP!Send
    <3>4. QED
      BY <3>2, <3>3
  <2>4. QED
    BY <2>2, <2>3 DEF RecvSuccess
<1>7. QED
  BY <1>2, <1>3, <1>4, <1>5, <1>6 DEF PluginSuccess

LEMMA OnlineStep ==
  OnlineHasHeartbeat /\ PluginTypeOK /\ [Next]_vars => OnlineHasHeartbeat'
<1> SUFFICES ASSUME OnlineHasHeartbeat, PluginTypeOK, [Next]_vars
             PROVE  OnlineHasHeartbeat'
  OBVIOUS
<1>0. ASSUME ~(running' /\ state' = "SUCCESS") PROVE OnlineHasHeartbeat'
  BY <1>0 DEF OnlineHasHeartbeat
<1>1. ASSUME NEW ok \in BOOLEAN, Start(ok) PROVE OnlineHasHeartbeat'
  BY <1>0, <1>1, SendLeaves DEF Start, EAP!Launch
<1>2. ASSUME NEW ok \in BOOLEAN, RestartAuth(ok) PROVE OnlineHasHeartbeat'
  BY <1>0, <1>2, SendLeaves DEF RestartAuth, EAP!Restart
<1>3. ASSUME NEW ok \in BOOLEAN, SecondaryAuthStarts(ok) PROVE OnlineHasHeartbeat'
  BY <1>0, <1>3, SendLeaves DEF SecondaryAuthStarts, EAP!PluginStart
<1>4. ASSUME NEW ok \in BOOLEAN, NEW type \in EAP!Request, RecvRequest(type, ok)
      PROVE OnlineHasHeartbeat'
  <2>1. CASE type = "identity"
    <3>1. EAP!Send("identity", EAP!SERVER, ok, "IDENTITY_SENT", state)
      BY <1>4, <2>1 DEF RecvRequest, EAP!RecvRequest
    <3>2. QED
      BY <1>0, <3>1, SendLeaves
  <2>2. CASE type = "md5"
    <3>1. EAP!Send("md5", EAP!SERVER, ok, "CHALLENGE_SENT", state)
      BY <1>4, <2>2 DEF RecvRequest, EAP!RecvRequest
    <3>2. QED
      BY <1>0, <3>1, SendLeaves
  <2>3. CASE type = "other_request"
    BY <1>4, <2>3 DEF RecvRequest, EAP!RecvRequest, RJ!OnOtherFrame,
       OnlineHasHeartbeat
  <2>4. QED
    BY <2>1, <2>2, <2>3 DEF EAP!Request
<1>5. ASSUME NEW ok \in BOOLEAN, NEW offer \in RJ!Offer, NEW lease \in BOOLEAN,
             RecvSuccess(offer, lease, ok)
      PROVE OnlineHasHeartbeat'
  BY <1>5, SuccessStartsChain
<1>6. ASSUME NEW offer \in RJ!Offer, RecvSuccessFails(offer) PROVE OnlineHasHeartbeat'
  BY <1>0, <1>6 DEF RecvSuccessFails, EAP!Exit
<1>7. CASE RecvUnhandled
  BY <1>7 DEF RecvUnhandled, EAP!RecvUnhandled, RJ!OnOtherFrame, OnlineHasHeartbeat
<1>8. CASE RecvFailure
  <2>1. CASE EAP!ForcedOffline
    <3>1. CASE cfg_restart_on_logoff
      BY <1>0, <2>1, <3>1 DEF EAP!ForcedOffline
    <3>2. CASE ~cfg_restart_on_logoff
      BY <1>0, <2>1, <3>2 DEF EAP!ForcedOffline
    <3>3. QED
      BY <3>1, <3>2
  <2>2. CASE EAP!AuthFailed
    BY <1>0, <2>2 DEF EAP!AuthFailed
  <2>3. QED
    BY <1>8, <2>1, <2>2 DEF RecvFailure
<1>9. CASE SendKeepaliveTimed
  BY <1>9 DEF SendKeepaliveTimed, RJ!KeepaliveTimer, eap_vars, OnlineHasHeartbeat
<1>10. CASE SecondaryAuthWaits
  <2>1. keepalives' # {} \/ secondaries' > 0
    BY <1>10, HeartbeatStarts DEF SecondaryAuthWaits, RJ!SecondaryTimer,
       RJ!StartSecondaryAuth, RJ!LeaseMissing, RJ!LeaseGivenUp, PluginTypeOK, RJ!TypeOK
  <2>2. QED
    BY <2>1 DEF OnlineHasHeartbeat
<1>11. CASE SecondaryAuthCrashes \/ Stop
  BY <1>0, <1>11 DEF SecondaryAuthCrashes, Stop, EAP!Exit, EAP!CaptureEnds
<1>12. CASE Terminated \/ UNCHANGED vars
  BY <1>12 DEF Terminated, vars, eap_vars, rj_vars, OnlineHasHeartbeat
<1>13. QED
  BY <1>1, <1>2, <1>3, <1>4, <1>5, <1>6, <1>7, <1>8, <1>9, <1>10, <1>11, <1>12 DEF Next

(* An online client whose Success frame had a key is kept alive, for every DHCP
   type, every number of rounds and every sequence of frames and alarms.    *)
THEOREM OnlineHasHeartbeatHolds == Spec => []OnlineHasHeartbeat
<1>1. Init => OnlineHasHeartbeat
  BY DEF Init, EAP!Init, OnlineHasHeartbeat
<1>2. QED
  BY <1>1, OnlineStep, PluginTypeOKHolds, PTL DEF Spec

-----------------------------------------------------------------------------
(* Without double authentication no second authentication is ever scheduled,
   and an online client holds the key of its last Success frame: a later Success
   replaces it in the call that records the offer.  A Failure, which zeroes it,
   also ends the session, and nothing but a Success sets it again.           *)
KeyKept ==
    /\ secondaries = 0
    /\ running /\ state = "SUCCESS" /\ offered \in Key => g_echokey = offered
    /\ running /\ state = "FAILURE" => g_echokey = RJ!ZeroKey

LEMMA KeyKeptStep ==
  ASSUME ~RJ!Double, KeyKept, [Next]_vars
  PROVE  KeyKept'
<1>0. ASSUME secondaries' = 0, ~(running' /\ state' = "SUCCESS"),
             ~(running' /\ state' = "FAILURE")
      PROVE  KeyKept'
  BY <1>0 DEF KeyKept
<1>1. ASSUME NEW ok \in BOOLEAN, Start(ok) PROVE KeyKept'
  BY <1>0, <1>1, SendLeaves DEF Start, EAP!Launch, rj_vars, KeyKept
<1>2. ASSUME NEW ok \in BOOLEAN, RestartAuth(ok) PROVE KeyKept'
  BY <1>0, <1>2, SendLeaves DEF RestartAuth, EAP!Restart, rj_vars, KeyKept
<1>3. ASSUME NEW ok \in BOOLEAN, SecondaryAuthStarts(ok) PROVE FALSE
  BY <1>3 DEF SecondaryAuthStarts, RJ!SecondaryTimer, KeyKept
<1>4. ASSUME NEW ok \in BOOLEAN, NEW type \in EAP!Request, RecvRequest(type, ok)
      PROVE KeyKept'
  <2>0. UNCHANGED <<secondaries, offered, g_echokey>>
    BY <1>4 DEF RecvRequest, RJ!OnOtherFrame
  <2>1. CASE type = "identity"
    <3>1. EAP!Send("identity", EAP!SERVER, ok, "IDENTITY_SENT", state)
      BY <1>4, <2>1 DEF RecvRequest, EAP!RecvRequest
    <3>2. QED
      BY <1>0, <2>0, <3>1, SendLeaves DEF KeyKept
  <2>2. CASE type = "md5"
    <3>1. EAP!Send("md5", EAP!SERVER, ok, "CHALLENGE_SENT", state)
      BY <1>4, <2>2 DEF RecvRequest, EAP!RecvRequest
    <3>2. QED
      BY <1>0, <2>0, <3>1, SendLeaves DEF KeyKept
  <2>3. CASE type = "other_request"
    BY <1>4, <2>0, <2>3 DEF RecvRequest, EAP!RecvRequest, KeyKept
  <2>4. QED
    BY <2>1, <2>2, <2>3 DEF EAP!Request
<1>5. ASSUME NEW ok \in BOOLEAN, NEW offer \in RJ!Offer, NEW lease \in BOOLEAN,
             RecvSuccess(offer, lease, ok)
      PROVE KeyKept'
  <2>1. RJ!OnSuccessSingle(offer)
    BY <1>5 DEF RecvSuccess, PluginSuccess, RJ!OnSuccessFirst, RJ!OnSuccessSecond
  <2>2. ~(running' /\ state' = "FAILURE")
    <3>1. CASE EAP!LastRound(StartsAtOnce(lease))
      BY <3>1 DEF EAP!LastRound
    <3>2. CASE EAP!NextRound(ok)
      <4>1. EAP!Send("start", server_mac, ok, "SUCCESS", state)
        BY <3>2 DEF EAP!NextRound
      <4>2. CASE ok
        BY <4>1, <4>2 DEF EAP!Send
      <4>3. CASE ~ok
        BY <4>1, <4>3 DEF EAP!Send
      <4>4. QED
        BY <4>2, <4>3
    <3>3. QED
      BY <1>5, <3>1, <3>2 DEF RecvSuccess
  <2>3. QED
    BY <2>1, <2>2 DEF RJ!OnSuccessSingle, RJ!KeyAfter, KeyKept
<1>6. ASSUME NEW offer \in RJ!Offer, RecvSuccessFails(offer) PROVE FALSE
  BY <1>6 DEF RecvSuccessFails, StartsAtOnce
<1>7. CASE RecvUnhandled
  BY <1>7 DEF RecvUnhandled, EAP!RecvUnhandled, RJ!OnOtherFrame, KeyKept
<1>8. CASE RecvFailure
  <2>0. secondaries' = 0 /\ g_echokey' = RJ!ZeroKey
    BY <1>8 DEF RecvFailure, RJ!OnFailure, KeyKept
  <2>1. CASE EAP!ForcedOffline
    <3>1. CASE cfg_restart_on_logoff
      BY <2>0, <2>1, <3>1 DEF EAP!ForcedOffline, KeyKept
    <3>2. CASE ~cfg_restart_on_logoff
      BY <2>0, <2>1, <3>2 DEF EAP!ForcedOffline, KeyKept
    <3>3. QED
      BY <3>1, <3>2
  <2>2. CASE EAP!AuthFailed
    BY <2>0, <2>2 DEF EAP!AuthFailed, KeyKept
  <2>3. QED
    BY <1>8, <2>1, <2>2 DEF RecvFailure
<1>9. CASE SendKeepaliveTimed
  BY <1>9 DEF SendKeepaliveTimed, RJ!KeepaliveTimer, eap_vars, KeyKept
<1>10. CASE SecondaryAuthWaits \/ SecondaryAuthCrashes
  BY <1>10 DEF SecondaryAuthWaits, SecondaryAuthCrashes, RJ!SecondaryTimer, KeyKept
<1>11. CASE Stop
  BY <1>0, <1>11 DEF Stop, EAP!Exit, EAP!CaptureEnds, rj_vars, KeyKept
<1>12. CASE Terminated \/ UNCHANGED vars
  BY <1>12 DEF Terminated, vars, eap_vars, rj_vars, KeyKept
<1>13. QED
  BY <1>1, <1>2, <1>3, <1>4, <1>5, <1>6, <1>7, <1>8, <1>9, <1>10, <1>11, <1>12 DEF Next

LEMMA KeyKeptInvariant ==
  ASSUME ~RJ!Double
  PROVE  Spec => []KeyKept
<1>1. Init => KeyKept
  BY DEF Init, RJ!Init, EAP!Init, KeyKept
<1>2. KeyKept /\ [Next]_vars => KeyKept'
  BY KeyKeptStep
<1>3. QED
  BY <1>1, <1>2, PTL DEF Spec

(* Outside double authentication every heartbeat of an online client carries the
   key of its last Success frame, however many chains of heartbeats the sessions
   before it left running.  (In double authentication the key waits in the copy
   of the first Success until the lease is given up, and a heartbeat of an older
   chain that rings meanwhile carries what g_echokey held before.)          *)
THEOREM HeartbeatUsesLastKeyHolds ==
  ASSUME ~RJ!Double
  PROVE  Spec => HeartbeatUsesLastKey
<1>1. KeyKept => (SendKeepaliveTimed /\ state = "SUCCESS" /\ offered \in Key =>
                     last_echo' = offered)
  BY DEF KeyKept, SendKeepaliveTimed, EAP!Started, RJ!KeepaliveTimer
<1>2. QED
  BY <1>1, KeyKeptInvariant, PTL DEF Spec, HeartbeatUsesLastKey

(* And every heartbeat of a client that has failed carries no key, whichever of
   its alarms the reset could not cancel.                                    *)
THEOREM OfflineHeartbeatIsEmptyHolds ==
  ASSUME ~RJ!Double
  PROVE  Spec => OfflineHeartbeatIsEmpty
<1>1. KeyKept => (SendKeepaliveTimed /\ state = "FAILURE" => last_echo' = RJ!ZeroKey)
  BY DEF KeyKept, SendKeepaliveTimed, EAP!Started, RJ!KeepaliveTimer
<1>2. QED
  BY <1>1, KeyKeptInvariant, PTL DEF Spec, OfflineHeartbeatIsEmpty
=============================================================================
