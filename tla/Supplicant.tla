----------------------------- MODULE Supplicant -----------------------------
(***************************************************************************)
(* The client with the rjv3 plugin loaded: the state machine and the       *)
(* plugin, joined where the code joins them.                               *)
(*                                                                         *)
(*   recv_handler    -> packet_plugin_on_frame_received, then the machine  *)
(*   switch_to_state <- rjv3_start_secondary_auth                          *)
(*   prepare_frame   -> reads last_recv_packet, which points to the frame  *)
(*                      the machine frees in reset and on the next frame   *)
(*                                                                         *)
(* Each action joins an action of one component with the action of the     *)
(* other that happens in the same activation.  Frames arrive in any order, *)
(* may be lost and may repeat: the server and the network do as they like. *)
(***************************************************************************)
EXTENDS Naturals

CONSTANTS
    cfg_auth_round, cfg_max_failures, cfg_restart_on_logoff, MaxRestarts,
    dhcp_type, max_dhcp_count, Key, AlarmId, MaxAlarms, MaxSucc

VARIABLES
    running, state, auth_round, fail_count, server_mac, last_recv_frame, restarts,
    last_sent, streak,
    succ_count, dhcp_count, last_recv_packet, duplicated_packet, g_echokey,
    keepalives, g_keepalive_alarm_id, secondaries, last_echo, offered, crashed

EAP == INSTANCE EapStateMachine
RJ == INSTANCE Rjv3Plugin

(* What the two components assume of their constants. *)
ASSUME ConfigAssumption ==
    /\ cfg_auth_round \in Nat \ {0} /\ cfg_max_failures \in Nat
    /\ cfg_restart_on_logoff \in BOOLEAN /\ MaxRestarts \in Nat
    /\ dhcp_type \in RJ!DhcpType
    /\ max_dhcp_count \in Nat /\ MaxAlarms \in Nat /\ MaxSucc \in Nat
    /\ 0 \notin AlarmId
    /\ {RJ!NULL, RJ!ZeroKey, RJ!NoKey} \cap Key = {}

eap_vars == <<running, state, auth_round, fail_count, server_mac, last_recv_frame,
              restarts, last_sent, streak>>
rj_vars == <<succ_count, dhcp_count, last_recv_packet, duplicated_packet, g_echokey,
             keepalives, g_keepalive_alarm_id, secondaries, last_echo, offered, crashed>>
vars == <<eap_vars, rj_vars>>

Init == EAP!Init /\ RJ!Init

-----------------------------------------------------------------------------
(* main and the process: nothing here calls the plugin. *)
Start(ok) == EAP!Launch(ok) /\ UNCHANGED rj_vars
Stop == (EAP!CaptureEnds \/ EAP!Exit) /\ UNCHANGED rj_vars

(* recv_handler on a Request, and on a frame nobody handles. *)
RecvRequest(type, ok) ==
    /\ RJ!OnOtherFrame
    /\ EAP!RecvRequest(type, ok)

RecvUnhandled ==
    /\ RJ!OnOtherFrame
    /\ EAP!RecvUnhandled

(* rjv3_on_frame_received on a Success.  Its result is not looked at. *)
PluginSuccess(offer, lease) ==
    \/ RJ!OnSuccessSingle(offer)
    \/ RJ!OnSuccessFirst(offer, lease)
    \/ RJ!OnSuccessSecond(offer)

(* In that call the plugin sends an EAPOL-Start of its own. *)
StartsAtOnce(lease) == RJ!Double /\ succ_count + 1 < 2 /\ lease

(* recv_handler on a Success: the plugin first, then the machine. *)
RecvSuccess(offer, lease, ok) ==
    /\ PluginSuccess(offer, lease)
    /\ EAP!LastRound(StartsAtOnce(lease)) \/ EAP!NextRound(ok)

(* The plugin's own EAPOL-Start cannot be sent: exit within on_frame_received. *)
RecvSuccessFails(offer) ==
    /\ StartsAtOnce(TRUE)
    /\ RJ!OnSuccessFirst(offer, TRUE)
    /\ EAP!Started /\ EAP!Exit

(* recv_handler on a Failure. *)
RecvFailure ==
    /\ RJ!OnFailure
    /\ EAP!ForcedOffline \/ EAP!AuthFailed

-----------------------------------------------------------------------------
(* The three kinds of alarm. *)
RestartAuth(ok) == EAP!Restart(ok) /\ UNCHANGED rj_vars

SendKeepaliveTimed ==
    /\ EAP!Started
    /\ RJ!KeepaliveTimer
    /\ UNCHANGED eap_vars

(* rjv3_start_secondary_auth starts over, waits on, gives up, or crashes. *)
SecondaryAuthStarts(ok) == RJ!SecondaryTimer(TRUE) /\ EAP!PluginStart(ok)

SecondaryAuthWaits ==
    /\ EAP!Started
    /\ RJ!SecondaryTimer(FALSE)
    /\ ~crashed'
    /\ UNCHANGED eap_vars

SecondaryAuthCrashes ==
    /\ EAP!Started
    /\ RJ!SecondaryTimer(FALSE)
    /\ crashed'
    /\ EAP!Exit

Terminated == ~running /\ UNCHANGED vars

Next ==
    \/ \E ok \in BOOLEAN :
          \/ Start(ok) \/ RestartAuth(ok) \/ SecondaryAuthStarts(ok)
          \/ \E type \in EAP!Request : RecvRequest(type, ok)
          \/ \E offer \in RJ!Offer, lease \in BOOLEAN : RecvSuccess(offer, lease, ok)
    \/ \E offer \in RJ!Offer : RecvSuccessFails(offer)
    \/ RecvUnhandled \/ RecvFailure
    \/ SendKeepaliveTimed \/ SecondaryAuthWaits \/ SecondaryAuthCrashes
    \/ Stop \/ Terminated

Spec == Init /\ [][Next]_vars

(* Pending alarms ring (SchedAlarm); frames need not arrive. *)
FairSpec ==
    /\ Spec
    /\ WF_vars(\E ok \in BOOLEAN : Start(ok))
    /\ WF_vars(\E ok \in BOOLEAN : RestartAuth(ok))
    /\ WF_vars(SendKeepaliveTimed)
    /\ WF_vars(\/ \E ok \in BOOLEAN : SecondaryAuthStarts(ok)
               \/ SecondaryAuthWaits \/ SecondaryAuthCrashes)

-----------------------------------------------------------------------------
(* The composition neither breaks nor extends a component: each one sees a
   behaviour its own module allows, so what is proved there holds here.     *)
EapRefined == EAP!Spec
Rjv3Refined == RJ!Spec

(* An online session whose Success frame carried an echo key is kept alive:
   a heartbeat is scheduled, or a second authentication that ends in one, or
   an EAPOL-Start for another authentication has just gone out.  Nothing the
   plugin cancels on the way takes the last heartbeat of an online client.  *)
OnlineHasHeartbeat ==
    running /\ state = "SUCCESS" /\ offered \in Key =>
        keepalives # {} \/ secondaries > 0 \/ last_sent.type = "start"

(* The plugin's own types, in the client that loads it. *)
PluginTypeOK == RJ!TypeOK

(* The plugin's reset: the polls for a lease are counted from zero again. *)
PluginResets == RJ!OnFailure \/ \E offer \in RJ!Offer : RJ!OnSuccessSecond(offer)

(* The wait for a lease ends: the polls stop, in a second authentication or in a
   heartbeat, those too that a reset has left scheduled, unless one session
   after the other is reset.                                                 *)
PollingEnds == []<>(secondaries = 0 \/ ~running) \/ []<><<PluginResets>>_vars

(* An online session does send a heartbeat with the key of its Success frame,
   unless it starts over or ends first.                                     *)
HeartbeatFollows ==
    \A k \in Key :
        (running /\ state = "SUCCESS" /\ offered = k /\ last_sent.type # "start")
            ~> (~running \/ state # "SUCCESS" \/ offered # k \/ last_echo = k)

(* Every heartbeat of an online client carries the key of its last Success
   frame, whatever chains of heartbeats earlier sessions have left running. *)
HeartbeatUsesLastKey ==
    [][SendKeepaliveTimed /\ state = "SUCCESS" /\ offered \in Key =>
          last_echo' = offered]_vars

(* The reset of a failed session cannot cancel a heartbeat that has not rung, nor
   the older one of two; those go on, but with no key, until the next Success. *)
OfflineHeartbeatIsEmpty ==
    [][SendKeepaliveTimed /\ state = "FAILURE" => last_echo' = RJ!ZeroKey]_vars

(* An EAPOL-Start sent from an alarm is prepared from last_recv_packet, which
   must not outlive the frame it points to.  rjv3_process_success: "`frame`
   will be freed once the state transition is finished".                    *)
NoStaleRead ==
    [][\A ok \in BOOLEAN :
          RestartAuth(ok) \/ SecondaryAuthStarts(ok) =>
              ~(last_recv_packet = "frame" /\ last_recv_frame' = EAP!NULL)]_vars

(* The duplicated Success frame is there "in case DHCP fails and we need to
   start heartbeating".                                                     *)
CopyKept == ~crashed
=============================================================================
