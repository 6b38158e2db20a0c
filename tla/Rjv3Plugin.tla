----------------------------- MODULE Rjv3Plugin -----------------------------
(***************************************************************************)
(* The control state of the rjv3 packet plugin: its reaction to frames     *)
(* (packet_plugin_rjv3.c), the second authentication after DHCP            *)
(* (packet_plugin_rjv3_priv.c) and the heartbeat (..._keepalive.c).        *)
(*                                                                         *)
(* An action is one call into the plugin: on_frame_received, or one of its *)
(* alarms.  A received frame is abstracted to the echo key it offers.      *)
(***************************************************************************)
EXTENDS Integers

CONSTANTS
    dhcp_type,       \* rjv3_priv.dhcp_type
    max_dhcp_count,  \* rjv3_priv.max_dhcp_count
    Key,             \* nonzero echo keys a Success frame can carry
    AlarmId,         \* bound: ids of heartbeat alarms; one is free for reuse when
                     \* neither an alarm nor g_keepalive_alarm_id has it
    MaxAlarms,       \* bound: polls for the lease pending at once
    MaxSucc          \* bound: succ_count outside double authentication

DhcpType == {"DHCP_NONE", "DHCP_DOUBLE_AUTH", "DHCP_AFTER_AUTH", "DHCP_BEFORE_AUTH"}
NULL == "null"
ZeroKey == "zero"   \* g_echokey = 0
NoKey == "nokey"    \* the frame has no echo key property

(* What is assumed of the constants. *)
PluginAssumption ==
    /\ dhcp_type \in DhcpType
    /\ max_dhcp_count \in Nat /\ MaxAlarms \in Nat /\ MaxSucc \in Nat
    /\ 0 \notin AlarmId
    /\ {NULL, ZeroKey, NoKey} \cap Key = {}

VARIABLES
    succ_count,
    dhcp_count,
    last_recv_packet,   \* NULL, or "frame": a pointer to the caller's copy
    duplicated_packet,  \* NULL, or the offer of the Success frame it copies
    g_echokey,
    keepalives,         \* ids of the rjv3_send_keepalive_timed alarms pending
    g_keepalive_alarm_id,
    secondaries,        \* number of rjv3_start_secondary_auth alarms pending
    last_echo,          \* history: the key in the last Keep-Alive frame
    offered,            \* history: the offer of the last Success frame
    crashed             \* duplicated_packet was dereferenced when NULL

vars == <<succ_count, dhcp_count, last_recv_packet, duplicated_packet, g_echokey,
          keepalives, g_keepalive_alarm_id, secondaries, last_echo, offered, crashed>>

Offer == Key \cup {NoKey}
Double == dhcp_type = "DHCP_DOUBLE_AUTH"

Init ==
    /\ succ_count = 0 /\ dhcp_count = 0
    /\ last_recv_packet = NULL /\ duplicated_packet = NULL
    /\ g_echokey = ZeroKey
    /\ keepalives = {} /\ g_keepalive_alarm_id = 0 /\ secondaries = 0
    /\ last_echo = NULL /\ offered = NULL
    /\ crashed = FALSE

-----------------------------------------------------------------------------
(* Mutant of KeyAfter: a key that is set is never replaced. *)
KeyAfter_FirstWins(offer, old) == IF offer \in Key /\ old \notin Key THEN offer ELSE old

(* rjv3_process_result_prop on a Success frame: the key it leaves behind. *)
KeyAfter(offer, old) == IF offer \in Key THEN offer ELSE old

(* The alarms rjv3_keepalive_reset leaves pending: it cancels the one whose id is
   in g_keepalive_alarm_id, if that one is still pending, and keeps the id.   *)
KeepalivesAfterReset == keepalives \ {g_keepalive_alarm_id}

(* schedule_alarm beside the alarms with the ids in pending: an id that nothing
   else has.                                                                  *)
IdLeft(pending) == AlarmId \ pending # {}
NewId(pending) == CHOOSE id \in AlarmId : id \notin pending

(* The first alarm of a heartbeat, beside those pending.  Its id is dropped. *)
StartHeartbeat(pending) ==
    /\ IdLeft(pending \cup {g_keepalive_alarm_id})
    /\ keepalives' = pending \cup {NewId(pending \cup {g_keepalive_alarm_id})}

(* rjv3_should_fill_dhcp_prop, asked whenever a frame is prepared. *)
should_fill_dhcp_prop ==
    \/ dhcp_type = "DHCP_BEFORE_AUTH"
    \/ Double /\ succ_count >= 2

(* rjv3_start_secondary_auth, with pending the alarms of its kind still
   scheduled and copy the duplicated Success frame.  lease tells whether
   rjv3_get_dhcp_lease succeeds.                                            *)
LeaseReady(pending) ==
    /\ duplicated_packet' = NULL
    /\ secondaries' = pending
    /\ UNCHANGED <<dhcp_count, g_echokey, keepalives, crashed>>

LeaseMissing(pending, copy) ==
    /\ dhcp_count' = dhcp_count + 1
    /\ dhcp_count < max_dhcp_count
    /\ duplicated_packet' = copy
    /\ pending < MaxAlarms
    /\ secondaries' = pending + 1
    /\ UNCHANGED <<g_echokey, keepalives, crashed>>

(* Mutant of LeaseGivenUp: no heartbeat is started. *)
LeaseGivenUp_NoHeartbeat(pending, copy) ==
    /\ dhcp_count' = dhcp_count + 1
    /\ dhcp_count >= max_dhcp_count
    /\ secondaries' = pending
    /\ copy # NULL
    /\ g_echokey' = KeyAfter(copy, g_echokey)
    /\ duplicated_packet' = NULL
    /\ UNCHANGED <<keepalives, crashed>>

(* Mutant of LeaseGivenUp: the count starts over and so does the wait. *)
LeaseGivenUp_WaitsOn(pending, copy) ==
    /\ dhcp_count' = 0
    /\ dhcp_count >= max_dhcp_count
    /\ duplicated_packet' = copy
    /\ pending < MaxAlarms
    /\ secondaries' = pending + 1
    /\ UNCHANGED <<g_echokey, keepalives, crashed>>

LeaseGivenUp(pending, copy) ==
    /\ dhcp_count' = dhcp_count + 1
    /\ dhcp_count >= max_dhcp_count
    /\ secondaries' = pending
    /\ IF copy = NULL
       THEN crashed' = TRUE /\ UNCHANGED <<duplicated_packet, g_echokey, keepalives>>
       ELSE /\ g_echokey' = KeyAfter(copy, g_echokey)
            /\ duplicated_packet' = NULL
            /\ StartHeartbeat(keepalives)
            /\ UNCHANGED crashed

StartSecondaryAuth(lease, pending, copy) ==
    \/ lease /\ LeaseReady(pending)
    \/ ~lease /\ LeaseMissing(pending, copy)
    \/ ~lease /\ LeaseGivenUp(pending, copy)

-----------------------------------------------------------------------------
(* rjv3_on_frame_received on anything but a Success or a Failure. *)
OnOtherFrame ==
    /\ last_recv_packet' = "frame"
    /\ UNCHANGED <<succ_count, dhcp_count, duplicated_packet, g_echokey, keepalives,
                   g_keepalive_alarm_id, secondaries, last_echo, offered, crashed>>

(* Mutant of OnSuccessSingle: the key is read, no heartbeat is scheduled. *)
OnSuccessSingle_NoHeartbeat(offer) ==
    /\ ~Double
    /\ succ_count < MaxSucc /\ succ_count' = succ_count + 1
    /\ last_recv_packet' = "frame"
    /\ offered' = offer
    /\ g_echokey' = KeyAfter(offer, g_echokey)
    /\ UNCHANGED <<dhcp_count, duplicated_packet, g_keepalive_alarm_id, secondaries,
                   last_echo, crashed, keepalives>>

(* rjv3_process_success without double authentication. *)
OnSuccessSingle(offer) ==
    /\ ~Double
    /\ succ_count < MaxSucc /\ succ_count' = succ_count + 1
    /\ last_recv_packet' = "frame"
    /\ offered' = offer
    /\ g_echokey' = KeyAfter(offer, g_echokey)
    /\ IF offer \in Key
       THEN StartHeartbeat(keepalives)
       ELSE UNCHANGED keepalives
    /\ UNCHANGED <<dhcp_count, duplicated_packet, g_keepalive_alarm_id, secondaries,
                   last_echo, crashed>>

(* rjv3_process_success, first of the two: copy the frame, run the DHCP script
   and try the second authentication at once.                               *)
OnSuccessFirst(offer, lease) ==
    /\ Double /\ succ_count + 1 < 2
    /\ succ_count' = succ_count + 1
    /\ last_recv_packet' = "frame"
    /\ offered' = offer
    /\ StartSecondaryAuth(lease, secondaries, offer)
    /\ UNCHANGED <<g_keepalive_alarm_id, last_echo>>

(* Mutant of OnSuccessSecond: rjv3_reset_state is not called. *)
OnSuccessSecond_NoReset(offer) ==
    /\ Double /\ succ_count + 1 >= 2
    /\ succ_count < MaxSucc /\ succ_count' = succ_count + 1
    /\ last_recv_packet' = "frame"
    /\ offered' = offer
    /\ g_echokey' = KeyAfter(offer, g_echokey)
    /\ IF offer \in Key THEN StartHeartbeat(keepalives) ELSE UNCHANGED keepalives
    /\ UNCHANGED <<dhcp_count, g_keepalive_alarm_id, duplicated_packet, secondaries,
                   last_echo, crashed>>

(* rjv3_process_success, second of the two: rjv3_reset_state, then the key. *)
OnSuccessSecond(offer) ==
    /\ Double /\ succ_count + 1 >= 2
    /\ succ_count' = 0 /\ dhcp_count' = 0
    /\ last_recv_packet' = NULL
    /\ offered' = offer
    /\ g_echokey' = KeyAfter(offer, ZeroKey)
    /\ IF offer \in Key
       THEN StartHeartbeat(KeepalivesAfterReset)
       ELSE keepalives' = KeepalivesAfterReset
    /\ UNCHANGED <<duplicated_packet, g_keepalive_alarm_id, secondaries, last_echo,
                   crashed>>

(* Mutant of OnFailure: the echo key stays. *)
OnFailure_KeyKept ==
    /\ succ_count' = 0 /\ dhcp_count' = 0
    /\ last_recv_packet' = NULL
    /\ keepalives' = KeepalivesAfterReset
    /\ UNCHANGED <<duplicated_packet, g_keepalive_alarm_id, g_echokey, secondaries,
                   last_echo, offered, crashed>>

(* rjv3_process_failure: rjv3_reset_state.  The alarms of a second
   authentication that is under way stay scheduled.                         *)
OnFailure ==
    /\ succ_count' = 0 /\ dhcp_count' = 0
    /\ last_recv_packet' = NULL
    /\ g_echokey' = ZeroKey
    /\ keepalives' = KeepalivesAfterReset
    /\ UNCHANGED <<duplicated_packet, g_keepalive_alarm_id, secondaries, last_echo,
                   offered, crashed>>

(* A rjv3_start_secondary_auth alarm. *)
SecondaryTimer(lease) ==
    /\ secondaries > 0
    /\ StartSecondaryAuth(lease, secondaries - 1, duplicated_packet)
    /\ UNCHANGED <<succ_count, last_recv_packet, g_keepalive_alarm_id, last_echo, offered>>

(* A rjv3_send_keepalive_timed alarm: send, reschedule, record the new id.  An
   error of send_echo_frame is only logged.                                 *)
KeepaliveTimer ==
    \E id \in keepalives :
        /\ last_echo' = g_echokey
        /\ IdLeft(keepalives \ {id})
        /\ g_keepalive_alarm_id' = NewId(keepalives \ {id})
        /\ keepalives' = (keepalives \ {id}) \cup {g_keepalive_alarm_id'}
        /\ UNCHANGED <<succ_count, dhcp_count, last_recv_packet, duplicated_packet,
                       g_echokey, secondaries, offered, crashed>>

Next ==
    /\ ~crashed
    /\ \/ OnOtherFrame \/ OnFailure \/ KeepaliveTimer
       \/ \E offer \in Offer : OnSuccessSingle(offer) \/ OnSuccessSecond(offer)
       \/ \E offer \in Offer, lease \in BOOLEAN : OnSuccessFirst(offer, lease)
       \/ \E lease \in BOOLEAN : SecondaryTimer(lease)

Spec == Init /\ [][Next]_vars

-----------------------------------------------------------------------------
(* Types of rjv3_priv and of the keepalive globals.  In double authentication
   succ_count is 0 or 1 between calls: the Success that makes it 2 resets it in
   the same call.                                                            *)
TypeOK ==
    /\ succ_count \in Nat /\ dhcp_count \in Nat
    /\ Double => succ_count < 2
    /\ last_recv_packet \in {NULL, "frame"}
    /\ duplicated_packet \in Offer \cup {NULL}
    /\ g_echokey \in Key \cup {ZeroKey}
    /\ keepalives \subseteq AlarmId /\ g_keepalive_alarm_id \in AlarmId \cup {0}
    /\ secondaries \in Nat
    /\ last_echo \in Key \cup {ZeroKey, NULL}
    /\ offered \in Offer \cup {NULL}
    /\ crashed \in BOOLEAN

(* The EAPOL-Start that begins the second authentication carries the lease it
   has waited for.  set_auth_round: "This is useful in double authentication,
   where frames in round 1 and round 2 require different fields"; the condition
   of rjv3_should_fill_dhcp_prop for this is succ_count >= 2.                *)
SecondAuthCarriesLease ==
    [][(\E offer \in Offer : OnSuccessFirst(offer, TRUE)) \/ SecondaryTimer(TRUE) =>
          should_fill_dhcp_prop']_vars
=============================================================================
