-------------------------- MODULE Rjv3PluginProofs --------------------------
(***************************************************************************)
(* Proofs about the rjv3 plugin, for every DHCP type, every retry limit,   *)
(* every set of echo keys and every bound.                                 *)
(***************************************************************************)
EXTENDS Rjv3Plugin, TLAPS

USE DEF Offer, NULL, NoKey, ZeroKey

LEMMA KeyType ==
  ASSUME NEW offer \in Offer, NEW old \in Key \cup {ZeroKey}
  PROVE  KeyAfter(offer, old) \in Key \cup {ZeroKey}
BY DEF KeyAfter

(* A new alarm has an id of its own. *)
LEMMA NewIdIs ==
  ASSUME NEW pending, IdLeft(pending)
  PROVE  NewId(pending) \in AlarmId /\ NewId(pending) \notin pending
<1>1. PICK id \in AlarmId : id \notin pending
  BY DEF IdLeft
<1>2. QED
  BY <1>1 DEF NewId

LEMMA HeartbeatType ==
  ASSUME NEW pending \in SUBSET AlarmId, StartHeartbeat(pending)
  PROVE  keepalives' \subseteq AlarmId /\ keepalives' # {} /\ pending \subseteq keepalives'
<1>1. NewId(pending \cup {g_keepalive_alarm_id}) \in AlarmId
  BY NewIdIs DEF StartHeartbeat
<1>2. QED
  BY <1>1 DEF StartHeartbeat

(* What rjv3_start_secondary_auth assigns is typed. *)
LEMMA SecondaryType ==
  ASSUME TypeOK, NEW lease \in BOOLEAN, NEW pending \in Nat,
         NEW copy \in Offer \cup {NULL}, StartSecondaryAuth(lease, pending, copy)
  PROVE  /\ dhcp_count' \in Nat /\ secondaries' \in Nat
         /\ duplicated_packet' \in Offer \cup {NULL}
         /\ g_echokey' \in Key \cup {ZeroKey}
         /\ keepalives' \subseteq AlarmId
         /\ crashed' \in BOOLEAN
<1>1. CASE LeaseReady(pending)
  BY <1>1 DEF LeaseReady, TypeOK
<1>2. CASE LeaseMissing(pending, copy)
  BY <1>2 DEF LeaseMissing, TypeOK
<1>3. CASE LeaseGivenUp(pending, copy)
  <2>1. CASE copy = NULL
    BY <1>3, <2>1 DEF LeaseGivenUp, TypeOK
  <2>2. CASE copy # NULL
    <3>1. /\ copy \in Offer /\ g_echokey' = KeyAfter(copy, g_echokey)
          /\ StartHeartbeat(keepalives)
      BY <1>3, <2>2 DEF LeaseGivenUp
    <3>2. g_echokey' \in Key \cup {ZeroKey}
      BY <3>1, KeyType DEF TypeOK
    <3>3. keepalives' \subseteq AlarmId
      BY <3>1, HeartbeatType DEF TypeOK
    <3>4. QED
      BY <1>3, <2>2, <3>2, <3>3 DEF LeaseGivenUp, TypeOK
  <2>3. QED
    BY <2>1, <2>2
<1>4. QED
  BY <1>1, <1>2, <1>3 DEF StartSecondaryAuth

(* TypeOK is inductive, with the bound of succ_count in double authentication. *)
LEMMA PluginStep ==
  ASSUME PluginAssumption, TypeOK, [Next]_vars
  PROVE  TypeOK'
<1>0. KeepalivesAfterReset \subseteq AlarmId
  BY DEF TypeOK, KeepalivesAfterReset
<1>1. CASE OnOtherFrame
  BY <1>1 DEF OnOtherFrame, TypeOK, Double
<1>2. CASE OnFailure
  <2>1. keepalives' \subseteq AlarmId
    BY <1>0, <1>2 DEF OnFailure
  <2>2. QED
    BY <1>2, <2>1 DEF OnFailure, TypeOK, Double
<1>3. CASE KeepaliveTimer
  <2>1. PICK id \in keepalives :
          /\ IdLeft(keepalives \ {id})
          /\ g_keepalive_alarm_id' = NewId(keepalives \ {id})
          /\ keepalives' = (keepalives \ {id}) \cup {g_keepalive_alarm_id'}
    BY <1>3 DEF KeepaliveTimer
  <2>2. g_keepalive_alarm_id' \in AlarmId
    BY <2>1, NewIdIs
  <2>3. keepalives' \subseteq AlarmId
    BY <2>1, <2>2 DEF TypeOK
  <2>4. QED
    BY <1>3, <2>2, <2>3 DEF KeepaliveTimer, TypeOK, Double
<1>4. ASSUME NEW offer \in Offer, OnSuccessSingle(offer) PROVE TypeOK'
  <2>1. g_echokey' \in Key \cup {ZeroKey}
    BY <1>4, KeyType DEF OnSuccessSingle, TypeOK
  <2>2. keepalives' \subseteq AlarmId
    BY <1>4, HeartbeatType DEF OnSuccessSingle, TypeOK
  <2>3. QED
    BY <1>4, <2>1, <2>2 DEF OnSuccessSingle, TypeOK, Double
<1>5. ASSUME NEW offer \in Offer, OnSuccessSecond(offer) PROVE TypeOK'
  <2>1. g_echokey' \in Key \cup {ZeroKey}
    BY <1>5, KeyType DEF OnSuccessSecond
  <2>2. keepalives' \subseteq AlarmId
    BY <1>0, <1>5, HeartbeatType DEF OnSuccessSecond
  <2>3. QED
    BY <1>5, <2>1, <2>2 DEF OnSuccessSecond, TypeOK, Double
<1>6. ASSUME NEW offer \in Offer, NEW lease \in BOOLEAN, OnSuccessFirst(offer, lease)
      PROVE TypeOK'
  <2>1. StartSecondaryAuth(lease, secondaries, offer) /\ secondaries \in Nat
    BY <1>6 DEF OnSuccessFirst, TypeOK
  <2>2. /\ dhcp_count' \in Nat /\ secondaries' \in Nat
        /\ duplicated_packet' \in Offer \cup {NULL}
        /\ g_echokey' \in Key \cup {ZeroKey}
        /\ keepalives' \subseteq AlarmId
        /\ crashed' \in BOOLEAN
    BY <2>1, SecondaryType
  <2>3. QED
    BY <1>6, <2>2 DEF OnSuccessFirst, TypeOK, Double
<1>7. ASSUME NEW lease \in BOOLEAN, SecondaryTimer(lease) PROVE TypeOK'
  <2>1. /\ StartSecondaryAuth(lease, secondaries - 1, duplicated_packet)
        /\ secondaries - 1 \in Nat /\ duplicated_packet \in Offer \cup {NULL}
    BY <1>7 DEF SecondaryTimer, TypeOK
  <2>2. /\ dhcp_count' \in Nat /\ secondaries' \in Nat
        /\ duplicated_packet' \in Offer \cup {NULL}
        /\ g_echokey' \in Key \cup {ZeroKey}
        /\ keepalives' \subseteq AlarmId
        /\ crashed' \in BOOLEAN
    BY <2>1, SecondaryType
  <2>3. QED
    BY <1>7, <2>2 DEF SecondaryTimer, TypeOK, Double
<1>8. CASE UNCHANGED vars
  BY <1>8 DEF vars, TypeOK, Double
<1>9. QED
  BY <1>1, <1>2, <1>3, <1>4, <1>5, <1>6, <1>7, <1>8 DEF Next

LEMMA PluginInit == Init => TypeOK
<1> SUFFICES ASSUME Init PROVE TypeOK
  OBVIOUS
<1>1. keepalives \subseteq AlarmId /\ g_keepalive_alarm_id \in AlarmId \cup {0}
  BY DEF Init
<1>2. succ_count \in Nat /\ succ_count < 2 /\ dhcp_count \in Nat /\ secondaries \in Nat
  BY DEF Init
<1>3. crashed \in BOOLEAN
  BY DEF Init
<1>4. QED
  BY <1>1, <1>2, <1>3, Zenon DEF Init, TypeOK

(* The plugin's fields keep their types, and succ_count its bound in double
   authentication, for all constants that meet the assumption.              *)
THEOREM TypeCorrect ==
  ASSUME PluginAssumption
  PROVE  Spec => []TypeOK
BY PluginInit, PluginStep, PTL DEF Spec

(* So the condition under which the second authentication would carry the lease
   is never true: the run that looks for a step against SecondAuthCarriesLease
   finds the first one there is.                                             *)
LEMMA LeaseNeverFilled ==
  ASSUME TypeOK, Double
  PROVE  ~should_fill_dhcp_prop
BY DEF TypeOK, Double, should_fill_dhcp_prop
=============================================================================
