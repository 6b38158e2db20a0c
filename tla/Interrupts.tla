----------------------------- MODULE Interrupts -----------------------------
(***************************************************************************)
(* The capture loop and SIGALRM: what an alarm that rings in the middle of *)
(* eap_state_machine_recv_handler can do to it.                            *)
(*                                                                         *)
(* The main flow runs in a driver of IfImpl and takes one step per access  *)
(* to what it shares with the alarms: the copy of the last frame, the one  *)
(* packet builder, the static buffers of the hashes, and the linked list   *)
(* of alarms.  The handler of SIGALRM is not interrupted itself; a ring    *)
(* with several due events is several rings in a row here.  Its timing is  *)
(* in SchedAlarm, so that any listed alarm may ring at any time.           *)
(*                                                                         *)
(* One authentication round, and DHCP after it or not at all.  Memory that *)
(* was freed is not handed out again: a use of it is a fault at once, and  *)
(* the model ends there.                                                   *)
(***************************************************************************)
EXTENDS IfImpl, Sequences, FiniteSets

CONSTANT MaxNodes   \* bound: nodes the alarm list allocates in a behaviour

ASSUME MaxNodesAssumption == MaxNodes \in Nat

VARIABLES
    kind,         \* what the frame of the handler is
    at,           \* the main flow's place in Program(kind)
    last_recv_frame,   \* the machine's copy of a frame, by its number, 0 for NULL
    last_recv_packet,  \* the plugin's pointer to such a copy
    arg,               \* the argument of on_frame_received
    live,              \* copies that are allocated
    server_mac,
    builder,      \* fields of the packet builder
    digest,       \* the static buffer of ComputeHash
    v4,           \* those of computeV4: the request they are of, or PAD or JUNK
    buf,          \* _response: the frame being built
    head, next,   \* g_alarm_list
    alive,        \* nodes that are allocated
    used,         \* nodes allocated so far
    what,         \* the func of every node
    g_keepalive_alarm_id,
    new_node, last,   \* locals of insert_data
    ref, curr, gone,  \* locals of remove_data; gone is unlinked, not yet freed
    rang,         \* history: what has rung since the handler was called
    torn,         \* history: an alarm rang while the main flow was in the list
    owed,         \* history: events scheduled, not fired and not cancelled
    fault         \* "frame" or "list": freed memory was used; else "none"

main == <<kind, at, arg>>
frames == <<last_recv_frame, last_recv_packet, live>>
build == <<server_mac, builder, digest, v4, buf>>
list == <<head, next, alive, used, what, g_keepalive_alarm_id>>
locals == <<new_node, last, ref, curr, gone>>
vars == <<if_vars, main, frames, build, list, locals, rang, torn, owed, fault>>

Node == 1..MaxNodes
Kind == {"identity", "md5", "success", "failure", "other"}
BCAST == "bcast"
SERVER == "server"
KEEPER == "keeper"   \* g_dest_mac: the sender of the last Success
PAD == 0               \* the hash of the zeros that stand in for a challenge
JUNK == MaxFrames + 1  \* the hash of freed memory

(* What ComputeHash is given: an identifier, 0 for the user name, and the
   request the challenge is from.                                           *)
Hash(id, seed) == [id |-> id, seed |-> seed]
NoFrame == [eapol_type |-> "none", dst |-> BCAST, type |-> "none", id |-> 0,
            digest |-> Hash(0, 0), pwd |-> Hash(0, 0), v3 |-> PAD]

Init ==
    /\ IfInit
    /\ kind = "other" /\ at = 0 /\ arg = 0
    /\ last_recv_frame = 0 /\ last_recv_packet = 0 /\ live = {}
    /\ server_mac = BCAST
    /\ builder = [dst |-> BCAST, type |-> "start", id |-> 0, seed |-> 0]
    /\ digest = Hash(0, 0) /\ v4 = PAD /\ buf = NoFrame
    /\ head = 0 /\ next = [n \in Node |-> 0] /\ alive = {} /\ used = 0
    /\ what = [n \in Node |-> "none"] /\ g_keepalive_alarm_id = 0
    /\ new_node = 0 /\ last = 0 /\ ref = 0 /\ curr = 0 /\ gone = 0
    /\ rang = {} /\ torn = FALSE /\ owed = {} /\ fault = "none"

(* The nodes list_traverse meets from a list's head: those of the least set
   that holds the head and that no next pointer leaves.                     *)
Closed(l, S) ==
    /\ l.head \in S \cup {0}
    /\ \A n \in S : l.next[n] \in S \cup {0}
NodesOf(l) == {n \in Node : \A S \in SUBSET Node : Closed(l, S) => n \in S}
AlarmList == [head |-> head, next |-> next]
Listed == NodesOf(AlarmList)

-----------------------------------------------------------------------------
(* The two answers: set_outgoing_eth_fields and the other setters of the
   builder, builder_build_packet, the private fields, the driver.           *)
Answer ==
    [identity |-> <<"free", "null", "dup", "call", "plugin", "mac",
                    "eth", "eap", "type", "header", "pwd", "v3", "v3_copy", "send">>,
     md5 |-> <<"free", "null", "dup", "call", "plugin", "mac", "eth", "eap", "seed",
               "type", "header", "digest", "answer", "pwd", "pwd_copy", "v3", "v3_copy",
               "send">>]

(* recv_handler with what it calls, as the sequence of its steps. *)
Program(k) ==
    CASE k = "identity" -> Answer.identity
      [] k = "md5" -> Answer.md5
      [] k = "success" -> <<"free", "null", "dup", "call", "plugin", "result", "find",
                            "link", "watchdog", "watchdog", "free", "null", "reset">>
      [] k = "failure" -> <<"free", "null", "dup", "call", "plugin", "result", "forget",
                            "cancel", "watchdog", "find", "link">>
      [] OTHER -> <<"free", "null", "dup", "call", "plugin">>

Running == fault = "none" /\ phase = "capturing"
Step(s) == Running /\ frame # 0 /\ at <= Len(Program(kind)) /\ Program(kind)[at] = s
Go == at' = at + 1 /\ UNCHANGED <<if_vars, kind, rang>>
Stay == UNCHANGED <<if_vars, kind, at, rang>>

(* The main flow needs memory that must still be allocated. *)
Needs(where, ok, Act) ==
    IF ok THEN Act /\ UNCHANGED fault
    ELSE fault' = where /\ UNCHANGED <<if_vars, main, frames, build, list, locals,
                                       rang, torn, owed>>

(* The driver calls the handler; it returns at the end of its program. *)
CallHandler ==
    /\ fault = "none"
    /\ handler
    /\ IF frame' = 0 THEN UNCHANGED main
       ELSE kind' \in Kind /\ at' = 1 /\ UNCHANGED arg
    /\ rang' = {} /\ torn' = ~(owed \subseteq Listed)
    /\ UNCHANGED <<frames, build, list, locals, owed, fault>>

HandlerReturns ==
    /\ fault = "none" /\ at > Len(Program(kind))
    /\ handler_returns
    /\ kind' = "other" /\ at' = 0 /\ arg' = 0
    /\ buf' = NoFrame
    /\ UNCHANGED <<frames, server_mac, builder, digest, v4, list, locals, rang, torn,
                   owed, fault>>

(* The rest of the driver and the process. *)
Driver ==
    /\ fault = "none"
    /\ Prepare \/ Arrive \/ read \/ read_fails \/ stop_capture \/ destroy
    /\ UNCHANGED <<main, frames, build, list, locals, rang, torn, owed, fault>>

-----------------------------------------------------------------------------
(* The copy of the frame: free_frame frees it, then clears the pointer. *)
free ==
    /\ Step("free")
    /\ Needs("frame", last_recv_frame \in live \cup {0},
          /\ Go
          /\ live' = live \ {last_recv_frame}
          /\ UNCHANGED <<arg, last_recv_frame, last_recv_packet, build, list, locals,
                         torn, owed>>)

(* Mutant of null: free_frame leaves the pointer. *)
null_KeepsPointer ==
    /\ Step("null") /\ Go
    /\ UNCHANGED <<arg, frames, build, list, locals, torn, owed, fault>>

null ==
    /\ Step("null") /\ Go
    /\ last_recv_frame' = 0
    /\ UNCHANGED <<arg, last_recv_packet, live, build, list, locals, torn, owed, fault>>

(* frame_duplicate, stored; then loaded again as the plugins' argument. *)
dup ==
    /\ Step("dup") /\ Go
    /\ last_recv_frame' = frame /\ live' = live \cup {frame}
    /\ UNCHANGED <<arg, last_recv_packet, build, list, locals, torn, owed, fault>>

call ==
    /\ Step("call") /\ Go
    /\ arg' = last_recv_frame
    /\ UNCHANGED <<frames, build, list, locals, torn, owed, fault>>

(* rjv3_on_frame_received keeps the pointer and reads the header. *)
plugin ==
    /\ Step("plugin")
    /\ Needs("frame", arg \in live,
          /\ Go
          /\ last_recv_packet' = arg
          /\ UNCHANGED <<arg, last_recv_frame, live, build, list, locals, torn, owed>>)

(* rjv3_process_result_prop reads the message and the echo key. *)
result ==
    /\ Step("result")
    /\ Needs("frame", arg \in live,
          Go /\ UNCHANGED <<arg, frames, build, list, locals, torn, owed>>)

forget ==
    /\ Step("forget") /\ Go
    /\ last_recv_packet' = 0
    /\ UNCHANGED <<arg, last_recv_frame, live, build, list, locals, torn, owed, fault>>

(* server_mac, in recv_handler and in eap_state_machine_reset. *)
mac ==
    /\ Step("mac") \/ Step("reset")
    /\ Go
    /\ server_mac' = IF Program(kind)[at] = "mac" THEN SERVER ELSE BCAST
    /\ UNCHANGED <<arg, frames, builder, digest, v4, buf, list, locals, torn, owed, fault>>

-----------------------------------------------------------------------------
(* Mutant of builder_set_eap_fields: no return after the EAPOL part. *)
builder_set_eap_fields_NoReturn(b, type, id) == [b EXCEPT !.type = type, !.id = id]

(* A frame that is not an EAP packet leaves the EAP header of the builder. *)
builder_set_eap_fields(b, type, id) ==
    IF type # "eap" THEN [b EXCEPT !.type = type]
    ELSE [b EXCEPT !.type = type, !.id = id]

(* The setters, in the order the senders call them. *)
SetField ==
    /\ Step("eth") \/ Step("eap") \/ Step("seed")
    /\ Go
    /\ builder' = CASE Program(kind)[at] = "eth" -> [builder EXCEPT !.dst = server_mac]
                    [] Program(kind)[at] = "eap" ->
                          builder_set_eap_fields(builder, "eap", frame)
                    [] OTHER -> [builder EXCEPT !.seed = frame]
    /\ UNCHANGED <<arg, frames, server_mac, digest, v4, buf, list, locals, torn, owed,
                   fault>>

(* builder_build_packet: _eapol_type decides, the header is copied later, and
   ComputeHash leaves its result in a static buffer.                        *)
BuildStep ==
    /\ Step("type") \/ Step("header") \/ Step("digest") \/ Step("answer")
    /\ Go
    /\ LET s == Program(kind)[at]
           eap == buf.eapol_type = "eap"
       IN  /\ buf' = CASE s = "type" -> [buf EXCEPT !.eapol_type = builder.type]
                       [] s = "header" -> [buf EXCEPT !.dst = builder.dst,
                                           !.type = builder.type, !.id = builder.id]
                       [] s = "answer" /\ eap -> [buf EXCEPT !.digest = digest]
                       [] OTHER -> buf
           /\ digest' = IF s = "digest" /\ eap
                        THEN Hash(builder.id, builder.seed) ELSE digest
    /\ UNCHANGED <<arg, frames, server_mac, builder, v4, list, locals, torn, owed, fault>>

(* packet_plugin_prepare_frame: rjv3_append_common_fields reads the request two
   times.  rjv3_set_pwd_hash: computePwd leaves a hash in the static buffer of
   ComputeHash, and in one of its own that is only ever overwritten together
   with that one.                                                           *)
set_pwd_hash ==
    /\ Step("pwd")
    /\ Needs("frame", last_recv_packet \in live,
          /\ Go
          /\ digest' = IF kind = "md5" THEN Hash(0, last_recv_packet) ELSE digest
          /\ UNCHANGED <<arg, frames, server_mac, builder, v4, buf, list, locals, torn,
                         owed>>)

(* rjv3_set_v3_hash: computeV4 works and returns in static buffers. *)
set_v3_hash ==
    /\ Step("v3")
    /\ Needs("frame", last_recv_packet \in live,
          /\ Go
          /\ v4' = IF kind = "md5" THEN last_recv_packet ELSE PAD
          /\ UNCHANGED <<arg, frames, server_mac, builder, digest, buf, list, locals,
                         torn, owed>>)

(* Their results are copied out of the static buffers. *)
copy_hash ==
    /\ Step("pwd_copy") \/ Step("v3_copy")
    /\ Go
    /\ buf' = IF Program(kind)[at] = "pwd_copy" THEN [buf EXCEPT !.pwd = digest]
              ELSE [buf EXCEPT !.v3 = v4]
    /\ UNCHANGED <<arg, frames, server_mac, builder, digest, v4, list, locals, torn, owed,
                   fault>>

send ==
    /\ Step("send") /\ Go
    /\ UNCHANGED <<arg, frames, build, list, locals, torn, owed, fault>>

-----------------------------------------------------------------------------
(* insert_data: the node is complete before find_last_node walks the list. *)
find ==
    /\ Step("find")
    /\ IF new_node = 0
       THEN /\ used < MaxNodes /\ Stay
            /\ used' = used + 1 /\ alive' = alive \cup {used'}
            /\ new_node' = used' /\ last' = head
            /\ what' = [what EXCEPT ![used'] = IF kind = "success" THEN "keepalive"
                                               ELSE "restart"]
            /\ UNCHANGED <<arg, head, next, g_keepalive_alarm_id, ref, curr, gone, torn,
                           owed, fault, frames, build>>
       ELSE Needs("list", last \in alive \cup {0},
            /\ IF last = 0 THEN Go /\ UNCHANGED last
               ELSE IF next[last] = 0 THEN Go /\ UNCHANGED last
               ELSE Stay /\ last' = next[last]
            /\ UNCHANGED <<arg, list, new_node, ref, curr, gone, torn, owed, frames, build>>)

link ==
    /\ Step("link")
    /\ Needs("list", last \in alive \cup {0},
          /\ Go
          /\ IF last = 0 THEN head' = new_node /\ UNCHANGED next
             ELSE next' = [next EXCEPT ![last] = new_node] /\ UNCHANGED head
          /\ owed' = owed \cup {new_node}
          /\ new_node' = 0 /\ last' = 0
          /\ UNCHANGED <<arg, alive, used, what, g_keepalive_alarm_id, ref, curr, gone,
                         torn, frames, build>>)

(* The id unschedule_alarm is given: state_alarm_id is always 0. *)
ToCancel == IF Program(kind)[at] = "cancel" THEN g_keepalive_alarm_id ELSE 0

At(r) == IF r = 0 THEN head ELSE next[r]
Relink(r, n) ==
    IF r = 0 THEN head' = n /\ UNCHANGED next
    ELSE next' = [next EXCEPT ![r] = n] /\ UNCHANGED head

(* remove_data: load *curr_ref; the walk ends on NULL. *)
load ==
    /\ Step("cancel") \/ Step("watchdog")
    /\ curr = 0 /\ gone = 0
    /\ Needs("list", ref \in alive \cup {0},
          /\ IF At(ref) = 0 THEN Go /\ ref' = 0 /\ UNCHANGED curr
             ELSE Stay /\ curr' = At(ref) /\ UNCHANGED ref
          /\ UNCHANGED <<arg, list, new_node, last, gone, torn, owed, frames, build>>)

(* Mutant of visit: the node is freed before it is unlinked. *)
visit_FreesFirst ==
    /\ Step("cancel") \/ Step("watchdog")
    /\ curr # 0
    /\ Needs("list", {ref, curr} \subseteq alive \cup {0},
          /\ Stay
          /\ curr' = 0
          /\ IF curr = ToCancel THEN gone' = curr /\ owed' = owed \ {curr} /\ UNCHANGED ref
             ELSE ref' = curr /\ UNCHANGED <<gone, owed>>
          /\ alive' = alive \ {gone'}
          /\ UNCHANGED <<arg, head, next, used, what, g_keepalive_alarm_id, new_node, last,
                         torn, frames, build>>)

(* Compare; unlink a node that matches, or step on. *)
visit ==
    /\ Step("cancel") \/ Step("watchdog")
    /\ curr # 0
    /\ Needs("list", {ref, curr} \subseteq alive \cup {0},
          /\ Stay
          /\ curr' = 0
          /\ IF curr = ToCancel
             THEN /\ Relink(ref, next[curr]) /\ gone' = curr
                  /\ owed' = owed \ {curr} /\ UNCHANGED ref
             ELSE ref' = curr /\ UNCHANGED <<head, next, gone, owed>>
          /\ UNCHANGED <<arg, alive, used, what, g_keepalive_alarm_id, new_node, last,
                         torn, frames, build>>)

(* free(curr->content), free(curr), continue. *)
free_node ==
    /\ Running /\ gone # 0
    /\ Stay
    /\ alive' = alive \ {gone} /\ gone' = 0
    /\ UNCHANGED <<arg, head, next, used, what, g_keepalive_alarm_id, new_node, last, ref,
                   curr, torn, owed, fault, frames, build>>

-----------------------------------------------------------------------------
(* The list with one node taken out. *)
Without(l, n) ==
    [head |-> IF l.head = n THEN l.next[n] ELSE l.head,
     next |-> [m \in Node |-> IF m \in NodesOf(l) /\ l.next[m] = n THEN l.next[n]
                              ELSE l.next[m]]]

(* Mutant of list_concat: the list is replaced even if it is not empty. *)
list_concat_Replaces(l, m) == [l EXCEPT !.head = m]

(* The list with m after its last node, or as its only one. *)
list_concat(l, m) ==
    IF l.head = 0 THEN [l EXCEPT !.head = m]
    ELSE [l EXCEPT !.next = [n \in Node |->
             IF n \in NodesOf(l) /\ l.next[n] = 0 THEN m ELSE l.next[n]]]

(* The main flow is between two accesses to the list. *)
InList == ref # 0 \/ curr # 0 \/ last # 0 \/ gone # 0

Rings(n) ==
    /\ Running /\ n \in Listed
    /\ rang' = rang \cup {what[n]}
    /\ torn' = (torn \/ InList)
    /\ owed' = (owed \ {n}) \cup (IF what[n] = "keepalive" THEN {used + 1} ELSE {})
    /\ UNCHANGED <<if_vars, main, buf, locals>>

(* rjv3_send_keepalive_timed: a heartbeat with the shared builder, and the
   next one is scheduled; the handler removes this event and appends that.  *)
send_keepalive_timed(n) ==
    /\ what[n] = "keepalive" /\ used < MaxNodes
    /\ Rings(n)
    /\ builder' = builder_set_eap_fields([builder EXCEPT !.dst = KEEPER], "echo", 0)
    /\ used' = used + 1 /\ g_keepalive_alarm_id' = used'
    /\ what' = [what EXCEPT ![used'] = "keepalive"]
    /\ alive' = (alive \ {n}) \cup {used'}
    /\ LET l == list_concat(Without(AlarmList, n), used')
       IN  head' = l.head /\ next' = l.next
    /\ UNCHANGED <<frames, server_mac, digest, v4, fault>>

(* restart_auth: reset, then an EAPOL-Start with the shared builder.  Its
   private fields come from the plugin's pointer, which reset has left
   dangling: computeV4 works on zeros, or, when the memory still looks like an
   MD5 challenge, computePwd and computeV4 work on what is in it.           *)
restart_auth(n) ==
    /\ what[n] = "restart"
    /\ Rings(n)
    /\ fault' = IF last_recv_frame \in live \cup {0} THEN fault ELSE "frame"
    /\ live' = live \ {last_recv_frame} /\ last_recv_frame' = 0
    /\ server_mac' = BCAST
    /\ builder' = builder_set_eap_fields([builder EXCEPT !.dst = BCAST], "start", 0)
    /\ \/ v4' = PAD /\ UNCHANGED digest
       \/ /\ last_recv_packet # 0
          /\ v4' \in {last_recv_packet, JUNK} /\ digest' = Hash(0, v4')
    /\ alive' = alive \ {n}
    /\ LET l == Without(AlarmList, n)
       IN  head' = l.head /\ next' = l.next
    /\ UNCHANGED <<last_recv_packet, used, what, g_keepalive_alarm_id>>

(* The process has ended, or its memory is damaged. *)
Stopped == (fault # "none" \/ phase = "destroyed") /\ UNCHANGED vars

Next ==
    \/ Driver \/ CallHandler \/ HandlerReturns
    \/ free \/ null \/ dup \/ call \/ plugin \/ result \/ forget \/ mac
    \/ SetField \/ BuildStep \/ set_pwd_hash \/ set_v3_hash \/ copy_hash \/ send
    \/ find \/ link \/ load \/ visit \/ free_node
    \/ \E n \in Node : send_keepalive_timed(n) \/ restart_auth(n)
    \/ Stopped

Spec == Init /\ [][Next]_vars

-----------------------------------------------------------------------------
(* The answer to a request leaves the client whole unless an alarm rang while
   it was being worked out.  An alarm may turn it into something that is no
   EAP packet and may misdirect it, but never makes it an answer with another
   request's identifier, digest or password hash: what restart_auth does to the
   request and to the digest is met as a use of freed memory first.  The one
   field that an answer may carry wrong is the V3 hash, when restart_auth rings
   between the last read of the request and the copy of that hash.          *)
AnswerIsWhole ==
    Step("send") =>
        /\ rang = {} => buf.type = "eap" /\ buf.dst = SERVER
        /\ buf.type = "eap" =>
              /\ buf.id = frame
              /\ kind = "md5" => buf.digest = Hash(frame, frame) /\ buf.pwd = Hash(0, frame)
        /\ "restart" \notin rang => buf.v3 = IF kind = "md5" THEN frame ELSE PAD

(* The main flow frees the copy of a frame once and reads it only while it is
   allocated, unless restart_auth rang since the driver called the handler: no
   heartbeat, and no sequence of frames, makes it use a freed copy.         *)
FrameFaultNeedsRestart == fault = "frame" => "restart" \in rang

(* Wherever SIGALRM interrupts insert_data or remove_data, its handler finds a
   list of allocated nodes, each reached once: nodes are complete before they
   are linked and unlinked before they are freed.                           *)
HandlerSeesWholeList ==
    fault = "none" =>
        /\ Listed \subseteq alive
        /\ \A n \in Listed :
              Cardinality({m \in Listed : next[m] = n}) + (IF head = n THEN 1 ELSE 0) = 1

(* No scheduled alarm drops out of the list and the main flow touches no freed
   node, unless an alarm rang while the main flow held a pointer into the list. *)
ListDamageNeedsRing == fault = "list" \/ ~(owed \subseteq Listed) => torn
=============================================================================
