-------------------------- MODULE InterruptsProofs --------------------------
(***************************************************************************)
(* Proofs about the drivers and about the capture loop interrupted by      *)
(* SIGALRM, for any number of frames and of alarm nodes: every driver is a *)
(* Capture and still is one under the rings, what a ring can do to the     *)
(* answer and to the copy of the request, and what it can do to the linked *)
(* list of alarms.                                                         *)
(***************************************************************************)
EXTENDS Interrupts, FiniteSetTheorems, TLAPS

-----------------------------------------------------------------------------
(* The drivers on their own: every driver of IfImpl implements Capture. *)
TypeInv ==
    /\ impl \in Impl /\ phase \in Phase
    /\ arrived \in Nat /\ taken \in Nat /\ got \in Nat /\ frame \in Nat /\ handed \in Nat

(* How the counters of the loop stand to each other: what is in the read
   buffer has not been handed over, and only bpf reads past it.             *)
LoopInv ==
    /\ handed <= taken /\ taken <= arrived
    /\ got # 0 => phase = "capturing" /\ frame = 0 /\ handed < got /\ got <= taken
    /\ got # 0 /\ impl # "bpf" => got = taken /\ handed + 1 = got
    /\ frame # 0 => phase = "capturing"
    /\ phase = "capturing" /\ got = 0 /\ impl # "bpf" => handed = taken
    /\ phase \in {"selected", "named", "params", "ready"} => taken = 0

FlagInv == stop_flag \in BOOLEAN

Inv == TypeInv /\ LoopInv

LEMMA InvInit == IfInit => Inv
BY DEF IfInit, sockraw_new, libpcap_new, bpf_new, Zeroed, Inv, TypeInv, LoopInv, Impl, Phase

LEMMA InvPrepare == Inv /\ Prepare => Inv'
BY DEF Prepare, set_ifname, setup_capture_params, prepare_interface,
       sockraw_prepare_interface, libpcap_prepare_interface, bpf_prepare_interface, start_capture,
       Operation, Inv, TypeInv, LoopInv, Impl, Phase

LEMMA InvNext == Inv /\ [IfNext]_if_vars => Inv'
<1> SUFFICES ASSUME Inv, [IfNext]_if_vars PROVE Inv'
  OBVIOUS
<1>1. CASE Prepare
  BY <1>1, InvPrepare
<1>2. CASE Arrive
  BY <1>2 DEF Arrive, Inv, TypeInv, LoopInv
<1>3. CASE read
  BY <1>3 DEF read, Inv, TypeInv, LoopInv
<1>4. CASE handler
  BY <1>4 DEF handler, EndLoop, Inv, TypeInv, LoopInv, Phase
<1>5. CASE read_fails
  BY <1>5 DEF read_fails, EndLoop, Inv, TypeInv, LoopInv, Phase
<1>6. CASE handler_returns
  BY <1>6 DEF handler_returns, Inv, TypeInv, LoopInv
<1>7. CASE stop_capture
  BY <1>7 DEF stop_capture, Inv, TypeInv, LoopInv
<1>8. CASE destroy
  BY <1>8 DEF destroy, Inv, TypeInv, LoopInv, Phase
<1>9. CASE UNCHANGED if_vars
  BY <1>9 DEF if_vars, Inv, TypeInv, LoopInv
<1>10. QED
  BY <1>1, <1>2, <1>3, <1>4, <1>5, <1>6, <1>7, <1>8, <1>9 DEF IfNext, Loop

LEMMA FlagNext == FlagInv /\ [IfNext]_if_vars => FlagInv'
BY DEF FlagInv, IfNext, if_vars, Prepare, set_ifname, setup_capture_params, prepare_interface,
       sockraw_prepare_interface, libpcap_prepare_interface, bpf_prepare_interface,
       start_capture, Operation, Arrive, Loop, read, handler, EndLoop, read_fails,
       handler_returns, stop_capture, destroy

(* A step of a driver is a step of a Capture or changes nothing it shows. *)
LEMMA StepRefined ==
  Inv /\ Inv' /\ FlagInv' /\ [IfNext]_if_vars => [Above!Next]_Above!vars
<1> SUFFICES ASSUME Inv, Inv', FlagInv', [IfNext]_if_vars PROVE [Above!Next]_Above!vars
  OBVIOUS
<1> USE DEF Inv, TypeInv, Phase
<1>1. CASE Prepare
  <2> USE <1>1 DEF Prepare, set_ifname, setup_capture_params, prepare_interface,
       sockraw_prepare_interface, libpcap_prepare_interface, bpf_prepare_interface,
          start_capture, Operation
  <2>1. CASE phase' = "ended"
    <3>1. frame = 0 /\ frame' = 0
      BY <2>1 DEF LoopInv
    <3>2. QED
      BY <2>1, <3>1 DEF FlagInv, Above!Next, Above!Close
  <2>2. CASE phase' = "capturing"
    BY <2>2 DEF Above!Next, Above!Open
  <2>3. CASE phase' \in {"named", "params", "ready"}
    BY <2>3 DEF Above!vars
  <2>4. QED
    BY <2>1, <2>2, <2>3
<1>2. CASE Arrive
  BY <1>2 DEF Arrive, Above!Next, Above!Arrive
<1>3. CASE read
  BY <1>3 DEF read, Above!vars
<1>4. CASE handler
  <2>1. CASE stop_flag
    BY <1>4, <2>1 DEF handler, EndLoop, LoopInv, Above!Next, Above!Close
  <2>2. CASE ~stop_flag
    <3>1. phase = "capturing" /\ frame = 0 /\ handed' \in (handed + 1)..arrived
      BY <1>4, <2>2 DEF handler, LoopInv
    <3>2. impl # "bpf" => handed' = handed + 1
      BY <1>4, <2>2 DEF handler, LoopInv
    <3>3. QED
      BY <1>4, <2>2, <3>1, <3>2 DEF handler, Above!Next, Above!Deliver
  <2>3. QED
    BY <2>1, <2>2
<1>5. CASE read_fails
  BY <1>5 DEF read_fails, EndLoop, Above!Next, Above!Close
<1>6. CASE handler_returns
  BY <1>6 DEF handler_returns, Above!Next, Above!Return
<1>7. CASE stop_capture
  BY <1>7 DEF stop_capture, Above!Next, Above!Stop
<1>8. CASE destroy
  BY <1>8 DEF destroy, Above!Next, Above!Close
<1>9. CASE UNCHANGED if_vars
  BY <1>9 DEF if_vars, Above!vars
<1>10. QED
  BY <1>1, <1>2, <1>3, <1>4, <1>5, <1>6, <1>7, <1>8, <1>9 DEF IfNext, Loop

(* sockraw, libpcap and bpf keep the promise of the interface, whatever the
   number of frames and whenever stop_capture, an error or exit comes.      *)
THEOREM CaptureRefinedHolds == IfSpec => CaptureRefined
<1>1. IfInit => Above!Init
  BY DEF IfInit, sockraw_new, libpcap_new, bpf_new, Zeroed, Above!Init
<1>2. IfInit => FlagInv
  BY DEF IfInit, sockraw_new, libpcap_new, bpf_new, Zeroed, FlagInv
<1>3. QED
  BY <1>1, <1>2, InvInit, InvNext, FlagNext, StepRefined, PTL DEF IfSpec, CaptureRefined, Above!Spec

-----------------------------------------------------------------------------
USE MaxFramesAssumption, MaxNodesAssumption

(* Where the main flow is.  destroy may leave at behind. *)
Answering == kind \in {"identity", "md5"}
Inserting == (kind = "success" /\ at \in {7, 8}) \/ (kind = "failure" /\ at \in {10, 11})
Linking == (kind = "success" /\ at = 8) \/ (kind = "failure" /\ at = 11)
Removing == (kind = "success" /\ at \in {9, 10}) \/ (kind = "failure" /\ at \in {8, 9})
Freed == at = 2 \/ (kind = "success" /\ at = 12)

FlowInv ==
    /\ kind \in Kind /\ at \in Nat
    /\ fault \in {"none", "frame", "list"}
    /\ frame # 0 => at # 0
    /\ frame = 0 /\ phase # "destroyed" => at = 0

(* The machine's pointer is to an allocated copy or NULL, except between the
   free and the assignment of free_frame.                                   *)
CopyInv ==
    /\ last_recv_frame \in Nat /\ last_recv_packet \in Nat /\ live \subseteq Nat \ {0}
    /\ ~Freed => last_recv_frame \in live \cup {0}

(* From dup on, until success frees it, the copy is the machine's or gone,
   and the plugin's pointer is to it: what only restart_auth can undo.      *)
RequestInv ==
    frame # 0 /\ at >= 4 /\ ~(kind = "success" /\ at >= 11) =>
        /\ last_recv_frame \in {0, frame}
        /\ frame \in live => last_recv_frame = frame
        /\ at >= 5 => arg \in {0, frame}
        /\ at >= 6 => arg = frame
        /\ at >= 6 /\ Answering => last_recv_packet = frame
        /\ "restart" \notin rang => frame \in live /\ (at >= 5 => arg = frame)

(* Steps of the answer that are done. *)
AfterEap == Answering /\ frame # 0 /\ at >= 9
AfterType == AfterEap /\ (kind = "identity" => at >= 10) /\ (kind = "md5" => at >= 11)
AfterHeader == AfterEap /\ (kind = "identity" => at >= 11) /\ (kind = "md5" => at >= 12)
AfterV3Read == AfterEap /\ (kind = "identity" => at >= 13) /\ (kind = "md5" => at >= 17)
AfterPrepare == AfterEap /\ (kind = "identity" => at >= 14) /\ (kind = "md5" => at >= 18)

(* The V3 hash that belongs in the answer. *)
RightV3 == IF kind = "md5" THEN frame ELSE PAD

(* A ring makes the builder's type something else than "eap", for good, and
   leaves its identifier and seed.                                          *)
AnswerInv ==
    /\ Answering /\ frame # 0 /\ at >= 7 /\ rang = {} => server_mac = SERVER
    /\ Answering /\ frame # 0 /\ at >= 8 /\ rang = {} => builder.dst = SERVER
    /\ AfterEap => builder.id = frame /\ (rang = {} => builder.type = "eap")
    /\ AfterEap /\ kind = "md5" /\ at >= 10 => builder.seed = frame
    /\ AfterType /\ builder.type = "eap" => buf.eapol_type = "eap"
    /\ AfterHeader =>
          /\ rang = {} => buf.type = "eap" /\ buf.dst = SERVER
          /\ buf.type = "eap" => buf.eapol_type = "eap" /\ buf.id = frame
    /\ AfterHeader /\ kind = "md5" /\ buf.type = "eap" /\ frame \in live =>
          /\ at = 13 => digest = Hash(frame, frame)
          /\ at >= 14 => buf.digest = Hash(frame, frame)
    /\ AfterHeader /\ kind = "md5" /\ frame \in live =>
          /\ at = 15 => digest = Hash(0, frame)
          /\ at >= 16 => buf.pwd = Hash(0, frame)
    /\ AfterV3Read =>
          /\ kind = "md5" => buf.pwd = Hash(0, frame)
          /\ kind = "md5" /\ buf.type = "eap" => buf.digest = Hash(frame, frame)
          /\ ~AfterPrepare /\ "restart" \notin rang => v4 = RightV3
    /\ AfterPrepare /\ "restart" \notin rang => buf.v3 = RightV3

(* Each step of recv_handler has its places in the programs. *)
LEMMA Places ==
  ASSUME FlowInv
  PROVE  /\ Step("free") => at = 1 \/ (kind = "success" /\ at = 11)
         /\ Step("null") => Freed
         /\ Step("dup") => at = 3
         /\ Step("call") => at = 4
         /\ Step("plugin") => at = 5
         /\ Step("result") => at = 6 /\ ~Answering
         /\ Step("forget") => kind = "failure" /\ at = 7
         /\ Step("mac") => Answering /\ at = 6
         /\ Step("reset") => kind = "success" /\ at = 13
         /\ Step("eth") => Answering /\ at = 7
         /\ Step("eap") => Answering /\ at = 8
         /\ Step("seed") => kind = "md5" /\ at = 9
         /\ Step("type") => (kind = "identity" /\ at = 9) \/ (kind = "md5" /\ at = 10)
         /\ Step("header") => (kind = "identity" /\ at = 10) \/ (kind = "md5" /\ at = 11)
         /\ Step("digest") => kind = "md5" /\ at = 12
         /\ Step("answer") => kind = "md5" /\ at = 13
         /\ Step("pwd") => (kind = "identity" /\ at = 11) \/ (kind = "md5" /\ at = 14)
         /\ Step("pwd_copy") => kind = "md5" /\ at = 15
         /\ Step("v3") => (kind = "identity" /\ at = 12) \/ (kind = "md5" /\ at = 16)
         /\ Step("v3_copy") => (kind = "identity" /\ at = 13) \/ (kind = "md5" /\ at = 17)
         /\ Step("send") => (kind = "identity" /\ at = 14) \/ (kind = "md5" /\ at = 18)
         /\ Step("find") => Inserting /\ ~Linking
         /\ Step("link") => Linking
         /\ Step("cancel") \/ Step("watchdog") => Removing
<1> USE DEF FlowInv, Kind, Step, Program, Answer, Answering, Inserting, Linking, Removing, Freed
<1>1. CASE kind = "identity"
  BY <1>1
<1>2. CASE kind = "md5"
  BY <1>2
<1>3. CASE kind = "success"
  BY <1>3
<1>4. CASE kind = "failure"
  BY <1>4
<1>5. CASE kind = "other"
  BY <1>5
<1>6. QED
  BY <1>1, <1>2, <1>3, <1>4, <1>5

LEMMA Finished ==
  ASSUME FlowInv, at > Len(Program(kind))
  PROVE  ~Inserting /\ ~Removing /\ at >= 6
BY DEF FlowInv, Kind, Program, Answer, Inserting, Removing

-----------------------------------------------------------------------------
(* The steps of the main flow between a call of the handler and its return. *)
CopyStep == free \/ null \/ dup \/ call \/ plugin \/ result \/ forget
PrepareFrame == set_pwd_hash \/ set_v3_hash \/ copy_hash
AnswerStep == mac \/ SetField \/ BuildStep \/ PrepareFrame \/ send
ListStep == find \/ link \/ load \/ visit \/ free_node
Ring == \E n \in Node : send_keepalive_timed(n) \/ restart_auth(n)

(* Inside the handler the driver stands still, and the main flow moves by at
   most one step; outside it only the driver moves.                         *)
LEMMA MainStep ==
  ASSUME CopyStep \/ AnswerStep \/ ListStep
  PROVE  /\ UNCHANGED <<if_vars, kind, rang>> /\ fault = "none"
         /\ at' = at \/ (at' = at + 1 /\ frame # 0)
<1> USE DEF Needs, Go, Stay, Step, Running, main
<1>1. CASE CopyStep
  BY <1>1 DEF CopyStep, free, null, dup, call, plugin, result, forget
<1>2. CASE AnswerStep
  BY <1>2 DEF AnswerStep, mac, SetField, BuildStep, PrepareFrame, set_pwd_hash,
       set_v3_hash, copy_hash, send
<1>3. CASE ListStep
  BY <1>3 DEF ListStep, find, link, load, visit, free_node
<1>4. QED
  BY <1>1, <1>2, <1>3

LEMMA RingStep ==
  ASSUME Ring
  PROVE  /\ UNCHANGED <<if_vars, kind, at, arg, buf, new_node, last, ref, curr, gone>>
         /\ fault = "none" /\ rang' # {}
         /\ fault' = fault \/ (fault' = "frame" /\ "restart" \in rang')
         /\ \A s \in rang : s \in rang'
BY DEF Ring, send_keepalive_timed, restart_auth, Rings, Running, main, locals

LEMMA DriverStep == [Next]_vars => [IfNext]_if_vars
<1> SUFFICES ASSUME [Next]_vars PROVE [IfNext]_if_vars
  OBVIOUS
<1>1. CASE CopyStep \/ AnswerStep \/ ListStep
  BY <1>1, MainStep
<1>2. CASE Ring
  BY <1>2, RingStep
<1>3. CASE Driver \/ CallHandler \/ HandlerReturns
  BY <1>3 DEF Driver, CallHandler, HandlerReturns, IfNext, Loop
<1>4. CASE Stopped \/ UNCHANGED vars
  BY <1>4 DEF Stopped, vars
<1>5. QED
  BY <1>1, <1>2, <1>3, <1>4 DEF Next, CopyStep, AnswerStep, PrepareFrame, ListStep,
     Ring

LEMMA DriverSpec == Spec => IfSpec
<1>1. Init => IfInit
  BY DEF Init
<1>2. QED
  BY <1>1, DriverStep, PTL DEF Spec, IfSpec

(* The promise of the interface holds for the whole program as well: wherever
   SIGALRM interrupts recv_handler, no frame reaches it twice, out of order,
   while it works on another one, or after stop_capture.                     *)
THEOREM CaptureRefinedWhenInterrupted == Spec => CaptureRefined
BY DriverSpec, CaptureRefinedHolds

LEMMA CountersAlways == Spec => []Inv
BY DriverSpec, InvInit, InvNext, PTL DEF IfSpec

-----------------------------------------------------------------------------
LEMMA FlowInit == Init => FlowInv
BY DEF Init, IfInit, sockraw_new, libpcap_new, bpf_new, Zeroed, FlowInv, Kind

LEMMA FlowStep == Inv /\ FlowInv /\ [Next]_vars => FlowInv'
<1> SUFFICES ASSUME Inv, FlowInv, [Next]_vars PROVE FlowInv'
  OBVIOUS
<1> USE DEF FlowInv
<1>1. CASE CopyStep \/ AnswerStep \/ ListStep
  <2>1. fault' \in {"none", "frame", "list"}
    BY <1>1 DEF CopyStep, AnswerStep, ListStep, free, null, dup, call, plugin, result, forget,
       mac, SetField, BuildStep, PrepareFrame, set_pwd_hash,
       set_v3_hash, copy_hash, send, find, link, load, visit, free_node, Needs
  <2>2. QED
    BY <1>1, <2>1, MainStep DEF if_vars
<1>2. CASE Ring
  BY <1>2, RingStep DEF if_vars
<1>3. CASE Driver
  BY <1>3 DEF Driver, Prepare, set_ifname, setup_capture_params, prepare_interface,
       sockraw_prepare_interface, libpcap_prepare_interface, bpf_prepare_interface,
     start_capture, Operation, Arrive, read, read_fails, EndLoop, stop_capture, destroy,
     main, Inv, TypeInv
<1>4. CASE CallHandler
  BY <1>4 DEF CallHandler, handler, EndLoop, main, Inv, TypeInv, LoopInv
<1>5. CASE HandlerReturns
  BY <1>5 DEF HandlerReturns, handler_returns, Kind
<1>6. CASE Stopped \/ UNCHANGED vars
  BY <1>6 DEF Stopped, vars, main, if_vars
<1>7. QED
  BY <1>1, <1>2, <1>3, <1>4, <1>5, <1>6 DEF Next, CopyStep, AnswerStep, PrepareFrame,
     ListStep, Ring

-----------------------------------------------------------------------------
FrameInv == CopyInv /\ RequestInv /\ FrameFaultNeedsRestart

LEMMA FrameInit == Init => FrameInv
BY DEF Init, IfInit, sockraw_new, libpcap_new, bpf_new, Zeroed, FrameInv, CopyInv, RequestInv, FrameFaultNeedsRestart

(* The steps that free, make, load and read the copy, one at a time. *)
LEMMA FrameCopyStep ==
  ASSUME Inv, FlowInv, FrameInv, CopyStep PROVE FrameInv'
<1>0. /\ UNCHANGED <<frame, kind, rang>> /\ fault = "none"
      /\ at \in Nat /\ frame \in Nat /\ last_recv_frame \in Nat
  BY MainStep DEF if_vars, FlowInv, Inv, TypeInv, FrameInv, CopyInv
<1> USE DEF FrameInv, CopyInv, RequestInv, FrameFaultNeedsRestart
<1>1. CASE free
  <2>1. at = 1 \/ (kind = "success" /\ at = 11)
    BY <1>1, Places DEF free
  <2>2. last_recv_frame \in live \cup {0}
    BY <2>1 DEF Freed
  <2>3. at' = at + 1 /\ live' = live \ {last_recv_frame}
        /\ UNCHANGED <<last_recv_frame, last_recv_packet, fault>>
    BY <1>1, <2>2 DEF free, Needs, Go
  <2>4. QED
    BY <1>0, <2>1, <2>3 DEF Freed
<1>2. CASE null
  <2>1. Freed
    BY <1>2, Places DEF null
  <2>2. QED
    BY <1>0, <1>2, <2>1 DEF null, Go, Freed
<1>3. CASE dup
  <2>1. at = 3 /\ frame # 0
    BY <1>3, Places DEF dup, Step
  <2>2. QED
    BY <1>0, <1>3, <2>1 DEF dup, Go
<1>4. CASE call
  <2>1. at = 4
    BY <1>4, Places DEF call
  <2>2. QED
    BY <1>0, <1>4, <2>1 DEF call, Go, Freed, frames
<1>5. CASE plugin
  <2>1. at = 5 /\ frame # 0
    BY <1>5, Places DEF plugin, Step
  <2>2. CASE arg \in live
    <3>1. /\ at' = 6 /\ last_recv_packet' = arg
          /\ UNCHANGED <<arg, last_recv_frame, live, fault>>
      BY <1>5, <2>1, <2>2 DEF plugin, Needs, Go
    <3>2. arg = frame
      BY <2>1, <2>2
    <3>3. QED
      BY <1>0, <2>1, <3>1, <3>2 DEF Freed
  <2>3. CASE arg \notin live
    <3>1. fault' = "frame" /\ UNCHANGED <<at, arg, last_recv_frame, last_recv_packet, live>>
      BY <1>5, <2>3 DEF plugin, Needs, main, frames
    <3>2. "restart" \in rang
      BY <2>1, <2>3
    <3>3. QED
      BY <1>0, <2>1, <3>1, <3>2 DEF Freed
  <2>4. QED
    BY <2>2, <2>3
<1>6. CASE result
  <2>1. at = 6 /\ frame # 0 /\ ~Answering
    BY <1>6, Places DEF result, Step
  <2>2. CASE arg \in live
    <3>1. at' = 7 /\ UNCHANGED <<arg, last_recv_frame, last_recv_packet, live, fault>>
      BY <1>6, <2>1, <2>2 DEF result, Needs, Go, frames
    <3>2. QED
      BY <1>0, <2>1, <3>1 DEF Freed, Answering
  <2>3. CASE arg \notin live
    <3>1. fault' = "frame" /\ UNCHANGED <<at, arg, last_recv_frame, last_recv_packet, live>>
      BY <1>6, <2>3 DEF result, Needs, main, frames
    <3>2. "restart" \in rang
      BY <2>1, <2>3
    <3>3. QED
      BY <1>0, <2>1, <3>1, <3>2 DEF Freed, Answering
  <2>4. QED
    BY <2>2, <2>3
<1>7. CASE forget
  <2>1. at = 7 /\ kind = "failure"
    BY <1>7, Places DEF forget
  <2>2. QED
    BY <1>0, <1>7, <2>1 DEF forget, Go, Freed, Answering
<1>8. QED
  BY <1>1, <1>2, <1>3, <1>4, <1>5, <1>6, <1>7 DEF CopyStep

(* The other steps leave the copies alone; the private fields are read from the
   plugin's one.                                                             *)
LEMMA FrameOtherStep ==
  ASSUME Inv, FlowInv, FrameInv, AnswerStep \/ ListStep PROVE FrameInv'
<1>0. /\ UNCHANGED <<frame, kind, rang>> /\ fault = "none"
      /\ at' = at \/ at' = at + 1
      /\ at \in Nat /\ frame \in Nat /\ last_recv_frame \in Nat
  BY MainStep DEF if_vars, FlowInv, Inv, TypeInv, FrameInv, CopyInv
<1>1. UNCHANGED <<arg, last_recv_frame, last_recv_packet, live>>
  BY DEF AnswerStep, ListStep, mac, SetField, BuildStep, PrepareFrame, set_pwd_hash,
       set_v3_hash, copy_hash, send, find, link, load,
         visit, free_node, Needs, main, frames
<1>2. at' = at \/ (at >= 6 /\ ~Freed /\ ~Freed')
  <2>1. CASE AnswerStep
    <3>1. (Answering /\ at >= 6) \/ at = 13
      <4>1. CASE mac
        BY <4>1, Places DEF mac
      <4>2. CASE SetField
        BY <4>2, Places DEF SetField, Answering
      <4>3. CASE BuildStep
        BY <4>3, Places DEF BuildStep, Answering
      <4>4. CASE PrepareFrame
        <5>1. CASE set_pwd_hash
          BY <5>1, Places DEF set_pwd_hash, Answering
        <5>2. CASE set_v3_hash
          BY <5>2, Places DEF set_v3_hash, Answering
        <5>3. CASE copy_hash
          BY <5>3, Places DEF copy_hash, Answering
        <5>4. QED
          BY <4>4, <5>1, <5>2, <5>3 DEF PrepareFrame
      <4>5. CASE send
        BY <4>5, Places DEF send, Answering
      <4>6. QED
        BY <2>1, <4>1, <4>2, <4>3, <4>4, <4>5 DEF AnswerStep
    <3>2. QED
      BY <1>0, <3>1 DEF Freed, Answering
  <2>2. CASE find \/ link
    <3>1. Inserting
      BY <2>2, Places DEF find, link, Inserting, Linking
    <3>2. QED
      BY <1>0, <3>1 DEF Freed, Inserting
  <2>3. CASE load \/ visit
    <3>1. Removing
      BY <2>3, Places DEF load, visit
    <3>2. QED
      BY <1>0, <3>1 DEF Freed, Removing
  <2>4. CASE free_node
    BY <2>4 DEF free_node, Stay
  <2>5. QED
    BY <2>1, <2>2, <2>3, <2>4 DEF ListStep
<1>3. fault' = "frame" => "restart" \in rang
  <2>1. CASE set_pwd_hash \/ set_v3_hash
    <3>1. Answering /\ at >= 6 /\ frame # 0
      <4>1. CASE set_pwd_hash
        BY <4>1, Places DEF set_pwd_hash, Answering, Step
      <4>2. CASE set_v3_hash
        BY <4>2, Places DEF set_v3_hash, Answering, Step
      <4>3. QED
        BY <2>1, <4>1, <4>2
    <3>2. fault' = "frame" => last_recv_packet \notin live
      BY <1>0, <2>1 DEF set_pwd_hash, set_v3_hash, Needs
    <3>3. QED
      BY <1>0, <3>1, <3>2 DEF FrameInv, RequestInv, Answering
  <2>2. CASE ~(set_pwd_hash \/ set_v3_hash)
    BY <1>0, <2>2 DEF AnswerStep, ListStep, mac, SetField, BuildStep, PrepareFrame, copy_hash,
       send, find, link, load, visit, free_node, Needs
  <2>3. QED
    BY <2>1, <2>2
<1>4. CopyInv'
  BY <1>0, <1>1, <1>2 DEF FrameInv, CopyInv, Freed
<1>5. RequestInv'
  BY <1>0, <1>1, <1>2 DEF FrameInv, RequestInv, Answering
<1>6. QED
  BY <1>0, <1>3, <1>4, <1>5 DEF FrameInv, FrameFaultNeedsRestart

(* A heartbeat leaves the copies alone; restart_auth frees the machine's one
   and clears its pointer.                                                  *)
LEMMA FrameRingStep ==
  ASSUME Inv, FlowInv, FrameInv, Ring PROVE FrameInv'
<1>0. /\ UNCHANGED <<frame, kind, at, arg>>
      /\ at \in Nat /\ frame \in Nat /\ last_recv_frame \in Nat
  BY RingStep DEF if_vars, FlowInv, Inv, TypeInv, FrameInv, CopyInv
<1>1. PICK n \in Node : send_keepalive_timed(n) \/ restart_auth(n)
  BY DEF Ring
<1>2. FrameFaultNeedsRestart'
  BY RingStep DEF FrameInv, FrameFaultNeedsRestart
<1>3. CASE send_keepalive_timed(n)
  BY <1>0, <1>2, <1>3, RingStep DEF send_keepalive_timed, frames, FrameInv, CopyInv,
     RequestInv, Freed, Answering
<1>4. CASE restart_auth(n)
  <2>1. /\ last_recv_frame' = 0 /\ live' = live \ {last_recv_frame}
        /\ last_recv_packet' = last_recv_packet /\ "restart" \in rang'
    BY <1>4 DEF restart_auth, Rings
  <2>2. CopyInv'
    BY <2>1 DEF FrameInv, CopyInv
  <2>3. RequestInv'
    BY <1>0, <2>1 DEF FrameInv, RequestInv, Answering
  <2>4. QED
    BY <1>2, <2>2, <2>3 DEF FrameInv
<1>5. QED
  BY <1>1, <1>3, <1>4

LEMMA FrameStep == Inv /\ FlowInv /\ FrameInv /\ [Next]_vars => FrameInv'
<1> SUFFICES ASSUME Inv, FlowInv, FrameInv, [Next]_vars PROVE FrameInv'
  OBVIOUS
<1>1. CASE CopyStep \/ AnswerStep \/ ListStep
  BY <1>1, FrameCopyStep, FrameOtherStep
<1>2. CASE Ring
  BY <1>2, FrameRingStep
<1> USE DEF FrameInv, CopyInv, RequestInv, FrameFaultNeedsRestart, Freed, Answering
<1>3. CASE Driver
  <2>1. /\ frame' # 0 => frame' = frame
        /\ UNCHANGED <<kind, at, arg, last_recv_frame, last_recv_packet, live, rang, fault>>
    BY <1>3 DEF Driver, Prepare, set_ifname, setup_capture_params, prepare_interface,
       sockraw_prepare_interface, libpcap_prepare_interface, bpf_prepare_interface,
       start_capture, Operation, Arrive, read, read_fails, EndLoop, stop_capture, destroy,
       main, frames
  <2>2. QED
    BY <2>1
<1>4. CASE CallHandler
  <2>1. /\ UNCHANGED <<last_recv_frame, last_recv_packet, live, fault>> /\ fault = "none"
        /\ frame' = 0 => UNCHANGED <<kind, at>>
        /\ frame' # 0 => at' = 1
    BY <1>4 DEF CallHandler, frames, main
  <2>2. at = 0
    BY <1>4 DEF CallHandler, handler, Inv, LoopInv, FlowInv
  <2>3. QED
    BY <2>1, <2>2
<1>5. CASE HandlerReturns
  <2>1. ~Freed
    BY <1>5 DEF HandlerReturns, FlowInv, Kind, Program, Answer
  <2>2. QED
    BY <1>5, <2>1 DEF HandlerReturns, handler_returns, frames
<1>6. CASE Stopped \/ UNCHANGED vars
  BY <1>6 DEF Stopped, vars, main, if_vars, frames
<1>7. QED
  BY <1>1, <1>2, <1>3, <1>4, <1>5, <1>6 DEF Next, CopyStep, AnswerStep, PrepareFrame, ListStep,
     Ring

LEMMA FlowAlways == Spec => [](Inv /\ FlowInv)
BY CountersAlways, FlowInit, FlowStep, PTL DEF Spec

LEMMA FrameAlways == Spec => []FrameInv
BY FlowAlways, FrameInit, FrameStep, PTL DEF Spec

(* recv_handler and the plugin never free the copy of a frame twice and never
   read a freed one, whatever frames arrive and wherever a heartbeat rings;
   only restart_auth in the middle of the handler can bring that about.      *)
THEOREM FrameFaultNeedsRestartHolds == Spec => []FrameFaultNeedsRestart
<1>1. FrameInv => FrameFaultNeedsRestart
  BY DEF FrameInv
<1>2. QED
  BY <1>1, FrameAlways, PTL

-----------------------------------------------------------------------------
Mac == {BCAST, SERVER, KEEPER}
PacketType == {"none", "start", "eap", "echo"}
HashValue == [id : Nat, seed : Nat]
BuildType ==
    /\ server_mac \in Mac
    /\ builder \in [dst : Mac, type : PacketType, id : Nat, seed : Nat]
    /\ digest \in HashValue /\ v4 \in Nat
    /\ buf \in [eapol_type : PacketType, dst : Mac, type : PacketType, id : Nat,
                digest : HashValue, pwd : HashValue, v3 : Nat]

USE DEF Hash, PAD

BuildInv == BuildType /\ AnswerInv

LEMMA BuildInit == Init => BuildInv
BY DEF Init, IfInit, sockraw_new, libpcap_new, bpf_new, Zeroed, BuildInv, BuildType, AnswerInv, Mac, PacketType, HashValue, NoFrame,
       BCAST, SERVER, KEEPER, AfterEap, AfterType, AfterHeader, AfterV3Read, AfterPrepare, Answering

(* A state in which no answer has got past the setting of server_mac. *)
LEMMA NoAnswerYet ==
  ASSUME BuildType', ~(Answering' /\ frame' # 0 /\ at' >= 7), FlowInv'
  PROVE  BuildInv'
BY DEF FlowInv, BuildInv, AnswerInv, AfterEap, AfterType, AfterHeader, AfterV3Read, AfterPrepare

LEMMA BuildSame ==
  ASSUME BuildInv, FlowInv, UNCHANGED <<frame, kind, at, rang, build, live>>
  PROVE  BuildInv'
BY DEF build, BuildInv, BuildType, AnswerInv, AfterEap, AfterType, AfterHeader, AfterV3Read, AfterPrepare,
       Answering, RightV3

(* The steps of the answer, in their order. *)
LEMMA BuildAnswerStep ==
  ASSUME Inv, FlowInv, FlowInv', FrameInv, BuildInv, AnswerStep PROVE BuildInv'
<1>0. /\ UNCHANGED <<frame, kind, rang>> /\ fault = "none"
      /\ at \in Nat /\ frame \in Nat
  BY MainStep DEF if_vars, FlowInv, Inv, TypeInv
<1>1. UNCHANGED <<last_recv_packet, live>>
  BY DEF AnswerStep, mac, SetField, BuildStep, PrepareFrame, set_pwd_hash,
       set_v3_hash, copy_hash, send, Needs, frames
<1> USE DEF BuildInv, BuildType
<1>2. CASE mac
  <2>1. /\ at' = at + 1 /\ UNCHANGED <<builder, digest, v4, buf>>
        /\ server_mac' = IF Program(kind)[at] = "mac" THEN SERVER ELSE BCAST
    BY <1>2 DEF mac, Go
  <2>2. (Answering /\ at = 6 /\ Program(kind)[at] = "mac") \/ (kind = "success" /\ at = 13)
    BY <1>2, Places DEF mac, Step
  <2>3. BuildType'
    BY <2>1 DEF Mac
  <2>4. QED
    BY <1>0, <2>1, <2>2, <2>3 DEF AnswerInv, AfterEap, AfterType, AfterHeader, AfterV3Read, AfterPrepare,
       Answering
<1>3. CASE SetField
  <2>1. at' = at + 1 /\ UNCHANGED <<server_mac, digest, v4, buf>>
    BY <1>3 DEF SetField, Go
  <2>2. CASE Step("eth")
    <3>1. Answering /\ at = 7 /\ builder' = [builder EXCEPT !.dst = server_mac]
      BY <1>3, <2>2, Places DEF SetField, Step
    <3>2. QED
      BY <1>0, <2>1, <3>1 DEF AnswerInv, AfterEap, AfterType, AfterHeader, AfterV3Read, AfterPrepare,
         Answering
  <2>3. CASE Step("eap")
    <3>1. Answering /\ at = 8 /\ builder' = [builder EXCEPT !.type = "eap", !.id = frame]
      BY <1>3, <2>3, Places DEF SetField, Step, builder_set_eap_fields
    <3>2. BuildType'
      BY <1>0, <2>1, <3>1 DEF PacketType
    <3>3. QED
      BY <1>0, <2>1, <3>1, <3>2 DEF AnswerInv, AfterEap, AfterType, AfterHeader, AfterV3Read,
         AfterPrepare, Answering
  <2>4. CASE Step("seed")
    <3>1. kind = "md5" /\ at = 9 /\ builder' = [builder EXCEPT !.seed = frame]
      BY <1>3, <2>4, Places DEF SetField, Step
    <3>2. QED
      BY <1>0, <2>1, <3>1 DEF AnswerInv, AfterEap, AfterType, AfterHeader, AfterV3Read, AfterPrepare,
         Answering
  <2>5. QED
    BY <1>3, <2>2, <2>3, <2>4 DEF SetField
<1>4. CASE BuildStep
  <2>1. at' = at + 1 /\ UNCHANGED <<server_mac, builder, v4>>
    BY <1>4 DEF BuildStep, Go
  <2>2. CASE Step("type")
    <3>1. /\ buf' = [buf EXCEPT !.eapol_type = builder.type] /\ digest' = digest
          /\ (kind = "identity" /\ at = 9) \/ (kind = "md5" /\ at = 10)
      BY <1>4, <2>2, Places DEF BuildStep, Step
    <3>2. QED
      BY <1>0, <2>1, <3>1 DEF AnswerInv, AfterEap, AfterType, AfterHeader, AfterV3Read, AfterPrepare,
         Answering
  <2>3. CASE Step("header")
    <3>1. /\ buf' = [buf EXCEPT !.dst = builder.dst, !.type = builder.type,
                                !.id = builder.id]
          /\ digest' = digest
          /\ (kind = "identity" /\ at = 10) \/ (kind = "md5" /\ at = 11)
      BY <1>4, <2>3, Places DEF BuildStep, Step
    <3>2. /\ buf'.dst = builder.dst /\ buf'.type = builder.type /\ buf'.id = builder.id
          /\ buf'.eapol_type = buf.eapol_type
      BY <3>1
    <3>3. BuildType'
      BY <2>1, <3>1
    <3>4. QED
      BY <1>0, <2>1, <3>1, <3>2, <3>3 DEF AnswerInv, AfterEap, AfterType, AfterHeader, AfterV3Read,
         AfterPrepare, Answering
  <2>4. CASE Step("digest")
    <3>1. /\ buf' = buf /\ kind = "md5" /\ at = 12
          /\ digest' = IF buf.eapol_type = "eap"
                       THEN Hash(builder.id, builder.seed) ELSE digest
      BY <1>4, <2>4, Places DEF BuildStep, Step
    <3>2. QED
      BY <1>0, <2>1, <3>1 DEF AnswerInv, AfterEap, AfterType, AfterHeader, AfterV3Read, AfterPrepare,
         Answering, HashValue, RightV3
  <2>5. CASE Step("answer")
    <3>1. /\ buf' = IF buf.eapol_type = "eap" THEN [buf EXCEPT !.digest = digest] ELSE buf
          /\ digest' = digest /\ kind = "md5" /\ at = 13
      BY <1>4, <2>5, Places DEF BuildStep, Step
    <3>2. QED
      BY <1>0, <1>1, <2>1, <3>1 DEF AnswerInv, AfterEap, AfterType, AfterHeader, AfterV3Read,
         AfterPrepare, Answering, RightV3
  <2>6. QED
    BY <1>4, <2>2, <2>3, <2>4, <2>5 DEF BuildStep
<1>5. CASE PrepareFrame
  <2>0. CASE set_pwd_hash \/ set_v3_hash
    <3>0. /\ \/ Step("pwd") /\ ((kind = "identity" /\ at = 11) \/ (kind = "md5" /\ at = 14))
             \/ Step("v3") /\ ((kind = "identity" /\ at = 12) \/ (kind = "md5" /\ at = 16))
          /\ frame # 0
      BY <2>0, Places DEF set_pwd_hash, set_v3_hash, Step
    <3>1. CASE last_recv_packet \notin live
      BY <1>0, <1>1, <2>0, <3>1, BuildSame DEF set_pwd_hash, set_v3_hash, Needs, main
    <3>2. last_recv_packet = frame
      BY <3>0 DEF FrameInv, RequestInv, Answering
    <3>3. CASE set_pwd_hash /\ last_recv_packet \in live
      <4>1. /\ at' = at + 1 /\ UNCHANGED <<server_mac, builder, v4, buf>>
            /\ digest' = IF kind = "md5" THEN Hash(0, frame) ELSE digest
            /\ (kind = "identity" /\ at = 11) \/ (kind = "md5" /\ at = 14)
        BY <3>2, <3>3, Places DEF set_pwd_hash, Needs, Go
      <4>2. BuildType'
        BY <1>0, <4>1 DEF HashValue
      <4>3. QED
        BY <1>0, <1>1, <3>2, <3>3, <4>1, <4>2 DEF AnswerInv, AfterEap, AfterType,
           AfterHeader, AfterV3Read, AfterPrepare, Answering
    <3>4. CASE set_v3_hash /\ last_recv_packet \in live
      <4>1. /\ at' = at + 1 /\ UNCHANGED <<server_mac, builder, digest, buf>>
            /\ v4' = RightV3
            /\ (kind = "identity" /\ at = 12) \/ (kind = "md5" /\ at = 16)
        BY <3>2, <3>4, Places DEF set_v3_hash, Needs, Go, RightV3
      <4>2. BuildType'
        BY <1>0, <4>1 DEF RightV3
      <4>3. QED
        BY <1>0, <1>1, <3>0, <3>2, <3>4, <4>1, <4>2 DEF AnswerInv, AfterEap, AfterType,
           AfterHeader, AfterV3Read, AfterPrepare, Answering, RightV3
    <3>5. QED
      BY <2>0, <3>1, <3>3, <3>4
  <2>1. CASE copy_hash
    <3>1. at' = at + 1 /\ UNCHANGED <<server_mac, builder, digest, v4>>
      BY <2>1 DEF copy_hash, Go
    <3>2. CASE Step("pwd_copy")
      <4>1. kind = "md5" /\ at = 15 /\ buf' = [buf EXCEPT !.pwd = digest]
        BY <2>1, <3>2, Places DEF copy_hash, Step
      <4>2. /\ buf'.pwd = digest /\ buf'.type = buf.type /\ buf'.id = buf.id
            /\ buf'.eapol_type = buf.eapol_type /\ buf'.dst = buf.dst
            /\ buf'.digest = buf.digest
        BY <4>1
      <4>3. BuildType'
        BY <3>1, <4>1
      <4>4. QED
        BY <1>0, <1>1, <3>1, <4>1, <4>2, <4>3 DEF AnswerInv, AfterEap, AfterType,
           AfterHeader, AfterV3Read, AfterPrepare, Answering
    <3>3. CASE Step("v3_copy")
      <4>1. /\ (kind = "identity" /\ at = 13) \/ (kind = "md5" /\ at = 17)
            /\ buf' = [buf EXCEPT !.v3 = v4]
            /\ frame # 0
        BY <2>1, <3>3, Places DEF copy_hash, Step
      <4>2. /\ buf'.v3 = v4 /\ buf'.type = buf.type /\ buf'.id = buf.id
            /\ buf'.eapol_type = buf.eapol_type /\ buf'.dst = buf.dst
            /\ buf'.digest = buf.digest /\ buf'.pwd = buf.pwd
        BY <4>1
      <4>3. BuildType'
        BY <3>1, <4>1
      <4>4. QED
        BY <1>0, <1>1, <3>1, <4>1, <4>2, <4>3 DEF AnswerInv, AfterEap, AfterType,
           AfterHeader, AfterV3Read, AfterPrepare, Answering, RightV3
    <3>4. QED
      BY <2>1, <3>2, <3>3 DEF copy_hash
  <2>2. QED
    BY <1>5, <2>0, <2>1 DEF PrepareFrame
<1>6. CASE send
  <2>1. /\ (kind = "identity" /\ at = 14) \/ (kind = "md5" /\ at = 18)
        /\ at' = at + 1 /\ UNCHANGED build
    BY <1>6, Places DEF send, Go
  <2>2. QED
    BY <1>0, <1>1, <2>1 DEF build, AnswerInv, AfterEap, AfterType, AfterHeader, AfterV3Read,
       AfterPrepare, Answering, RightV3
<1>7. QED
  BY <1>2, <1>3, <1>4, <1>5, <1>6 DEF AnswerStep

(* A ring uses the builder, and restart_auth the static buffers as well; then it
   has freed the copy, which the reads of the private fields will find out.  *)
LEMMA BuildRingStep ==
  ASSUME Inv, FlowInv, FlowInv', FrameInv, BuildInv, Ring PROVE BuildInv'
<1>0. /\ UNCHANGED <<frame, kind, at, buf>> /\ rang' # {}
      /\ at \in Nat /\ frame \in Nat
  BY RingStep DEF if_vars, FlowInv, Inv, TypeInv
<1>1. PICK n \in Node : send_keepalive_timed(n) \/ restart_auth(n)
  BY DEF Ring
<1>2. /\ server_mac' \in Mac
      /\ builder' \in [dst : Mac, type : {"start", "echo"}, id : Nat, seed : Nat]
      /\ builder'.id = builder.id /\ builder'.seed = builder.seed
  <2>1. CASE send_keepalive_timed(n)
    BY <2>1 DEF send_keepalive_timed, builder_set_eap_fields, BuildInv, BuildType, Mac
  <2>2. CASE restart_auth(n)
    BY <2>2 DEF restart_auth, builder_set_eap_fields, BuildInv, BuildType, Mac
  <2>3. QED
    BY <1>1, <2>1, <2>2
<1>3. builder'.type # "eap"
  BY <1>2
<1>4. /\ "restart" \in rang => "restart" \in rang'
      /\ \/ UNCHANGED <<digest, v4, live>>
         \/ live' = live \ {last_recv_frame} /\ "restart" \in rang'
  BY <1>1, RingStep DEF send_keepalive_timed, restart_auth, frames, Rings
<1>5. digest' \in HashValue /\ v4' \in Nat
  <2>1. CASE send_keepalive_timed(n)
    BY <2>1 DEF send_keepalive_timed, BuildInv, BuildType
  <2>2. CASE restart_auth(n)
    BY <2>2 DEF restart_auth, BuildInv, BuildType, HashValue, FrameInv, CopyInv, JUNK
  <2>3. QED
    BY <1>1, <2>1, <2>2
<1>7. BuildType'
  BY <1>0, <1>2, <1>5 DEF BuildInv, BuildType, PacketType
<1>8. frame \in live /\ live' = live \ {last_recv_frame} /\ frame # 0 /\ Answering /\ at >= 4
      => frame \notin live'
  BY DEF FrameInv, RequestInv, Answering
<1>6. QED
  BY <1>0, <1>2, <1>3, <1>4, <1>7, <1>8 DEF BuildInv, AnswerInv, AfterEap, AfterType,
     AfterHeader, AfterV3Read, AfterPrepare, Answering, RightV3

LEMMA BuildStepLemma ==
  Inv /\ FlowInv /\ FlowInv' /\ FrameInv /\ BuildInv /\ [Next]_vars => BuildInv'
<1> SUFFICES ASSUME Inv, FlowInv, FlowInv', FrameInv, BuildInv, [Next]_vars PROVE BuildInv'
  OBVIOUS
<1>1. CASE CopyStep
  <2>1. UNCHANGED build
    BY <1>1 DEF CopyStep, free, null, dup, call, plugin, result, forget, Needs
  <2>2. at <= 5 \/ ~Answering
    <3>1. CASE free
      BY <3>1, Places DEF free, Answering
    <3>7. CASE null
      BY <3>7, Places DEF null, Freed, Answering
    <3>2. CASE dup \/ call
      BY <3>2, Places DEF dup, call
    <3>3. CASE plugin
      BY <3>3, Places DEF plugin
    <3>4. CASE result
      BY <3>4, Places DEF result
    <3>5. CASE forget
      BY <3>5, Places DEF forget, Answering
    <3>6. QED
      BY <1>1, <3>1, <3>2, <3>3, <3>4, <3>5, <3>7 DEF CopyStep
  <2>3. ~(Answering' /\ at' >= 7)
    BY <1>1, <2>2, MainStep DEF FlowInv, Answering
  <2>4. QED
    BY <2>1, <2>3, NoAnswerYet DEF build, BuildInv, BuildType
<1>2. CASE AnswerStep
  BY <1>2, BuildAnswerStep
<1>3. CASE ListStep
  <2>1. UNCHANGED <<build, live>>
    BY <1>3 DEF ListStep, find, link, load, visit, free_node, Needs, frames
  <2>2. at' = at \/ ~Answering
    <3>1. CASE find \/ link
      BY <3>1, Places DEF find, link, Inserting, Linking, Answering
    <3>2. CASE load \/ visit
      BY <3>2, Places DEF load, visit, Removing, Answering
    <3>3. CASE free_node
      BY <3>3 DEF free_node, Stay
    <3>4. QED
      BY <1>3, <3>1, <3>2, <3>3 DEF ListStep
  <2>3. CASE at' = at
    BY <1>3, <2>1, <2>3, BuildSame, MainStep DEF if_vars
  <2>4. CASE ~Answering
    <3>1. ~Answering'
      BY <1>3, <2>4, MainStep DEF Answering
    <3>2. QED
      BY <2>1, <3>1, NoAnswerYet DEF build, BuildInv, BuildType
  <2>5. QED
    BY <2>2, <2>3, <2>4
<1>4. CASE Ring
  BY <1>4, BuildRingStep
<1>5. CASE Driver
  <2>1. UNCHANGED <<kind, at, rang, build, live>>
    BY <1>5 DEF Driver, main, frames
  <2>2. frame' = frame \/ frame' = 0
    BY <1>5 DEF Driver, Prepare, set_ifname, setup_capture_params, prepare_interface,
       sockraw_prepare_interface, libpcap_prepare_interface, bpf_prepare_interface,
       start_capture, Operation, Arrive, read, read_fails, EndLoop, stop_capture, destroy
  <2>3. QED
    BY <2>1, <2>2, BuildSame, NoAnswerYet DEF build, BuildInv, BuildType
<1>6. CASE CallHandler
  <2>1. UNCHANGED build /\ (frame' = 0 \/ at' = 1)
    BY <1>6 DEF CallHandler
  <2>2. QED
    BY <2>1, NoAnswerYet DEF build, BuildInv, BuildType
<1>7. CASE HandlerReturns
  <2>1. UNCHANGED <<server_mac, builder, digest, v4>> /\ buf' = NoFrame /\ at' = 0
    BY <1>7 DEF HandlerReturns
  <2>2. BuildType'
    BY <2>1 DEF BuildInv, BuildType, NoFrame, PacketType, Mac, HashValue
  <2>3. QED
    BY <2>1, <2>2, NoAnswerYet
<1>8. CASE Stopped \/ UNCHANGED vars
  BY <1>8, BuildSame DEF Stopped, vars, main, if_vars, frames
<1>9. QED
  BY <1>1, <1>2, <1>3, <1>4, <1>5, <1>6, <1>7, <1>8 DEF Next, CopyStep, AnswerStep,
     PrepareFrame, ListStep, Ring

(* The answer that reaches send is the answer to the request being handled, for
   any number of frames and alarms and wherever they ring: with no ring it is
   complete, and if it is still an EAP packet after a ring, its identifier,
   digest and password hash are the request's.  Only a restart_auth that rang
   while the handler was at work can have spoiled its V3 hash.               *)
THEOREM AnswerIsWholeHolds == Spec => []AnswerIsWhole
<1>1. FlowInv /\ BuildInv => AnswerIsWhole
  <2> SUFFICES ASSUME FlowInv, BuildInv, Step("send") PROVE AnswerIsWhole
    BY DEF AnswerIsWhole
  <2>1. /\ (kind = "identity" /\ at = 14) \/ (kind = "md5" /\ at = 18)
        /\ frame # 0
    BY Places DEF Step
  <2>2. AfterHeader /\ AfterV3Read /\ AfterPrepare
    BY <2>1 DEF AfterHeader, AfterV3Read, AfterPrepare, AfterEap, Answering
  <2>3. QED
    BY <2>2 DEF AnswerIsWhole, BuildInv, AnswerInv, RightV3
<1>2. QED
  BY <1>1, FlowAlways, FrameAlways, BuildInit, BuildStepLemma, PTL DEF Spec

-----------------------------------------------------------------------------
(* What list_traverse meets: lemmas about any list over the nodes. *)
IsList(l) == l \in [head : Node \cup {0}, next : [Node -> Node \cup {0}]]

(* Each node is pointed to once, and the list ends. *)
Chain(l) ==
    /\ \A m, n \in NodesOf(l) : l.next[m] = l.next[n] => m = n
    /\ \A m \in NodesOf(l) : l.next[m] # l.head
    /\ l.head # 0 => \E e \in NodesOf(l) : l.next[e] = 0

LEMMA NodeNotNull == 0 \notin Node
BY DEF Node

LEMMA Reached ==
  ASSUME NEW l, IsList(l)
  PROVE  NodesOf(l) \subseteq Node /\ Closed(l, NodesOf(l))
<1>1. l.head \in NodesOf(l) \cup {0}
  BY DEF IsList, NodesOf, Closed
<1>2. ASSUME NEW n \in NodesOf(l) PROVE l.next[n] \in NodesOf(l) \cup {0}
  BY DEF IsList, NodesOf, Closed
<1>3. QED
  BY <1>1, <1>2 DEF NodesOf, Closed

LEMMA Least ==
  ASSUME NEW l, NEW S \in SUBSET Node, Closed(l, S)
  PROVE  NodesOf(l) \subseteq S
BY DEF NodesOf

LEMMA EmptyList ==
  ASSUME NEW l, IsList(l), l.head = 0
  PROVE  NodesOf(l) = {}
BY Least, {} \in SUBSET Node DEF Closed

(* A node other than the first is reached from another one. *)
LEMMA HasPred ==
  ASSUME NEW l, IsList(l), NEW n \in NodesOf(l), n # l.head
  PROVE  \E p \in NodesOf(l) \ {n} : l.next[p] = n
<1> SUFFICES ASSUME \A p \in NodesOf(l) \ {n} : l.next[p] # n PROVE FALSE
  OBVIOUS
<1> DEFINE S == NodesOf(l) \ {n}
<1>1. S \in SUBSET Node /\ Closed(l, S)
  BY Reached DEF Closed
<1>2. QED
  BY <1>1, Least

LEMMA NoLoop ==
  ASSUME NEW l, IsList(l), Chain(l), NEW n \in NodesOf(l)
  PROVE  l.next[n] # n
BY HasPred DEF Chain

(* A list has at most one last node. *)
LEMMA OneEnd ==
  ASSUME NEW l, IsList(l), NEW a \in NodesOf(l), NEW b \in NodesOf(l),
         l.next[a] = 0, l.next[b] = 0
  PROVE  a = b
<1> DEFINE Rest(x) == [head |-> x, next |-> l.next]
           From(x) == NodesOf(Rest(x))
           S == {x \in NodesOf(l) : a \in From(x)}
<1>1. ASSUME NEW x \in Node
      PROVE  IsList(Rest(x)) /\ x \in From(x) /\ From(x) \subseteq Node
  <2>1. IsList(Rest(x))
    BY DEF IsList
  <2>2. QED
    BY <2>1, Reached, NodeNotNull DEF Closed
<1>2. From(l.head) = NodesOf(l)
  BY DEF NodesOf, Closed
<1>3. ASSUME NEW x \in S PROVE l.next[x] \in S \cup {0}
  <2> DEFINE y == l.next[x]
  <2> SUFFICES ASSUME y # 0 PROVE y \in S
    OBVIOUS
  <2>1. x \in Node /\ y \in NodesOf(l) /\ y \in Node /\ a \in From(x)
    BY Reached DEF Closed
  <2>2. Closed(Rest(y), From(y)) /\ y \in From(y) /\ From(y) \subseteq Node
    BY <1>1, <2>1, Reached
  <2>3. Closed(Rest(x), {x} \cup From(y))
    BY <2>2 DEF Closed
  <2>4. From(x) \subseteq {x} \cup From(y)
    BY <2>1, <2>2, <2>3, Least
  <2>5. a # x
    OBVIOUS
  <2>6. QED
    BY <2>1, <2>4, <2>5
<1>4. l.head \in S \cup {0}
  BY <1>2, Reached DEF Closed
<1>5. NodesOf(l) \subseteq S
  BY <1>3, <1>4, Reached, Least DEF Closed
<1>6. b \in Node /\ a \in From(b)
  BY <1>5, Reached
<1>7. Closed(Rest(b), {b})
  BY DEF Closed
<1>8. QED
  BY <1>6, <1>7, Least

(* Unlinking a node takes that node out of the list, and no other. *)
LEMMA Removed ==
  ASSUME NEW l, IsList(l), Chain(l), NEW n \in NodesOf(l)
  PROVE  /\ IsList(Without(l, n)) /\ Chain(Without(l, n))
         /\ NodesOf(Without(l, n)) = NodesOf(l) \ {n}
         /\ \A m \in Node : l.next[m] # n => Without(l, n).next[m] = l.next[m]
         /\ \A m \in Node \ NodesOf(l) : Without(l, n).next[m] = l.next[m]
<1> DEFINE k == Without(l, n)
<1>1. /\ IsList(k) /\ n \in Node
      /\ k.head = IF l.head = n THEN l.next[n] ELSE l.head
      /\ \A m \in NodesOf(l) : k.next[m] = IF l.next[m] = n THEN l.next[n] ELSE l.next[m]
      /\ \A m \in Node : l.next[m] # n => k.next[m] = l.next[m]
      /\ \A m \in Node \ NodesOf(l) : k.next[m] = l.next[m]
  BY Reached DEF IsList, Without
<1> HIDE DEF k
<1>2. l.next[n] # n /\ n # 0
  BY NoLoop, <1>1, NodeNotNull
<1>3. NodesOf(k) \subseteq NodesOf(l) \ {n}
  <2>1. Closed(k, NodesOf(l) \ {n})
    BY <1>1, <1>2, Reached DEF Closed
  <2>2. QED
    BY <2>1, Reached, Least
<1>4. NodesOf(l) \subseteq NodesOf(k) \cup {n}
  <2>1. Closed(k, NodesOf(k)) /\ NodesOf(k) \subseteq Node
    BY <1>1, Reached
  <2>2. \A m \in NodesOf(k) : m \in NodesOf(l) /\ (l.next[m] = k.next[m] \/ l.next[m] = n)
    BY <1>1, <1>3
  <2>3. l.head = n \/ \E p \in NodesOf(k) : l.next[p] = n
    <3> SUFFICES ASSUME l.head # n, \A p \in NodesOf(k) : l.next[p] # n PROVE FALSE
      OBVIOUS
    <3>1. Closed(l, NodesOf(k))
      BY <1>1, <2>1, <2>2 DEF Closed
    <3>2. QED
      BY <1>3, <2>1, <3>1, Least
  <2>4. l.next[n] \in NodesOf(k) \cup {0}
    BY <1>1, <1>3, <2>1, <2>3 DEF Closed
  <2>5. Closed(l, NodesOf(k) \cup {n})
    BY <1>1, <2>1, <2>2, <2>4 DEF Closed
  <2>6. QED
    BY <1>1, <2>1, <2>5, Least
<1>5. NodesOf(k) = NodesOf(l) \ {n}
  BY <1>3, <1>4
<1>6. \A a, b \in NodesOf(k) : k.next[a] = k.next[b] => a = b
  BY <1>1, <1>5 DEF Chain
<1>7. \A m \in NodesOf(k) : k.next[m] # k.head
  BY <1>1, <1>5 DEF Chain
<1>8. ASSUME k.head # 0 PROVE \E e \in NodesOf(k) : k.next[e] = 0
  <2>1. PICK e \in NodesOf(l) : l.next[e] = 0
    BY <1>1, <1>2, <1>8 DEF Chain
  <2>2. CASE e # n
    BY <1>1, <1>2, <1>5, <2>1, <2>2
  <2>3. CASE e = n
    <3>1. l.head # n
      BY <1>1, <1>8, <2>1, <2>3
    <3>2. PICK p \in NodesOf(l) \ {n} : l.next[p] = n
      BY <3>1, HasPred
    <3>3. QED
      BY <1>1, <1>5, <2>1, <2>3, <3>2
  <2>4. QED
    BY <2>2, <2>3
<1>9. QED
  BY <1>1, <1>5, <1>6, <1>7, <1>8 DEF Chain, k

(* list_concat keeps every node of the list and adds the new one. *)
LEMMA Appended ==
  ASSUME NEW l, IsList(l), Chain(l), NEW m \in Node \ NodesOf(l), l.next[m] = 0
  PROVE  /\ IsList(list_concat(l, m)) /\ Chain(list_concat(l, m))
         /\ NodesOf(list_concat(l, m)) = NodesOf(l) \cup {m}
         /\ \A x \in Node : l.next[x] # 0 => list_concat(l, m).next[x] = l.next[x]
         /\ \A x \in Node \ NodesOf(l) : list_concat(l, m).next[x] = l.next[x]
         /\ l.head # 0 => list_concat(l, m).head = l.head
<1> DEFINE k == list_concat(l, m)
<1>0. m # 0
  BY NodeNotNull
<1>1. CASE l.head = 0
  <2>1. /\ IsList(k) /\ k.head = m /\ k.next = l.next
    BY <1>1 DEF list_concat, IsList
  <2> HIDE DEF k
  <2>2. NodesOf(l) = {}
    BY <1>1, EmptyList
  <2>3. Closed(k, {m})
    BY <2>1 DEF Closed
  <2>4. NodesOf(k) = {m}
    <3>1. NodesOf(k) \subseteq {m}
      BY <2>3, Least
    <3>2. m \in NodesOf(k)
      BY <1>0, <2>1, Reached DEF Closed
    <3>3. QED
      BY <3>1, <3>2
  <2>5. Chain(k)
    BY <1>0, <2>1, <2>4 DEF Chain
  <2>6. QED
    BY <1>1, <2>1, <2>2, <2>4, <2>5 DEF k
<1>2. CASE l.head # 0
  <2>1. /\ IsList(k) /\ k.head = l.head
        /\ \A x \in NodesOf(l) : k.next[x] = IF l.next[x] = 0 THEN m ELSE l.next[x]
        /\ \A x \in Node \ NodesOf(l) : k.next[x] = l.next[x]
        /\ \A x \in Node : l.next[x] # 0 => k.next[x] = l.next[x]
    BY <1>2, Reached DEF list_concat, IsList
  <2> HIDE DEF k
  <2>2. Closed(l, NodesOf(l)) /\ NodesOf(l) \subseteq Node /\ l.head \in NodesOf(l)
    BY <1>2, Reached DEF Closed
  <2>3. Closed(k, NodesOf(k)) /\ NodesOf(k) \subseteq Node
    BY <2>1, Reached
  <2>4. NodesOf(k) \subseteq NodesOf(l) \cup {m}
    <3>1. Closed(k, NodesOf(l) \cup {m})
      BY <2>1, <2>2 DEF Closed
    <3>2. QED
      BY <2>2, <3>1, Least
  <2>5. NodesOf(l) \subseteq NodesOf(k)
    <3>1. Closed(l, NodesOf(k) \ {m})
      BY <2>1, <2>2, <2>3, <2>4 DEF Closed
    <3>2. QED
      BY <2>3, <3>1, Least
  <2>6. PICK e \in NodesOf(l) : l.next[e] = 0
    BY <1>2 DEF Chain
  <2>7. m \in NodesOf(k)
    BY <1>0, <2>1, <2>3, <2>5, <2>6 DEF Closed
  <2>8. NodesOf(k) = NodesOf(l) \cup {m}
    BY <2>4, <2>5, <2>7
  <2>9. k.next[m] = 0
    BY <2>1
  <2>10. \A x \in NodesOf(l) : k.next[x] # 0 /\ (l.next[x] # 0 => l.next[x] # m)
    BY <1>0, <2>1, <2>2 DEF Closed
  <2>11. Chain(k)
    BY <1>0, <1>2, <2>1, <2>2, <2>8, <2>9, <2>10 DEF Chain
  <2>12. QED
    BY <1>2, <2>1, <2>8, <2>11 DEF k
<1>3. QED
  BY <1>1, <1>2

(* insert_node writes to the node find_last_node returned: the list stays a
   chain even if that node is no longer the last one.                       *)
LEMMA CutAt ==
  ASSUME NEW l, IsList(l), Chain(l), NEW p \in NodesOf(l),
         NEW m \in Node \ NodesOf(l), l.next[m] = 0,
         NEW k, k = [head |-> l.head, next |-> [l.next EXCEPT ![p] = m]]
  PROVE  /\ IsList(k) /\ Chain(k)
         /\ NodesOf(k) \subseteq NodesOf(l) \cup {m}
         /\ l.next[p] = 0 => k = list_concat(l, m)
<1>0. m # 0 /\ p # m /\ p \in Node
  BY NodeNotNull, Reached
<1>1. /\ IsList(k) /\ k.head = l.head /\ k.next[p] = m /\ k.next[m] = 0
      /\ \A x \in Node \ {p} : k.next[x] = l.next[x]
  BY <1>0 DEF IsList
<1>2. /\ Closed(l, NodesOf(l)) /\ NodesOf(l) \subseteq Node
      /\ Closed(k, NodesOf(k)) /\ NodesOf(k) \subseteq Node
  BY <1>1, Reached
<1>3. NodesOf(k) \subseteq NodesOf(l) \cup {m}
  <2>1. Closed(k, NodesOf(l) \cup {m})
    BY <1>1, <1>2 DEF Closed
  <2>2. QED
    BY <1>2, <2>1, Least
<1>4. p \in NodesOf(k)
  <2> SUFFICES ASSUME p \notin NodesOf(k) PROVE FALSE
    OBVIOUS
  <2>1. Closed(l, NodesOf(k))
    BY <1>1, <1>2 DEF Closed
  <2>2. QED
    BY <1>2, <2>1, Least
<1>5. m \in NodesOf(k)
  BY <1>0, <1>1, <1>2, <1>4 DEF Closed
<1>6. ASSUME NEW a \in NodesOf(k), NEW b \in NodesOf(k), k.next[a] = k.next[b] PROVE a = b
  <2>1. CASE k.next[a] = 0
    BY <1>1, <1>6, <2>1, OneEnd, ZenonT(30)
  <2>2. CASE k.next[a] # 0
    <3>1. a \in NodesOf(l) /\ b \in NodesOf(l)
      BY <1>1, <1>3, <1>6, <2>2
    <3>2. \A x \in NodesOf(l) \ {p} : k.next[x] = l.next[x] /\ l.next[x] # m
      BY <1>0, <1>1, <1>2 DEF Closed
    <3>3. QED
      BY <1>1, <1>6, <3>1, <3>2 DEF Chain
  <2>3. QED
    BY <2>1, <2>2
<1>7. l.head # 0 /\ l.head # m
  BY <1>2, EmptyList DEF Closed
<1>8. \A x \in NodesOf(k) : k.next[x] # k.head
  BY <1>1, <1>2, <1>3, <1>7 DEF Chain
<1>9. l.next[p] = 0 => k = list_concat(l, m)
  <2> SUFFICES ASSUME l.next[p] = 0 PROVE k = list_concat(l, m)
    OBVIOUS
  <2>1. \A n \in Node : (n \in NodesOf(l) /\ l.next[n] = 0) <=> n = p
    BY <1>0, OneEnd
  <2>2. [l.next EXCEPT ![p] = m] =
        [n \in Node |-> IF n \in NodesOf(l) /\ l.next[n] = 0 THEN m ELSE l.next[n]]
    BY <2>1 DEF IsList
  <2>3. QED
    BY <1>7, <2>2 DEF list_concat, IsList
<1>10. QED
  BY <1>1, <1>3, <1>5, <1>6, <1>8, <1>9 DEF Chain

-----------------------------------------------------------------------------
NodesInv ==
    /\ head \in Node \cup {0} /\ next \in [Node -> Node \cup {0}]
    /\ used \in 0..MaxNodes /\ alive \subseteq 1..used
    /\ new_node \in 0..used /\ last \in 0..used
    /\ ref \in 0..used /\ curr \in 0..used /\ gone \in 0..used
    /\ \A n \in Node : n > used => next[n] = 0
    /\ torn \in BOOLEAN

(* The pointers of insert_data and remove_data exist only in their steps. *)
LocalsInv ==
    /\ new_node # 0 => Inserting
    /\ frame # 0 /\ Linking => new_node # 0
    /\ last # 0 => new_node # 0
    /\ new_node # 0 /\ last = 0 => head = 0
    /\ ref # 0 \/ curr # 0 \/ gone # 0 => Removing
    /\ gone # 0 => curr = 0

(* What is allocated and held by the main flow is still in the list, where the
   main flow left it: a ring takes nodes out, but frees them at once.       *)
ListInv ==
    /\ Chain(AlarmList)
    /\ Listed \subseteq alive
    /\ new_node # 0 => new_node \in alive \ Listed /\ next[new_node] = 0
    /\ last \in alive => last \in Listed
    /\ ref \in alive => ref \in Listed
    /\ curr \in alive => curr \in Listed
    /\ curr \in alive /\ ref \in alive \cup {0} => At(ref) = curr
    /\ gone \notin Listed

(* With no ring in the middle, the pointers held are good and nothing is lost. *)
UntornInv ==
    ~torn => /\ {last, ref, curr} \subseteq alive \cup {0}
             /\ frame # 0 /\ Linking /\ last # 0 => next[last] = 0
             /\ owed \subseteq Listed
             /\ fault # "list"

AlarmsInv == NodesInv /\ LocalsInv /\ ListInv /\ UntornInv

LEMMA AlarmsInit == Init => AlarmsInv
<1> SUFFICES ASSUME Init PROVE AlarmsInv
  OBVIOUS
<1>1. NodesInv
  <2>1. torn \in BOOLEAN
    BY Zenon DEF Init
  <2>2. next \in [Node -> Node \cup {0}] /\ \A n \in Node : next[n] = 0
    BY DEF Init
  <2>3. QED
    BY <2>1, <2>2 DEF Init, NodesInv
<1>2. Listed = {}
  <2>1. IsList(AlarmList) /\ AlarmList.head = 0
    BY DEF Init, IsList, AlarmList
  <2>2. QED
    BY <2>1, EmptyList DEF Listed
<1>3. Chain(AlarmList)
  BY <1>2 DEF Init, Chain, AlarmList, Listed
<1>4. QED
  BY <1>1, <1>2, <1>3 DEF Init, IfInit, sockraw_new, libpcap_new, bpf_new, Zeroed, AlarmsInv, LocalsInv, ListInv, UntornInv, Inserting,
     Linking, Removing

LEMMA AlarmListType ==
  ASSUME NodesInv
  PROVE  /\ IsList(AlarmList) /\ AlarmList.head = head /\ AlarmList.next = next
         /\ Listed \subseteq Node
         /\ head \in Listed \cup {0} /\ \A n \in Listed : next[n] \in Listed \cup {0}
<1>1. IsList(AlarmList) /\ AlarmList.head = head /\ AlarmList.next = next
  BY DEF NodesInv, IsList, AlarmList
<1>2. QED
  BY <1>1, Reached DEF Listed, Closed

LEMMA ListedUsed ==
  ASSUME NodesInv, ListInv
  PROVE  used \in Nat /\ \A n \in Listed : n \in 0..used /\ n # 0
<1>1. Listed \subseteq alive
  BY DEF ListInv
<1>2. used \in Nat /\ alive \subseteq 1..used
  BY DEF NodesInv
<1>3. QED
  BY <1>1, <1>2

LEMMA SameList ==
  ASSUME UNCHANGED <<head, next>>
  PROVE  AlarmList' = AlarmList /\ Listed' = Listed
BY DEF AlarmList, Listed

(* Nothing of the list changes and the main flow holds no pointer into it. *)
LEMMA AlarmsIdle ==
  ASSUME AlarmsInv, UNCHANGED <<list, locals, torn, owed>>, ~Inserting, ~Removing,
         frame' # 0 => ~Linking', fault' # "list"
  PROVE  AlarmsInv'
<1>1. AlarmList' = AlarmList /\ Listed' = Listed
  BY SameList DEF list
<1>2. QED
  BY <1>1 DEF list, locals, AlarmsInv, NodesInv, LocalsInv, ListInv, UntornInv, At

(* Nothing of the list changes and the main flow stays where it is. *)
LEMMA AlarmsSame ==
  ASSUME AlarmsInv, UNCHANGED <<list, locals, torn, owed, kind, at>>,
         frame' = frame \/ frame' = 0, fault' # "list" \/ fault' = fault \/ torn
  PROVE  AlarmsInv'
<1>1. AlarmList' = AlarmList /\ Listed' = Listed
  BY SameList DEF list
<1>2. QED
  BY <1>1 DEF list, locals, AlarmsInv, NodesInv, LocalsInv, ListInv, UntornInv, At,
     Inserting, Linking, Removing

LEMMA FindStep ==
  ASSUME Inv, FlowInv, AlarmsInv, find PROVE AlarmsInv'
<1>0. /\ UNCHANGED <<frame, kind>> /\ fault = "none" /\ frame # 0 /\ at \in Nat
      /\ Inserting /\ ~Linking
  BY MainStep, Places DEF if_vars, ListStep, find, Step, FlowInv
<1>1. UNCHANGED <<head, next, ref, curr, gone, torn, owed>>
  BY DEF find, Needs, list, locals
<1>2. AlarmList' = AlarmList /\ Listed' = Listed
  BY <1>1, SameList
<1>3. ref = 0 /\ curr = 0 /\ gone = 0
  BY <1>0 DEF AlarmsInv, LocalsInv, Inserting, Removing
<1> USE DEF AlarmsInv
<1>4. CASE new_node = 0
  <2>1. /\ at' = at /\ used < MaxNodes /\ used' = used + 1 /\ alive' = alive \cup {used'}
        /\ new_node' = used' /\ last' = head /\ fault' = fault
    BY <1>4 DEF find, Stay
  <2>2. used \in Nat /\ used + 1 \in Node /\ used + 1 \notin Listed /\ next[used + 1] = 0
    BY <2>1 DEF NodesInv, ListInv, Node
  <2>3. head \in Listed \cup {0}
    BY AlarmListType
  <2>4. NodesInv'
    BY <1>1, <1>3, <2>1, <2>2, <2>3 DEF NodesInv, ListInv
  <2>5. LocalsInv'
    BY <1>0, <1>1, <1>3, <2>1, <2>2 DEF LocalsInv, Inserting, Linking
  <2>6. ListInv'
    BY <1>1, <1>2, <1>3, <2>1, <2>2, <2>3 DEF ListInv, NodesInv
  <2>7. UntornInv'
    BY <1>0, <1>1, <1>2, <1>3, <2>1, <2>3 DEF UntornInv, ListInv, Linking
  <2>8. QED
    BY <2>4, <2>5, <2>6, <2>7
<1>5. CASE new_node # 0 /\ last \in alive \cup {0}
  <2>1. /\ UNCHANGED <<used, alive, new_node, fault>>
        /\ \/ at' = at + 1 /\ last' = last /\ (last = 0 \/ next[last] = 0)
           \/ at' = at /\ last # 0 /\ next[last] # 0 /\ last' = next[last]
    BY <1>5 DEF find, Needs, Go, Stay, list
  <2>2. last # 0 => last \in Listed /\ next[last] \in Listed \cup {0}
    BY <1>5, AlarmListType DEF ListInv
  <2>3. last' = last \/ last' \in Listed
    BY <2>1, <2>2
  <2>4. NodesInv'
    <3>1. last' \in 0..used
      BY <2>3, ListedUsed DEF NodesInv
    <3>2. QED
      BY <1>1, <2>1, <3>1 DEF NodesInv
  <2>5. LocalsInv'
    BY <1>0, <1>1, <1>3, <1>5, <2>1 DEF LocalsInv, Inserting, Linking
  <2>6. ListInv'
    BY <1>1, <1>2, <1>3, <2>1, <2>3 DEF ListInv, NodesInv
  <2>7. UntornInv'
    BY <1>0, <1>1, <1>2, <1>3, <2>1, <2>3 DEF UntornInv, ListInv, Linking, Inserting
  <2>8. QED
    BY <2>4, <2>5, <2>6, <2>7
<1>6. CASE new_node # 0 /\ last \notin alive \cup {0}
  <2>1. UNCHANGED <<list, locals, torn, owed, kind, at>> /\ torn
    BY <1>6 DEF find, Needs, main, UntornInv
  <2>2. QED
    BY <1>0, <2>1, AlarmsSame
<1>7. QED
  BY <1>4, <1>5, <1>6

LEMMA LinkStep ==
  ASSUME Inv, FlowInv, AlarmsInv, link PROVE AlarmsInv'
<1>0. /\ UNCHANGED <<frame, kind>> /\ fault = "none" /\ frame # 0 /\ at \in Nat
      /\ Linking /\ Inserting
  BY MainStep, Places DEF if_vars, ListStep, link, Step, FlowInv, Linking, Inserting
<1>1. /\ ref = 0 /\ curr = 0 /\ gone = 0 /\ new_node \in alive \ Listed
      /\ next[new_node] = 0 /\ new_node \in Node
  BY <1>0 DEF AlarmsInv, LocalsInv, ListInv, NodesInv, Inserting, Removing, Node
<1>2. CASE last \notin alive \cup {0}
  <2>1. UNCHANGED <<list, locals, torn, owed, kind, at>> /\ torn
    BY <1>2 DEF link, Needs, main, AlarmsInv, UntornInv
  <2>2. QED
    BY <1>0, <2>1, AlarmsSame
<1>3. CASE last \in alive \cup {0}
  <2>1. /\ at' = at + 1 /\ new_node' = 0 /\ last' = 0 /\ owed' = owed \cup {new_node}
        /\ UNCHANGED <<alive, used, ref, curr, gone, torn, fault>>
        /\ last = 0 => head' = new_node /\ next' = next
        /\ last # 0 => next' = [next EXCEPT ![last] = new_node] /\ head' = head
    BY <1>3 DEF link, Needs, Go
  <2>2. AlarmList' = [head |-> head', next |-> next']
    BY DEF AlarmList
  <2>3. IsList(AlarmList) /\ AlarmList.head = head /\ AlarmList.next = next
    BY AlarmListType DEF AlarmsInv
  <2>4. /\ Chain(AlarmList') /\ Listed' \subseteq Listed \cup {new_node}
        /\ ~torn => Listed' = Listed \cup {new_node}
    <3>1. CASE last = 0
      <4>1. head = 0
        BY <1>0, <3>1 DEF AlarmsInv, LocalsInv
      <4>2. AlarmList' = list_concat(AlarmList, new_node)
        BY <2>1, <2>2, <2>3, <3>1, <4>1 DEF list_concat, AlarmList
      <4>3. QED
        BY <1>1, <2>3, <4>2, Appended DEF AlarmsInv, ListInv, Listed
    <3>2. CASE last # 0
      <4>1. last \in Listed
        BY <1>3, <3>2 DEF AlarmsInv, ListInv
      <4>2. AlarmList' = [head |-> AlarmList.head,
                          next |-> [AlarmList.next EXCEPT ![last] = new_node]]
        BY <2>1, <2>2, <2>3, <3>2
      <4>3. /\ Chain(AlarmList') /\ Listed' \subseteq Listed \cup {new_node}
            /\ next[last] = 0 => AlarmList' = list_concat(AlarmList, new_node)
        BY <1>1, <2>3, <4>1, <4>2, CutAt DEF AlarmsInv, ListInv, Listed
      <4>4. ASSUME ~torn PROVE Listed' = Listed \cup {new_node}
        <5>1. next[last] = 0
          BY <1>0, <3>2, <4>4 DEF AlarmsInv, UntornInv
        <5>2. QED
          BY <1>1, <2>3, <4>3, <5>1, Appended DEF AlarmsInv, ListInv, Listed
      <4>5. QED
        BY <4>3, <4>4
    <3>3. QED
      BY <3>1, <3>2
  <2>5. NodesInv'
    <3>1. next' \in [Node -> Node \cup {0}] /\ \A n \in Node : n > used => next'[n] = 0
      BY <1>1, <1>3, <2>1 DEF AlarmsInv, NodesInv
    <3>2. QED
      BY <1>1, <2>1, <3>1 DEF AlarmsInv, NodesInv
  <2>6. LocalsInv'
    BY <1>0, <1>1, <2>1 DEF LocalsInv, Linking
  <2>7. ListInv'
    BY <1>1, <2>1, <2>4 DEF AlarmsInv, NodesInv, ListInv
  <2>8. UntornInv'
    BY <1>0, <1>1, <2>1, <2>4 DEF AlarmsInv, UntornInv
  <2>9. QED
    BY <2>5, <2>6, <2>7, <2>8 DEF AlarmsInv
<1>4. QED
  BY <1>2, <1>3

LEMMA LoadStep ==
  ASSUME Inv, FlowInv, AlarmsInv, load PROVE AlarmsInv'
<1>0. /\ UNCHANGED <<frame, kind>> /\ fault = "none" /\ frame # 0 /\ at \in Nat
      /\ Removing /\ curr = 0 /\ gone = 0
  BY MainStep, Places DEF if_vars, ListStep, load, Step, FlowInv
<1>1. new_node = 0 /\ last = 0 /\ ~Linking
  BY <1>0 DEF AlarmsInv, LocalsInv, Removing, Inserting, Linking
<1>2. CASE ref \notin alive \cup {0}
  <2>1. UNCHANGED <<list, locals, torn, owed, kind, at>> /\ torn
    BY <1>2 DEF load, Needs, main, AlarmsInv, UntornInv
  <2>2. QED
    BY <1>0, <2>1, AlarmsSame
<1>3. CASE ref \in alive \cup {0}
  <2>1. /\ UNCHANGED <<list, new_node, last, gone, torn, owed, fault>>
        /\ \/ at' = at + 1 /\ ref' = 0 /\ curr' = curr
           \/ at' = at /\ At(ref) # 0 /\ curr' = At(ref) /\ ref' = ref
    BY <1>3 DEF load, Needs, Go, Stay
  <2>2. AlarmList' = AlarmList /\ Listed' = Listed /\ UNCHANGED <<head, next, alive, used>>
    BY <2>1, SameList DEF list
  <2>3. At(ref) \in Listed \cup {0}
    BY <1>3, AlarmListType DEF AlarmsInv, ListInv, At
  <2>4. curr' = curr \/ curr' \in Listed
    BY <2>1, <2>3
  <2>5. NodesInv'
    <3>1. curr' \in 0..used /\ ref' \in 0..used
      BY <2>1, <2>4, ListedUsed DEF AlarmsInv, NodesInv
    <3>2. QED
      BY <2>1, <2>2, <3>1 DEF AlarmsInv, NodesInv
  <2>6. LocalsInv'
    BY <1>0, <1>1, <2>1, <2>2 DEF AlarmsInv, LocalsInv, Removing, Inserting, Linking
  <2>7. ListInv'
    BY <1>0, <1>1, <2>1, <2>2, <2>4 DEF AlarmsInv, NodesInv, ListInv, At
  <2>8. UntornInv'
    BY <1>0, <1>1, <2>1, <2>2, <2>4 DEF AlarmsInv, UntornInv, ListInv
  <2>9. QED
    BY <2>5, <2>6, <2>7, <2>8 DEF AlarmsInv
<1>4. QED
  BY <1>2, <1>3

LEMMA VisitStep ==
  ASSUME Inv, FlowInv, AlarmsInv, visit PROVE AlarmsInv'
<1>0. /\ UNCHANGED <<frame, kind>> /\ fault = "none" /\ frame # 0 /\ at \in Nat
      /\ Removing /\ curr # 0
  BY MainStep, Places DEF if_vars, ListStep, visit, Step, FlowInv
<1>1. new_node = 0 /\ last = 0 /\ gone = 0 /\ ~Linking
  BY <1>0 DEF AlarmsInv, LocalsInv, Removing, Inserting, Linking
<1>2. CASE ~({ref, curr} \subseteq alive \cup {0})
  <2>1. UNCHANGED <<list, locals, torn, owed, kind, at>> /\ torn
    BY <1>2 DEF visit, Needs, main, AlarmsInv, UntornInv
  <2>2. QED
    BY <1>0, <2>1, AlarmsSame
<1>3. CASE {ref, curr} \subseteq alive \cup {0}
  <2>1. /\ curr \in Listed /\ ref \in Listed \cup {0} /\ At(ref) = curr
    BY <1>0, <1>3 DEF AlarmsInv, ListInv
  <2>2. /\ at' = at /\ curr' = 0
        /\ UNCHANGED <<alive, used, new_node, last, torn, fault>>
    BY <1>3 DEF visit, Needs, Stay
  <2>3. IsList(AlarmList) /\ AlarmList.head = head /\ AlarmList.next = next /\ Chain(AlarmList)
    BY AlarmListType DEF AlarmsInv, ListInv
  <2>4. CASE curr # ToCancel
    <3>1. ref' = curr /\ UNCHANGED <<head, next, gone, owed>>
      BY <1>3, <2>4 DEF visit, Needs
    <3>2. AlarmList' = AlarmList /\ Listed' = Listed
      BY <3>1, SameList
    <3>3. NodesInv'
      BY <2>2, <3>1 DEF AlarmsInv, NodesInv
    <3>4. LocalsInv'
      BY <1>0, <1>1, <2>2, <3>1 DEF AlarmsInv, LocalsInv, Removing, Linking
    <3>5. ListInv'
      BY <1>1, <2>1, <2>2, <3>1, <3>2 DEF AlarmsInv, NodesInv, ListInv
    <3>6. UntornInv'
      BY <1>0, <1>1, <1>3, <2>2, <3>1, <3>2 DEF AlarmsInv, UntornInv
    <3>7. QED
      BY <3>3, <3>4, <3>5, <3>6 DEF AlarmsInv
  <2>5. CASE curr = ToCancel
    <3>1. /\ gone' = curr /\ owed' = owed \ {curr} /\ ref' = ref
          /\ ref = 0 => head' = next[curr] /\ next' = next
          /\ ref # 0 => next' = [next EXCEPT ![ref] = next[curr]] /\ head' = head
      BY <1>3, <2>5 DEF visit, Needs, Relink
    <3>2. AlarmList' = Without(AlarmList, curr)
      <4>1. AlarmList' = [head |-> head', next |-> next']
        BY DEF AlarmList
      <4>2. Without(AlarmList, curr) =
              [head |-> IF head = curr THEN next[curr] ELSE head,
               next |-> [m \in Node |-> IF m \in Listed /\ next[m] = curr THEN next[curr]
                                        ELSE next[m]]]
        BY <2>3 DEF Without, Listed
      <4>3. next \in [Node -> Node \cup {0}]
        BY DEF AlarmsInv, NodesInv
      <4>4. CASE ref = 0
        <5>1. head = curr /\ \A m \in Listed : next[m] # curr
          BY <2>1, <2>3, <4>4 DEF At, Chain, Listed
        <5>2. next = [m \in Node |-> IF m \in Listed /\ next[m] = curr THEN next[curr]
                                     ELSE next[m]]
          BY <4>3, <5>1
        <5>3. QED
          BY <3>1, <4>1, <4>2, <4>4, <5>1, <5>2
      <4>5. CASE ref # 0
        <5>1. /\ ref \in Listed /\ next[ref] = curr /\ head # curr
              /\ \A m \in Listed : next[m] = curr => m = ref
          BY <2>1, <2>3, <4>5 DEF At, Chain, Listed
        <5>2. [next EXCEPT ![ref] = next[curr]] =
                [m \in Node |-> IF m \in Listed /\ next[m] = curr THEN next[curr]
                                ELSE next[m]]
          BY <4>3, <5>1
        <5>3. QED
          BY <3>1, <4>1, <4>2, <4>5, <5>1, <5>2
      <4>6. QED
        BY <4>4, <4>5
    <3>3. /\ IsList(AlarmList') /\ Chain(AlarmList') /\ Listed' = Listed \ {curr}
      BY <2>1, <2>3, <3>2, Removed DEF Listed
    <3>4. ref # curr
      BY <1>0, <2>1, <2>3, NoLoop DEF At, Listed
    <3>5. NodesInv'
      <4>1. head' \in Node \cup {0} /\ next' \in [Node -> Node \cup {0}]
        BY <3>3 DEF IsList, AlarmList
      <4>2. ref # 0 => ref \in 1..used
        BY <2>1, ListedUsed DEF AlarmsInv
      <4>3. \A n \in Node : n > used => next'[n] = 0
        BY <3>1, <4>2 DEF AlarmsInv, NodesInv, Node
      <4>4. QED
        BY <2>2, <3>1, <4>1, <4>3 DEF AlarmsInv, NodesInv
    <3>6. LocalsInv'
      BY <1>0, <1>1, <2>2, <3>1 DEF AlarmsInv, LocalsInv, Removing, Linking
    <3>7. ListInv'
      BY <1>1, <2>1, <2>2, <3>1, <3>3, <3>4 DEF AlarmsInv, NodesInv, ListInv
    <3>8. UntornInv'
      BY <1>0, <1>1, <1>3, <2>2, <3>1, <3>3 DEF AlarmsInv, UntornInv
    <3>9. QED
      BY <3>5, <3>6, <3>7, <3>8 DEF AlarmsInv
  <2>6. QED
    BY <2>4, <2>5
<1>4. QED
  BY <1>2, <1>3

LEMMA FreeNodeStep ==
  ASSUME Inv, FlowInv, AlarmsInv, free_node PROVE AlarmsInv'
<1>1. /\ UNCHANGED <<frame, kind, at, head, next, used, new_node, last, ref, curr, torn, owed,
                     fault>>
      /\ alive' = alive \ {gone} /\ gone' = 0 /\ gone # 0
  BY DEF free_node, Stay, if_vars
<1>2. AlarmList' = AlarmList /\ Listed' = Listed
  BY <1>1, SameList
<1>3. curr = 0 /\ new_node = 0 /\ last = 0
  BY <1>1 DEF AlarmsInv, LocalsInv, Inserting, Removing
<1>4. NodesInv'
  BY <1>1 DEF AlarmsInv, NodesInv
<1>5. LocalsInv'
  BY <1>1 DEF AlarmsInv, LocalsInv, Inserting, Removing, Linking
<1>6. ListInv'
  BY <1>1, <1>2, <1>3 DEF AlarmsInv, ListInv, NodesInv
<1>7. UntornInv'
  BY <1>1, <1>2, <1>3 DEF AlarmsInv, UntornInv, ListInv, Linking
<1>8. QED
  BY <1>4, <1>5, <1>6, <1>7 DEF AlarmsInv

(* What a ring does to the list: the node that rang is gone, a heartbeat has
   scheduled the next one behind the last, and no other link is touched.    *)
RingEffect(n, new) ==
    /\ n \in Listed /\ used' \in used..MaxNodes
    /\ new = {} \/ (new = {used + 1} /\ used' = used + 1)
    /\ IsList(AlarmList') /\ Chain(AlarmList')
    /\ Listed' = (Listed \ {n}) \cup new
    /\ alive' = (alive \ {n}) \cup new
    /\ owed' = (owed \ {n}) \cup new
    /\ \A m \in Node \ Listed : next'[m] = next[m]
    /\ \A m \in Node : next[m] # 0 /\ next[m] # n => next'[m] = next[m]
    /\ head # 0 /\ head # n => head' = head

LEMMA RingEffects ==
  ASSUME AlarmsInv, Ring PROVE \E n \in Node, new \in SUBSET Node : RingEffect(n, new)
<1>0. PICK n \in Node : send_keepalive_timed(n) \/ restart_auth(n)
  BY DEF Ring
<1>1. n \in Listed
  BY <1>0 DEF send_keepalive_timed, restart_auth, Rings
<1>2. IsList(AlarmList) /\ AlarmList.head = head /\ AlarmList.next = next /\ Chain(AlarmList)
  BY AlarmListType DEF AlarmsInv, ListInv
<1> DEFINE l == Without(AlarmList, n)
<1>3. /\ IsList(l) /\ Chain(l) /\ NodesOf(l) = Listed \ {n}
      /\ \A m \in Node : next[m] # n => l.next[m] = next[m]
      /\ \A m \in Node \ Listed : l.next[m] = next[m]
      /\ l.head = IF head = n THEN next[n] ELSE head
  <2>1. l.head = IF head = n THEN next[n] ELSE head
    BY <1>2 DEF Without
  <2>2. QED
    BY <1>1, <1>2, <2>1, Removed DEF Listed
<1>4. used \in 0..MaxNodes /\ used + 1 \notin Listed
  BY ListedUsed DEF AlarmsInv, NodesInv
<1>5. CASE restart_auth(n)
  <2>1. /\ AlarmList' = [head |-> l.head, next |-> l.next]
        /\ alive' = alive \ {n} /\ owed' = owed \ {n} /\ used' = used
    BY <1>5 DEF restart_auth, Rings, AlarmList
  <2>2. AlarmList' = l
    BY <1>3, <2>1 DEF IsList
  <2>3. Listed' = Listed \ {n} /\ next' = l.next /\ head' = l.head
    BY <1>3, <1>5, <2>2 DEF Listed, restart_auth
  <2>4. RingEffect(n, {})
    BY <1>1, <1>3, <1>4, <2>1, <2>2, <2>3 DEF RingEffect
  <2>5. QED
    BY <2>4
<1>6. CASE send_keepalive_timed(n)
  <2> DEFINE k == list_concat(l, used + 1)
  <2>1. /\ AlarmList' = [head |-> k.head, next |-> k.next]
        /\ head' = k.head /\ next' = k.next
        /\ alive' = (alive \ {n}) \cup {used + 1} /\ owed' = (owed \ {n}) \cup {used + 1}
        /\ used' = used + 1 /\ used < MaxNodes
    BY <1>6 DEF send_keepalive_timed, Rings, AlarmList
  <2>2. used + 1 \in Node \ NodesOf(l) /\ l.next[used + 1] = 0
    BY <1>3, <1>4, <2>1 DEF AlarmsInv, NodesInv, Node
  <2>3. /\ IsList(k) /\ Chain(k) /\ NodesOf(k) = NodesOf(l) \cup {used + 1}
        /\ \A x \in Node : l.next[x] # 0 => k.next[x] = l.next[x]
        /\ \A x \in Node \ NodesOf(l) : k.next[x] = l.next[x]
        /\ l.head # 0 => k.head = l.head
    BY <1>3, <2>2, Appended
  <2> HIDE DEF l, k
  <2>4. AlarmList' = k
    BY <2>1, <2>3 DEF IsList
  <2>5. Listed' = (Listed \ {n}) \cup {used + 1}
    BY <1>3, <2>3, <2>4 DEF Listed
  <2>6. \A m \in Node \ Listed : next'[m] = next[m]
    BY <1>3, <2>1, <2>3
  <2>7. \A m \in Node : next[m] # 0 /\ next[m] # n => next'[m] = next[m]
    BY <1>3, <2>1, <2>3
  <2>8. head # 0 /\ head # n => head' = head
    BY <1>3, <2>1, <2>3
  <2>9. RingEffect(n, {used + 1})
    BY <1>1, <1>4, <2>1, <2>3, <2>4, <2>5, <2>6, <2>7, <2>8 DEF RingEffect
  <2>10. QED
    BY <2>2, <2>9
<1>7. QED
  BY <1>0, <1>5, <1>6

LEMMA AlarmsRingStep ==
  ASSUME Inv, FlowInv, AlarmsInv, Ring PROVE AlarmsInv'
<1>0. /\ UNCHANGED <<frame, kind, at, new_node, last, ref, curr, gone>>
      /\ fault = "none" /\ fault' # "list"
      /\ torn' = (torn \/ InList)
  <2>1. torn' = (torn \/ InList)
    BY DEF Ring, send_keepalive_timed, restart_auth, Rings
  <2>2. QED
    BY <2>1, RingStep DEF if_vars
<1>1. PICK n \in Node, new \in SUBSET Node : RingEffect(n, new)
  BY RingEffects
<1>2. \A m \in new : m = used + 1 /\ used' = used + 1
  BY <1>1 DEF RingEffect
<1>3. used \in Nat /\ used' \in Nat /\ used <= used' /\ n # 0 /\ n \in 0..used
  BY <1>1, ListedUsed DEF RingEffect, AlarmsInv
<1>4. NodesInv'
  <2>1. head' \in Node \cup {0} /\ next' \in [Node -> Node \cup {0}]
    BY <1>1 DEF RingEffect, IsList, AlarmList
  <2>2. ASSUME NEW m \in Node, m > used' PROVE next'[m] = 0
    <3>1. m > used /\ m \notin Listed
      BY <1>3, <2>2, ListedUsed DEF Node, AlarmsInv
    <3>2. QED
      BY <1>1, <3>1 DEF RingEffect, AlarmsInv, NodesInv
  <2>3. alive' \subseteq 1..used'
    BY <1>1, <1>2, <1>3 DEF RingEffect, AlarmsInv, NodesInv
  <2>4. torn' \in BOOLEAN
    BY <1>0, Zenon
  <2>5. QED
    BY <1>0, <1>1, <1>3, <2>1, <2>2, <2>3, <2>4 DEF RingEffect, AlarmsInv, NodesInv
<1>5. LocalsInv'
  <2>1. head # 0
    BY <1>1, AlarmListType, EmptyList DEF RingEffect, AlarmsInv, Listed
  <2>2. QED
    BY <1>0, <2>1 DEF AlarmsInv, LocalsInv, Inserting, Linking, Removing
<1>6. ListInv'
  <2>1. \A p \in 0..used : p \in alive' <=> p \in alive /\ p # n
    BY <1>1, <1>2, <1>3 DEF RingEffect
  <2>2. \A p \in 0..used : p \in Listed' <=> p \in Listed /\ p # n
    BY <1>1, <1>2, <1>3 DEF RingEffect
  <2>3. Chain(AlarmList') /\ Listed' \subseteq alive'
    BY <1>1 DEF RingEffect, AlarmsInv, ListInv
  <2>4. new_node # 0 => new_node \in alive' \ Listed' /\ next'[new_node] = 0
    <3>1. new_node # 0 => /\ new_node \in Node \ Listed /\ new_node \in alive
                          /\ next[new_node] = 0 /\ new_node \in 0..used /\ new_node # n
      BY <1>1 DEF RingEffect, AlarmsInv, ListInv, NodesInv, Node
    <3>2. QED
      BY <1>1, <2>1, <2>2, <3>1 DEF RingEffect
  <2>5. /\ last \in alive' => last \in Listed'
        /\ ref \in alive' => ref \in Listed'
        /\ curr \in alive' => curr \in Listed'
        /\ gone \notin Listed'
    BY <2>1, <2>2 DEF AlarmsInv, ListInv, NodesInv
  <2>6. ASSUME curr \in alive', ref \in alive' \cup {0} PROVE At(ref)' = curr
    <3>1. /\ curr \in alive /\ curr # n /\ ref \in alive \cup {0} /\ ref \in Node \cup {0}
          /\ curr # 0
      BY <1>3, <2>1, <2>6 DEF AlarmsInv, NodesInv, Node
    <3>2. At(ref) = curr
      BY <3>1 DEF AlarmsInv, ListInv
    <3>3. QED
      BY <1>0, <1>1, <3>1, <3>2 DEF RingEffect, At
  <2>7. QED
    BY <1>0, <2>3, <2>4, <2>5, <2>6 DEF ListInv
<1>7. UntornInv'
  <2> SUFFICES ASSUME ~torn'
               PROVE  /\ {last, ref, curr}' \subseteq alive' \cup {0}
                      /\ last' = 0 /\ owed' \subseteq Listed' /\ fault' # "list"
    BY DEF UntornInv
  <2>1. ~torn /\ last = 0 /\ ref = 0 /\ curr = 0
    BY <1>0 DEF InList
  <2>2. owed' \subseteq Listed'
    BY <1>1, <2>1 DEF RingEffect, AlarmsInv, UntornInv
  <2>3. QED
    BY <1>0, <2>1, <2>2
<1>8. QED
  BY <1>4, <1>5, <1>6, <1>7 DEF AlarmsInv

LEMMA AlarmsStep == Inv /\ FlowInv /\ AlarmsInv /\ [Next]_vars => AlarmsInv'
<1> SUFFICES ASSUME Inv, FlowInv, AlarmsInv, [Next]_vars PROVE AlarmsInv'
  OBVIOUS
<1>1. CASE CopyStep
  <2>1. UNCHANGED <<list, locals, torn, owed>> /\ fault' # "list"
    BY <1>1, MainStep DEF CopyStep, free, null, dup, call, plugin, result, forget, Needs
  <2>2. (at <= 7 \/ at >= 11) /\ (kind = "failure" => at <= 7) /\ (kind = "success" => at # 7)
    <3>1. CASE free
      BY <3>1, Places DEF free
    <3>2. CASE null
      BY <3>2, Places DEF null, Freed
    <3>3. CASE dup \/ call
      BY <3>3, Places DEF dup, call
    <3>4. CASE plugin
      BY <3>4, Places DEF plugin
    <3>5. CASE result
      BY <3>5, Places DEF result
    <3>6. CASE forget
      BY <3>6, Places DEF forget
    <3>7. QED
      BY <1>1, <3>1, <3>2, <3>3, <3>4, <3>5, <3>6 DEF CopyStep
  <2>3. ~Inserting /\ ~Removing /\ ~Linking'
    BY <1>1, <2>2, MainStep DEF FlowInv, Inserting, Removing, Linking
  <2>4. QED
    BY <2>1, <2>3, AlarmsIdle
<1>2. CASE AnswerStep
  <2>1. UNCHANGED <<list, locals, torn, owed>> /\ fault' # "list"
    BY <1>2, MainStep DEF AnswerStep, mac, SetField, BuildStep, PrepareFrame, set_pwd_hash,
       set_v3_hash, copy_hash, send, Needs
  <2>2. Answering \/ (kind = "success" /\ at = 13)
    <3>1. CASE mac
      BY <3>1, Places DEF mac
    <3>2. CASE SetField
      BY <3>2, Places DEF SetField, Answering
    <3>3. CASE BuildStep
      BY <3>3, Places DEF BuildStep, Answering
    <3>4. CASE PrepareFrame
      BY <3>4, Places DEF PrepareFrame, set_pwd_hash, set_v3_hash, copy_hash, Answering
    <3>5. CASE send
      BY <3>5, Places DEF send, Answering
    <3>6. QED
      BY <1>2, <3>1, <3>2, <3>3, <3>4, <3>5 DEF AnswerStep
  <2>3. ~Inserting /\ ~Removing /\ ~Linking'
    BY <1>2, <2>2, MainStep DEF FlowInv, Inserting, Removing, Linking, Answering
  <2>4. QED
    BY <2>1, <2>3, AlarmsIdle
<1>3. CASE ListStep
  BY <1>3, FindStep, LinkStep, LoadStep, VisitStep, FreeNodeStep DEF ListStep
<1>4. CASE Ring
  BY <1>4, AlarmsRingStep
<1>5. CASE Driver
  <2>1. UNCHANGED <<list, locals, torn, owed, kind, at, fault>>
    BY <1>5 DEF Driver, main
  <2>2. frame' = frame \/ frame' = 0
    BY <1>5 DEF Driver, Prepare, set_ifname, setup_capture_params, prepare_interface,
       sockraw_prepare_interface, libpcap_prepare_interface, bpf_prepare_interface,
       start_capture, Operation, Arrive, read, read_fails, EndLoop, stop_capture, destroy
  <2>3. QED
    BY <2>1, <2>2, AlarmsSame
<1>6. CASE CallHandler
  <2>1. /\ UNCHANGED <<list, locals, owed, fault>> /\ fault = "none"
        /\ torn' = ~(owed \subseteq Listed)
        /\ (frame' = 0 /\ at' = at) \/ at' = 1
    BY <1>6 DEF CallHandler, main
  <2>2. at = 0
    BY <1>6 DEF CallHandler, handler, Inv, LoopInv, FlowInv
  <2>3. new_node = 0 /\ last = 0 /\ ref = 0 /\ curr = 0 /\ gone = 0
    BY <2>2 DEF AlarmsInv, LocalsInv, Inserting, Removing
  <2>4. AlarmList' = AlarmList /\ Listed' = Listed /\ ~Linking'
    BY <2>1, <2>2, SameList DEF list, Linking
  <2>5. torn' \in BOOLEAN
    BY <2>1, Zenon
  <2>6. NodesInv' /\ LocalsInv'
    BY <2>1, <2>3, <2>4, <2>5 DEF list, locals, AlarmsInv, NodesInv, LocalsInv
  <2>7. ListInv'
    BY <2>1, <2>3, <2>4 DEF list, locals, AlarmsInv, ListInv, At
  <2>8. UntornInv'
    BY <2>1, <2>3, <2>4 DEF list, locals, UntornInv
  <2>9. QED
    BY <2>6, <2>7, <2>8 DEF AlarmsInv
<1>7. CASE HandlerReturns
  <2>1. UNCHANGED <<list, locals, torn, owed, fault>> /\ at' = 0 /\ fault = "none"
    BY <1>7 DEF HandlerReturns
  <2>2. ~Inserting /\ ~Removing
    BY <1>7, Finished DEF HandlerReturns
  <2>3. ~Linking'
    BY <2>1 DEF Linking
  <2>4. QED
    BY <2>1, <2>2, <2>3, AlarmsIdle
<1>8. CASE Stopped \/ UNCHANGED vars
  BY <1>8, AlarmsSame DEF Stopped, vars, main, if_vars
<1>9. QED
  BY <1>1, <1>2, <1>3, <1>4, <1>5, <1>6, <1>7, <1>8 DEF Next, CopyStep, AnswerStep,
     PrepareFrame, ListStep, Ring

LEMMA AlarmsAlways == Spec => []AlarmsInv
BY FlowAlways, AlarmsInit, AlarmsStep, PTL DEF Spec

(* For any number of nodes: wherever SIGALRM interrupts insert_data or
   remove_data, even if it has done so before in the same walk, its handler
   finds a list of allocated nodes that meets each of them exactly once.     *)
THEOREM HandlerSeesWholeListHolds == Spec => []HandlerSeesWholeList
<1>1. AlarmsInv => HandlerSeesWholeList
  <2> SUFFICES ASSUME AlarmsInv PROVE HandlerSeesWholeList
    OBVIOUS
  <2>1. IsList(AlarmList) /\ AlarmList.head = head /\ AlarmList.next = next /\ Chain(AlarmList)
    BY AlarmListType DEF AlarmsInv, ListInv
  <2>2. ASSUME NEW n \in Listed
        PROVE  Cardinality({m \in Listed : next[m] = n}) + (IF head = n THEN 1 ELSE 0) = 1
    <3>1. CASE head = n
      <4>1. {m \in Listed : next[m] = n} = {}
        BY <2>1, <3>1 DEF Chain, Listed
      <4>2. QED
        BY <3>1, <4>1, FS_EmptySet
    <3>2. CASE head # n
      <4>1. PICK p \in Listed : next[p] = n
        BY <2>1, <3>2, HasPred DEF Listed
      <4>2. {m \in Listed : next[m] = n} = {p}
        BY <2>1, <4>1 DEF Chain, Listed
      <4>3. QED
        BY <3>2, <4>2, FS_Singleton
    <3>3. QED
      BY <3>1, <3>2
  <2>3. QED
    BY <2>2 DEF HandlerSeesWholeList, AlarmsInv, ListInv
<1>2. QED
  BY <1>1, AlarmsAlways, PTL

(* For any number of nodes: a scheduled alarm leaves the list only by firing or
   by being cancelled, and insert_data and remove_data touch no freed node,
   as long as no alarm rings while they hold a pointer into the list.        *)
THEOREM ListDamageNeedsRingHolds == Spec => []ListDamageNeedsRing
<1>1. AlarmsInv => ListDamageNeedsRing
  BY DEF AlarmsInv, UntornInv, ListDamageNeedsRing
<1>2. QED
  BY <1>1, AlarmsAlways, PTL
=============================================================================
