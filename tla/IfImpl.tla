------------------------------- MODULE IfImpl -------------------------------
(***************************************************************************)
(* The network interface drivers of if_impl/: sockraw (recv on a packet    *)
(* socket), libpcap (pcap_loop) and bpf (read of /dev/bpf).  select_if_impl*)
(* picks one; init_if of minieap.c calls the first operations in order.    *)
(*                                                                         *)
(* Frames are numbered by arrival.  The kernel queues them as soon as      *)
(* prepare_interface has opened the interface, which is before             *)
(* start_capture: the answer to the first EAPOL-Start may be waiting.      *)
(* stop_capture is an operation of the interface that no code calls today. *)
(***************************************************************************)
EXTENDS Naturals

CONSTANT MaxFrames   \* bound: frames that arrive in a behaviour

ASSUME MaxFramesAssumption == MaxFrames \in Nat

VARIABLES
    impl,       \* the driver select_if_impl has found
    phase,      \* how far init_if and main have come with it
    arrived,    \* frames the kernel has queued
    taken,      \* frames read from the kernel, handled or not
    got,        \* the frame at the start of the read buffer, 0 when none
    frame,      \* the frame the handler is working on, 0 when it is not running
    stop_flag,  \* PRIV->stop_flag, or the break flag of pcap
    handed      \* history: the last frame given to the handler

if_vars == <<impl, phase, arrived, taken, got, frame, stop_flag, handed>>

Impl == {"sockraw", "libpcap", "bpf"}
Phase == {"selected", "named", "params", "ready", "capturing", "ended", "destroyed"}

(* A zeroed private structure, made by the driver that is selected. *)
Zeroed ==
    /\ phase = "selected"
    /\ arrived = 0 /\ taken = 0 /\ got = 0 /\ frame = 0 /\ handed = 0
    /\ stop_flag = FALSE
sockraw_new == impl = "sockraw" /\ Zeroed
libpcap_new == impl = "libpcap" /\ Zeroed
bpf_new == impl = "bpf" /\ Zeroed
IfInit == sockraw_new \/ libpcap_new \/ bpf_new

(* An operation succeeds, or fails and init_if makes the program exit. *)
Operation(from, to, mayFail) ==
    /\ phase = from
    /\ \/ phase' = to
       \/ mayFail /\ phase' = "ended"
    /\ UNCHANGED <<impl, arrived, taken, got, frame, stop_flag, handed>>

(* Only sockraw asks the kernel for the interface here. *)
set_ifname == Operation("selected", "named", impl = "sockraw")
setup_capture_params == Operation("named", "params", FALSE)

(* Each opens its descriptor (or pcap handle), sets its filter or binds to the
   protocol, and fails when the kernel refuses one of the steps that matter.  *)
sockraw_prepare_interface == impl = "sockraw" /\ Operation("params", "ready", TRUE)
libpcap_prepare_interface == impl = "libpcap" /\ Operation("params", "ready", TRUE)
bpf_prepare_interface == impl = "bpf" /\ Operation("params", "ready", TRUE)
prepare_interface ==
    sockraw_prepare_interface \/ libpcap_prepare_interface \/ bpf_prepare_interface

(* bpf allocates its read buffer before its loop. *)
start_capture == Operation("ready", "capturing", impl = "bpf")

(* The kernel queues a frame. *)
Arrive ==
    /\ phase \in {"ready", "capturing"} /\ arrived < MaxFrames
    /\ arrived' = arrived + 1
    /\ UNCHANGED <<impl, phase, taken, got, frame, stop_flag, handed>>

(* recv, and pcap's read, take one frame; read of bpf takes what its buffer holds. *)
read ==
    /\ phase = "capturing" /\ got = 0 /\ frame = 0
    /\ taken' \in (taken + 1)..arrived
    /\ impl # "bpf" => taken' = taken + 1
    /\ got' = taken + 1
    /\ UNCHANGED <<impl, phase, arrived, frame, stop_flag, handed>>

EndLoop ==
    /\ phase' = "ended"
    /\ got' = 0 /\ stop_flag' = FALSE
    /\ UNCHANGED <<impl, arrived, taken, frame, handed>>

(* Mutant of handler: the loop looks at stop_flag before it reads, not after. *)
handler_StopCheckedFirst ==
    /\ got # 0
    /\ frame' = got /\ handed' = got
    /\ got' = 0
    /\ UNCHANGED <<impl, phase, arrived, taken, stop_flag>>

(* The rest of the loop condition and the body: bpf, too, hands over the one
   frame its buffer starts with, and drops the others.                      *)
handler ==
    /\ got # 0
    /\ IF stop_flag THEN EndLoop
       ELSE /\ frame' = got /\ handed' = got
            /\ got' = 0
            /\ UNCHANGED <<impl, phase, arrived, taken, stop_flag>>

handler_returns ==
    /\ frame # 0
    /\ frame' = 0
    /\ UNCHANGED <<impl, phase, arrived, taken, got, stop_flag, handed>>

(* recv or read returns an error (the link goes down), pcap_loop fails, or
   pcap_loop notices the break flag when its read times out.                *)
read_fails ==
    /\ phase = "capturing" /\ got = 0 /\ frame = 0
    /\ EndLoop

stop_capture ==
    /\ phase \in {"ready", "capturing"}
    /\ stop_flag' = TRUE
    /\ UNCHANGED <<impl, phase, arrived, taken, got, frame, handed>>

(* exit, from wherever the program is: the descriptor is closed. *)
destroy ==
    /\ phase # "destroyed"
    /\ phase' = "destroyed"
    /\ got' = 0 /\ frame' = 0 /\ stop_flag' = FALSE
    /\ UNCHANGED <<impl, arrived, taken, handed>>

Prepare == set_ifname \/ setup_capture_params \/ prepare_interface \/ start_capture
Loop == read \/ handler \/ read_fails
IfNext == Prepare \/ Arrive \/ Loop \/ handler_returns \/ stop_capture \/ destroy

IfSpec == IfInit /\ [][IfNext]_if_vars

-----------------------------------------------------------------------------
(* Every driver is a Capture, the numbered frames being those of the kernel's
   queue: no frame reaches the handler twice, out of order, while it still
   works on another one, or after stop_capture.                             *)
Above == INSTANCE Capture WITH
    capture <- CASE phase \in {"selected", "named", "params", "ready"} -> "new"
                 [] phase = "capturing" -> "open"
                 [] OTHER -> "closed",
    delivered <- handed,
    busy <- frame # 0,
    stopping <- stop_flag,
    batching <- impl = "bpf"

CaptureRefined == Above!Spec
=============================================================================
