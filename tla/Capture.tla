------------------------------ MODULE Capture ------------------------------
(***************************************************************************)
(* What an IF_IMPL promises to the code above it, whichever driver is      *)
(* built in: the frame handler gets the frames of the interface one at a   *)
(* time, in the order of arrival and each at most once; none before the    *)
(* capture starts, none once it was told to stop, none after it ended.     *)
(* A driver that reads the kernel's buffer in batches may skip frames, the *)
(* others may not.                                                         *)
(***************************************************************************)
EXTENDS Naturals

VARIABLES
    capture,    \* "new", "open" or "closed"
    arrived,    \* frames the interface has received so far
    delivered,  \* the number of the last frame given to the handler
    busy,       \* the handler is running
    stopping,   \* stop_capture was called
    batching    \* the driver reads in batches

vars == <<capture, arrived, delivered, busy, stopping, batching>>

Init ==
    /\ capture = "new" /\ arrived = 0 /\ delivered = 0
    /\ busy = FALSE /\ stopping = FALSE /\ batching \in BOOLEAN

Arrive ==
    /\ capture # "closed"
    /\ arrived' = arrived + 1
    /\ UNCHANGED <<capture, delivered, busy, stopping, batching>>

Open ==
    /\ capture = "new"
    /\ capture' = "open"
    /\ UNCHANGED <<arrived, delivered, busy, stopping, batching>>

Deliver ==
    /\ capture = "open" /\ ~busy /\ ~stopping
    /\ delivered' \in (delivered + 1)..arrived
    /\ ~batching => delivered' = delivered + 1
    /\ busy' = TRUE
    /\ UNCHANGED <<capture, arrived, stopping, batching>>

Return ==
    /\ busy
    /\ busy' = FALSE
    /\ UNCHANGED <<capture, arrived, delivered, stopping, batching>>

Stop ==
    /\ capture # "closed"
    /\ stopping' = TRUE
    /\ UNCHANGED <<capture, arrived, delivered, busy, batching>>

(* The capture loop ends, or the process does, in the middle of the handler. *)
Close ==
    /\ capture' = "closed" /\ busy' = FALSE /\ stopping' \in BOOLEAN
    /\ UNCHANGED <<arrived, delivered, batching>>

Next == Arrive \/ Open \/ Deliver \/ Return \/ Stop \/ Close

Spec == Init /\ [][Next]_vars
=============================================================================
