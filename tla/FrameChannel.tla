--------------------------- MODULE FrameChannel ---------------------------
(***************************************************************************)
(* What a control ring promises: a queue of frames that loses, tears and   *)
(* reorders nothing, and that starts empty for every lease of its slot.    *)
(***************************************************************************)
EXTENDS Sequences, Naturals

CONSTANT Frames

VARIABLES
    queue,      \* frames published and not yet received
    received    \* the frames received under the present lease

Init == queue = <<>> /\ received = <<>>

Publish(f) ==
    queue' = Append(queue, f) /\ UNCHANGED received

Receive ==
    /\ queue # <<>>
    /\ received' = Append(received, Head(queue))
    /\ queue' = Tail(queue)

NewLease == queue' = <<>> /\ received' = <<>>

Next == (\E f \in Frames : Publish(f)) \/ Receive \/ NewLease

Spec == Init /\ [][Next]_<<queue, received>>
=============================================================================
