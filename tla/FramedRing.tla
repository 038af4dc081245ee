---------------------------- MODULE FramedRing ----------------------------
(***************************************************************************)
(* One direction of a control slot: src/runtime/control_transport/src/     *)
(* ring.rs.  One process sends length-prefixed frames into a ring of       *)
(* bytes, another receives them; a ready flag tells the receiver that it   *)
(* has something to do.  Every step is one access to shared memory, or the *)
(* copy of one part of a frame.                                            *)
(*                                                                         *)
(* A byte is known by what was written there: a byte of the length prefix  *)
(* of a frame, or a byte of its payload.  Signalling the peer process is   *)
(* left out: both sides also wake up by a timeout.                         *)
(***************************************************************************)
EXTENDS Integers, Sequences, FiniteSets

CONSTANTS
    Capacity,       \* bytes in the ring
    FRAME_PREFIX_LEN,
    MaxFrames,      \* bound: frames sent under a lease
    MaxLeases       \* bound: leases of the slot

ASSUME RingAssumption ==
    /\ FRAME_PREFIX_LEN \in Nat \ {0}
    /\ Capacity \in Nat /\ Capacity >= FRAME_PREFIX_LEN + 1
    /\ MaxFrames \in Nat /\ MaxLeases \in Nat

VARIABLES
    head, tail, data,   \* the ring
    ready,              \* its ready flag
    spc, shead, stail,  \* the sender, and the snapshot it took
    frame,              \* the frame it is sending
    rpc, rhead, rtail,  \* the receiver, and the snapshot it took
    got,                \* what it has copied out
    leases,             \* leases left
    log, received       \* history: frames published, and frames received

sender == <<spc, shead, stail, frame>>
receiver == <<rpc, rhead, rtail, got>>
history == <<log, received>>
vars == <<head, tail, data, ready, sender, receiver, leases, history>>

Indexes == 0..(Capacity - 1)

\* Payload lengths that build_publish_plan accepts; longer ones are refused.
MaxPayload == Capacity - FRAME_PREFIX_LEN - 1
Frames == [id : 1..MaxFrames, len : 0..MaxPayload]
NoFrame == [id |-> 0, len |-> 0]

\* The bytes of frame f: its prefix tells the length, its payload who sent it.
\* Zero stands for a byte that no frame wrote.
Prefix(f) == [k \in 1..FRAME_PREFIX_LEN |-> [id |-> f.id, part |-> "len", v |-> f.len]]
Payload(f) == [k \in 1..f.len |-> [id |-> f.id, part |-> "payload", v |-> k]]
Bytes == [id : Nat, part : {"len", "payload"}, v : Nat]
NoByte == [id |-> 0, part |-> "payload", v |-> 0]

wrap_index_late(idx) == IF idx > Capacity THEN idx % Capacity ELSE idx
wrap_index(idx) == IF idx >= Capacity THEN idx % Capacity ELSE idx

UsedBytes(h, t) == IF t >= h THEN t - h ELSE Capacity - (h - t)

AvailableBytes(h, t) == Capacity - UsedBytes(h, t) - 1

\* write_bytes_wrapped, read_bytes_wrapped
WriteBytes(d, from, bytes) ==
    [i \in Indexes |->
        LET k == wrap_index(i - from + Capacity) + 1
        IN  IF k \in DOMAIN bytes THEN bytes[k] ELSE d[i]]
ReadBytes(d, from, len) ==
    [k \in 1..len |-> d[wrap_index(from + k - 1)]]

TypeOK ==
    /\ head \in Indexes /\ tail \in Indexes /\ data \in [Indexes -> Bytes]
    /\ shead \in Indexes /\ stail \in Indexes
    /\ rhead \in Indexes /\ rtail \in Indexes
    /\ ready \in BOOLEAN
    /\ spc \in {"idle", "tail", "prefix", "payload", "publish", "notify"}
    /\ rpc \in {"idle", "tail", "prefix", "payload", "consume", "recheck",
                "clear", "rearm", "set"}
    /\ frame \in Frames \cup {NoFrame}
    /\ leases \in 0..MaxLeases
    /\ log \in Seq(Frames)

Init ==
    /\ head = 0 /\ tail = 0 /\ data = [i \in Indexes |-> NoByte]
    /\ ready = FALSE
    /\ spc = "idle" /\ shead = 0 /\ stail = 0 /\ frame = NoFrame
    /\ rpc = "idle" /\ rhead = 0 /\ rtail = 0 /\ got = <<>>
    /\ leases = MaxLeases
    /\ log = <<>> /\ received = <<>>

-----------------------------------------------------------------------------
(* send_frame *)

\* head_tail_checked loads the head, then the tail.
LoadHead(len) ==
    /\ spc = "idle" /\ Len(log) < MaxFrames
    /\ shead' = head /\ frame' = [id |-> Len(log) + 1, len |-> len]
    /\ spc' = "tail"
    /\ UNCHANGED <<head, tail, data, ready, stail, receiver, leases, history>>

\* build_publish_plan: a frame that does not fit is refused as Full.
LoadTailWithoutPrefix ==
    /\ spc = "tail"
    /\ stail' = tail
    /\ spc' = IF frame.len > AvailableBytes(shead, tail)
              THEN "idle" ELSE "prefix"
    /\ UNCHANGED <<head, tail, data, ready, shead, frame, receiver, leases,
                   history>>
LoadTail ==
    /\ spc = "tail"
    /\ stail' = tail
    /\ spc' = IF FRAME_PREFIX_LEN + frame.len > AvailableBytes(shead, tail)
              THEN "idle" ELSE "prefix"
    /\ UNCHANGED <<head, tail, data, ready, shead, frame, receiver, leases,
                   history>>

WritePrefix ==
    /\ spc = "prefix"
    /\ data' = WriteBytes(data, stail, Prefix(frame))
    /\ spc' = "payload"
    /\ UNCHANGED <<head, tail, ready, shead, stail, frame, receiver, leases,
                   history>>

WritePayload ==
    /\ spc = "payload"
    /\ data' = WriteBytes(data, wrap_index(stail + FRAME_PREFIX_LEN), Payload(frame))
    /\ spc' = "publish"
    /\ UNCHANGED <<head, tail, ready, shead, stail, frame, receiver, leases,
                   history>>

StoreTail ==
    /\ spc = "publish"
    /\ tail' = wrap_index(stail + FRAME_PREFIX_LEN + frame.len)
    /\ log' = Append(log, frame)
    /\ spc' = "notify"
    /\ UNCHANGED <<head, data, ready, shead, stail, frame, receiver, leases,
                   received>>

SetReady ==
    /\ spc = "notify"
    /\ ready' = TRUE /\ spc' = "idle"
    /\ UNCHANGED <<head, tail, data, shead, stail, frame, receiver, leases,
                   history>>

-----------------------------------------------------------------------------
(* recv_frame_into *)

RecvHead ==
    /\ rpc = "idle"
    /\ rhead' = head /\ rpc' = "tail"
    /\ UNCHANGED <<head, tail, data, ready, sender, rtail, got, leases, history>>

RecvTail ==
    /\ rpc = "tail"
    /\ rtail' = tail
    /\ rpc' = IF rhead = tail THEN "idle" ELSE "prefix"
    /\ UNCHANGED <<head, tail, data, ready, sender, rhead, got, leases, history>>

\* build_consume_plan; a length that reaches past the tail is CorruptFrameLen,
\* and the frame stays where it is.
ReadPrefixStrict ==
    /\ rpc = "prefix"
    /\ got' = ReadBytes(data, rhead, FRAME_PREFIX_LEN)
    /\ rpc' = IF FRAME_PREFIX_LEN + data[rhead].v >= UsedBytes(rhead, rtail)
              THEN "idle" ELSE "payload"
    /\ UNCHANGED <<head, tail, data, ready, sender, rhead, rtail, leases, history>>
ReadPrefix ==
    /\ rpc = "prefix"
    /\ got' = ReadBytes(data, rhead, FRAME_PREFIX_LEN)
    /\ rpc' = IF FRAME_PREFIX_LEN + data[rhead].v > UsedBytes(rhead, rtail)
              THEN "idle" ELSE "payload"
    /\ UNCHANGED <<head, tail, data, ready, sender, rhead, rtail, leases, history>>

FrameLen == got[1].v
ReadPayload ==
    /\ rpc = "payload"
    /\ got' = got \o ReadBytes(data, wrap_index(rhead + FRAME_PREFIX_LEN), FrameLen)
    /\ rpc' = "consume"
    /\ UNCHANGED <<head, tail, data, ready, sender, rhead, rtail, leases, history>>

\* What the receiver makes of the bytes; those of no frame are no frame.
FrameOf(bytes) ==
    LET f == [id |-> bytes[1].id, len |-> bytes[1].v]
    IN  IF bytes = Prefix(f) \o Payload(f) THEN f ELSE NoFrame

\* The head moves on; when this was the last frame of the snapshot,
\* update_ready_after_consume follows.
NextHead == wrap_index(rhead + FRAME_PREFIX_LEN + FrameLen)
StoreHead ==
    /\ rpc = "consume"
    /\ head' = NextHead
    /\ received' = Append(received, FrameOf(got))
    /\ rpc' = IF NextHead = rtail THEN "recheck" ELSE "idle"
    /\ UNCHANGED <<tail, data, ready, sender, rhead, rtail, got, leases, log>>

RecheckTail ==
    /\ rpc = "recheck"
    /\ rpc' = IF tail # NextHead THEN "idle" ELSE "clear"
    /\ UNCHANGED <<head, tail, data, ready, sender, rhead, rtail, got, leases,
                   history>>

ClearReady ==
    /\ rpc = "clear"
    /\ ready' = FALSE /\ rpc' = "rearm"
    /\ UNCHANGED <<head, tail, data, sender, rhead, rtail, got, leases, history>>

RecheckAfterClearSkipped ==
    /\ rpc = "rearm"
    /\ rpc' = "idle"
    /\ UNCHANGED <<head, tail, data, ready, sender, rhead, rtail, got, leases,
                   history>>
RecheckAfterClear ==
    /\ rpc = "rearm"
    /\ rpc' = IF tail # NextHead THEN "set" ELSE "idle"
    /\ UNCHANGED <<head, tail, data, ready, sender, rhead, rtail, got, leases,
                   history>>

Rearm ==
    /\ rpc = "set"
    /\ ready' = TRUE /\ rpc' = "idle"
    /\ UNCHANGED <<head, tail, data, sender, rhead, rtail, got, leases, history>>

-----------------------------------------------------------------------------
\* clear_slot, by the process that publishes a new lease; neither side has the
\* ring then.
ClearSlot ==
    /\ spc = "idle" /\ rpc = "idle" /\ leases > 0
    /\ head' = tail /\ ready' = FALSE
    /\ leases' = leases - 1 /\ log' = <<>> /\ received' = <<>>
    /\ UNCHANGED <<tail, data, sender, receiver>>

Send ==
    \/ \E len \in 0..MaxPayload : LoadHead(len)
    \/ LoadTail \/ WritePrefix \/ WritePayload \/ StoreTail \/ SetReady

Recv ==
    \/ RecvHead \/ RecvTail \/ ReadPrefix \/ ReadPayload \/ StoreHead
    \/ RecheckTail \/ ClearReady \/ RecheckAfterClear \/ Rearm

Next == Send \/ Recv \/ ClearSlot

Spec == Init /\ [][Next]_vars

\* The receiver keeps polling.
FairSpec == Spec /\ WF_vars(Recv) /\ WF_vars(StoreTail) /\ WF_vars(SetReady)

-----------------------------------------------------------------------------
\* The ring is the queue of frames it promises to be: no frame is lost, torn,
\* overwritten before it was read, or left over from an earlier lease.
Channel == INSTANCE FrameChannel WITH
    queue <- SubSeq(log, Len(received) + 1, Len(log))
IsAChannel == Channel!Spec

\* A byte between the head and the tail is never written to: what send_frame
\* takes for free has been read, although its head is older than its tail.
Unread == {wrap_index(head + k) : k \in 0..(UsedBytes(head, tail) - 1)}
Writing ==
    {wrap_index(stail + k) : k \in 0..(FRAME_PREFIX_LEN + frame.len - 1)}
WritesOnlyFreeBytes ==
    spc \in {"prefix", "payload", "publish"} => Writing \cap Unread = {}

\* The producer writes a frame only over bytes the consumer has read, and the
\* cursors stay within the ring.
FramesStayWhole == TypeOK /\ WritesOnlyFreeBytes

\* The inductive invariant behind FramesStayWhole.  A side that has taken its
\* snapshot relies on an old cursor of the other one: the head the sender saw is
\* no nearer to the tail than the present one, and the tail the receiver saw is
\* not beyond the present one.  What each side is about to write or to skip fits
\* what it saw.
Sending == spc \in {"prefix", "payload", "publish"}
Reading == rpc \in {"prefix", "payload", "consume"}
FrameIsRead ==
    /\ got \in Seq(Bytes)
    /\ rpc \notin {"idle", "tail", "prefix"} => Len(got) > 0
SnapshotsAreSafe ==
    /\ spc # "idle" => frame \in Frames
    /\ spc = "tail" => UsedBytes(head, tail) <= UsedBytes(shead, tail)
    /\ Sending => /\ stail = tail
                  /\ UsedBytes(head, tail) <= UsedBytes(shead, tail)
                  /\ FRAME_PREFIX_LEN + frame.len <= AvailableBytes(shead, tail)
    /\ rpc \notin {"idle", "recheck", "clear", "rearm", "set"} => rhead = head
    /\ Reading => UsedBytes(head, rtail) <= UsedBytes(head, tail)
    /\ rpc \in {"payload", "consume"} => FRAME_PREFIX_LEN + FrameLen <= UsedBytes(head, rtail)
RingInv == TypeOK /\ FrameIsRead /\ SnapshotsAreSafe

\* The inductive invariant behind ReadyWhenPending: a frame in the ring shows in
\* the flag, or its sender is about to set it, or the receiver is about to look
\* again; and a receiver that found a frame has not cleared the flag yet.
WakeupInv ==
    /\ head # tail => ready \/ spc = "notify" \/ rpc \in {"rearm", "set"}
    /\ Reading => ready \/ spc = "notify"
    /\ rpc \in {"recheck", "clear", "rearm", "set"} => head = NextHead
    /\ rpc = "tail" => rhead = head

\* No lost wake-up: between calls, a frame in the ring shows in the ready flag,
\* although the receiver clears the flag after it looked at the tail.
ReadyWhenPending ==
    spc = "idle" /\ rpc = "idle" /\ head # tail => ready

\* Every frame is received: no frame that was published is refused as corrupt
\* by build_consume_plan, at whatever place of the ring it wraps.
FramesArrive == []<>(received = log)
=============================================================================
