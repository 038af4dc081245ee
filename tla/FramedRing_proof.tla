-------------------------- MODULE FramedRing_proof --------------------------
(***************************************************************************)
(* Proofs about one direction of a control slot, for every capacity of the *)
(* ring, every length of the prefix and every number of frames and leases. *)
(***************************************************************************)
EXTENDS FramedRing, SequenceTheorems, TLAPS

(* The arithmetic of the cursors, and sequences *)

(* wrap_index subtracts the capacity once: no caller passes more than twice
   the capacity. *)
LEMMA WrapOnce ==
    ASSUME NEW idx \in Nat, idx < 2 * Capacity
    PROVE  wrap_index(idx) = IF idx >= Capacity THEN idx - Capacity ELSE idx
BY RingAssumption DEF wrap_index

(* Moving the tail on by what is free adds as much to the used bytes. *)
LEMMA TailAdvances ==
    ASSUME NEW h \in Indexes, NEW t \in Indexes, NEW n \in Nat, n <= AvailableBytes(h, t)
    PROVE  /\ wrap_index(t + n) \in Indexes
           /\ UsedBytes(h, wrap_index(t + n)) = UsedBytes(h, t) + n
<1>1. t + n \in Nat /\ t + n < 2 * Capacity
  BY RingAssumption DEF Indexes, UsedBytes, AvailableBytes
<1> QED
  BY <1>1, WrapOnce, RingAssumption DEF Indexes, UsedBytes, AvailableBytes

(* Moving the head on by what is used takes as much from the used bytes. *)
LEMMA HeadAdvances ==
    ASSUME NEW h \in Indexes, NEW t \in Indexes, NEW n \in Nat, n <= UsedBytes(h, t)
    PROVE  /\ wrap_index(h + n) \in Indexes
           /\ UsedBytes(wrap_index(h + n), t) = UsedBytes(h, t) - n
<1>1. h + n \in Nat /\ h + n < 2 * Capacity
  BY RingAssumption DEF Indexes, UsedBytes
<1> QED
  BY <1>1, WrapOnce, RingAssumption DEF Indexes, UsedBytes

(* A wrapped copy into the ring leaves a ring of bytes. *)
LEMMA WriteBytesType ==
    ASSUME NEW d \in [Indexes -> Bytes], NEW from, NEW bytes, \A k \in DOMAIN bytes : bytes[k] \in Bytes
    PROVE  WriteBytes(d, from, bytes) \in [Indexes -> Bytes]
BY DEF WriteBytes

(* The bytes of a frame are bytes. *)
LEMMA FrameBytes ==
    ASSUME NEW f \in Frames
    PROVE  /\ \A k \in DOMAIN Prefix(f) : Prefix(f)[k] \in Bytes
           /\ \A k \in DOMAIN Payload(f) : Payload(f)[k] \in Bytes
BY RingAssumption DEF Frames, MaxPayload, Prefix, Payload, Bytes

(* A wrapped copy out of the ring has the length asked for and begins with the
   byte it was asked for. *)
LEMMA ReadBytesType ==
    ASSUME NEW d \in [Indexes -> Bytes], NEW from \in Indexes, NEW len \in 0..Capacity
    PROVE  /\ ReadBytes(d, from, len) \in Seq(Bytes)
           /\ Len(ReadBytes(d, from, len)) = len
           /\ len > 0 => ReadBytes(d, from, len)[1] = d[from]
<1>1. \A k \in 1..len : wrap_index(from + k - 1) \in Indexes
  <2> SUFFICES ASSUME NEW k \in 1..len PROVE wrap_index(from + k - 1) \in Indexes
    OBVIOUS
  <2>1. from + k - 1 \in Nat /\ from + k - 1 < 2 * Capacity
    BY RingAssumption DEF Indexes
  <2> QED
    BY <2>1, WrapOnce, RingAssumption DEF Indexes
<1>2. len > 0 => wrap_index(from + 1 - 1) = from
  BY RingAssumption DEF Indexes, wrap_index
<1> QED
  BY <1>1, <1>2, RingAssumption DEF ReadBytes

(* Wrapping after each of two moves is wrapping once after both. *)
LEMMA WrapTwice ==
    ASSUME NEW h \in Indexes, NEW x \in Nat, NEW y \in Nat, x + y <= Capacity
    PROVE  wrap_index(wrap_index(h + x) + y) = wrap_index(h + x + y)
<1>1. /\ h + x \in Nat /\ h + x < 2 * Capacity
      /\ h + x + y \in Nat /\ h + x + y < 2 * Capacity
  BY RingAssumption DEF Indexes
<1>2. wrap_index(h + x) + y \in Nat /\ wrap_index(h + x) + y < 2 * Capacity
  BY <1>1, WrapOnce, RingAssumption DEF Indexes
<1> QED
  BY <1>1, <1>2, WrapOnce, RingAssumption DEF Indexes

(* A byte before the tail, addressed from the tail. *)
LEMMA FromTail ==
    ASSUME NEW h \in Indexes, NEW t \in Indexes, NEW x \in Nat, x < UsedBytes(h, t)
    PROVE  wrap_index(h + x) = wrap_index(t + (Capacity - UsedBytes(h, t) + x))
<1> DEFINE y == Capacity - UsedBytes(h, t) + x
<1>1. /\ h + x \in Nat /\ h + x < 2 * Capacity
      /\ t + y \in Nat /\ t + y < 2 * Capacity
  BY RingAssumption DEF Indexes, UsedBytes
<1> QED
  BY <1>1, WrapOnce, RingAssumption DEF Indexes, UsedBytes

(* The tail is the head moved on by the used bytes. *)
LEMMA TailIs ==
    ASSUME NEW h \in Indexes, NEW t \in Indexes
    PROVE  t = wrap_index(h + UsedBytes(h, t))
<1>1. h + UsedBytes(h, t) \in Nat /\ h + UsedBytes(h, t) < 2 * Capacity
  BY RingAssumption DEF Indexes, UsedBytes
<1> QED
  BY <1>1, WrapOnce, RingAssumption DEF Indexes, UsedBytes

(* Where a wrapped copy into the ring puts its bytes, and that it leaves the
   others alone. *)
LEMMA WriteBytesAt ==
    ASSUME NEW d, NEW from \in Indexes, NEW bytes, NEW y \in 0..(Capacity - 1)
    PROVE  WriteBytes(d, from, bytes)[wrap_index(from + y)]
             = IF y + 1 \in DOMAIN bytes THEN bytes[y + 1] ELSE d[wrap_index(from + y)]
<1> DEFINE i == wrap_index(from + y)
<1>1. i = IF from + y >= Capacity THEN from + y - Capacity ELSE from + y
  BY WrapOnce, RingAssumption DEF Indexes
<1>2. i \in Indexes
  BY <1>1, RingAssumption DEF Indexes
<1>3. wrap_index(i - from + Capacity) = y
  <2>1. i - from + Capacity \in Nat /\ i - from + Capacity < 2 * Capacity
    BY <1>1, RingAssumption DEF Indexes
  <2> HIDE DEF i
  <2> QED
    BY <1>1, <2>1, WrapOnce, RingAssumption DEF Indexes
<1> HIDE DEF i
<1>4. WriteBytes(d, from, bytes)[i] = IF y + 1 \in DOMAIN bytes THEN bytes[y + 1] ELSE d[i]
  BY <1>2, <1>3 DEF WriteBytes
<1> QED
  BY <1>4 DEF i

\* The frames published and not yet received.
Pending == SubSeq(log, Len(received) + 1, Len(log))

(* The last element of a sequence that was appended to. *)
LEMMA LastOfAppend ==
    ASSUME NEW S, NEW s \in Seq(S), NEW f \in S
    PROVE  Append(s, f)[Len(s) + 1] = f
OBVIOUS

(* A suffix of a longer log: what is pending after a frame was published. *)
LEMMA AppendSubSeq ==
    ASSUME NEW S, NEW s \in Seq(S), NEW f \in S, NEW m \in Nat, m <= Len(s)
    PROVE  SubSeq(Append(s, f), m + 1, Len(Append(s, f))) = Append(SubSeq(s, m + 1, Len(s)), f)
<1>1. Len(Append(s, f)) = Len(s) + 1
  OBVIOUS
<1>2. SubSeq(s, m + 1, Len(s)) \in Seq(S) /\ Len(SubSeq(s, m + 1, Len(s))) = Len(s) - m
  OBVIOUS
<1> DEFINE l == SubSeq(Append(s, f), m + 1, Len(s) + 1)
           r == Append(SubSeq(s, m + 1, Len(s)), f)
<1>3. l \in Seq(S) /\ r \in Seq(S) /\ Len(l) = Len(s) + 1 - m /\ Len(r) = Len(s) + 1 - m
  BY <1>2
<1>4. ASSUME NEW k \in 1..(Len(s) + 1 - m)
      PROVE  l[k] = r[k]
  <2>1. l[k] = Append(s, f)[m + k]
    OBVIOUS
  <2>2. CASE k <= Len(s) - m
    <3>1. m + k \in 1..Len(s) /\ k \in 1..(Len(s) - m)
      BY <2>2
    <3>2. r[k] = SubSeq(s, m + 1, Len(s))[k] /\ SubSeq(s, m + 1, Len(s))[k] = s[m + k]
      BY <1>2, <3>1
    <3> QED
      BY <2>1, <3>1, <3>2
  <2>3. CASE k = Len(s) + 1 - m
    <3>1. m + k = Len(s) + 1 /\ k = Len(SubSeq(s, m + 1, Len(s))) + 1
      BY <1>2, <2>3
    <3>2. Append(s, f)[Len(s) + 1] = f
      BY LastOfAppend
    <3>3. r[Len(SubSeq(s, m + 1, Len(s))) + 1] = f
      BY <1>2, LastOfAppend
    <3> QED
      BY <2>1, <3>1, <3>2, <3>3
  <2> QED
    BY <2>2, <2>3
<1> HIDE DEF l, r
<1>5. l = r
  BY <1>3, <1>4
<1> QED
  BY Zenon, <1>1, <1>5 DEF l, r

(* A shorter suffix of a log: what is pending after a frame was received. *)
LEMMA TailSubSeq ==
    ASSUME NEW S, NEW s \in Seq(S), NEW m \in Nat, m < Len(s)
    PROVE  /\ SubSeq(s, (m + 1) + 1, Len(s)) = Tail(SubSeq(s, m + 1, Len(s)))
           /\ SubSeq(s, m + 1, Len(s)) \in Seq(S)
           /\ Len(SubSeq(s, m + 1, Len(s))) = Len(s) - m
<1>1. m + 1 \in 1..Len(s) /\ Len(s) \in (m + 1)..Len(s)
  OBVIOUS
<1>2. SubSeq(s, m + 1, Len(s)) \in Seq(S) /\ Len(SubSeq(s, m + 1, Len(s))) = Len(s) - m
  OBVIOUS
<1> QED
  BY SMTT(30), <1>1, <1>2, HeadTailOfSubSeq

-----------------------------------------------------------------------------
(* The cursors: RingInv, and what it says of the bytes that are written *)

(* The ranges of the distances between the cursors that the steps compare. *)
LEMMA Distances ==
    ASSUME TypeOK
    PROVE  /\ UsedBytes(head, tail) \in 0..(Capacity - 1) /\ UsedBytes(shead, tail) \in 0..(Capacity - 1)
           /\ UsedBytes(head, rtail) \in 0..(Capacity - 1) /\ UsedBytes(rhead, rtail) \in 0..(Capacity - 1)
           /\ Capacity \in Nat /\ FRAME_PREFIX_LEN \in Nat \ {0} /\ FRAME_PREFIX_LEN < Capacity
BY RingAssumption DEF TypeOK, Indexes, UsedBytes

(* The length of a frame that build_publish_plan accepts. *)
LEMMA FrameLengths ==
    ASSUME NEW f \in Frames
    PROVE  f.len \in Nat /\ f.len <= MaxPayload
BY RingAssumption DEF Frames, MaxPayload

(* The first element of a sequence. *)
LEMMA FirstOf ==
    ASSUME NEW S, NEW s \in Seq(S), Len(s) > 0
    PROVE  s[1] \in S
OBVIOUS

(* The first element of a concatenation. *)
LEMMA FirstOfConcat ==
    ASSUME NEW S, NEW s \in Seq(S), Len(s) > 0, NEW t \in Seq(S)
    PROVE  s \o t \in Seq(S) /\ Len(s \o t) > 0 /\ (s \o t)[1] = s[1]
OBVIOUS

(* A ring that was just initialised. *)
LEMMA InitRing == Init => RingInv
<1> SUFFICES ASSUME Init PROVE RingInv
  OBVIOUS
<1> USE DEF Init
<1>1. 0 \in Indexes /\ data \in [Indexes -> Bytes]
  BY RingAssumption DEF Indexes, NoByte, Bytes
<1>2. TypeOK
  BY <1>1, RingAssumption DEF TypeOK
<1>3. FrameIsRead
  BY DEF FrameIsRead
<1>4. SnapshotsAreSafe
  BY DEF SnapshotsAreSafe, Sending, Reading
<1> QED
  BY <1>2, <1>3, <1>4 DEF RingInv

(* send_frame takes its snapshot: the head can only move towards the tail. *)
LEMMA LoadHeadKeeps ==
    ASSUME RingInv, NEW len \in 0..MaxPayload, LoadHead(len)
    PROVE  RingInv'
<1> USE DEF RingInv, LoadHead, receiver, history
<1>1. frame' \in Frames
  BY RingAssumption DEF TypeOK, Frames
<1>2. TypeOK'
  BY <1>1 DEF TypeOK
<1>3. FrameIsRead'
  BY DEF FrameIsRead
<1>4. SnapshotsAreSafe'
  BY <1>1, Distances DEF SnapshotsAreSafe, Sending, Reading, FrameLen
<1> QED
  BY <1>2, <1>3, <1>4

(* build_publish_plan: what fits the older head fits the present one. *)
LEMMA LoadTailKeeps ==
    ASSUME RingInv, LoadTail
    PROVE  RingInv'
<1> USE DEF RingInv, LoadTail, receiver, history
<1>1. TypeOK'
  BY DEF TypeOK
<1>2. FrameIsRead'
  BY DEF FrameIsRead
<1>3. SnapshotsAreSafe'
  <2>1. AvailableBytes(shead, tail) \in Int /\ FRAME_PREFIX_LEN + frame.len \in Int
    BY Distances, FrameLengths DEF AvailableBytes, SnapshotsAreSafe
  <2> QED
    BY <2>1 DEF TypeOK, SnapshotsAreSafe, Sending, Reading, FrameLen
<1> QED
  BY <1>1, <1>2, <1>3

(* The copies of send_frame touch no cursor. *)
LEMMA WriteKeeps ==
    ASSUME RingInv, WritePrefix \/ WritePayload
    PROVE  RingInv'
<1> USE DEF RingInv, WritePrefix, WritePayload, receiver, history
<1>1. data' \in [Indexes -> Bytes]
  BY WriteBytesType, FrameBytes DEF TypeOK, SnapshotsAreSafe
<1>2. TypeOK'
  BY <1>1 DEF TypeOK
<1>3. FrameIsRead'
  BY DEF FrameIsRead
<1>4. SnapshotsAreSafe'
  BY DEF SnapshotsAreSafe, Sending, Reading, FrameLen
<1> QED
  BY <1>2, <1>3, <1>4

(* The tail moves over bytes that were free, so the receiver's snapshot stays
   behind it. *)
LEMMA StoreTailKeeps ==
    ASSUME RingInv, StoreTail
    PROVE  RingInv'
<1> USE DEF RingInv, StoreTail, receiver, history
<1> DEFINE n == FRAME_PREFIX_LEN + frame.len
<1>0. frame \in Frames /\ frame.len \in Nat
  BY FrameLengths DEF SnapshotsAreSafe
<1>1. n \in Nat /\ stail = tail /\ n <= AvailableBytes(head, tail)
  BY <1>0, Distances DEF SnapshotsAreSafe, Sending, AvailableBytes
<1>2. tail' = wrap_index(tail + n)
  <2>1. tail + FRAME_PREFIX_LEN + frame.len = tail + n
    BY <1>0, RingAssumption DEF TypeOK, Indexes
  <2> QED
    BY <1>1, <2>1
<1>3. tail' \in Indexes /\ UsedBytes(head, tail') = UsedBytes(head, tail) + n
  <2> HIDE DEF n
  <2> QED
    BY <1>1, <1>2, TailAdvances DEF TypeOK
<1>4. TypeOK'
  BY <1>0, <1>3 DEF TypeOK
<1>5. FrameIsRead'
  BY DEF FrameIsRead
<1>6. SnapshotsAreSafe'
  <2> HIDE DEF n
  <2>1. Reading => UsedBytes(head, rtail) <= UsedBytes(head, tail')
    BY <1>1, <1>3, Distances DEF SnapshotsAreSafe
  <2> QED
    BY <2>1 DEF SnapshotsAreSafe, Sending, Reading, FrameLen
<1> QED
  BY <1>4, <1>5, <1>6

(* Steps that move no cursor of the ring and write no byte of it. *)
LEMMA FlagStepsKeep ==
    ASSUME RingInv, SetReady \/ RecheckTail \/ ClearReady \/ RecheckAfterClear \/ Rearm
    PROVE  RingInv'
<1> USE DEF RingInv, SetReady, RecheckTail, ClearReady, RecheckAfterClear, Rearm, sender, receiver, history
<1>1. TypeOK'
  BY Zenon DEF TypeOK
<1>2. FrameIsRead'
  BY DEF FrameIsRead
<1>3. SnapshotsAreSafe'
  BY DEF SnapshotsAreSafe, Sending, Reading, FrameLen
<1> QED
  BY <1>1, <1>2, <1>3

(* recv_frame_into takes its snapshot. *)
LEMMA RecvCursorsKeep ==
    ASSUME RingInv, RecvHead \/ RecvTail
    PROVE  RingInv'
<1> USE DEF RingInv, RecvHead, RecvTail, sender, history
<1>1. TypeOK'
  BY DEF TypeOK
<1>2. FrameIsRead'
  BY DEF FrameIsRead
<1>3. SnapshotsAreSafe'
  BY Distances DEF SnapshotsAreSafe, Sending, Reading, FrameLen
<1> QED
  BY <1>1, <1>2, <1>3

(* build_consume_plan: a length that is not refused reaches no further than the
   tail of the snapshot. *)
LEMMA ReadPrefixKeeps ==
    ASSUME RingInv, ReadPrefix
    PROVE  RingInv'
<1> USE DEF RingInv, ReadPrefix, sender, history
<1>1. /\ got' \in Seq(Bytes) /\ Len(got') > 0 /\ got'[1] = data[rhead]
      /\ data[rhead].v \in Nat
  <2>1. FRAME_PREFIX_LEN \in 0..Capacity /\ FRAME_PREFIX_LEN > 0
    BY RingAssumption
  <2>2. /\ got' \in Seq(Bytes) /\ Len(got') = FRAME_PREFIX_LEN
        /\ got'[1] = data[rhead]
    BY <2>1, ReadBytesType DEF TypeOK
  <2> QED
    BY <2>1, <2>2 DEF TypeOK, Bytes
<1>2. TypeOK'
  BY DEF TypeOK
<1>3. FrameIsRead'
  BY <1>1 DEF FrameIsRead
<1>4. SnapshotsAreSafe'
  <2>1. UsedBytes(rhead, rtail) \in Int
    BY Distances
  <2> QED
    BY <1>1, <2>1, RingAssumption DEF SnapshotsAreSafe, Sending, Reading, FrameLen
<1> QED
  BY <1>2, <1>3, <1>4

(* The payload is copied out; the length is still the one that was read. *)
LEMMA ReadPayloadKeeps ==
    ASSUME RingInv, ReadPayload
    PROVE  RingInv'
<1> USE DEF RingInv, ReadPayload, sender, history
<1>0. FrameLen \in Nat
  <2>1. got[1] \in Bytes
    BY FirstOf DEF FrameIsRead
  <2> QED
    BY <2>1 DEF FrameLen, Bytes
<1>1. FrameLen \in 0..Capacity /\ FRAME_PREFIX_LEN + FrameLen <= UsedBytes(rhead, rtail)
  BY <1>0, Distances DEF SnapshotsAreSafe
<1>2. wrap_index(rhead + FRAME_PREFIX_LEN) \in Indexes
  <2>1. FRAME_PREFIX_LEN \in Nat /\ FRAME_PREFIX_LEN <= UsedBytes(rhead, rtail)
    BY <1>0, <1>1, Distances
  <2> QED
    BY <2>1, HeadAdvances DEF TypeOK
<1>3. got' \in Seq(Bytes) /\ Len(got') > 0 /\ got'[1] = got[1]
  <2> DEFINE more == ReadBytes(data, wrap_index(rhead + FRAME_PREFIX_LEN), FrameLen)
  <2>1. more \in Seq(Bytes)
    BY <1>1, <1>2, ReadBytesType DEF TypeOK
  <2> HIDE DEF more
  <2>2. got' = got \o more
    BY DEF more
  <2>3. got \in Seq(Bytes) /\ Len(got) > 0
    BY DEF FrameIsRead
  <2>4. got \o more \in Seq(Bytes) /\ Len(got \o more) > 0 /\ (got \o more)[1] = got[1]
    BY <2>1, <2>3, FirstOfConcat
  <2> HIDE DEF ReadPayload
  <2> QED
    BY <2>2, <2>4
<1>4. TypeOK'
  BY DEF TypeOK
<1>5. FrameIsRead'
  BY <1>3 DEF FrameIsRead
<1>6. SnapshotsAreSafe'
  BY <1>3 DEF SnapshotsAreSafe, Sending, Reading, FrameLen
<1> QED
  BY <1>4, <1>5, <1>6

(* The head moves over bytes that were used, so the sender's snapshot stays
   behind it. *)
LEMMA StoreHeadKeeps ==
    ASSUME RingInv, StoreHead
    PROVE  RingInv'
<1> USE DEF RingInv, StoreHead, sender, history
<1> DEFINE n == FRAME_PREFIX_LEN + FrameLen
<1>0. FrameLen \in Nat
  <2>1. got[1] \in Bytes
    BY FirstOf DEF FrameIsRead
  <2> QED
    BY <2>1 DEF FrameLen, Bytes
<1>1. n \in Nat /\ rhead = head /\ n <= UsedBytes(head, tail)
  BY <1>0, Distances DEF SnapshotsAreSafe, Reading
<1>2. head' = wrap_index(head + n)
  <2>1. head + FRAME_PREFIX_LEN + FrameLen = head + n
    BY SMTT(30), <1>0, Distances DEF TypeOK, Indexes
  <2> QED
    BY <1>1, <2>1 DEF NextHead
<1>3. head' \in Indexes /\ UsedBytes(head', tail) = UsedBytes(head, tail) - n
  <2> HIDE DEF n
  <2> QED
    BY <1>1, <1>2, HeadAdvances DEF TypeOK
<1>4. TypeOK'
  BY <1>3 DEF TypeOK
<1>5. FrameIsRead'
  BY DEF FrameIsRead
<1>6. SnapshotsAreSafe'
  <2> HIDE DEF n
  <2>1. UsedBytes(head', tail) <= UsedBytes(head, tail)
    BY <1>1, <1>3, Distances
  <2>2. UsedBytes(head, tail) <= UsedBytes(shead, tail) => UsedBytes(head', tail) <= UsedBytes(shead, tail)
    BY <1>1, <2>1, <1>3, Distances
  <2> QED
    BY <2>2 DEF SnapshotsAreSafe, Sending, Reading, FrameLen
<1> QED
  BY <1>4, <1>5, <1>6

(* A new lease empties the ring while neither side has a snapshot. *)
LEMMA ClearSlotKeeps ==
    ASSUME RingInv, ClearSlot
    PROVE  RingInv'
<1> USE DEF RingInv, ClearSlot, sender, receiver
<1>0. leases' \in 0..MaxLeases /\ log' \in Seq(Frames)
  BY RingAssumption DEF TypeOK
<1>1. TypeOK'
  BY Zenon, <1>0 DEF TypeOK
<1>2. FrameIsRead'
  BY DEF FrameIsRead
<1>3. SnapshotsAreSafe'
  BY DEF SnapshotsAreSafe, Sending, Reading
<1> QED
  BY <1>1, <1>2, <1>3

(* WakeupInv is inductive. *)
LEMMA WakeupStep ==
    ASSUME WakeupInv, [Next]_vars
    PROVE  WakeupInv'
<1> USE DEF WakeupInv, Reading, NextHead, FrameLen
<1>1. ASSUME NEW len \in 0..MaxPayload, LoadHead(len) PROVE WakeupInv'
  BY <1>1 DEF LoadHead, receiver, history
<1>2. CASE LoadTail \/ WritePrefix \/ WritePayload
  BY <1>2 DEF LoadTail, WritePrefix, WritePayload, receiver
<1>3. CASE StoreTail
  BY <1>3 DEF StoreTail, receiver
<1>4. CASE SetReady
  BY <1>4 DEF SetReady, receiver
<1>5. CASE RecvHead
  BY <1>5 DEF RecvHead, sender
<1>6. CASE RecvTail
  BY <1>6 DEF RecvTail, sender
<1>7. CASE ReadPrefix \/ ReadPayload
  BY <1>7 DEF ReadPrefix, ReadPayload, sender
<1>8. CASE StoreHead
  BY <1>8 DEF StoreHead, sender
<1>9. CASE RecheckTail
  BY <1>9 DEF RecheckTail, sender
<1>10. CASE ClearReady
  BY <1>10 DEF ClearReady, sender
<1>11. CASE RecheckAfterClear
  BY <1>11 DEF RecheckAfterClear, sender
<1>12. CASE Rearm
  BY <1>12 DEF Rearm, sender
<1>13. CASE ClearSlot
  BY <1>13 DEF ClearSlot, sender, receiver
<1>14. CASE UNCHANGED vars
  BY <1>14 DEF vars, sender, receiver
<1> QED
  BY <1>1, <1>2, <1>3, <1>4, <1>5, <1>6, <1>7, <1>8, <1>9, <1>10, <1>11, <1>12, <1>13, <1>14
     DEF Next, Send, Recv

(* No lost wake-up: whatever the capacity and however the two sides interleave,
   a frame in the ring shows in the ready flag between calls of send_frame and
   recv_frame_into, although update_ready_after_consume clears the flag. *)
THEOREM NoLostWakeup == Spec => []ReadyWhenPending
<1>1. Init => WakeupInv
  BY DEF Init, WakeupInv, Reading
<1>2. WakeupInv => ReadyWhenPending
  BY DEF WakeupInv, ReadyWhenPending
<1> QED
  BY <1>1, <1>2, WakeupStep, PTL DEF Spec

(* RingInv is inductive. *)
LEMMA RingStep ==
    ASSUME RingInv, [Next]_vars
    PROVE  RingInv'
<1>1. CASE UNCHANGED vars
  BY <1>1 DEF vars, sender, receiver, history, RingInv, TypeOK, FrameIsRead, SnapshotsAreSafe, Sending, Reading, FrameLen
<1> QED
  BY <1>1, LoadHeadKeeps, LoadTailKeeps, WriteKeeps, StoreTailKeeps, FlagStepsKeep, RecvCursorsKeep, ReadPrefixKeeps,
     ReadPayloadKeeps, StoreHeadKeeps, ClearSlotKeeps DEF Next, Send, Recv

(* What the sender writes and what the receiver has yet to read are disjoint. *)
LEMMA FreeBytesOnly == RingInv => WritesOnlyFreeBytes
<1> SUFFICES ASSUME RingInv, Sending, NEW a \in Writing, NEW b \in Unread
             PROVE  a # b
  BY DEF WritesOnlyFreeBytes, Sending
<1> DEFINE n == FRAME_PREFIX_LEN + frame.len
           u == UsedBytes(head, tail)
<1>0. frame.len \in Nat
  BY FrameLengths DEF RingInv, SnapshotsAreSafe, Sending
<1>1. /\ stail = tail /\ n \in Nat /\ u \in 0..(Capacity - 1)
      /\ n + u < Capacity /\ head \in Indexes /\ tail \in Indexes
  <2>1. TypeOK
    BY DEF RingInv
  <2> QED
    BY SMTT(30), <1>0, <2>1, Distances DEF RingInv, SnapshotsAreSafe, AvailableBytes, TypeOK
<1>2. PICK i \in 0..(n - 1) : a = wrap_index(tail + i)
  <2>1. \E i \in 0..(n - 1) : a = wrap_index(stail + i)
    BY <1>0, RingAssumption DEF Writing
  <2> HIDE DEF n
  <2> QED
    BY <1>1, <2>1
<1>3. PICK j \in 0..(u - 1) : b = wrap_index(head + j)
  BY DEF Unread
<1>4. a = IF tail + i >= Capacity THEN tail + i - Capacity ELSE tail + i
  BY <1>1, <1>2, WrapOnce, RingAssumption DEF Indexes
<1>5. b = IF head + j >= Capacity THEN head + j - Capacity ELSE head + j
  BY <1>1, <1>3, WrapOnce, RingAssumption DEF Indexes
<1>6. u = IF tail >= head THEN tail - head ELSE Capacity - (head - tail)
  BY DEF UsedBytes
<1> HIDE DEF n, u
<1> QED
  BY <1>1, <1>2, <1>3, <1>4, <1>5, <1>6, RingAssumption DEF Indexes

(* send_frame writes only bytes that recv_frame_into has read, for every capacity
   and every sequence of frame lengths, although it decides with a head that is
   older than its tail. *)
THEOREM RingKeepsFrames == Spec => []FramesStayWhole
<1>1. RingInv => FramesStayWhole
  BY FreeBytesOnly DEF FramesStayWhole, RingInv
<1> QED
  BY <1>1, InitRing, RingStep, PTL DEF Spec

-----------------------------------------------------------------------------
(* The bytes: the pending frames lie one after the other in the ring *)

\* The bytes of a frame, counted from the first of its prefix.
Size(f) == FRAME_PREFIX_LEN + f.len
FrameByte(f, b) ==
    IF b <= FRAME_PREFIX_LEN THEN [id |-> f.id, part |-> "len", v |-> f.len]
    ELSE [id |-> f.id, part |-> "payload", v |-> b - FRAME_PREFIX_LEN]

\* The frames of q lie one after the other from the head to the tail, frame k
\* off[k] bytes after the head.
Laid(q, off) ==
    /\ off[1] = 0 /\ off[Len(q) + 1] = UsedBytes(head, tail)
    /\ \A j, k \in 1..(Len(q) + 1) : j <= k => off[j] <= off[k]
    /\ \A k \in 1..Len(q) :
          /\ off[k + 1] = off[k] + Size(q[k])
          /\ \A b \in 1..Size(q[k]) :
                data[wrap_index(head + (off[k] + b - 1))] = FrameByte(q[k], b)
PendingIsLaid ==
    \E off \in [1..(Len(Pending) + 1) -> Nat] : Laid(Pending, off)

\* Behind the tail stands as much of the frame as send_frame has copied.
WrittenLen ==
    CASE spc = "payload" -> FRAME_PREFIX_LEN
      [] spc = "publish" -> Size(frame)
      [] OTHER -> 0
WrittenIsFrame ==
    \A b \in 1..WrittenLen : data[wrap_index(tail + (b - 1))] = FrameByte(frame, b)

\* recv_frame_into has copied out bytes of the first pending frame.
ReadIsFirst ==
    /\ rpc \in {"payload", "consume"} => Pending # <<>>
    /\ rpc = "payload" => got = Prefix(Pending[1])
    /\ rpc = "consume" => got = Prefix(Pending[1]) \o Payload(Pending[1])

HistoryOK == received \in Seq(Frames) /\ Len(received) <= Len(log)

\* The inductive invariant behind the refinement.
ContentInv ==
    RingInv /\ HistoryOK /\ PendingIsLaid /\ WrittenIsFrame /\ ReadIsFirst

(* The pending frames are frames. *)
LEMMA PendingType ==
    ASSUME RingInv, HistoryOK
    PROVE  Pending \in Seq(Frames) /\ Len(Pending) = Len(log) - Len(received) /\ Len(Pending) \in Nat
<1>1. log \in Seq(Frames) /\ Len(received) \in Nat /\ Len(received) <= Len(log)
  BY DEF RingInv, TypeOK, HistoryOK
<1> QED
  BY <1>1 DEF Pending

(* A frame and its prefix fit the ring. *)
LEMMA SizeType ==
    ASSUME NEW f \in Frames
    PROVE  Size(f) \in Nat /\ FRAME_PREFIX_LEN <= Size(f) /\ Size(f) < Capacity /\ f.len \in Nat
BY RingAssumption DEF Frames, Size, MaxPayload

(* The bytes of the prefix and of the payload, counted from the start of the
   frame. *)
LEMMA BytesOfFrame ==
    ASSUME NEW f \in Frames
    PROVE  /\ DOMAIN Prefix(f) = 1..FRAME_PREFIX_LEN /\ DOMAIN Payload(f) = 1..f.len
           /\ \A b \in 1..FRAME_PREFIX_LEN : Prefix(f)[b] = FrameByte(f, b)
           /\ \A b \in 1..f.len : Payload(f)[b] = FrameByte(f, FRAME_PREFIX_LEN + b)
BY RingAssumption DEF Frames, MaxPayload, Prefix, Payload, FrameByte

(* Steps that move no cursor, write no byte and log nothing. *)
LEMMA LaidStays ==
    ASSUME PendingIsLaid, UNCHANGED <<head, tail, data, log, received>>
    PROVE  PendingIsLaid'
BY ZenonT(30) DEF PendingIsLaid, Laid, Pending

(* A copy of send_frame changes no byte that is yet to be read and none that it
   wrote before. *)
LEMMA UnreadStays ==
    ASSUME RingInv, Sending, NEW from \in Nat, NEW bytes, data' = WriteBytes(data, wrap_index(tail + from), bytes),
           DOMAIN bytes \subseteq 1..(Size(frame) - from), from <= Size(frame)
    PROVE  /\ \A x \in 0..(UsedBytes(head, tail) - 1) : data'[wrap_index(head + x)] = data[wrap_index(head + x)]
           /\ \A y \in 0..(from - 1) : data'[wrap_index(tail + y)] = data[wrap_index(tail + y)]
           /\ \A b \in DOMAIN bytes : data'[wrap_index(tail + (from + b - 1))] = bytes[b]
<1> DEFINE u == UsedBytes(head, tail)
           start == wrap_index(tail + from)
<1>1. /\ head \in Indexes /\ tail \in Indexes /\ u \in Nat
      /\ Size(frame) \in Nat /\ Size(frame) + u < Capacity /\ Capacity \in Nat
      /\ FRAME_PREFIX_LEN \in Nat
  <2>1. frame \in Frames
    BY DEF RingInv, SnapshotsAreSafe, Sending
  <2>2. TypeOK
    BY DEF RingInv
  <2>3. u <= UsedBytes(shead, tail) /\ Size(frame) <= Capacity - UsedBytes(shead, tail) - 1
    BY DEF RingInv, SnapshotsAreSafe, AvailableBytes, Size
  <2>4. /\ u \in Nat /\ UsedBytes(shead, tail) \in Nat /\ Capacity \in Nat
        /\ FRAME_PREFIX_LEN \in Nat
    BY <2>2, Distances
  <2> HIDE DEF u
  <2> QED
    BY <2>1, <2>2, <2>3, <2>4, SizeType DEF TypeOK
<1>2. start \in Indexes
  <2>1. tail + from \in Nat /\ tail + from < 2 * Capacity
    BY <1>1 DEF Indexes
  <2> QED
    BY <1>1, <2>1, WrapOnce DEF Indexes
<1>3. ASSUME NEW y \in 0..(Capacity - 1)
      PROVE  data'[wrap_index(start + y)] = IF y + 1 \in DOMAIN bytes THEN bytes[y + 1] ELSE data[wrap_index(start + y)]
  <2> HIDE DEF start
  <2>1. data' = WriteBytes(data, start, bytes)
    BY DEF start
  <2> QED
    BY <1>2, <2>1, WriteBytesAt
<1>4. ASSUME NEW z \in Nat, from <= z, z < Capacity
      PROVE  wrap_index(tail + z) = wrap_index(start + (z - from))
  <2>1. /\ z - from \in Nat /\ from + (z - from) <= Capacity /\ tail + from + (z - from) = tail + z
    BY <1>1, <1>4 DEF Indexes
  <2> QED
    BY <1>1, <2>1, WrapTwice
<1>5. ASSUME NEW y \in 0..(from - 1)
      PROVE  wrap_index(tail + y) = wrap_index(start + (Capacity - from + y))
  <2>1. from \in 1..(Capacity - 1)
    BY <1>1, <1>5
  <2>2. UsedBytes(tail, start) = from
    <3>1. UsedBytes(tail, tail) = 0 /\ AvailableBytes(tail, tail) = Capacity - 1
      BY <1>1 DEF AvailableBytes, UsedBytes, Indexes
    <3> QED
      BY <1>1, <2>1, <3>1, TailAdvances
  <2> HIDE DEF start
  <2> QED
    BY <1>1, <1>2, <2>1, <2>2, FromTail
<1> HIDE DEF start, u
<1>6. ASSUME NEW x \in 0..(u - 1)
      PROVE  data'[wrap_index(head + x)] = data[wrap_index(head + x)]
  <2> DEFINE z == Capacity - u + x
  <2>1. z \in Nat /\ from <= z /\ z < Capacity /\ z - from \in 0..(Capacity - 1) /\ z - from + 1 \notin DOMAIN bytes
    BY <1>1
  <2>2. wrap_index(head + x) = wrap_index(tail + z)
    BY <1>1, FromTail DEF u
  <2> HIDE DEF z
  <2> QED
    BY <2>1, <2>2, <1>3, <1>4
<1>7. ASSUME NEW y \in 0..(from - 1)
      PROVE  data'[wrap_index(tail + y)] = data[wrap_index(tail + y)]
  <2> DEFINE z == Capacity - from + y
  <2>1. z \in 0..(Capacity - 1) /\ z + 1 \notin DOMAIN bytes
    BY <1>1
  <2>2. wrap_index(tail + y) = wrap_index(start + z)
    BY <1>5
  <2> HIDE DEF z
  <2> QED
    BY <2>1, <2>2, <1>3
<1>8. ASSUME NEW b \in DOMAIN bytes
      PROVE  data'[wrap_index(tail + (from + b - 1))] = bytes[b]
  <2> DEFINE z == from + b - 1
  <2>1. z \in Nat /\ from <= z /\ z < Capacity /\ z - from \in 0..(Capacity - 1) /\ z - from + 1 = b
    BY <1>1
  <2> HIDE DEF z
  <2>2. data'[wrap_index(tail + z)] = bytes[b]
    BY <2>1, <1>3, <1>4
  <2> QED
    BY <2>2 DEF z
<1> QED
  BY <1>6, <1>7, <1>8 DEF u

(* The copies of send_frame: the pending frames stay as they are, and what is
   written so far is the beginning of the frame. *)
LEMMA WriteKeepsContent ==
    ASSUME ContentInv, WritePrefix \/ WritePayload
    PROVE  ContentInv'
<1> USE DEF ContentInv
<1>0. Sending /\ frame \in Frames
  BY DEF RingInv, SnapshotsAreSafe, Sending, WritePrefix, WritePayload
<1> DEFINE from == IF spc = "prefix" THEN 0 ELSE FRAME_PREFIX_LEN
           bytes == IF spc = "prefix" THEN Prefix(frame) ELSE Payload(frame)
<1>1. /\ from \in Nat /\ from <= Size(frame)
      /\ DOMAIN bytes = 1..(IF spc = "prefix" THEN FRAME_PREFIX_LEN ELSE frame.len)
      /\ DOMAIN bytes \subseteq 1..(Size(frame) - from)
      /\ \A b \in DOMAIN bytes : bytes[b] = FrameByte(frame, from + b)
  <2>1. /\ FRAME_PREFIX_LEN \in Nat /\ frame.len \in Nat /\ Size(frame) = FRAME_PREFIX_LEN + frame.len
        /\ FRAME_PREFIX_LEN + frame.len - FRAME_PREFIX_LEN = frame.len
    BY <1>0, SizeType, RingAssumption DEF Size
  <2>2. CASE spc = "prefix"
    <3>1. from = 0 /\ bytes = Prefix(frame)
      BY <2>2
    <3> QED
      BY <2>1, <2>2, <3>1, <1>0, BytesOfFrame
  <2>3. CASE spc # "prefix"
    <3>1. from = FRAME_PREFIX_LEN /\ bytes = Payload(frame)
      BY <2>3
    <3> HIDE DEF from, bytes
    <3>2. /\ DOMAIN Payload(frame) = 1..frame.len
          /\ \A b \in 1..frame.len : Payload(frame)[b] = FrameByte(frame, FRAME_PREFIX_LEN + b)
      BY <1>0, BytesOfFrame
    <3>3. Size(frame) - from = frame.len /\ from \in Nat /\ from <= Size(frame)
      BY <2>1, <3>1
    <3> QED
      BY <2>3, <3>1, <3>2, <3>3
  <2> QED
    BY <2>2, <2>3
<1>2. data' = WriteBytes(data, wrap_index(tail + from), bytes)
  <2>1. stail = tail /\ tail \in Indexes
    BY <1>0 DEF RingInv, SnapshotsAreSafe, TypeOK
  <2>2. wrap_index(tail + 0) = tail
    BY <2>1, RingAssumption DEF wrap_index, Indexes
  <2> QED
    BY <2>1, <2>2 DEF WritePrefix, WritePayload
<1> HIDE DEF from, bytes
<1>3. /\ \A x \in 0..(UsedBytes(head, tail) - 1) : data'[wrap_index(head + x)] = data[wrap_index(head + x)]
      /\ \A y \in 0..(from - 1) : data'[wrap_index(tail + y)] = data[wrap_index(tail + y)]
      /\ \A b \in DOMAIN bytes : data'[wrap_index(tail + (from + b - 1))] = bytes[b]
  BY Zenon, <1>0, <1>1, <1>2, UnreadStays
<1>4. UNCHANGED <<head, tail, frame, rpc, got, log, received>>
  BY DEF WritePrefix, WritePayload, receiver, history
<1>5. PendingIsLaid'
  <2>1. PICK off \in [1..(Len(Pending) + 1) -> Nat] : Laid(Pending, off)
    BY DEF PendingIsLaid
  <2>2. Pending \in Seq(Frames) /\ Len(Pending) \in Nat
    BY PendingType
  <2>3. ASSUME NEW k \in 1..Len(Pending), NEW b \in 1..Size(Pending[k])
        PROVE  off[k] + b - 1 \in 0..(UsedBytes(head, tail) - 1)
    <3>1. Size(Pending[k]) \in Nat
      BY <2>2, SizeType
    <3>2. off[k] \in Nat /\ off[k + 1] = off[k] + Size(Pending[k]) /\ off[k + 1] <= UsedBytes(head, tail) /\ off[k + 1] \in Nat
      BY SMTT(30), <2>1, <2>2 DEF Laid
    <3>3. UsedBytes(head, tail) \in Nat
      BY Distances DEF RingInv
    <3> QED
      BY <3>1, <3>2, <3>3
  <2>4. Laid(Pending, off)'
    BY SMTT(30), <2>1, <2>3, <1>3, <1>4 DEF Laid, Pending
  <2> QED
    BY <2>1, <2>4, <1>4 DEF PendingIsLaid, Pending
<1>6. WrittenIsFrame'
  <2> SUFFICES ASSUME NEW b \in 1..WrittenLen'
               PROVE  data'[wrap_index(tail + (b - 1))] = FrameByte(frame, b)
    BY <1>4 DEF WrittenIsFrame
  <2>1. WrittenLen = from /\ WrittenLen' = from + (IF spc = "prefix" THEN FRAME_PREFIX_LEN ELSE frame.len)
    BY <1>0, <1>1, RingAssumption DEF WrittenLen, WritePrefix, WritePayload, Size, from
  <2>2. CASE b <= from
    BY <2>1, <2>2, <1>1, <1>3 DEF WrittenIsFrame
  <2>3. CASE b > from
    <3>1. b - from \in DOMAIN bytes /\ from + (b - from) - 1 = b - 1 /\ from + (b - from) = b
      BY <2>1, <2>3, <1>0, <1>1, SizeType, RingAssumption
    <3> QED
      BY <3>1, <1>1, <1>3
  <2> QED
    BY <2>1, <2>2, <2>3, <1>0, <1>1, SizeType, RingAssumption
<1>7. ReadIsFirst'
  BY Zenon, <1>4 DEF ReadIsFirst, Pending
<1>8. HistoryOK'
  BY <1>4 DEF HistoryOK
<1> QED
  BY <1>5, <1>6, <1>7, <1>8, WriteKeeps

(* Publishing the tail puts the written frame behind the pending ones. *)
LEMMA StoreTailKeepsContent ==
    ASSUME ContentInv, StoreTail
    PROVE  /\ ContentInv'
           /\ Pending' = Append(Pending, frame) /\ frame \in Frames
<1> USE DEF ContentInv
<1> DEFINE n == Size(frame)
           u == UsedBytes(head, tail)
           m == Len(Pending)
<1>0. Sending /\ frame \in Frames /\ TypeOK
  BY DEF RingInv, SnapshotsAreSafe, Sending, StoreTail
<1>1. Pending \in Seq(Frames) /\ m \in Nat
  BY PendingType
<1>2. Pending' = Append(Pending, frame)
  <2>1. log \in Seq(Frames) /\ Len(received) \in Nat /\ Len(received) <= Len(log)
    BY <1>0 DEF TypeOK, HistoryOK
  <2>2. log' = Append(log, frame) /\ received' = received
    BY DEF StoreTail
  <2>3. SubSeq(Append(log, frame), Len(received) + 1, Len(Append(log, frame)))
          = Append(SubSeq(log, Len(received) + 1, Len(log)), frame)
    BY Zenon, <1>0, <2>1, AppendSubSeq
  <2> QED
    BY Zenon, <2>2, <2>3 DEF Pending
<1>3. /\ n \in Nat /\ u \in Nat /\ n + u < Capacity /\ head \in Indexes /\ tail \in Indexes
      /\ Capacity \in Nat
      /\ UsedBytes(head, tail') = u + n
  <2>1. u <= UsedBytes(shead, tail) /\ n <= Capacity - UsedBytes(shead, tail) - 1
    BY <1>0 DEF RingInv, SnapshotsAreSafe, AvailableBytes, Size
  <2>2. u \in Nat /\ UsedBytes(shead, tail) \in Nat /\ Capacity \in Nat
    BY <1>0, Distances
  <2>3. n \in Nat
    BY <1>0, SizeType
  <2>4. tail' = wrap_index(tail + n)
    <3>1. stail = tail
      BY <1>0 DEF RingInv, SnapshotsAreSafe
    <3>2. tail + FRAME_PREFIX_LEN + frame.len = tail + n
      BY <1>0, SizeType, RingAssumption DEF TypeOK, Indexes, Size
    <3> QED
      BY <3>1, <3>2 DEF StoreTail
  <2> HIDE DEF n
  <2>5. n <= AvailableBytes(head, tail)
    BY <2>1, <2>2, <2>3 DEF AvailableBytes
  <2>6. UsedBytes(head, tail') = u + n
    BY <1>0, <2>3, <2>4, <2>5, TailAdvances DEF TypeOK
  <2> HIDE DEF u
  <2> QED
    BY <1>0, <2>1, <2>2, <2>3, <2>6 DEF TypeOK
<1>4. UNCHANGED <<head, data, rpc, got, received>>
  BY DEF StoreTail, receiver
<1>5. PICK off \in [1..(m + 1) -> Nat] : Laid(Pending, off)
  BY DEF PendingIsLaid
<1>n. PICK new : new = [k \in 1..(m + 2) |-> IF k = m + 2 THEN u + n ELSE off[k]]
  BY Zenon
<1> HIDE DEF n, u, m
<1>6. /\ Len(Pending') = m + 1
      /\ \A k \in 1..m : Pending'[k] = Pending[k]
      /\ Pending'[m + 1] = frame
  BY <1>0, <1>1, <1>2 DEF m
<1>7. /\ new \in [1..(m + 2) -> Nat]
      /\ \A k \in 1..(m + 1) : new[k] = off[k] /\ off[k] \in Nat
      /\ new[m + 2] = u + n
  <2>1. m \in Nat /\ u + n \in Nat
    BY <1>1, <1>3
  <2>2. \A k \in 1..(m + 1) : k \in 1..(m + 2) /\ k # m + 2 /\ off[k] \in Nat
    BY <2>1
  <2>3. \A k \in 1..(m + 2) : k # m + 2 => k \in 1..(m + 1)
    BY <2>1
  <2> QED
    BY <2>1, <2>2, <2>3, <1>n
<1>8. off[1] = 0 /\ off[m + 1] = u /\ \A j, k \in 1..(m + 1) : j <= k => off[j] <= off[k]
  BY <1>5 DEF Laid, u, m
<1>9. ASSUME NEW b \in 1..n
      PROVE  data[wrap_index(head + (u + b - 1))] = FrameByte(frame, b)
  <2>1. data[wrap_index(tail + (b - 1))] = FrameByte(frame, b)
    BY DEF WrittenIsFrame, WrittenLen, StoreTail, n
  <2>2. wrap_index(tail + (b - 1)) = wrap_index(head + (u + b - 1))
    <3>1. tail = wrap_index(head + u)
      BY <1>3, TailIs DEF u
    <3>2. b - 1 \in Nat /\ u + (b - 1) <= Capacity /\ head + u + (b - 1) = head + (u + b - 1)
      BY <1>3 DEF Indexes
    <3> QED
      BY <1>3, <3>1, <3>2, WrapTwice
  <2> QED
    BY <2>1, <2>2
<1>10. Laid(Pending, new)'
  <2>1. new[1] = 0 /\ new[Len(Pending') + 1] = UsedBytes(head, tail')
    BY <1>1, <1>3, <1>6, <1>7, <1>8 DEF m
  <2>2. ASSUME NEW j \in 1..(Len(Pending') + 1), NEW k \in 1..(Len(Pending') + 1), j <= k
        PROVE  new[j] <= new[k]
    <3>1. m \in Nat /\ j \in 1..(m + 2) /\ k \in 1..(m + 2) /\ m + 1 \in 1..(m + 1)
      BY <1>1, <1>6 DEF m
    <3>2. CASE k # m + 2
      BY <2>2, <3>1, <3>2, <1>7, <1>8
    <3>3. CASE k = m + 2 /\ j # m + 2
      <4>1. j \in 1..(m + 1) /\ j <= m + 1
        BY <3>1, <3>3
      <4>2. off[j] <= u /\ off[j] \in Nat
        BY <4>1, <3>1, <1>7, <1>8
      <4> QED
        BY <3>3, <4>1, <4>2, <1>3, <1>7
    <3>4. CASE k = m + 2 /\ j = m + 2
      BY <3>4, <1>3, <1>7
    <3> QED
      BY <3>2, <3>3, <3>4
  <2>3. ASSUME NEW k \in 1..Len(Pending')
        PROVE  /\ new[k + 1] = new[k] + Size(Pending'[k])
               /\ \A b \in 1..Size(Pending'[k]) : data[wrap_index(head + (new[k] + b - 1))] = FrameByte(Pending'[k], b)
    <3>1. CASE k <= m
      <4>1. Pending'[k] = Pending[k] /\ new[k + 1] = off[k + 1] /\ new[k] = off[k] /\ k \in 1..m
        BY <3>1, <1>1, <1>6, <1>7 DEF m
      <4> QED
        BY <4>1, <1>5 DEF Laid, m
    <3>2. CASE k = m + 1
      <4>1. Pending'[k] = frame /\ new[k + 1] = u + n /\ new[k] = u
        BY <3>2, <1>1, <1>6, <1>7, <1>8 DEF m
      <4> QED
        BY <4>1, <1>9 DEF n
    <3> QED
      BY <3>1, <3>2, <1>1, <1>6 DEF m
  <2> QED
    BY <2>1, <2>2, <2>3, <1>4 DEF Laid
<1>11. PendingIsLaid'
  <2>1. new \in [1..(Len(Pending') + 1) -> Nat]
    <3>1. m \in Nat /\ m + 1 + 1 = m + 2
      BY <1>1 DEF m
    <3> QED
      BY <3>1, <1>6, <1>7
  <2> QED
    BY <2>1, <1>10 DEF PendingIsLaid
<1>12. WrittenIsFrame'
  BY DEF WrittenIsFrame, WrittenLen, StoreTail
<1>13. ReadIsFirst'
  <2>1. Pending # <<>> => Pending' # <<>> /\ Pending'[1] = Pending[1]
    BY <1>0, <1>1, <1>2
  <2> QED
    BY Zenon, <2>1, <1>4 DEF ReadIsFirst
<1>14. HistoryOK'
  BY <1>0, <1>4 DEF HistoryOK, TypeOK, StoreTail
<1> QED
  BY <1>0, <1>2, <1>11, <1>12, <1>13, <1>14, StoreTailKeeps

(* The first pending frame lies at the head. *)
LEMMA FirstFrame ==
    ASSUME ContentInv, Pending # <<>>
    PROVE  /\ Pending[1] \in Frames /\ Size(Pending[1]) \in Nat /\ Size(Pending[1]) <= UsedBytes(head, tail)
           /\ \A b \in 1..Size(Pending[1]) : data[wrap_index(head + (b - 1))] = FrameByte(Pending[1], b)
<1>1. Pending \in Seq(Frames) /\ Len(Pending) \in Nat \ {0} /\ Pending[1] \in Frames
  BY PendingType DEF ContentInv
<1>2. PICK off \in [1..(Len(Pending) + 1) -> Nat] : Laid(Pending, off)
  BY DEF ContentInv, PendingIsLaid
<1>3. Size(Pending[1]) \in Nat
  BY <1>1, SizeType
<1>4. 1 \in 1..Len(Pending) /\ 1 + 1 \in 1..(Len(Pending) + 1) /\ Len(Pending) + 1 \in 1..(Len(Pending) + 1)
      /\ 1 + 1 <= Len(Pending) + 1
  BY <1>1
<1>5. off[1] = 0 /\ off[1 + 1] = off[1] + Size(Pending[1]) /\ off[1 + 1] <= UsedBytes(head, tail)
  BY <1>2, <1>4 DEF Laid
<1>6. ASSUME NEW b \in 1..Size(Pending[1])
      PROVE  data[wrap_index(head + (b - 1))] = FrameByte(Pending[1], b)
  <2>1. data[wrap_index(head + (off[1] + b - 1))] = FrameByte(Pending[1], b)
    BY <1>2, <1>4 DEF Laid
  <2>2. off[1] + b - 1 = b - 1
    BY <1>3, <1>5
  <2> QED
    BY <2>1, <2>2
<1> QED
  BY <1>1, <1>3, <1>5, <1>6

(* A ring that is not empty has a pending frame. *)
LEMMA BytesMeanPending ==
    ASSUME ContentInv, UsedBytes(head, tail) # 0
    PROVE  Pending # <<>>
<1>1. PICK off \in [1..(Len(Pending) + 1) -> Nat] : Laid(Pending, off)
  BY DEF ContentInv, PendingIsLaid
<1>2. Len(Pending) + 1 # 1
  BY <1>1 DEF Laid
<1>3. Len(Pending) \in Nat /\ Pending \in Seq(Frames)
  BY PendingType DEF ContentInv
<1> QED
  BY <1>2, <1>3

(* The prefix that is read is that of the first pending frame. *)
LEMMA ReadPrefixKeepsContent ==
    ASSUME ContentInv, ReadPrefix
    PROVE  ContentInv'
<1>1. UNCHANGED <<head, tail, data, spc, frame, log, received>>
  BY DEF ReadPrefix, sender, history
<1>2. TypeOK /\ rhead = head /\ UsedBytes(head, rtail) <= UsedBytes(head, tail)
  BY DEF ContentInv, RingInv, SnapshotsAreSafe, Reading, ReadPrefix
<1>3. PendingIsLaid'
  BY <1>1, LaidStays DEF ContentInv
<1>4. WrittenIsFrame'
  BY <1>1 DEF ContentInv, WrittenIsFrame, WrittenLen, Size
<1>5. HistoryOK'
  BY <1>1 DEF ContentInv, HistoryOK
<1>6. ReadIsFirst'
  <2> SUFFICES ASSUME rpc' = "payload" PROVE Pending # <<>> /\ got' = Prefix(Pending[1])
    BY <1>1 DEF ReadIsFirst, ReadPrefix, Pending
  <2>1. data[rhead].v \in Nat
    BY <1>2 DEF TypeOK, Bytes
  <2>2. UsedBytes(head, tail) # 0
    <3>1. ~(FRAME_PREFIX_LEN + data[rhead].v > UsedBytes(head, rtail))
      BY <1>2 DEF ReadPrefix
    <3> QED
      BY <1>2, <2>1, <3>1, Distances
  <2>3. Pending # <<>>
    BY <2>2, BytesMeanPending
  <2>4. /\ Pending[1] \in Frames
        /\ \A b \in 1..Size(Pending[1]) : data[wrap_index(head + (b - 1))] = FrameByte(Pending[1], b)
    BY <2>3, FirstFrame
  <2>5. ASSUME NEW b \in 1..FRAME_PREFIX_LEN
        PROVE  data[wrap_index(rhead + b - 1)] = Prefix(Pending[1])[b]
    <3>1. b \in 1..Size(Pending[1]) /\ rhead + b - 1 = head + (b - 1)
      BY <2>4, <1>2, SizeType, RingAssumption DEF TypeOK, Indexes
    <3> QED
      BY <3>1, <2>4, BytesOfFrame
  <2>6. got' = [k \in 1..FRAME_PREFIX_LEN |-> Prefix(Pending[1])[k]]
    BY <2>5 DEF ReadPrefix, ReadBytes
  <2>7. Prefix(Pending[1]) = [k \in 1..FRAME_PREFIX_LEN |-> Prefix(Pending[1])[k]]
    BY DEF Prefix
  <2> QED
    BY SMTT(30), <2>3, <2>6, <2>7
<1> QED
  BY <1>3, <1>4, <1>5, <1>6, ReadPrefixKeeps DEF ContentInv

(* The payload that is read is that of the first pending frame. *)
LEMMA ReadPayloadKeepsContent ==
    ASSUME ContentInv, ReadPayload
    PROVE  ContentInv'
<1>1. UNCHANGED <<head, tail, data, spc, frame, log, received>>
  BY DEF ReadPayload, sender, history
<1>2. TypeOK /\ rhead = head
  BY DEF ContentInv, RingInv, SnapshotsAreSafe, ReadPayload
<1>3. PendingIsLaid'
  BY <1>1, LaidStays DEF ContentInv
<1>4. WrittenIsFrame'
  BY <1>1 DEF ContentInv, WrittenIsFrame, WrittenLen, Size
<1>5. HistoryOK'
  BY <1>1 DEF ContentInv, HistoryOK
<1>6. ReadIsFirst'
  <2> DEFINE f == Pending[1]
  <2>1. Pending # <<>> /\ got = Prefix(f)
    BY DEF ContentInv, ReadIsFirst, ReadPayload
  <2>2. /\ f \in Frames /\ Size(f) \in Nat /\ Size(f) <= UsedBytes(head, tail)
        /\ \A b \in 1..Size(f) : data[wrap_index(head + (b - 1))] = FrameByte(f, b)
    BY <2>1, FirstFrame
  <2> HIDE DEF f
  <2>3. FrameLen = f.len
    BY <2>1, RingAssumption DEF FrameLen, Prefix
  <2>4. f.len \in Nat /\ Size(f) = FRAME_PREFIX_LEN + f.len /\ Size(f) < Capacity /\ FRAME_PREFIX_LEN \in Nat /\ head \in Indexes
    BY <1>2, <2>2, SizeType, RingAssumption DEF Size, TypeOK
  <2>5. ASSUME NEW k \in 1..f.len
        PROVE  data[wrap_index(wrap_index(head + FRAME_PREFIX_LEN) + k - 1)] = Payload(f)[k]
    <3>1. /\ k - 1 \in Nat /\ FRAME_PREFIX_LEN + (k - 1) <= Capacity
          /\ head + FRAME_PREFIX_LEN + (k - 1) = head + (FRAME_PREFIX_LEN + k - 1)
          /\ FRAME_PREFIX_LEN + k \in 1..Size(f)
      BY <2>4, RingAssumption DEF Indexes
    <3>2. wrap_index(wrap_index(head + FRAME_PREFIX_LEN) + (k - 1)) = wrap_index(head + (FRAME_PREFIX_LEN + k - 1))
      BY <2>4, <3>1, WrapTwice
    <3>3. wrap_index(head + FRAME_PREFIX_LEN) + k - 1 = wrap_index(head + FRAME_PREFIX_LEN) + (k - 1)
      <4>1. wrap_index(head + FRAME_PREFIX_LEN) \in Int
        BY <2>4, WrapOnce, RingAssumption DEF Indexes
      <4> QED
        BY <4>1
    <3>4. data[wrap_index(head + (FRAME_PREFIX_LEN + k - 1))] = FrameByte(f, FRAME_PREFIX_LEN + k)
      <4>1. PICK b : b = FRAME_PREFIX_LEN + k
        OBVIOUS
      <4>2. b - 1 = FRAME_PREFIX_LEN + k - 1
        BY <2>4, <4>1
      <4>3. data[wrap_index(head + (b - 1))] = FrameByte(f, b)
        BY <2>2, <3>1, <4>1
      <4> QED
        BY <4>1, <4>2, <4>3
    <3> QED
      BY <2>2, <3>2, <3>3, <3>4, BytesOfFrame
  <2>6. ReadBytes(data, wrap_index(rhead + FRAME_PREFIX_LEN), FrameLen) = Payload(f)
    <3>1. ReadBytes(data, wrap_index(rhead + FRAME_PREFIX_LEN), FrameLen) = [k \in 1..f.len |-> Payload(f)[k]]
      BY <1>2, <2>3, <2>5 DEF ReadBytes
    <3> QED
      BY Zenon, <3>1 DEF Payload
  <2>7. got' = Prefix(f) \o Payload(f) /\ rpc' = "consume"
    BY <2>1, <2>6 DEF ReadPayload
  <2>8. Pending' = Pending
    BY <1>1 DEF Pending
  <2> QED
    BY <2>1, <2>7, <2>8 DEF ReadIsFirst, f
<1> QED
  BY <1>3, <1>4, <1>5, <1>6, ReadPayloadKeeps DEF ContentInv

(* The receiver gets the frame that was sent from its bytes. *)
LEMMA FrameOfBytes ==
    ASSUME NEW f \in Frames
    PROVE  /\ FrameOf(Prefix(f) \o Payload(f)) = f
           /\ (Prefix(f) \o Payload(f))[1].v = f.len
<1>1. Prefix(f) \in Seq(Bytes) /\ Len(Prefix(f)) > 0 /\ Payload(f) \in Seq(Bytes)
  <2>1. DOMAIN Prefix(f) = 1..FRAME_PREFIX_LEN /\ DOMAIN Payload(f) = 1..f.len /\ f.len \in Nat
    BY BytesOfFrame, SizeType
  <2>2. Prefix(f) \in [1..FRAME_PREFIX_LEN -> Bytes] /\ Payload(f) \in [1..f.len -> Bytes]
    <3>1. Prefix(f) = [k \in 1..FRAME_PREFIX_LEN |-> Prefix(f)[k]] /\ Payload(f) = [k \in 1..f.len |-> Payload(f)[k]]
      BY DEF Prefix, Payload
    <3> QED
      BY Zenon, <2>1, <3>1, FrameBytes
  <2> QED
    BY <2>1, <2>2, RingAssumption
<1>2. (Prefix(f) \o Payload(f))[1] = Prefix(f)[1]
  BY <1>1, FirstOfConcat
<1>3. Prefix(f)[1].id = f.id /\ Prefix(f)[1].v = f.len
  BY RingAssumption DEF Prefix
<1>4. [id |-> f.id, len |-> f.len] = f
  BY DEF Frames
<1> QED
  BY <1>2, <1>3, <1>4 DEF FrameOf

(* Publishing the head takes the first pending frame off the ring, and it is the
   frame that is received. *)
LEMMA StoreHeadKeepsContent ==
    ASSUME ContentInv, StoreHead
    PROVE  /\ ContentInv'
           /\ Pending # <<>> /\ Pending' = Tail(Pending)
           /\ received' = Append(received, Head(Pending))
<1> DEFINE f == Pending[1]
           n == Size(f)
           u == UsedBytes(head, tail)
           m == Len(Pending)
<1>0. TypeOK /\ RingInv /\ HistoryOK /\ rhead = head
  BY DEF ContentInv, RingInv, SnapshotsAreSafe, StoreHead
<1>1. Pending # <<>> /\ got = Prefix(f) \o Payload(f)
  BY DEF ContentInv, ReadIsFirst, StoreHead
<1>2. Pending \in Seq(Frames) /\ m = Len(log) - Len(received) /\ m \in Nat
  BY <1>0, PendingType
<1>3. m >= 1 /\ f \in Frames
  BY <1>1, <1>2
<1>4. n \in Nat /\ n <= u /\ u \in 0..(Capacity - 1) /\ Capacity \in Nat /\ head \in Indexes /\ tail \in Indexes
  BY <1>0, <1>1, FirstFrame, Distances DEF TypeOK
<1>5. FrameLen = f.len /\ FrameOf(got) = f
  BY Zenon, <1>1, <1>3, FrameOfBytes DEF FrameLen
<1>6. head' = wrap_index(head + n) /\ received' = Append(received, f)
  <2>1. head + FRAME_PREFIX_LEN + f.len = head + n
    BY <1>3, <1>4, SizeType, RingAssumption DEF Indexes, Size
  <2> QED
    BY <1>0, <1>5, <2>1 DEF StoreHead, NextHead
<1>7. Pending' = Tail(Pending)
  <2>1. log \in Seq(Frames) /\ Len(received) \in Nat /\ Len(received) < Len(log)
    <3>1. log \in Seq(Frames) /\ Len(received) \in Nat /\ Len(log) \in Nat
      BY <1>0 DEF TypeOK, HistoryOK
    <3> HIDE DEF m
    <3> QED
      BY <3>1, <1>2, <1>3
  <2>2. log' = log /\ Len(received') = Len(received) + 1
    BY <1>0, <1>3, <1>6 DEF StoreHead, HistoryOK
  <2>3. SubSeq(log, (Len(received) + 1) + 1, Len(log)) = Tail(SubSeq(log, Len(received) + 1, Len(log)))
    BY <2>1, TailSubSeq
  <2> QED
    BY <2>2, <2>3 DEF Pending
<1>8. UsedBytes(head', tail) = u - n
  BY <1>4, <1>6, HeadAdvances
<1>9. PICK off \in [1..(m + 1) -> Nat] : Laid(Pending, off)
  BY DEF ContentInv, PendingIsLaid
<1>10. PICK new : new = [k \in 1..m |-> off[k + 1] - n]
  BY Zenon
<1>11. UNCHANGED <<tail, data, spc, frame, log>>
  BY DEF StoreHead, sender
<1> HIDE DEF n, u, m, f
<1>12. /\ Len(Pending') = m - 1 /\ m - 1 \in Nat /\ m - 1 + 1 = m
       /\ \A k \in 1..(m - 1) : Pending'[k] = Pending[k + 1] /\ k + 1 \in 1..m
  BY <1>2, <1>3, <1>7 DEF m
<1>13. /\ off[1] = 0 /\ off[m + 1] = u
       /\ off[2] = n
       /\ \A j, k \in 1..(m + 1) : j <= k => off[j] <= off[k]
  <2>1. 1 \in 1..m /\ 1 + 1 = 2 /\ off[1] = 0
    BY <1>2, <1>3, <1>9 DEF Laid
  <2>2. off[1 + 1] = off[1] + Size(Pending[1])
    BY <1>9, <2>1 DEF Laid, m
  <2>3. off[2] = n
    BY <1>4, <2>1, <2>2 DEF n, f
  <2> QED
    BY <1>9, <2>3 DEF Laid, u, m
<1>14. /\ new \in [1..m -> Nat]
       /\ \A k \in 1..m : /\ new[k] = off[k + 1] - n /\ n <= off[k + 1] /\ off[k + 1] \in Nat
                          /\ k + 1 \in 1..(m + 1)
  <2>1. ASSUME NEW k \in 1..m
        PROVE  k + 1 \in 1..(m + 1) /\ n <= off[k + 1] /\ off[k + 1] \in Nat /\ off[k + 1] - n \in Nat
    <3>1. k + 1 \in 1..(m + 1) /\ 2 \in 1..(m + 1) /\ 2 <= k + 1
      BY <1>2, <1>3 DEF m
    <3>2. off[2] <= off[k + 1] /\ off[k + 1] \in Nat
      BY <3>1, <1>13
    <3> QED
      BY <3>1, <3>2, <1>4, <1>13
  <2> QED
    BY <2>1, <1>10
<1>15. Laid(Pending, new)'
  <2>1. new[1] = 0 /\ new[Len(Pending') + 1] = UsedBytes(head', tail)
    <3>1. new[1] = 0
      <4>1. 1 \in 1..m /\ 1 + 1 = 2
        BY <1>2, <1>3 DEF m
      <4> QED
        BY <4>1, <1>4, <1>13, <1>14
    <3>2. new[m] = u - n
      <4>1. m \in 1..m
        BY <1>2, <1>3 DEF m
      <4> QED
        BY <4>1, <1>13, <1>14
    <3> QED
      BY <3>1, <3>2, <1>8, <1>12
  <2>2. ASSUME NEW j \in 1..(Len(Pending') + 1), NEW k \in 1..(Len(Pending') + 1), j <= k
        PROVE  new[j] <= new[k]
    <3>1. j \in 1..m /\ k \in 1..m /\ j + 1 <= k + 1
      BY <1>2, <1>12, <2>2
    <3>2. off[j + 1] <= off[k + 1]
      BY <3>1, <1>13, <1>14
    <3> QED
      BY <3>1, <3>2, <1>4, <1>14
  <2>3. ASSUME NEW k \in 1..Len(Pending')
        PROVE  /\ new[k + 1] = new[k] + Size(Pending'[k])
               /\ \A b \in 1..Size(Pending'[k]) : data[wrap_index(head' + (new[k] + b - 1))] = FrameByte(Pending'[k], b)
    <3>1. PICK c : c = k + 1
      OBVIOUS
    <3>2. k \in 1..m /\ c \in 1..m /\ Pending'[k] = Pending[c] /\ Pending[c] \in Frames /\ k \in Nat
      BY <1>2, <1>12, <3>1 DEF m
    <3>3. /\ off[c + 1] = off[c] + Size(Pending[c])
          /\ \A b \in 1..Size(Pending[c]) : data[wrap_index(head + (off[c] + b - 1))] = FrameByte(Pending[c], b)
      BY <3>2, <1>9 DEF Laid, m
    <3>4. /\ new[k] = off[c] - n /\ new[c] = off[c + 1] - n /\ n <= off[c] /\ off[c] \in Nat /\ off[c + 1] \in Nat
          /\ off[c + 1] <= u /\ Size(Pending[c]) \in Nat
      <4>1. m + 1 \in 1..(m + 1) /\ c + 1 \in 1..(m + 1) /\ c + 1 <= m + 1
        BY <1>2, <3>2 DEF m
      <4> QED
        BY <3>1, <3>2, <4>1, <1>13, <1>14, SizeType
    <3>5. new[k + 1] = new[k] + Size(Pending'[k])
      BY <3>1, <3>2, <3>3, <3>4, <1>4
    <3>6. ASSUME NEW b \in 1..Size(Pending[c])
          PROVE  data[wrap_index(head' + (new[k] + b - 1))] = FrameByte(Pending[c], b)
      <4>1. PICK y : y = new[k] + b - 1
        OBVIOUS
      <4>2. y \in Nat /\ n + y <= Capacity /\ head + n + y = head + (off[c] + b - 1)
        <5>1. PICK s : s = Size(Pending[c])
          OBVIOUS
        <5>2. PICK o, z : o = off[c] /\ z = off[c + 1]
          OBVIOUS
        <5>3. s \in Nat /\ o \in Nat /\ z = o + s /\ n <= o /\ z <= u /\ b \in 1..s /\ new[k] = o - n
          BY <3>3, <3>4, <5>1, <5>2
        <5>4. y = o - n + b - 1
          BY <4>1, <5>3
        <5>5. y \in Nat /\ n + y = o + b - 1 /\ n + y <= Capacity
          BY <5>3, <5>4, <1>4
        <5>6. head \in Nat
          BY <1>4 DEF Indexes
        <5> QED
          BY <5>2, <5>3, <5>5, <5>6, <1>4
      <4>3. wrap_index(wrap_index(head + n) + y) = wrap_index(head + n + y)
        BY <4>2, <1>4, WrapTwice
      <4> QED
        BY <3>3, <4>1, <4>2, <4>3, <1>6
    <3> QED
      BY <3>2, <3>5, <3>6
  <2> QED
    BY <2>1, <2>2, <2>3, <1>11 DEF Laid
<1>16. PendingIsLaid'
  BY <1>12, <1>14, <1>15 DEF PendingIsLaid
<1>17. WrittenIsFrame'
  BY <1>11 DEF ContentInv, WrittenIsFrame, WrittenLen, Size
<1>18. ReadIsFirst'
  BY DEF ReadIsFirst, StoreHead
<1>19. HistoryOK'
  <2>1. received' \in Seq(Frames) /\ Len(received') = Len(received) + 1
    BY <1>0, <1>3, <1>6 DEF HistoryOK
  <2>2. Len(received) \in Nat /\ Len(log) \in Nat
    BY <1>0 DEF HistoryOK, TypeOK
  <2> QED
    BY <2>1, <2>2, <1>2, <1>3, <1>11 DEF HistoryOK, m
<1>20. Head(Pending) = f
  BY <1>1, <1>2 DEF f
<1> QED
  BY <1>0, <1>1, <1>6, <1>7, <1>16, <1>17, <1>18, <1>19, <1>20, StoreHeadKeeps DEF ContentInv

(* Steps that write no byte of the ring and move none of its cursors. *)
LEMMA QuietStepsKeepContent ==
    ASSUME ContentInv,
           \/ \E len \in 0..MaxPayload : LoadHead(len)
           \/ LoadTail \/ SetReady \/ RecvHead \/ RecvTail \/ RecheckTail \/ ClearReady
           \/ RecheckAfterClear \/ Rearm \/ UNCHANGED vars
    PROVE  ContentInv' /\ UNCHANGED <<log, received>>
<1> USE DEF LoadHead, LoadTail, SetReady, RecvHead, RecvTail, RecheckTail, ClearReady,
            RecheckAfterClear, Rearm, vars, sender, receiver, history
<1>1. UNCHANGED <<head, tail, data, log, received, got>>
  OBVIOUS
<1>2. Pending' = Pending
  BY <1>1 DEF Pending
<1>3. rpc' \in {"payload", "consume"} => rpc' = rpc
  OBVIOUS
<1>4. spc' \in {"payload", "publish"} => spc' = spc /\ frame' = frame
  OBVIOUS
<1> HIDE DEF LoadHead, LoadTail, SetReady, RecvHead, RecvTail, RecheckTail, ClearReady,
             RecheckAfterClear, Rearm, vars, sender, receiver, history
<1>5. PendingIsLaid'
  BY <1>1, LaidStays DEF ContentInv
<1>6. WrittenIsFrame'
  <2>1. CASE spc' \in {"payload", "publish"}
    BY <2>1, <1>1, <1>4 DEF ContentInv, WrittenIsFrame, WrittenLen, Size
  <2>2. CASE spc' \notin {"payload", "publish"}
    BY <2>2 DEF WrittenIsFrame, WrittenLen
  <2> QED
    BY <2>1, <2>2
<1>7. ReadIsFirst'
  BY <1>1, <1>2, <1>3 DEF ContentInv, ReadIsFirst
<1>8. HistoryOK'
  BY <1>1 DEF ContentInv, HistoryOK
<1>9. RingInv'
  BY RingStep DEF ContentInv, Next, Send, Recv
<1> QED
  BY SMTT(30), <1>1, <1>5, <1>6, <1>7, <1>8, <1>9 DEF ContentInv

\* The ring of a new lease.
EmptyRing == log = <<>> /\ received = <<>> /\ head = tail /\ head \in Indexes
NothingPending == PendingIsLaid /\ Pending = <<>>

(* An empty ring holds no frame. *)
LEMMA EmptyIsLaid == EmptyRing => NothingPending
<1> SUFFICES ASSUME log = <<>>, received = <<>>, head = tail, head \in Indexes
             PROVE  PendingIsLaid /\ Pending = <<>>
  BY DEF EmptyRing, NothingPending
<1>1. Pending = <<>> /\ Len(Pending) = 0
  BY DEF Pending
<1>2. UsedBytes(head, tail) = 0
  BY DEF UsedBytes, Indexes
<1>3. PICK off : off = [k \in 1..1 |-> 0]
  BY Zenon
<1>4. off \in [1..(Len(Pending) + 1) -> Nat] /\ Laid(Pending, off)
  BY <1>1, <1>2, <1>3 DEF Laid
<1> QED
  BY <1>1, <1>4 DEF PendingIsLaid

(* A new lease starts with no frame, whatever bytes the old one left. *)
LEMMA ClearSlotKeepsContent ==
    ASSUME ContentInv, ClearSlot
    PROVE  ContentInv' /\ Pending' = <<>> /\ received' = <<>>
<1>1. EmptyRing'
  BY DEF ContentInv, RingInv, TypeOK, ClearSlot, EmptyRing
<1>2. NothingPending'
  BY <1>1, EmptyIsLaid, PTL
<1>3. WrittenIsFrame' /\ ReadIsFirst'
  BY DEF ClearSlot, sender, receiver, WrittenIsFrame, WrittenLen, ReadIsFirst
<1>4. HistoryOK'
  BY <1>1 DEF EmptyRing, HistoryOK
<1> QED
  BY <1>1, <1>2, <1>3, <1>4, ClearSlotKeeps DEF ContentInv, EmptyRing, NothingPending

(* A ring that was just initialised is an empty channel. *)
LEMMA InitContent == Init => ContentInv /\ Channel!Init
<1> SUFFICES ASSUME Init PROVE ContentInv /\ Channel!Init
  OBVIOUS
<1>1. RingInv
  BY InitRing
<1>2. PendingIsLaid /\ Pending = <<>>
  BY <1>1, EmptyIsLaid DEF Init, RingInv, TypeOK, EmptyRing, NothingPending
<1>3. WrittenIsFrame /\ ReadIsFirst /\ HistoryOK
  BY DEF Init, WrittenIsFrame, WrittenLen, ReadIsFirst, HistoryOK
<1> QED
  BY <1>1, <1>2, <1>3 DEF ContentInv, Channel!Init, Init, Pending

(* ContentInv is inductive, and every step is a step of the channel or a stutter. *)
LEMMA ChannelStep ==
    ASSUME ContentInv, [Next]_vars
    PROVE  ContentInv' /\ [Channel!Next]_<<Pending, received>>
<1>1. CASE StoreTail
  <2>1. ContentInv' /\ Pending' = Append(Pending, frame) /\ frame \in Frames /\ received' = received
    BY <1>1, StoreTailKeepsContent DEF StoreTail
  <2>2. Channel!Publish(frame)
    BY ZenonT(30), <2>1 DEF Channel!Publish, Pending
  <2> QED
    BY <2>1, <2>2 DEF Channel!Next
<1>2. CASE StoreHead
  <2>1. ContentInv' /\ Pending # <<>> /\ Pending' = Tail(Pending) /\ received' = Append(received, Head(Pending))
    BY <1>2, StoreHeadKeepsContent
  <2>2. Channel!Receive
    BY <2>1 DEF Channel!Receive, Pending
  <2> QED
    BY <2>1, <2>2 DEF Channel!Next
<1>3. CASE ClearSlot
  <2>1. ContentInv' /\ Pending' = <<>> /\ received' = <<>>
    BY <1>3, ClearSlotKeepsContent
  <2>2. Channel!NewLease
    BY <2>1 DEF Channel!NewLease, Pending
  <2> QED
    BY <2>1, <2>2 DEF Channel!Next
<1>4. CASE WritePrefix \/ WritePayload \/ ReadPrefix \/ ReadPayload
  <2>1. ContentInv'
    BY <1>4, WriteKeepsContent, ReadPrefixKeepsContent, ReadPayloadKeepsContent
  <2>2. UNCHANGED <<log, received>>
    BY <1>4 DEF WritePrefix, WritePayload, ReadPrefix, ReadPayload, history
  <2> QED
    BY <2>1, <2>2 DEF Pending
<1>5. CASE \/ \E len \in 0..MaxPayload : LoadHead(len)
           \/ LoadTail \/ SetReady \/ RecvHead \/ RecvTail \/ RecheckTail \/ ClearReady
           \/ RecheckAfterClear \/ Rearm \/ UNCHANGED vars
  <2>1. ContentInv' /\ UNCHANGED <<log, received>>
    BY <1>5, QuietStepsKeepContent
  <2> QED
    BY <2>1 DEF Pending
<1> QED
  BY <1>1, <1>2, <1>3, <1>4, <1>5 DEF Next, Send, Recv

(* The ring is the queue of frames it promises to be, for every capacity, prefix
   length and number of frames: recv_frame_into returns the frames that send_frame
   published, whole and in their order, and none from before clear_slot. *)
THEOREM RingIsAChannel == Spec => IsAChannel
<1>1. Pending = SubSeq(log, Len(received) + 1, Len(log))
  BY DEF Pending
<1>2. ContentInv /\ [Next]_vars => ContentInv' /\ [Channel!Next]_<<SubSeq(log, Len(received) + 1, Len(log)), received>>
  BY ChannelStep DEF Pending
<1> QED
  BY InitContent, <1>2, PTL DEF Spec, IsAChannel, Channel!Spec
=============================================================================
