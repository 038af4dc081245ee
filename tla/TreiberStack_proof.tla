------------------------- MODULE TreiberStack_proof -------------------------
(***************************************************************************)
(* Proofs about the lock-free stack, for every set of processes, every     *)
(* capacity and every width of the tag and of the length counter.          *)
(***************************************************************************)
EXTENDS TreiberStack, FiniteSetTheorems, TLAPS

(* An injective list of indices that misses one index is shorter than the  *)
(* capacity, so a push never exceeds it.                                   *)
LEMMA RoomForOneMore ==
    ASSUME NEW n \in Nat, NEW s \in [1 .. n -> Idx], NEW v \in Idx,
           \A j, k \in 1 .. n : s[j] = s[k] => j = k,
           \A k \in 1 .. n : s[k] # v
    PROVE  n + 1 <= Capacity
<1> SUFFICES ASSUME Capacity < n + 1 PROVE FALSE
  BY CapacityAssumption
<1> DEFINE f == [k \in 1 .. n + 1 |-> IF k = n + 1 THEN v ELSE s[k]]
<1>1. f \in [1 .. n + 1 -> Idx]
  OBVIOUS
<1>2. /\ IsFiniteSet(1 .. n + 1) /\ Cardinality(1 .. n + 1) = n + 1
      /\ IsFiniteSet(Idx) /\ Cardinality(Idx) = Capacity
  <2>1. IsFiniteSet(1 .. n + 1) /\ Cardinality(1 .. n + 1) = n + 1
    BY FS_Interval
  <2>2. IsFiniteSet(0 .. Capacity - 1) /\ Cardinality(0 .. Capacity - 1) = Capacity
    BY FS_Interval, CapacityAssumption
  <2> QED
    BY <2>1, <2>2 DEF Idx
<1>3. PICK x \in 1 .. n + 1, y \in 1 .. n + 1 : x # y /\ f[x] = f[y]
  <2> HIDE DEF f
  <2> QED
    BY <1>1, <1>2, FS_PigeonHole, CapacityAssumption
<1> QED
  BY <1>3

(* wrapping_add always moves the tag.                                      *)
LEMMA BumpTagMoves ==
    ASSUME NEW t \in Tags
    PROVE  BumpTag(t) \in Tags /\ BumpTag(t) # t
BY TagModAssumption DEF Tags, BumpTag

LEMMA InitIInv == Init => IInv
<1> SUFFICES ASSUME Init PROVE IInv
  OBVIOUS
<1> USE CapacityAssumption, TagModAssumption, LenModAssumption
<1>1. TypeOK
  BY DEF Init, InitInPlace, InitEmptyInPlace, TypeOK, Heads, Tags, Idx, NONE,
         Labels, Unloaded
<1>2. \A p \in Procs : ~ InHand(p) /\ ~ HoldsHead(p) /\ pc[p] = "idle"
  BY DEF Init, InHand, HoldsHead
<1>3. HandedOut = out
  BY <1>2 DEF HandedOut
<1>4. CASE InitInPlace
  <2> DEFINE s == [k \in 1 .. Capacity |-> k - 1]
  <2>1. s \in [1 .. Capacity -> Idx]
    BY DEF Idx
  <2>2. Represents(s, Capacity)
    BY <1>4, <2>1 DEF InitInPlace, Represents, Idx, NONE
  <2>3. Range(s) = Idx
    <3>1. \A i \in Idx : i + 1 \in 1 .. Capacity /\ s[i + 1] = i
      BY DEF Idx
    <3> QED
      BY <2>1, <3>1 DEF Range
  <2> QED
    BY <1>1, <1>2, <1>3, <1>4, <2>1, <2>2, <2>3
    DEF IInv, ExactlyOnePlace, LoadedIsFresh, InitInPlace
<1>5. CASE InitEmptyInPlace
  <2> DEFINE s == [k \in 1 .. 0 |-> 0]
  <2>1. s \in [1 .. 0 -> Idx]
    OBVIOUS
  <2>2. Represents(s, 0)
    BY <1>5, <2>1 DEF InitEmptyInPlace, Represents
  <2>3. Range(s) = {}
    BY DEF Range
  <2>4. ExactlyOnePlace
    <3> HIDE DEF s
    <3>1. Range(s) = Idx \ HandedOut
      BY <1>3, <1>5, <2>3 DEF InitEmptyInPlace
    <3>2. 0 \in 0 .. Capacity
      OBVIOUS
    <3> QED
      BY <1>2, <2>1, <2>2, <3>1, <3>2 DEF ExactlyOnePlace
  <2> QED
    BY <1>1, <1>2, <2>4 DEF IInv, LoadedIsFresh
<1> QED
  BY <1>4, <1>5 DEF Init

(* Two states that agree on the shared words represent the same stack.     *)
LEMMA RepresentsFrame ==
    ASSUME NEW n, NEW s, Represents(s, n), UNCHANGED <<head, next>>
    PROVE  Represents(s, n)'
BY DEF Represents

(* An operation that leaves the words and the owned indices alone keeps    *)
(* the partition.                                                          *)
LEMMA PlacesFrame ==
    ASSUME ExactlyOnePlace, UNCHANGED <<head, next, out>>,
           \A p \in Procs : InHand(p)' <=> InHand(p),
           \A p \in Procs : InHand(p) => val'[p] = val[p]
    PROVE  ExactlyOnePlace'
<1>1. HandedOut' = HandedOut
  BY DEF HandedOut
<1> QED
  BY <1>1, RepresentsFrame DEF ExactlyOnePlace

(* A successful exchange of allocate() unlinks the top and hands it out.   *)
LEMMA PopKeepsPlaces ==
    ASSUME IInv, NEW p \in Procs, AllocateSwap(p)
    PROVE  ExactlyOnePlace'
<1> USE CapacityAssumption
<1>0. PICK n \in 0 .. Capacity :
          \E s \in [1 .. n -> Idx] : Represents(s, n) /\ Range(s) = Idx \ HandedOut
  BY DEF IInv, ExactlyOnePlace
<1>1. PICK s \in [1 .. n -> Idx] : Represents(s, n) /\ Range(s) = Idx \ HandedOut
  BY <1>0
<1>2. /\ pc[p] = "a_cas" /\ head = cur[p] /\ head.idx \in Idx
      /\ head'.idx = next[head.idx] /\ val' = [val EXCEPT ![p] = head.idx]
      /\ pc' = [pc EXCEPT ![p] = "a_dec"] /\ next' = next /\ out' = out
  BY DEF IInv, LoadedIsFresh, AllocateSwap, SwapHead, Goto
<1>3. n > 0 /\ n \in 1 .. n /\ head.idx = s[n]
  BY <1>1, <1>2 DEF Represents, Idx, NONE
<1> DEFINE t == [k \in 1 .. n - 1 |-> s[k]]
<1>4. n - 1 \in 0 .. Capacity /\ t \in [1 .. n - 1 -> Idx]
  BY <1>3
<1>5. Represents(t, n - 1)'
  <2>1. next[s[n]] = IF n = 1 THEN NONE ELSE s[n - 1]
    BY <1>1, <1>3 DEF Represents
  <2>2. n # 1 => n - 1 \in 1 .. n - 1 /\ t[n - 1] = s[n - 1]
    BY <1>3
  <2>3. head'.idx = IF n - 1 = 0 THEN NONE ELSE t[n - 1]
    BY <1>2, <1>3, <2>1, <2>2
  <2>4. \A k \in 1 .. n - 1 : next'[t[k]] = IF k = 1 THEN NONE ELSE t[k - 1]
    BY <1>1, <1>2, <1>3 DEF Represents
  <2>5. \A j, k \in 1 .. n - 1 : t[j] = t[k] => j = k
    BY <1>1, <1>3 DEF Represents
  <2> QED
    BY <1>4, <2>3, <2>4, <2>5 DEF Represents
<1>6. ~ InHand(p) /\ \A q \in Procs : InHand(q)' <=> InHand(q) \/ q = p
  BY <1>2 DEF InHand, IInv, TypeOK
<1>7. HandedOut' = HandedOut \cup {s[n]}
  BY <1>2, <1>3, <1>6 DEF HandedOut, IInv, TypeOK
<1>8. Range(t) = Range(s) \ {s[n]}
  <2>1. Range(s) = {s[k] : k \in 1 .. n} /\ Range(t) = {s[k] : k \in 1 .. n - 1}
    BY DEF Range
  <2>2. \A k \in 1 .. n : k \in 1 .. n - 1 \/ k = n
    BY <1>3
  <2>3. \A k \in 1 .. n - 1 : k \in 1 .. n /\ s[k] # s[n]
    BY <1>1, <1>3 DEF Represents
  <2> QED
    BY <2>1, <2>2, <2>3, <1>3
<1>9. s[n] \notin HandedOut /\ s[n] \in Idx
  BY <1>1, <1>3 DEF Range
<1>10. \A q \in Procs : InHand(q)' => val'[q] \in Idx \ out'
  BY <1>2, <1>3, <1>6, <1>9 DEF HandedOut, IInv, ExactlyOnePlace, TypeOK
<1>11. \A q, r \in Procs : InHand(q)' /\ InHand(r)' /\ val'[q] = val'[r] => q = r
  BY <1>2, <1>3, <1>6, <1>9 DEF HandedOut, IInv, ExactlyOnePlace, TypeOK
<1>12. Range(t) = Idx \ HandedOut'
  BY <1>1, <1>7, <1>8
<1> QED
  <2> HIDE DEF t
  <2> QED
    BY <1>4, <1>5, <1>10, <1>11, <1>12 DEF ExactlyOnePlace

(* A successful exchange of release() links the index on top.              *)
LEMMA PushKeepsPlaces ==
    ASSUME IInv, NEW p \in Procs, ReleaseSwap(p)
    PROVE  ExactlyOnePlace'
<1> USE CapacityAssumption
<1>0. PICK n \in 0 .. Capacity :
          \E s \in [1 .. n -> Idx] : Represents(s, n) /\ Range(s) = Idx \ HandedOut
  BY DEF IInv, ExactlyOnePlace
<1>1. PICK s \in [1 .. n -> Idx] : Represents(s, n) /\ Range(s) = Idx \ HandedOut
  BY <1>0
<1>v. PICK v \in Idx : v = val[p]
  BY DEF IInv, ExactlyOnePlace, ReleaseSwap, InHand
<1>2. /\ pc[p] = "r_cas" /\ head = cur[p] /\ next[v] = head.idx
      /\ head'.idx = v /\ val' = val
      /\ pc' = [pc EXCEPT ![p] = "r_inc"] /\ next' = next /\ out' = out
  BY <1>v DEF IInv, LoadedIsFresh, ReleaseSwap, SwapHead, Goto
<1>3. InHand(p) /\ v \in Idx /\ v \notin out /\ v \in HandedOut
  BY <1>2, <1>v DEF InHand, HandedOut, IInv, ExactlyOnePlace
<1>4. \A k \in 1 .. n : s[k] # v
  BY <1>1, <1>3 DEF Range
<1> DEFINE t == [k \in 1 .. n + 1 |-> IF k = n + 1 THEN v ELSE s[k]]
<1>5. n + 1 \in 0 .. Capacity
  <2>1. \A j, k \in 1 .. n : s[j] = s[k] => j = k
    BY <1>1 DEF Represents
  <2> QED
    BY <1>3, <1>4, <2>1, RoomForOneMore
<1>6. t \in [1 .. n + 1 -> Idx]
  BY <1>3
<1>7. Represents(t, n + 1)'
  <2>1. head'.idx = IF n + 1 = 0 THEN NONE ELSE t[n + 1]
    BY <1>2
  <2>2. \A k \in 1 .. n + 1 : next'[t[k]] = IF k = 1 THEN NONE ELSE t[k - 1]
    BY <1>1, <1>2 DEF Represents
  <2>3. \A j, k \in 1 .. n + 1 : t[j] = t[k] => j = k
    BY <1>1, <1>4 DEF Represents
  <2> QED
    BY <1>6, <2>1, <2>2, <2>3 DEF Represents
<1>8. \A q \in Procs : InHand(q)' <=> InHand(q) /\ q # p
  BY <1>2 DEF InHand, IInv, TypeOK
<1>9. \A q \in Procs : InHand(q) /\ q # p => val[q] # v
  BY <1>3, <1>v DEF IInv, ExactlyOnePlace
<1>10. HandedOut' = HandedOut \ {v}
  BY <1>2, <1>3, <1>8, <1>9, <1>v DEF HandedOut
<1>11. Range(t) = Range(s) \cup {v}
  <2>1. Range(s) = {s[k] : k \in 1 .. n} /\ Range(t) = {t[k] : k \in 1 .. n + 1}
    BY DEF Range
  <2>2. \A k \in 1 .. n + 1 : k \in 1 .. n \/ k = n + 1
    OBVIOUS
  <2>3. t[n + 1] = v /\ \A k \in 1 .. n : k \in 1 .. n + 1 /\ t[k] = s[k]
    OBVIOUS
  <2> HIDE DEF t
  <2>4. n + 1 \in 1 .. n + 1
    OBVIOUS
  <2> QED
    BY <2>1, <2>2, <2>3, <2>4
<1>12. Range(t) = Idx \ HandedOut'
  BY <1>1, <1>3, <1>10, <1>11
<1>13. \A q \in Procs : InHand(q)' => val'[q] \in Idx \ out'
  BY <1>2, <1>8 DEF IInv, ExactlyOnePlace
<1>14. \A q, r \in Procs : InHand(q)' /\ InHand(r)' /\ val'[q] = val'[r] => q = r
  BY <1>2, <1>8 DEF IInv, ExactlyOnePlace
<1> QED
  <2> HIDE DEF t
  <2> QED
    BY <1>5, <1>6, <1>7, <1>12, <1>13, <1>14 DEF ExactlyOnePlace

(* An index moves between a client and an operation: nobody else sees it.  *)
LEMMA HandoverKeepsPlaces ==
    ASSUME IInv, NEW p \in Procs,
           CallRelease(p) \/ ReleaseFull(p) \/ AllocateCount(p)
    PROVE  ExactlyOnePlace' /\ HandedOut' = HandedOut
<1> USE DEF IInv, TypeOK, ExactlyOnePlace
<1>1. UNCHANGED <<head, next>>
  BY DEF CallRelease, ReleaseFull, AllocateCount
<1>2. \A q \in Procs \ {p} : (InHand(q)' <=> InHand(q)) /\ val'[q] = val[q]
  BY DEF CallRelease, ReleaseFull, AllocateCount, Return, Goto, InHand
<1>3. CASE CallRelease(p)
  <2>1. PICK v \in out : val' = [val EXCEPT ![p] = v] /\ out' = out \ {v}
    BY <1>3 DEF CallRelease
  <2>2. ~ InHand(p) /\ InHand(p)' /\ val'[p] = v
    BY <1>3, <2>1 DEF CallRelease, Goto, InHand
  <2>3. HandedOut' = HandedOut
    BY <1>2, <2>1, <2>2 DEF HandedOut
  <2> QED
    BY <1>1, <1>2, <2>1, <2>2, <2>3, RepresentsFrame
<1>4. CASE ReleaseFull(p) \/ AllocateCount(p)
  <2>1. InHand(p) /\ ~ InHand(p)' /\ out' = out \cup {val[p]}
    BY <1>4 DEF ReleaseFull, AllocateCount, Return, Goto, InHand
  <2>2. HandedOut' = HandedOut
    BY <1>2, <2>1 DEF HandedOut
  <2>3. \A q \in Procs : InHand(q)' => val'[q] \in Idx \ out'
    BY <1>2, <2>1
  <2>4. \A q, r \in Procs : InHand(q)' /\ InHand(r)' /\ val'[q] = val'[r] => q = r
    BY <1>2, <2>1
  <2> QED
    BY <1>1, <2>2, <2>3, <2>4, RepresentsFrame
<1> QED
  BY <1>3, <1>4

(* release() writes only the link of the index it owns.                    *)
LEMMA LinkKeepsPlaces ==
    ASSUME IInv, NEW p \in Procs, ReleaseStoreNext(p)
    PROVE  ExactlyOnePlace'
<1>0. PICK n \in 0 .. Capacity :
          \E s \in [1 .. n -> Idx] : Represents(s, n) /\ Range(s) = Idx \ HandedOut
  BY DEF IInv, ExactlyOnePlace
<1>1. PICK s \in [1 .. n -> Idx] : Represents(s, n) /\ Range(s) = Idx \ HandedOut
  BY <1>0
<1>2. /\ InHand(p) /\ head' = head /\ out' = out /\ val' = val
      /\ next' = [next EXCEPT ![val[p]] = cur[p].idx]
      /\ \A q \in Procs : InHand(q)' <=> InHand(q)
  BY DEF ReleaseStoreNext, Goto, InHand, IInv, TypeOK
<1>3. HandedOut' = HandedOut
  BY <1>2 DEF HandedOut
<1>4. val[p] \in HandedOut
  BY <1>2 DEF HandedOut
<1>5. \A k \in 1 .. n : s[k] # val[p]
  BY <1>1, <1>4 DEF Range
<1>6. \A k \in 1 .. n : next'[s[k]] = next[s[k]]
  BY <1>2, <1>5 DEF IInv, TypeOK
<1>7. Represents(s, n)'
  BY <1>1, <1>2, <1>6 DEF Represents
<1> QED
  BY <1>1, <1>2, <1>3, <1>7 DEF IInv, ExactlyOnePlace

(* A winner of the head moves the tag away from every loaded word.         *)
LEMMA SwapKeepsFresh ==
    ASSUME IInv, NEW p \in Procs, AllocateSwap(p) \/ ReleaseSwap(p)
    PROVE  LoadedIsFresh'
<1>1. /\ NoTagLap(p) /\ head = cur[p] /\ head'.tag = BumpTag(head.tag)
      /\ next' = next /\ cur' = cur /\ nxt' = nxt
      /\ pc' = [pc EXCEPT ![p] = pc'[p]] /\ pc'[p] \in {"a_dec", "r_inc"}
      /\ \A q \in Procs \ {p} : val'[q] = val[q]
  BY DEF IInv, TypeOK, AllocateSwap, ReleaseSwap, SwapHead, Goto
<1>2. BumpTag(head.tag) # head.tag
  BY BumpTagMoves DEF IInv, TypeOK, Heads
<1>3. \A q \in Procs : ~ (HoldsHead(q)' /\ cur'[q].tag = head'.tag)
  BY <1>1, <1>2 DEF NoTagLap, HoldsHead, IInv, TypeOK
<1>4. \A q \in Procs : pc'[q] = "a_cas" => cur'[q] # head'
  BY <1>3 DEF HoldsHead
<1>5. \A q \in Procs : pc'[q] \in {"a_next", "a_cas", "r_cas"} => q # p /\ pc'[q] = pc[q]
  BY <1>1 DEF IInv, TypeOK
<1> QED
  BY <1>1, <1>3, <1>4, <1>5 DEF LoadedIsFresh, IInv

(* The type invariant is preserved by every step.                          *)
LEMMA TypeStep == IInv /\ Next => TypeOK'
<1> SUFFICES ASSUME IInv, NEW p \in Procs,
                    CallAllocate(p) \/ CallRelease(p) \/ Step(p)
             PROVE  TypeOK'
  BY DEF Next
<1> USE CapacityAssumption, LenModAssumption DEF IInv, TypeOK, Goto, Return, Labels
<1>0. Unloaded \in Heads /\ NONE \in Idx \cup {NONE}
  BY TagModAssumption DEF Unloaded, Heads, Tags
<1>1. (len - 1) % LenMod \in 0 .. LenMod - 1 /\ (len + 1) % LenMod \in 0 .. LenMod - 1
  OBVIOUS
<1>2. \A i \in Idx \cup {NONE}, t \in Tags : [idx |-> i, tag |-> BumpTag(t)] \in Heads
  BY BumpTagMoves DEF Heads
<1>3. cur[p].tag \in Tags /\ cur[p].idx \in Idx \cup {NONE}
  BY DEF Heads
<1>4. CASE CallAllocate(p)
  BY <1>4 DEF CallAllocate
<1>5. CASE CallRelease(p)
  BY <1>5 DEF CallRelease
<1>6. CASE AllocateEmpty(p)
  BY <1>0, <1>6 DEF AllocateEmpty
<1>7. CASE AllocateLoadHead(p)
  BY <1>7 DEF AllocateLoadHead
<1>8. CASE AllocateLoadNext(p)
  BY <1>8 DEF AllocateLoadNext, LoadedIsFresh
<1>9. CASE AllocateSwap(p)
  BY <1>2, <1>3, <1>9 DEF AllocateSwap, SwapHead
<1>10. CASE AllocateCount(p)
  BY <1>0, <1>1, <1>10 DEF AllocateCount, ExactlyOnePlace, InHand
<1>11. CASE ReleaseCheckLen(p)
  BY <1>11 DEF ReleaseCheckLen
<1>12. CASE ReleaseFull(p)
  BY <1>0, <1>12 DEF ReleaseFull, ExactlyOnePlace, InHand
<1>13. CASE ReleaseLoadHead(p)
  BY <1>13 DEF ReleaseLoadHead
<1>14. CASE ReleaseStoreNext(p)
  BY <1>3, <1>14 DEF ReleaseStoreNext
<1>15. CASE ReleaseSwap(p)
  BY <1>2, <1>3, <1>15 DEF ReleaseSwap, SwapHead
<1>16. CASE ReleaseCount(p)
  BY <1>0, <1>1, <1>16 DEF ReleaseCount
<1>17. CASE LostRace(p, "a_cas", "a_load") \/ LostRace(p, "r_cas", "r_load")
  BY <1>17 DEF LostRace
<1> QED
  BY <1>4, <1>5, <1>6, <1>7, <1>8, <1>9, <1>10, <1>11, <1>12, <1>13, <1>14,
     <1>15, <1>16, <1>17 DEF Step

(* The index an operation moves, as the abstract freelist sees it.         *)
Hand == [p \in Procs |-> IF InHand(p) THEN val[p] ELSE NONE]

(* The steps that touch neither the words nor an owned index.              *)
Quiet(p) ==
    \/ CallAllocate(p) \/ AllocateEmpty(p) \/ AllocateLoadHead(p)
    \/ AllocateLoadNext(p) \/ ReleaseCheckLen(p) \/ ReleaseLoadHead(p)
    \/ ReleaseCount(p)
    \/ LostRace(p, "a_cas", "a_load") \/ LostRace(p, "r_cas", "r_load")

LEMMA QuietStep ==
    ASSUME IInv, NEW p \in Procs, Quiet(p)
    PROVE  /\ ExactlyOnePlace' /\ LoadedIsFresh'
           /\ HandedOut' = HandedOut /\ Hand' = Hand /\ out' = out
<1> USE DEF IInv, TypeOK, Goto, Return
<1>1. UNCHANGED <<head, next, out>>
  BY DEF Quiet, CallAllocate, AllocateEmpty, AllocateLoadHead, AllocateLoadNext,
         ReleaseCheckLen, ReleaseLoadHead, ReleaseCount, LostRace
<1>2. \A q \in Procs : (InHand(q)' <=> InHand(q)) /\ (InHand(q) => val'[q] = val[q])
  BY DEF Quiet, CallAllocate, AllocateEmpty, AllocateLoadHead, AllocateLoadNext,
         ReleaseCheckLen, ReleaseLoadHead, ReleaseCount, LostRace, InHand
<1>3. ExactlyOnePlace'
  BY <1>1, <1>2, PlacesFrame
<1>4. HandedOut' = HandedOut
  BY <1>1, <1>2 DEF HandedOut
<1>5. \A q \in Procs \ {p} :
          /\ pc'[q] = pc[q] /\ cur'[q] = cur[q] /\ nxt'[q] = nxt[q] /\ val'[q] = val[q]
  BY DEF Quiet, CallAllocate, AllocateEmpty, AllocateLoadHead, AllocateLoadNext,
         ReleaseCheckLen, ReleaseLoadHead, ReleaseCount, LostRace
<1>6. \/ pc'[p] \in {"idle", "a_load", "r_load"}
      \/ pc'[p] \in {"a_next", "r_link"} /\ cur'[p] = head
          /\ (pc'[p] = "a_next" => head.idx # NONE)
      \/ pc[p] = "a_next" /\ pc'[p] = "a_cas" /\ cur'[p] = cur[p]
          /\ nxt'[p] = next[cur[p].idx]
  BY DEF Quiet, CallAllocate, AllocateEmpty, AllocateLoadHead, AllocateLoadNext,
         ReleaseCheckLen, ReleaseLoadHead, ReleaseCount, LostRace
<1>7. LoadedIsFresh'
  BY <1>1, <1>5, <1>6 DEF LoadedIsFresh, HoldsHead, Heads
<1> QED
  BY <1>1, <1>2, <1>3, <1>4, <1>7 DEF Hand

LEMMA NextIInv == IInv /\ [Next]_vars => IInv'
<1> SUFFICES ASSUME IInv, [Next]_vars PROVE ExactlyOnePlace' /\ LoadedIsFresh' /\ TypeOK'
  BY DEF IInv
<1>1. CASE UNCHANGED vars
  <2>1. \A p \in Procs : (InHand(p)' <=> InHand(p)) /\ (HoldsHead(p)' <=> HoldsHead(p))
    BY <1>1 DEF vars, InHand, HoldsHead
  <2> QED
    BY <1>1, <2>1, PlacesFrame DEF vars, IInv, TypeOK, LoadedIsFresh
<1>2. ASSUME NEW p \in Procs, CallAllocate(p) \/ CallRelease(p) \/ Step(p)
      PROVE  ExactlyOnePlace' /\ LoadedIsFresh'
  <2>1. CASE Quiet(p)
    BY <2>1, QuietStep
  <2>2. CASE AllocateSwap(p)
    BY <2>2, PopKeepsPlaces, SwapKeepsFresh
  <2>3. CASE ReleaseSwap(p)
    BY <2>3, PushKeepsPlaces, SwapKeepsFresh
  <2>4. CASE CallRelease(p) \/ ReleaseFull(p) \/ AllocateCount(p)
    <3>1. UNCHANGED <<head, next>> /\ pc'[p] \in {"idle", "r_check"}
      BY <2>4 DEF CallRelease, ReleaseFull, AllocateCount, Return, Goto, IInv, TypeOK
    <3>2. \A q \in Procs \ {p} :
            /\ pc'[q] = pc[q] /\ cur'[q] = cur[q] /\ nxt'[q] = nxt[q] /\ val'[q] = val[q]
      BY <2>4 DEF CallRelease, ReleaseFull, AllocateCount, Return, Goto, IInv, TypeOK
    <3> QED
      BY <2>4, <3>1, <3>2, HandoverKeepsPlaces DEF LoadedIsFresh, HoldsHead, IInv
  <2>5. CASE ReleaseStoreNext(p)
    <3>1. /\ pc[p] = "r_link" /\ pc' = [pc EXCEPT ![p] = "r_cas"]
          /\ next' = [next EXCEPT ![val[p]] = cur[p].idx]
          /\ UNCHANGED <<head, cur, nxt, val>>
      BY <2>5 DEF ReleaseStoreNext, Goto
    <3>2. InHand(p) /\ val[p] \in Idx /\ next'[val[p]] = cur[p].idx
          /\ \A i \in Idx : i # val[p] => next'[i] = next[i]
      BY <3>1 DEF InHand, IInv, TypeOK, ExactlyOnePlace
    <3>3. head.idx # val[p]
      <4>1. PICK n \in 0 .. Capacity :
              \E s \in [1 .. n -> Idx] : Represents(s, n) /\ Range(s) = Idx \ HandedOut
        BY DEF IInv, ExactlyOnePlace
      <4>2. PICK s \in [1 .. n -> Idx] : Represents(s, n) /\ Range(s) = Idx \ HandedOut
        BY <4>1
      <4>3. val[p] \in HandedOut
        BY <3>2 DEF HandedOut
      <4>4. n # 0 => n \in 1 .. n
        BY CapacityAssumption
      <4> QED
        BY <3>2, <4>2, <4>3, <4>4 DEF Represents, Range, Idx, NONE
    <3>4. \A q \in Procs : pc[q] = "r_cas" => InHand(q) /\ q # p /\ val[q] # val[p]
      BY <3>1, <3>2 DEF InHand, IInv, ExactlyOnePlace
    <3>5. \A q \in Procs : pc[q] = "r_cas" => val[q] \in Idx
      BY <3>4 DEF IInv, ExactlyOnePlace
    <3>6. LoadedIsFresh'
      <4> SUFFICES ASSUME NEW q \in Procs
                   PROVE  /\ pc'[q] \in {"a_next", "a_cas"} => cur'[q].idx \in Idx
                          /\ HoldsHead(q)' /\ cur'[q].tag = head'.tag => cur'[q] = head'
                          /\ pc'[q] = "a_cas" /\ cur'[q] = head'
                                => nxt'[q] = next'[head'.idx]
                          /\ pc'[q] = "r_cas" => next'[val'[q]] = cur'[q].idx
        BY DEF LoadedIsFresh
      <4>1. CASE q = p
        BY <3>1, <3>2, <4>1 DEF LoadedIsFresh, HoldsHead, IInv, TypeOK
      <4>2. CASE q # p
        <5>1. pc'[q] = pc[q] /\ (HoldsHead(q)' <=> HoldsHead(q))
          BY <3>1, <4>2 DEF IInv, TypeOK, HoldsHead
        <5>2. pc[q] = "a_cas" /\ cur[q] = head => next'[head.idx] = next[head.idx]
          BY <3>2, <3>3 DEF LoadedIsFresh, IInv
        <5>3. pc[q] = "r_cas" => next'[val[q]] = next[val[q]]
          BY <3>2, <3>4, <3>5
        <5> QED
          BY <3>1, <5>1, <5>2, <5>3 DEF LoadedIsFresh, IInv
      <4> QED
        BY <4>1, <4>2
    <3> QED
      BY <2>5, <3>6, LinkKeepsPlaces
  <2> QED
    BY <1>2, <2>1, <2>2, <2>3, <2>4, <2>5 DEF Step, Quiet
<1>3. CASE Next
  BY <1>2, <1>3, TypeStep DEF Next
<1> QED
  BY <1>1, <1>3

(* No index of the freelist is ever lost or owned twice, and the ABA tag   *)
(* keeps what operations have loaded fresh, whatever the interleaving of   *)
(* the atomic steps of allocate() and release().                           *)
THEOREM StackSafety == Spec => []IInv
BY InitIInv, NextIInv, PTL DEF Spec

(* allocate() only reports Empty while every index is handed out.          *)
THEOREM EmptyReportsAreTrue == Spec => EmptyIsTrue
<1>1. IInv /\ [Next]_vars =>
        [\A p \in Procs : pc[p] = "a_load" /\ pc'[p] = "idle" => HandedOut = Idx]_vars
  <2> SUFFICES ASSUME IInv, Next, NEW p \in Procs, pc[p] = "a_load", pc'[p] = "idle"
               PROVE  HandedOut = Idx
    OBVIOUS
  <2>1. PICK q \in Procs : CallAllocate(q) \/ CallRelease(q) \/ Step(q)
    BY DEF Next
  <2>2. head.idx = NONE
    BY <2>1 DEF IInv, TypeOK, Step, Goto, Return, CallAllocate, CallRelease,
                AllocateEmpty, AllocateLoadHead, AllocateLoadNext, AllocateSwap,
                AllocateCount, ReleaseCheckLen, ReleaseFull, ReleaseLoadHead,
                ReleaseStoreNext, ReleaseSwap, ReleaseCount, LostRace
  <2>3. PICK n \in 0 .. Capacity :
          \E s \in [1 .. n -> Idx] : Represents(s, n) /\ Range(s) = Idx \ HandedOut
    BY DEF IInv, ExactlyOnePlace
  <2>4. PICK s \in [1 .. n -> Idx] : Represents(s, n) /\ Range(s) = Idx \ HandedOut
    BY <2>3
  <2>5. n = 0
    <3> SUFFICES ASSUME n # 0 PROVE FALSE
      OBVIOUS
    <3>1. n \in 1 .. n
      BY CapacityAssumption
    <3> QED
      BY <2>2, <2>4, <3>1 DEF Represents, Idx, NONE
  <2>6. Range(s) = {}
    BY <2>5 DEF Range
  <2>7. HandedOut \subseteq Idx
    BY DEF HandedOut, IInv, TypeOK, ExactlyOnePlace
  <2> QED
    BY <2>4, <2>6, <2>7
<1>2. Spec => []IInv
  BY InitIInv, NextIInv, PTL DEF Spec
<1> QED
  BY <1>1, <1>2, PTL DEF Spec, EmptyIsTrue

(* What allocate() wins is an index that nobody had.                       *)
LEMMA PopHandsOut ==
    ASSUME IInv, NEW p \in Procs, AllocateSwap(p)
    PROVE  /\ head.idx \in Idx \ HandedOut /\ head = cur[p]
           /\ ~ InHand(p) /\ \A q \in Procs : InHand(q)' <=> InHand(q) \/ q = p
           /\ HandedOut' = HandedOut \cup {head.idx}
<1>1. head.idx \in Idx /\ head = cur[p]
  BY DEF AllocateSwap, SwapHead, IInv, LoadedIsFresh
<1>2. head.idx \notin HandedOut
  <2>1. PICK n \in 0 .. Capacity :
          \E s \in [1 .. n -> Idx] : Represents(s, n) /\ Range(s) = Idx \ HandedOut
    BY DEF IInv, ExactlyOnePlace
  <2>2. PICK s \in [1 .. n -> Idx] : Represents(s, n) /\ Range(s) = Idx \ HandedOut
    BY <2>1
  <2>3. n \in 1 .. n /\ head.idx = s[n]
    BY <1>1, <2>2, CapacityAssumption DEF Represents, Idx, NONE
  <2> QED
    BY <2>2, <2>3 DEF Range
<1>3. ~ InHand(p) /\ \A q \in Procs : InHand(q)' <=> InHand(q) \/ q = p
  BY DEF AllocateSwap, Goto, InHand, IInv, TypeOK
<1>4. HandedOut' = HandedOut \cup {head.idx}
  BY <1>1, <1>3 DEF AllocateSwap, HandedOut, IInv, TypeOK
<1> QED
  BY <1>1, <1>2, <1>3, <1>4

(* What release() links was in its hands, and in nobody else's.            *)
LEMMA PushTakesBack ==
    ASSUME IInv, NEW p \in Procs, ReleaseSwap(p)
    PROVE  /\ InHand(p) /\ val[p] \in Idx /\ val[p] \in HandedOut \ out
           /\ \A q \in Procs : InHand(q)' <=> InHand(q) /\ q # p
           /\ HandedOut' = HandedOut \ {val[p]}
<1>1. InHand(p) /\ val[p] \in Idx /\ val[p] \in HandedOut \ out
  BY DEF ReleaseSwap, InHand, IInv, ExactlyOnePlace, HandedOut
<1>2. \A q \in Procs : InHand(q)' <=> InHand(q) /\ q # p
  BY DEF ReleaseSwap, Goto, InHand, IInv, TypeOK
<1>3. \A q \in Procs : InHand(q) /\ q # p => val[q] # val[p]
  BY <1>1 DEF IInv, ExactlyOnePlace
<1>4. HandedOut' = HandedOut \ {val[p]}
  BY <1>1, <1>2, <1>3 DEF ReleaseSwap, HandedOut
<1> QED
  BY <1>1, <1>2, <1>4

(* The length counter.  Popping and Pushed are the operations between      *)
(* their exchange of the head and their fetch_sub or fetch_add; LenInv is  *)
(* LenAccounts without the remainder: the difference is a number of laps   *)
(* of the counter.                                                         *)
Linked == Idx \ HandedOut
Popping == {p \in Procs : pc[p] = "a_dec"}
Pushed == {p \in Procs : pc[p] = "r_inc"}
Due == Cardinality(Linked) + Cardinality(Popping) - Cardinality(Pushed)
LenInv == \E k \in Int : Due = LenMod * k + len

LEMMA FiniteCounts ==
    /\ IsFiniteSet(Linked) /\ IsFiniteSet(Popping) /\ IsFiniteSet(Pushed)
    /\ {Cardinality(Linked), Cardinality(Popping), Cardinality(Pushed), Due} \subseteq Int
<1>1. IsFiniteSet(Idx)
  BY FS_Interval, CapacityAssumption DEF Idx
<1>2. IsFiniteSet(Linked) /\ IsFiniteSet(Popping) /\ IsFiniteSet(Pushed)
  BY <1>1, ProcsAssumption, FS_Subset, FS_Difference DEF Linked, Popping, Pushed
<1> QED
  BY <1>2, FS_CardinalityType DEF Due

(* Multiples of the modulus do not show in the remainder.                  *)
LEMMA RemainderOfLaps ==
    ASSUME NEW k \in Int, NEW r \in 0 .. LenMod - 1
    PROVE  (LenMod * k + r) % LenMod = r
BY LenModAssumption

(* fetch_add and fetch_sub move the counter by one, wrapping at its width. *)
LEMMA CounterWraps ==
    ASSUME NEW l \in 0 .. LenMod - 1
    PROVE  /\ (l + 1) % LenMod = IF l = LenMod - 1 THEN 0 ELSE l + 1
           /\ (l - 1) % LenMod = IF l = 0 THEN LenMod - 1 ELSE l - 1
<1> USE LenModAssumption
<1>1. (LenMod * 1 + 0) % LenMod = 0  BY RemainderOfLaps
<1>2. (LenMod * (-1) + (LenMod - 1)) % LenMod = LenMod - 1  BY RemainderOfLaps
<1>3. l # LenMod - 1 => (l + 1) % LenMod = l + 1  OBVIOUS
<1>4. l # 0 => (l - 1) % LenMod = l - 1  OBVIOUS
<1> QED
  BY <1>1, <1>2, <1>3, <1>4

LEMMA LenInit == Init => LenInv
<1> SUFFICES ASSUME Init PROVE LenInv
  OBVIOUS
<1>1. HandedOut = out /\ Popping = {} /\ Pushed = {}
  BY DEF Init, HandedOut, InHand, Popping, Pushed
<1>2. Cardinality(Linked) = len
  <2>1. CASE InitInPlace
    <3>1. Linked = 0 .. Capacity - 1 /\ len = Capacity
      BY <1>1, <2>1 DEF InitInPlace, Linked, Idx
    <3>2. Cardinality(0 .. Capacity - 1) = Capacity
      BY FS_Interval, CapacityAssumption
    <3> QED
      BY <3>1, <3>2
  <2>2. CASE InitEmptyInPlace
    <3>1. Linked = {} /\ len = 0
      BY <1>1, <2>2 DEF InitEmptyInPlace, Linked
    <3> QED
      BY <3>1, FS_EmptySet
  <2> QED
    BY <2>1, <2>2 DEF Init
<1>3. Due = LenMod * 0 + len
  BY <1>1, <1>2, FS_EmptySet, LenModAssumption, CapacityAssumption
  DEF Due, Init, InitInPlace, InitEmptyInPlace
<1> QED
  BY <1>3 DEF LenInv

(* The counter and what it is due move together.                           *)
LEMMA LenFollows ==
    ASSUME LenInv, TypeOK, NEW d \in {-1, 0, 1}, Due' = Due + d, len' = (len + d) % LenMod
    PROVE  LenInv'
<1> USE LenModAssumption
<1>1. PICK k \in Int : Due = LenMod * k + len
  BY DEF LenInv
<1>2. len \in 0 .. LenMod - 1 /\ LenMod * k \in Int
  BY DEF TypeOK
<1>3. LenMod * (k + 1) = LenMod * k + LenMod /\ LenMod * (k - 1) = LenMod * k - LenMod
  OBVIOUS
<1>4. (len + 0) % LenMod = len
  BY <1>2
<1>5. \/ Due' = LenMod * k + len'
      \/ Due' = LenMod * (k + 1) + len'
      \/ Due' = LenMod * (k - 1) + len'
  <2>1. CASE d = 0
    BY <1>1, <1>2, <1>4, <2>1
  <2>2. CASE d = 1
    <3>1. len' = IF len = LenMod - 1 THEN 0 ELSE len + 1
      BY <1>2, <2>2, CounterWraps
    <3> QED
      BY <1>1, <1>2, <1>3, <2>2, <3>1
  <2>3. CASE d = -1
    <3>1. len' = IF len = 0 THEN LenMod - 1 ELSE len - 1
      <4>1. len + d = len - 1
        BY <1>2, <2>3
      <4> QED
        BY <1>2, <4>1, CounterWraps
    <3> QED
      BY <1>1, <1>2, <1>3, <2>3, <3>1
  <2> QED
    BY <2>1, <2>2, <2>3
<1>6. k + 1 \in Int /\ k - 1 \in Int
  OBVIOUS
<1> QED
  BY <1>5, <1>6 DEF LenInv

LEMMA LenStep == IInv /\ LenInv /\ [Next]_vars => LenInv'
<1> SUFFICES ASSUME IInv, LenInv, [Next]_vars PROVE LenInv'
  OBVIOUS
<1>t. TypeOK /\ len \in 0 .. LenMod - 1 /\ len = (len + 0) % LenMod
  BY LenModAssumption DEF IInv, TypeOK
<1>f. /\ IsFiniteSet(Linked) /\ IsFiniteSet(Popping) /\ IsFiniteSet(Pushed)
      /\ Cardinality(Linked) \in Int /\ Cardinality(Popping) \in Int
      /\ Cardinality(Pushed) \in Int
  BY FiniteCounts
<1>s. ASSUME UNCHANGED <<len, HandedOut>>,
             \A q \in Procs : pc'[q] = pc[q] \/ {pc[q], pc'[q]} \cap {"a_dec", "r_inc"} = {}
      PROVE  LenInv'
  <2>1. Linked' = Linked /\ Popping' = Popping /\ Pushed' = Pushed
    BY <1>s DEF Linked, Popping, Pushed
  <2>2. Due' = Due + 0 /\ len' = (len + 0) % LenMod
    BY <1>s, <1>t, <1>f, <2>1 DEF Due
  <2> QED
    BY <1>t, <2>2, LenFollows
<1>1. CASE UNCHANGED vars
  BY <1>s, <1>1 DEF vars, HandedOut, InHand
<1>2. ASSUME NEW p \in Procs, CallAllocate(p) \/ CallRelease(p) \/ Step(p) PROVE LenInv'
  <2>1. CASE AllocateSwap(p)
    <3>1. pc[p] = "a_cas" /\ pc' = [pc EXCEPT ![p] = "a_dec"] /\ len' = len
      BY <2>1 DEF AllocateSwap, Goto
    <3>2. Popping' = Popping \cup {p} /\ p \notin Popping /\ Pushed' = Pushed
      BY <1>t, <3>1 DEF TypeOK, Popping, Pushed
    <3>3. Linked' = Linked \ {head.idx} /\ head.idx \in Linked
      BY <2>1, PopHandsOut DEF Linked, Idx
    <3>4. Due' = Due + 0
      <4>1. Cardinality(Popping') = Cardinality(Popping) + 1
        BY <1>f, <3>2, FS_AddElement
      <4>2. Cardinality(Linked') = Cardinality(Linked) - 1
        BY <1>f, <3>3, FS_RemoveElement
      <4> QED
        BY <1>f, <3>2, <4>1, <4>2 DEF Due
    <3> QED
      BY <1>t, <3>1, <3>4, LenFollows
  <2>2. CASE ReleaseSwap(p)
    <3>1. pc[p] = "r_cas" /\ pc' = [pc EXCEPT ![p] = "r_inc"] /\ len' = len
      BY <2>2 DEF ReleaseSwap, Goto
    <3>2. Pushed' = Pushed \cup {p} /\ p \notin Pushed /\ Popping' = Popping
      BY <1>t, <3>1 DEF TypeOK, Popping, Pushed
    <3>3. Linked' = Linked \cup {val[p]} /\ val[p] \notin Linked
      BY <2>2, PushTakesBack DEF Linked, Idx
    <3>4. Due' = Due + 0
      <4>1. Cardinality(Pushed') = Cardinality(Pushed) + 1
        BY <1>f, <3>2, FS_AddElement
      <4>2. Cardinality(Linked') = Cardinality(Linked) + 1
        BY <1>f, <3>3, FS_AddElement
      <4> QED
        BY <1>f, <3>2, <4>1, <4>2 DEF Due
    <3> QED
      BY <1>t, <3>1, <3>4, LenFollows
  <2>3. CASE AllocateCount(p)
    <3>1. pc[p] = "a_dec" /\ pc' = [pc EXCEPT ![p] = "idle"] /\ len' = (len + -1) % LenMod
      BY <1>t, <2>3, LenModAssumption DEF AllocateCount, Return, Goto
    <3>2. Popping' = Popping \ {p} /\ p \in Popping /\ Pushed' = Pushed /\ Linked' = Linked
      BY <1>t, <2>3, <3>1, HandoverKeepsPlaces DEF TypeOK, Popping, Pushed, Linked, Idx
    <3>3. Cardinality(Popping') = Cardinality(Popping) - 1
      BY <1>f, <3>2, FS_RemoveElement
    <3>4. Due' = Due + -1
      BY <1>f, <3>2, <3>3 DEF Due
    <3> QED
      BY <1>t, <3>1, <3>4, LenFollows
  <2>4. CASE ReleaseCount(p)
    <3>1. pc[p] = "r_inc" /\ pc' = [pc EXCEPT ![p] = "idle"] /\ len' = (len + 1) % LenMod
      BY <2>4 DEF ReleaseCount, Return, Goto
    <3>2. Pushed' = Pushed \ {p} /\ p \in Pushed /\ Popping' = Popping /\ Linked' = Linked
      BY <1>t, <2>4, <3>1, QuietStep DEF Quiet, TypeOK, Popping, Pushed, Linked, Idx
    <3>3. Cardinality(Pushed') = Cardinality(Pushed) - 1
      BY <1>f, <3>2, FS_RemoveElement
    <3>4. Due' = Due + 1
      BY <1>f, <3>2, <3>3 DEF Due
    <3> QED
      BY <1>t, <3>1, <3>4, LenFollows
  <2>5. CASE CallRelease(p) \/ ReleaseFull(p)
    <3>1. UNCHANGED len /\ \A q \in Procs : pc'[q] = pc[q] \/ {pc[q], pc'[q]} \cap {"a_dec", "r_inc"} = {}
      BY <1>t, <2>5 DEF TypeOK, CallRelease, ReleaseFull, Return, Goto
    <3> QED
      BY <1>s, <2>5, <3>1, HandoverKeepsPlaces
  <2>6. CASE ReleaseStoreNext(p)
    <3>1. UNCHANGED len /\ \A q \in Procs : pc'[q] = pc[q] \/ {pc[q], pc'[q]} \cap {"a_dec", "r_inc"} = {}
      BY <1>t, <2>6 DEF TypeOK, ReleaseStoreNext, Goto
    <3>2. HandedOut' = HandedOut
      BY <1>t, <2>6 DEF TypeOK, ReleaseStoreNext, Goto, HandedOut, InHand
    <3> QED
      BY <1>s, <3>1, <3>2
  <2>7. CASE Quiet(p) /\ ~ ReleaseCount(p)
    <3>1. UNCHANGED len /\ \A q \in Procs : pc'[q] = pc[q] \/ {pc[q], pc'[q]} \cap {"a_dec", "r_inc"} = {}
      BY <1>t, <2>7 DEF TypeOK, Quiet, CallAllocate, AllocateEmpty, AllocateLoadHead,
         AllocateLoadNext, ReleaseCheckLen, ReleaseLoadHead, LostRace, Return, Goto
    <3> QED
      BY <1>s, <2>7, <3>1, QuietStep
  <2> QED
    BY <1>2, <2>1, <2>2, <2>3, <2>4, <2>5, <2>6, <2>7 DEF Step, Quiet
<1> QED
  BY <1>1, <1>2 DEF Next

(* The length counter is off by the operations in flight and by nothing    *)
(* else, at every width: fetch_add and fetch_sub follow the exchanges of   *)
(* the head in whatever order, and may wrap below zero in between.         *)
THEOREM LengthAccounts == Spec => []LenAccounts
<1>1. IInv /\ LenInv => LenAccounts
  <2> SUFFICES ASSUME IInv, LenInv PROVE LenAccounts
    OBVIOUS
  <2>1. PICK k \in Int : Due = LenMod * k + len
    BY DEF LenInv
  <2>2. len \in 0 .. LenMod - 1
    BY DEF IInv, TypeOK
  <2>3. Due % LenMod = len
    BY <2>1, <2>2, RemainderOfLaps
  <2> QED
    BY <2>3 DEF LenAccounts, Due, Linked, Popping, Pushed
<1> QED
  BY <1>1, InitIInv, NextIInv, LenInit, LenStep, PTL DEF Spec

(* The lock-free words implement the plain set of free indices.            *)
THEOREM StackImplementsFreeList == Spec => ImplementsFreeList
<1>1. Init => FL!Init
  <2> SUFFICES ASSUME Init PROVE FL!Init
    OBVIOUS
  <2>1. HandedOut = out /\ \A p \in Procs : ~ InHand(p)
    BY DEF Init, HandedOut, InHand
  <2>2. Idx \ HandedOut \in {Idx, {}} /\ out = Idx \ (Idx \ HandedOut)
    BY <2>1 DEF Init, InitInPlace, InitEmptyInPlace
  <2> QED
    BY <2>1, <2>2 DEF FL!Init
<1>2. IInv /\ [Next]_vars => [FL!Next]_<<Idx \ HandedOut, Hand, out>>
  <2> SUFFICES ASSUME IInv, [Next]_vars,
                      ~ UNCHANGED <<HandedOut, Hand, out>>
               PROVE  FL!Next
    BY DEF Idx
  <2>1. ~ UNCHANGED vars
    BY DEF vars, HandedOut, Hand, InHand
  <2>2. PICK p \in Procs : CallAllocate(p) \/ CallRelease(p) \/ Step(p)
    BY <2>1 DEF Next
  <2> USE DEF Hand
  <2>3. ~ Quiet(p)
    BY QuietStep
  <2>4. CASE AllocateSwap(p)
    <3>1. Hand[p] = NONE /\ Hand' = [Hand EXCEPT ![p] = head.idx] /\ out' = out
      BY <2>4, PopHandsOut DEF AllocateSwap, IInv, TypeOK
    <3> QED
      BY <2>4, <3>1, PopHandsOut DEF FL!Next, FL!Allocate, Idx
  <2>5. CASE ReleaseSwap(p)
    <3>1. val[p] # NONE
      BY <2>5, PushTakesBack DEF Idx, NONE
    <3>2. Hand[p] = val[p] /\ Hand' = [Hand EXCEPT ![p] = NONE] /\ out' = out
      BY <2>5, PushTakesBack DEF ReleaseSwap
    <3> QED
      BY <2>5, <3>1, <3>2, PushTakesBack DEF FL!Next, FL!Release, Idx
  <2>6. CASE CallRelease(p)
    <3>1. PICK v \in out : val' = [val EXCEPT ![p] = v] /\ out' = out \ {v}
      BY <2>6 DEF CallRelease
    <3>2. ~ InHand(p) /\ \A q \in Procs : InHand(q)' <=> InHand(q) \/ q = p
      BY <2>6 DEF CallRelease, Goto, InHand, IInv, TypeOK
    <3>3. Hand[p] = NONE /\ Hand' = [Hand EXCEPT ![p] = v]
      BY <3>1, <3>2 DEF IInv, TypeOK
    <3> QED
      BY <2>6, <3>1, <3>3, HandoverKeepsPlaces DEF FL!Next, FL!Surrender
  <2>7. CASE ReleaseFull(p) \/ AllocateCount(p)
    <3>1. /\ InHand(p) /\ out' = out \cup {val[p]}
          /\ \A q \in Procs : InHand(q)' <=> InHand(q) /\ q # p
          /\ \A q \in Procs \ {p} : val'[q] = val[q]
      BY <2>7 DEF ReleaseFull, AllocateCount, Return, Goto, InHand, IInv, TypeOK
    <3>2. val[p] # NONE
      BY <3>1 DEF IInv, ExactlyOnePlace, Idx, NONE
    <3>3. Hand[p] = val[p] /\ Hand' = [Hand EXCEPT ![p] = NONE]
      BY <3>1
    <3> QED
      BY <2>7, <3>1, <3>2, <3>3, HandoverKeepsPlaces DEF FL!Next, FL!Deliver
  <2>8. CASE ReleaseStoreNext(p)
    BY <2>8 DEF ReleaseStoreNext, Goto, HandedOut, InHand, IInv, TypeOK
  <2> QED
    BY <2>2, <2>3, <2>4, <2>5, <2>6, <2>7, <2>8 DEF Step, Quiet
<1>3. Spec => []IInv
  BY InitIInv, NextIInv, PTL DEF Spec
<1> QED
  BY <1>1, <1>2, <1>3, PTL DEF Spec, ImplementsFreeList, FL!Spec, Hand

=============================================================================
