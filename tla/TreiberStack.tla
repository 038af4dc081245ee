---------------------------- MODULE TreiberStack ----------------------------
(***************************************************************************)
(* The lock-free freelist of src/lockfree/src/lib.rs: a Treiber stack of   *)
(* indices over shared atomics, used by the page pool, by the issuance     *)
(* permit pool and by the control transport's slot freelist.               *)
(*                                                                         *)
(* Every atomic access of allocate() and release() is a step of its own,   *)
(* so the model has the interleavings the shared words really see: the     *)
(* head is loaded, a link is read or written, the head is exchanged, and   *)
(* the length counter follows in a separate instruction.                   *)
(***************************************************************************)
EXTENDS Integers, FiniteSets, Functions

CONSTANTS
    Procs,     \* the backends, workers and threads that share the stack
    Capacity,  \* header.capacity
    TagMod,    \* number of values of the head's ABA tag (2^32 in the code)
    LenMod     \* number of values of the length counter (2^64 in the code)

ASSUME ProcsAssumption == IsFiniteSet(Procs)
ASSUME CapacityAssumption == Capacity \in Nat \ {0}
ASSUME TagModAssumption == TagMod \in Nat /\ TagMod > 1
ASSUME LenModAssumption == LenMod \in Nat /\ LenMod > Capacity

NONE == -1

Idx == 0 .. Capacity - 1

Tags == 0 .. TagMod - 1

Heads == [idx : Idx \cup {NONE}, tag : Tags]

VARIABLES
    head,  \* the packed head word: top index and tag
    next,  \* the shared next array
    len,   \* the shared length counter
    pc,    \* where each process is inside allocate() or release()
    cur,   \* the head word each process loaded last
    nxt,   \* the link allocate() loaded for cur.idx
    val,   \* the index release() pushes, or the one allocate() just won
    out    \* the indices that are handed out: some client owns them

vars == <<head, next, len, pc, cur, nxt, val, out>>

Labels == {"idle", "a_load", "a_next", "a_cas", "a_dec",
           "r_check", "r_load", "r_link", "r_cas", "r_inc"}

-----------------------------------------------------------------------------
(* Initialization: init_in_place links every index, init_empty_in_place    *)
(* leaves the stack empty and the indices with whoever will push them.     *)

InitInPlace ==
    /\ head = [idx |-> Capacity - 1, tag |-> 0]
    /\ next = [i \in Idx |-> IF i = 0 THEN NONE ELSE i - 1]
    /\ len = Capacity
    /\ out = {}

InitEmptyInPlace ==
    /\ head = [idx |-> NONE, tag |-> 0]
    /\ next = [i \in Idx |-> NONE]
    /\ len = 0
    /\ out = Idx

Unloaded == [idx |-> NONE, tag |-> 0]

Init ==
    /\ InitInPlace \/ InitEmptyInPlace
    /\ pc = [p \in Procs |-> "idle"]
    /\ cur = [p \in Procs |-> Unloaded]
    /\ nxt = [p \in Procs |-> NONE]
    /\ val = [p \in Procs |-> NONE]

-----------------------------------------------------------------------------
Goto(p, label) == pc' = [pc EXCEPT ![p] = label]

(* The operation returns: its locals go out of scope.                      *)
Return(p) ==
    /\ Goto(p, "idle")
    /\ cur' = [cur EXCEPT ![p] = Unloaded]
    /\ nxt' = [nxt EXCEPT ![p] = NONE]
    /\ val' = [val EXCEPT ![p] = NONE]

BumpTagNever(tag) == tag

(* tag.wrapping_add(1) *)
BumpTag(tag) == IF tag = TagMod - 1 THEN 0 ELSE tag + 1

(* A process that holds a loaded head word and may still exchange it.      *)
HoldsHead(p) == pc[p] \in {"a_next", "a_cas", "r_link", "r_cas"}

(* Bound: while an operation holds a loaded head word, the tag does not    *)
(* travel all the way round to the loaded value again (2^32 exchanges      *)
(* between two instructions of one operation).                             *)
NoTagLap(p) ==
    \A q \in Procs \ {p} :
        HoldsHead(q) /\ cur[q].tag # head.tag => cur[q].tag # BumpTag(head.tag)

(* head.compare_exchange(cur, (idx, tag + 1)): the exchange that succeeds. *)
SwapHead(p, idx) ==
    /\ head = cur[p]
    /\ NoTagLap(p)
    /\ head' = [idx |-> idx, tag |-> BumpTag(cur[p].tag)]

LostRaceKeepsHead(p, from, back) ==
    /\ pc[p] = from
    /\ head # cur[p]
    /\ UNCHANGED vars

(* The exchange that fails and sends the operation back to its load.       *)
LostRace(p, from, back) ==
    /\ pc[p] = from
    /\ head # cur[p]
    /\ Goto(p, back)
    /\ UNCHANGED <<head, next, len, cur, nxt, val, out>>

-----------------------------------------------------------------------------
(* allocate()                                                              *)

CallAllocate(p) ==
    /\ pc[p] = "idle"
    /\ Goto(p, "a_load")
    /\ UNCHANGED <<head, next, len, cur, nxt, val, out>>

(* An empty stack returns StackError::Empty.                               *)
AllocateEmpty(p) ==
    /\ pc[p] = "a_load"
    /\ head.idx = NONE
    /\ Return(p)
    /\ UNCHANGED <<head, next, len, out>>

AllocateLoadHead(p) ==
    /\ pc[p] = "a_load"
    /\ head.idx # NONE
    /\ cur' = [cur EXCEPT ![p] = head]
    /\ Goto(p, "a_next")
    /\ UNCHANGED <<head, next, len, nxt, val, out>>

(* The relaxed load of the top's link, possibly already stale.             *)
AllocateLoadNext(p) ==
    /\ pc[p] = "a_next"
    /\ nxt' = [nxt EXCEPT ![p] = next[cur[p].idx]]
    /\ Goto(p, "a_cas")
    /\ UNCHANGED <<head, next, len, cur, val, out>>

AllocateSwapUnchecked(p) ==
    /\ pc[p] = "a_cas"
    /\ head' = [idx |-> nxt[p], tag |-> BumpTag(cur[p].tag)]
    /\ val' = [val EXCEPT ![p] = cur[p].idx]
    /\ Goto(p, "a_dec")
    /\ UNCHANGED <<next, len, cur, nxt, out>>

AllocateSwap(p) ==
    /\ pc[p] = "a_cas"
    /\ SwapHead(p, nxt[p])
    /\ val' = [val EXCEPT ![p] = cur[p].idx]
    /\ Goto(p, "a_dec")
    /\ UNCHANGED <<next, len, cur, nxt, out>>

AllocateCountNever(p) ==
    /\ pc[p] = "a_dec"
    /\ out' = out \cup {val[p]}
    /\ Return(p)
    /\ UNCHANGED <<head, next, len>>

(* len.fetch_sub(1), wrapping, and the return of the index.                *)
AllocateCount(p) ==
    /\ pc[p] = "a_dec"
    /\ len' = (len - 1) % LenMod
    /\ out' = out \cup {val[p]}
    /\ Return(p)
    /\ UNCHANGED <<head, next>>

-----------------------------------------------------------------------------
(* release(val)                                                            *)

(* An owner gives its index to release(): any process may do so, because   *)
(* ownership travels between processes with page and slot descriptors.     *)
CallRelease(p) ==
    /\ pc[p] = "idle"
    /\ \E v \in out :
          /\ val' = [val EXCEPT ![p] = v]
          /\ out' = out \ {v}
    /\ Goto(p, "r_check")
    /\ UNCHANGED <<head, next, len, cur, nxt>>

(* len.load() < capacity: the push may go on.                              *)
ReleaseCheckLen(p) ==
    /\ pc[p] = "r_check"
    /\ len < Capacity
    /\ Goto(p, "r_load")
    /\ UNCHANGED <<head, next, len, cur, nxt, val, out>>

(* len.load() >= capacity: release() returns StackError::Full and the      *)
(* index stays with its owner.                                             *)
ReleaseFull(p) ==
    /\ pc[p] = "r_check"
    /\ len >= Capacity
    /\ out' = out \cup {val[p]}
    /\ Return(p)
    /\ UNCHANGED <<head, next, len>>

ReleaseLoadHead(p) ==
    /\ pc[p] = "r_load"
    /\ cur' = [cur EXCEPT ![p] = head]
    /\ Goto(p, "r_link")
    /\ UNCHANGED <<head, next, len, nxt, val, out>>

ReleaseStoreNextDropsTail(p) ==
    /\ pc[p] = "r_link"
    /\ next' = [next EXCEPT ![val[p]] = NONE]
    /\ Goto(p, "r_cas")
    /\ UNCHANGED <<head, len, cur, nxt, val, out>>

ReleaseStoreNext(p) ==
    /\ pc[p] = "r_link"
    /\ next' = [next EXCEPT ![val[p]] = cur[p].idx]
    /\ Goto(p, "r_cas")
    /\ UNCHANGED <<head, len, cur, nxt, val, out>>

ReleaseSwap(p) ==
    /\ pc[p] = "r_cas"
    /\ SwapHead(p, val[p])
    /\ Goto(p, "r_inc")
    /\ UNCHANGED <<next, len, cur, nxt, val, out>>

(* len.fetch_add(1), wrapping.                                             *)
ReleaseCount(p) ==
    /\ pc[p] = "r_inc"
    /\ len' = (len + 1) % LenMod
    /\ Return(p)
    /\ UNCHANGED <<head, next, out>>

-----------------------------------------------------------------------------
Step(p) ==
    \/ AllocateEmpty(p) \/ AllocateLoadHead(p) \/ AllocateLoadNext(p)
    \/ AllocateSwap(p) \/ LostRace(p, "a_cas", "a_load") \/ AllocateCount(p)
    \/ ReleaseCheckLen(p) \/ ReleaseFull(p)
    \/ ReleaseLoadHead(p) \/ ReleaseStoreNext(p)
    \/ ReleaseSwap(p) \/ LostRace(p, "r_cas", "r_load") \/ ReleaseCount(p)

Next == \E p \in Procs : CallAllocate(p) \/ CallRelease(p) \/ Step(p)

Spec == Init /\ [][Next]_vars

(* A process that has entered an operation is not descheduled for ever;    *)
(* nothing obliges a process to start one.                                 *)
FairSpec == Spec /\ \A p \in Procs : WF_vars(Step(p))

-----------------------------------------------------------------------------
TypeOK ==
    /\ head \in Heads
    /\ next \in [Idx -> Idx \cup {NONE}]
    /\ len \in 0 .. LenMod - 1
    /\ pc \in [Procs -> Labels]
    /\ cur \in [Procs -> Heads]
    /\ nxt \in [Procs -> Idx \cup {NONE}]
    /\ val \in [Procs -> Idx \cup {NONE}]
    /\ out \in SUBSET Idx

-----------------------------------------------------------------------------
(* What the shared words mean.                                             *)

(* s is what a walk from head along next finds: distinct indices, linked   *)
(* from the top down and ended by NONE.                                    *)
Represents(s, n) ==
    /\ s \in [1 .. n -> Idx]
    /\ \A j, k \in 1 .. n : s[j] = s[k] => j = k
    /\ head.idx = IF n = 0 THEN NONE ELSE s[n]
    /\ \A k \in 1 .. n : next[s[k]] = IF k = 1 THEN NONE ELSE s[k - 1]

(* p owns val[p]: it has won it and not returned it, or not yet pushed it. *)
InHand(p) == pc[p] \in {"a_dec", "r_check", "r_load", "r_link", "r_cas"}

HandedOut == out \cup {val[p] : p \in {q \in Procs : InHand(q)}}

(* Each index is in exactly one place: linked in the stack, with a client, *)
(* or in the hands of one operation.  This is what keeps a page, permit or *)
(* slot from having two owners and from being lost, and it is what the ABA *)
(* tag of allocate() and release() is for.                                 *)
ExactlyOnePlace ==
    /\ \E n \in 0 .. Capacity : \E s \in [1 .. n -> Idx] :
          /\ Represents(s, n)
          /\ Range(s) = Idx \ HandedOut
    /\ \A p \in Procs : InHand(p) => val[p] \in Idx \ out
    /\ \A p, q \in Procs : InHand(p) /\ InHand(q) /\ val[p] = val[q] => p = q

(* The tag does its work: an operation whose loaded word carries the       *)
(* current tag has loaded the current head, the link it read is still the  *)
(* link of the top, and a node about to be pushed is linked to the head it *)
(* will be exchanged with.                                                 *)
LoadedIsFresh ==
    \A p \in Procs :
        /\ pc[p] \in {"a_next", "a_cas"} => cur[p].idx \in Idx
        /\ HoldsHead(p) /\ cur[p].tag = head.tag => cur[p] = head
        /\ pc[p] = "a_cas" /\ cur[p] = head => nxt[p] = next[head.idx]
        /\ pc[p] = "r_cas" => next[val[p]] = cur[p].idx

(* The three together are inductive: the partition of the indices needs    *)
(* the freshness of what the operations in flight have loaded.             *)
IInv == TypeOK /\ ExactlyOnePlace /\ LoadedIsFresh

(* The length counter trails the exchanges of the head by exactly the      *)
(* operations between their exchange and their fetch_add or fetch_sub, so  *)
(* it is exact whenever no operation is in flight.                         *)
LenAccounts ==
    len = (Cardinality(Idx \ HandedOut)
             + Cardinality({p \in Procs : pc[p] = "a_dec"})
             - Cardinality({p \in Procs : pc[p] = "r_inc"})) % LenMod

(* allocate() reports Empty only at a moment when no index is free.        *)
EmptyIsTrue ==
    [][\A p \in Procs : pc[p] = "a_load" /\ pc'[p] = "idle" => HandedOut = Idx]_vars

(* The steps of the shared words are steps of the plain set of free        *)
(* indices: every successful allocate() takes a free index for its caller, *)
(* every successful release() frees the index its caller owned.            *)
FL == INSTANCE FreeList WITH
          Indices <- Idx, Callers <- Procs, Nothing <- NONE,
          free <- Idx \ HandedOut,
          hand <- [p \in Procs |-> IF InHand(p) THEN val[p] ELSE NONE]

ImplementsFreeList == FL!Spec

(* allocate() and release() are lock-free: an operation returns unless     *)
(* others keep winning the head it is after.                               *)
LockFree ==
    \A p \in Procs :
        pc[p] # "idle"
            ~> (pc[p] = "idle" \/ \E q \in Procs : pc[q] \in {"a_dec", "r_inc"})

=============================================================================
