------------------------------ MODULE PagePool ------------------------------
(***************************************************************************)
(* The shared page pool of src/page/pool: per-page state words holding a   *)
(* generation and a lease state, a freelist, and shared gauges.            *)
(*                                                                         *)
(* The freelist is the lock-free stack seen through FreeList: its head     *)
(* exchanges are atomic here (TreiberStack implements FreeList), but its   *)
(* length counter still follows each exchange in a step of its own,        *)
(* because release() reads it.  A compare-exchange loop on a state word    *)
(* has no effect until the attempt that succeeds, and is one step.         *)
(***************************************************************************)
EXTENDS Integers, FiniteSets

CONSTANTS
    Procs,          \* processes attached to the region
    Pages,          \* page ids
    MaxGeneration,  \* MAX_GENERATION, 2^62 - 1 in the code
    LenMod          \* width of the freelist's length counter, 2^64 in the code

ASSUME PagesAssumption == IsFiniteSet(Pages) /\ Pages # {}
ASSUME MaxGenerationAssumption == MaxGeneration \in Nat \ {0}
ASSUME PoolLenModAssumption == LenMod \in Nat /\ LenMod > Cardinality(Pages)

PageCount == Cardinality(Pages)

LeaseState == {"Free", "Attached", "Detached", "Exhausted"}

(* PageDescriptor; pool_id is constant for the lifetime of a region.       *)
Descriptors == [page : Pages, gen : 0 .. MaxGeneration]

NoDesc == [page |-> "none", gen |-> 0]

VARIABLES
    word,       \* the state word of each page: generation and lease state
    free,       \* the freelist's members
    len,        \* the freelist's length counter
    leased,     \* metrics.leased_pages
    exhausted,  \* metrics.exhausted_pages
    watermark,  \* metrics.high_watermark_pages
    pc,         \* where each process is inside try_acquire() or a release
    desc,       \* the descriptor the operation works on
    expected,   \* release_with_state's expected_state
    observed,   \* try_acquire's local leased_pages
    leases,     \* the PageLease handles alive in each process
    issued,     \* descriptors into_descriptor() returned; they are Copy
    done        \* descriptors whose release has returned Ok

locals == <<pc, desc, expected, observed>>
gauges == <<leased, exhausted, watermark>>
handles == <<leases, issued, done>>
vars == <<word, free, len, gauges, locals, handles>>

Init ==
    /\ word = [i \in Pages |-> [gen |-> 0, st |-> "Free"]]
    /\ free = Pages
    /\ len = PageCount
    /\ leased = 0 /\ exhausted = 0 /\ watermark = 0
    /\ pc = [p \in Procs |-> "idle"]
    /\ desc = [p \in Procs |-> NoDesc]
    /\ expected = [p \in Procs |-> "Free"]
    /\ observed = [p \in Procs |-> 0]
    /\ leases = [p \in Procs |-> {}]
    /\ issued = {} /\ done = {}

-----------------------------------------------------------------------------
Goto(p, label) == pc' = [pc EXCEPT ![p] = label]

Return(p) ==
    /\ Goto(p, "idle")
    /\ desc' = [desc EXCEPT ![p] = NoDesc]
    /\ expected' = [expected EXCEPT ![p] = "Free"]
    /\ observed' = [observed EXCEPT ![p] = 0]

(* try_acquire(): the freelist reports Empty, or gives up a member.        *)
AcquireEmpty(p) ==
    /\ pc[p] = "idle"
    /\ free = {}
    /\ UNCHANGED vars

AcquirePop(p) ==
    /\ pc[p] = "idle"
    /\ \E i \in free :
          /\ free' = free \ {i}
          /\ desc' = [desc EXCEPT ![p] = [page |-> i, gen |-> 0]]
    /\ Goto(p, "acq_dec")
    /\ UNCHANGED <<word, len, gauges, expected, observed, handles>>

AcquireDecrement(p) ==
    /\ pc[p] = "acq_dec"
    /\ len' = (len - 1) % LenMod
    /\ Goto(p, "acq_cas")
    /\ UNCHANGED <<word, free, gauges, desc, expected, observed, handles>>

AcquireAttachKeepsGeneration(p) ==
    LET i == desc[p].page IN
    /\ pc[p] = "acq_cas"
    /\ word[i].st = "Free"
    /\ word' = [word EXCEPT ![i] = [gen |-> @.gen, st |-> "Attached"]]
    /\ desc' = [desc EXCEPT ![p].gen = word[i].gen]
    /\ Goto(p, "acq_count")
    /\ UNCHANGED <<free, len, gauges, expected, observed, handles>>

(* Free at generation g becomes Attached at generation g + 1.  A popped    *)
(* page that is not Free would be reported as CorruptState; the invariant  *)
(* FreePagesHaveOnePlace shows that it is not reached.                     *)
AcquireAttach(p) ==
    LET i == desc[p].page IN
    /\ pc[p] = "acq_cas"
    /\ word[i].st = "Free"
    /\ word' = [word EXCEPT ![i] = [gen |-> @.gen + 1, st |-> "Attached"]]
    /\ desc' = [desc EXCEPT ![p].gen = word[i].gen + 1]
    /\ Goto(p, "acq_count")
    /\ UNCHANGED <<free, len, gauges, expected, observed, handles>>

AcquireCount(p) ==
    /\ pc[p] = "acq_count"
    /\ leased' = leased + 1
    /\ observed' = [observed EXCEPT ![p] = leased + 1]
    /\ Goto(p, "acq_mark")
    /\ UNCHANGED <<word, free, len, exhausted, watermark, desc, expected, handles>>

(* observe_high_watermark(), then the lease is returned.                   *)
AcquireMark(p) ==
    /\ pc[p] = "acq_mark"
    /\ watermark' = IF observed[p] > watermark THEN observed[p] ELSE watermark
    /\ leases' = [leases EXCEPT ![p] = @ \cup {desc[p]}]
    /\ Return(p)
    /\ UNCHANGED <<word, free, len, leased, exhausted, issued, done>>

-----------------------------------------------------------------------------
(* PageLease::into_descriptor(): Attached becomes Detached, the lease is   *)
(* consumed and the descriptor may travel and be copied.                   *)
IntoDescriptor(p) ==
    /\ pc[p] = "idle"
    /\ \E d \in leases[p] :
          /\ word[d.page] = [gen |-> d.gen, st |-> "Attached"]
          /\ word' = [word EXCEPT ![d.page].st = "Detached"]
          /\ leases' = [leases EXCEPT ![p] = @ \ {d}]
          /\ issued' = issued \cup {d}
    /\ UNCHANGED <<free, len, gauges, locals, done>>

-----------------------------------------------------------------------------
BeginRelease(p, d, state) ==
    /\ pc[p] = "idle"
    /\ desc' = [desc EXCEPT ![p] = d]
    /\ expected' = [expected EXCEPT ![p] = state]
    /\ Goto(p, "rel_cas")
    /\ UNCHANGED <<word, free, len, gauges, observed>>

(* Drop of an attached lease: release_attached(), its result is ignored.   *)
DropLease(p) ==
    \E d \in leases[p] :
        /\ BeginRelease(p, d, "Attached")
        /\ leases' = [leases EXCEPT ![p] = @ \ {d}]
        /\ UNCHANGED <<issued, done>>

(* release(desc) by any process and with any copy, the snapshot that       *)
(* PageLease::descriptor() returns included.                               *)
CallRelease(p) ==
    \E d \in issued \cup UNION {leases[q] : q \in Procs} :
        /\ BeginRelease(p, d, "Detached")
        /\ UNCHANGED handles

(* StaleGeneration, LeaseStillAttached, NotLeased or Exhausted.            *)
ReleaseRejected(p) ==
    /\ pc[p] = "rel_cas"
    /\ word[desc[p].page] # [gen |-> desc[p].gen, st |-> expected[p]]
    /\ Return(p)
    /\ UNCHANGED <<word, free, len, gauges, handles>>

ReleaseToFreeAnyState(p) ==
    /\ pc[p] = "rel_cas"
    /\ word[desc[p].page].gen = desc[p].gen
    /\ word[desc[p].page].st \in {"Attached", "Detached"}
    /\ desc[p].gen # MaxGeneration
    /\ word' = [word EXCEPT ![desc[p].page].st = "Free"]
    /\ Goto(p, "rel_len")
    /\ UNCHANGED <<free, len, gauges, desc, expected, observed, handles>>

ReleaseToFree(p) ==
    /\ pc[p] = "rel_cas"
    /\ word[desc[p].page] = [gen |-> desc[p].gen, st |-> expected[p]]
    /\ desc[p].gen # MaxGeneration
    /\ word' = [word EXCEPT ![desc[p].page].st = "Free"]
    /\ Goto(p, "rel_len")
    /\ UNCHANGED <<free, len, gauges, desc, expected, observed, handles>>

(* At the last generation the page is retired instead.                     *)
ReleaseToExhausted(p) ==
    /\ pc[p] = "rel_cas"
    /\ word[desc[p].page] = [gen |-> desc[p].gen, st |-> expected[p]]
    /\ desc[p].gen = MaxGeneration
    /\ word' = [word EXCEPT ![desc[p].page].st = "Exhausted"]
    /\ Goto(p, "rel_retire")
    /\ UNCHANGED <<free, len, gauges, desc, expected, observed, handles>>

(* The freelist's room check: the push goes on, or it is refused as Full.  *)
ReleaseLen(p) ==
    /\ pc[p] = "rel_len"
    /\ Goto(p, IF len < PageCount THEN "rel_push" ELSE "rel_revert")
    /\ UNCHANGED <<word, free, len, gauges, desc, expected, observed, handles>>

ReleasePush(p) ==
    /\ pc[p] = "rel_push"
    /\ free' = free \cup {desc[p].page}
    /\ Goto(p, "rel_inc")
    /\ UNCHANGED <<word, len, gauges, desc, expected, observed, handles>>

ReleaseIncrement(p) ==
    /\ pc[p] = "rel_inc"
    /\ len' = (len + 1) % LenMod
    /\ Goto(p, "rel_count")
    /\ UNCHANGED <<word, free, gauges, desc, expected, observed, handles>>

ReleaseRetire(p) ==
    /\ pc[p] = "rel_retire"
    /\ exhausted' = exhausted + 1
    /\ Goto(p, "rel_count")
    /\ UNCHANGED <<word, free, len, leased, watermark, desc, expected, observed, handles>>

ReleaseCount(p) ==
    /\ pc[p] = "rel_count"
    /\ leased' = leased - 1
    /\ done' = done \cup {desc[p]}
    /\ Return(p)
    /\ UNCHANGED <<word, free, len, exhausted, watermark, leases, issued>>

(* Full: the word is put back as it was and CorruptFreeList is returned.   *)
ReleaseRevert(p) ==
    LET i == desc[p].page IN
    /\ pc[p] = "rel_revert"
    /\ word' = IF word[i] = [gen |-> desc[p].gen, st |-> "Free"]
                 THEN [word EXCEPT ![i].st = expected[p]]
                 ELSE word
    /\ Return(p)
    /\ UNCHANGED <<free, len, gauges, handles>>

-----------------------------------------------------------------------------
Next ==
    \E p \in Procs :
        \/ AcquireEmpty(p) \/ AcquirePop(p) \/ AcquireDecrement(p) \/ AcquireAttach(p)
        \/ AcquireCount(p) \/ AcquireMark(p)
        \/ IntoDescriptor(p) \/ DropLease(p) \/ CallRelease(p)
        \/ ReleaseRejected(p) \/ ReleaseToFree(p) \/ ReleaseToExhausted(p)
        \/ ReleaseLen(p) \/ ReleasePush(p) \/ ReleaseIncrement(p)
        \/ ReleaseRetire(p) \/ ReleaseCount(p) \/ ReleaseRevert(p)

Spec == Init /\ [][Next]_vars

-----------------------------------------------------------------------------
Labels == {"idle", "acq_dec", "acq_cas", "acq_count", "acq_mark", "rel_cas",
           "rel_len", "rel_push", "rel_inc", "rel_count", "rel_retire", "rel_revert"}

PoolTypes ==
    /\ word \in [Pages -> [gen : 0 .. MaxGeneration, st : LeaseState]]
    /\ free \subseteq Pages
    /\ pc \in [Procs -> Labels]
    /\ desc \in [Procs -> Descriptors \cup {NoDesc}]
    /\ expected \in [Procs -> LeaseState]
    /\ leases \in [Procs -> SUBSET Descriptors]
    /\ issued \subseteq Descriptors /\ done \subseteq Descriptors

TypeOK ==
    /\ PoolTypes
    /\ len \in 0 .. LenMod - 1
    /\ leased \in Nat /\ exhausted \in Nat /\ watermark \in Nat
    /\ observed \in [Procs -> Nat]

(* p has taken its page out of the freelist, or has not put it back yet.   *)
Popped(p) == pc[p] \in {"acq_dec", "acq_cas"}
Freeing(p) == pc[p] \in {"rel_len", "rel_push", "rel_revert"}
InTransit(p) == Popped(p) \/ Freeing(p)

(* A page that reads Free is in the freelist or in the hands of exactly    *)
(* one operation, and a page in the freelist reads Free: try_acquire never *)
(* pops a page somebody still owns (its CorruptState), whatever copies of  *)
(* descriptors are released, twice or late, while the pool is in use.      *)
FreePagesHaveOnePlace ==
    /\ \A i \in free : word[i].st = "Free" /\ word[i].gen < MaxGeneration
    /\ \A p \in Procs : InTransit(p) =>
          /\ desc[p].page \notin free
          /\ word[desc[p].page].st = "Free"
          /\ word[desc[p].page].gen < MaxGeneration
          /\ \A q \in Procs : InTransit(q) /\ desc[q].page = desc[p].page => q = p
          /\ Freeing(p) => desc[p].gen = word[desc[p].page].gen
    /\ \A i \in Pages : word[i].st = "Free" =>
          i \in free \/ \E p \in Procs : InTransit(p) /\ desc[p].page = i

(* A lease handle being handed out by try_acquire, owned, or being dropped *)
(* by release_attached.                                                    *)
HeldLeases(p) ==
    leases[p] \cup {d \in {desc[p]} :
                      \/ pc[p] \in {"acq_count", "acq_mark"}
                      \/ pc[p] = "rel_cas" /\ expected[p] = "Attached"}

(* An attached lease gives its process the page's bytes without further    *)
(* checks, so it must be the only owner: the word carries its generation   *)
(* and no other process has a lease on the page.  And a released           *)
(* descriptor is dead for ever: no copy of it reads or frees the page      *)
(* again, even after the page has been leased to somebody else.            *)
OwnershipIsExclusive ==
    /\ \A p \in Procs : \A d \in HeldLeases(p) :
          /\ word[d.page] = [gen |-> d.gen, st |-> "Attached"]
          /\ \A q \in Procs : d \in HeldLeases(q) => q = p
    /\ \A d \in done :
          ~ (word[d.page].gen = d.gen /\ word[d.page].st \in {"Attached", "Detached"})

(* What an operation knows while it runs: which descriptor it works on,    *)
(* what state it expects, and that a lease being dropped is out of reach.  *)
OperationsHaveTheirPage ==
    \A p \in Procs :
        /\ pc[p] # "idle" => desc[p] \in Descriptors
        /\ Freeing(p) \/ pc[p] = "rel_cas" => expected[p] \in {"Attached", "Detached"}
        /\ pc[p] = "rel_cas" /\ expected[p] = "Attached" => desc[p] \notin leases[p]

(* A descriptor whose release can no longer be refused: from here on its   *)
(* generation of the page is over.                                         *)
Spent(d) ==
    \/ d \in done
    \/ \E p \in Procs : pc[p] \in {"rel_inc", "rel_retire", "rel_count"} /\ desc[p] = d

SpentStaysDead ==
    \A d \in Descriptors : Spent(d) =>
        /\ d.gen <= word[d.page].gen
        /\ ~ (word[d.page].gen = d.gen /\ word[d.page].st \in {"Attached", "Detached"})
        /\ \A p \in Procs : Freeing(p) => desc[p] # d

(* The inductive invariant: ownership and free pages with what the         *)
(* operations in flight add to them.                                       *)
PoolInv ==
    /\ PoolTypes /\ OperationsHaveTheirPage /\ SpentStaysDead
    /\ FreePagesHaveOnePlace /\ OwnershipIsExclusive

(* The state a client may rely on: a page on its way back to the freelist  *)
(* is still owned, because a refused push gives it back to its owner.      *)
AbstractState(i) ==
    IF \E p \in Procs : Freeing(p) /\ desc[p].page = i
      THEN expected[CHOOSE p \in Procs : Freeing(p) /\ desc[p].page = i]
      ELSE word[i].st

(* The gauges count leases and retirements exactly, up to the operations   *)
(* between their exchange of the word and their update of the gauge.  The  *)
(* watermark may therefore count a page twice for every other process.     *)
GaugesAccount ==
    /\ leased = Cardinality({i \in Pages : AbstractState(i) \in {"Attached", "Detached"}})
                 - Cardinality({p \in Procs : pc[p] = "acq_count"})
                 + Cardinality({p \in Procs : pc[p] \in {"rel_inc", "rel_retire", "rel_count"}})
    /\ exhausted = Cardinality({i \in Pages : word[i].st = "Exhausted"})
                 - Cardinality({p \in Procs : pc[p] = "rel_retire"})
    /\ watermark <= PageCount + Cardinality(Procs) - 1

(* The multi-step operations implement atomic page ownership.              *)
PO == INSTANCE PageOwnership WITH
          gen <- [i \in Pages |-> word[i].gen],
          st <- [i \in Pages |-> AbstractState(i)]

ImplementsOwnership == PO!Spec
=============================================================================
