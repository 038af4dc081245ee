--------------------------- MODULE PagePool_proof ---------------------------
(***************************************************************************)
(* Proofs about the page pool, for every set of processes and of pages and *)
(* every largest generation: each page has one place and one owner, and    *)
(* the pool implements PageOwnership.                                      *)
(***************************************************************************)
EXTENDS PagePool, TLAPS

(* The pool that PagePool::init_in_place leaves. *)
LEMMA InitPool == Init => PoolInv
BY MaxGenerationAssumption
   DEF Init, PoolInv, PoolTypes, LeaseState, Labels, NoDesc, Descriptors, OperationsHaveTheirPage,
       SpentStaysDead, Spent, FreePagesHaveOnePlace, OwnershipIsExclusive, HeldLeases, Popped,
       Freeing, InTransit

(* An acquisition that finds the freelist empty changes nothing. *)
LEMMA AcquireEmptyKeeps ==
    ASSUME PoolInv, NEW p \in Procs, AcquireEmpty(p)
    PROVE  PoolInv'
<1>1. PoolTypes'
  BY DEF PoolInv, AcquireEmpty, vars, locals, handles, PoolTypes
<1>2. OperationsHaveTheirPage'
  BY DEF PoolInv, AcquireEmpty, vars, locals, handles, Freeing, OperationsHaveTheirPage
<1>3. SpentStaysDead'
  BY DEF PoolInv, AcquireEmpty, vars, locals, handles, Spent, Freeing, SpentStaysDead
<1>4. FreePagesHaveOnePlace'
  BY DEF PoolInv, AcquireEmpty, vars, locals, Popped, Freeing, InTransit,
       FreePagesHaveOnePlace
<1>5. OwnershipIsExclusive'
  BY DEF PoolInv, AcquireEmpty, vars, locals, handles, HeldLeases, OwnershipIsExclusive
<1> QED
  BY <1>1, <1>2, <1>3, <1>4, <1>5 DEF PoolInv

(* A popped page is on nobody else's way: no other process has it in transit. *)
LEMMA AcquirePopKeeps ==
    ASSUME PoolInv, NEW p \in Procs, AcquirePop(p)
    PROVE  PoolInv'
<1>1. PoolTypes'
  BY MaxGenerationAssumption DEF PoolInv, AcquirePop, handles, Goto, Labels, Descriptors,
       PoolTypes
<1>2. OperationsHaveTheirPage'
  BY MaxGenerationAssumption DEF PoolInv, AcquirePop, handles, Goto, Freeing, Descriptors,
       PoolTypes, OperationsHaveTheirPage
<1>3. SpentStaysDead'
  BY DEF PoolInv, AcquirePop, handles, Goto, Spent, Freeing, SpentStaysDead
<1>4. FreePagesHaveOnePlace'
  BY DEF PoolInv, AcquirePop, Goto, Popped, Freeing, InTransit, PoolTypes,
       FreePagesHaveOnePlace
<1>5. OwnershipIsExclusive'
  BY DEF PoolInv, AcquirePop, handles, Goto, HeldLeases, OwnershipIsExclusive
<1> QED
  BY <1>1, <1>2, <1>3, <1>4, <1>5 DEF PoolInv

(* The length counter is no page's place. *)
LEMMA AcquireDecrementKeeps ==
    ASSUME PoolInv, NEW p \in Procs, AcquireDecrement(p)
    PROVE  PoolInv'
<1>1. PoolTypes'
  BY DEF PoolInv, AcquireDecrement, handles, Goto, Labels, PoolTypes
<1>2. OperationsHaveTheirPage'
  BY DEF PoolInv, AcquireDecrement, handles, Goto, Freeing, OperationsHaveTheirPage
<1>3. SpentStaysDead'
  BY DEF PoolInv, AcquireDecrement, handles, Goto, Spent, Freeing, SpentStaysDead
<1>4. FreePagesHaveOnePlace'
  BY DEF PoolInv, AcquireDecrement, Goto, Popped, Freeing, InTransit, FreePagesHaveOnePlace
<1>5. OwnershipIsExclusive'
  BY DEF PoolInv, AcquireDecrement, handles, Goto, HeldLeases, OwnershipIsExclusive
<1> QED
  BY <1>1, <1>2, <1>3, <1>4, <1>5 DEF PoolInv

(* The exchange of the word opens the next generation, which no descriptor names
   yet: the new lease is the only one of its generation. *)
LEMMA AcquireAttachKeeps ==
    ASSUME PoolInv, NEW p \in Procs, AcquireAttach(p)
    PROVE  PoolInv'
<1>1. PoolTypes'
  BY MaxGenerationAssumption DEF PoolInv, AcquireAttach, handles, Goto, LeaseState, Labels,
       Freeing, InTransit, Descriptors, PoolTypes, OperationsHaveTheirPage,
       FreePagesHaveOnePlace
<1>2. OperationsHaveTheirPage'
  BY MaxGenerationAssumption DEF PoolInv, AcquireAttach, handles, Goto, Freeing,
       Descriptors, PoolTypes, OperationsHaveTheirPage, FreePagesHaveOnePlace
<1>3. SpentStaysDead'
  BY DEF PoolInv, AcquireAttach, handles, Goto, Spent, Freeing, Descriptors, PoolTypes,
       SpentStaysDead
<1>4. FreePagesHaveOnePlace'
  BY DEF PoolInv, AcquireAttach, Goto, Popped, Freeing, InTransit, PoolTypes,
       FreePagesHaveOnePlace
<1>5. OwnershipIsExclusive'
  BY DEF PoolInv, AcquireAttach, handles, Goto, HeldLeases, Spent, Descriptors, PoolTypes,
       OperationsHaveTheirPage, SpentStaysDead, OwnershipIsExclusive
<1> QED
  BY <1>1, <1>2, <1>3, <1>4, <1>5 DEF PoolInv

(* The gauge of leased pages is no page's place. *)
LEMMA AcquireCountKeeps ==
    ASSUME PoolInv, NEW p \in Procs, AcquireCount(p)
    PROVE  PoolInv'
<1>1. PoolTypes'
  BY DEF PoolInv, AcquireCount, handles, Goto, Labels, PoolTypes
<1>2. OperationsHaveTheirPage'
  BY DEF PoolInv, AcquireCount, handles, Goto, Freeing, OperationsHaveTheirPage
<1>3. SpentStaysDead'
  BY DEF PoolInv, AcquireCount, handles, Goto, Spent, Freeing, SpentStaysDead
<1>4. FreePagesHaveOnePlace'
  BY DEF PoolInv, AcquireCount, Goto, Popped, Freeing, InTransit, FreePagesHaveOnePlace
<1>5. OwnershipIsExclusive'
  BY DEF PoolInv, AcquireCount, handles, Goto, HeldLeases, OwnershipIsExclusive
<1> QED
  BY <1>1, <1>2, <1>3, <1>4, <1>5 DEF PoolInv

(* The watermark is no page's place. *)
LEMMA AcquireMarkKeeps ==
    ASSUME PoolInv, NEW p \in Procs, AcquireMark(p)
    PROVE  PoolInv'
<1>1. PoolTypes'
  BY DEF PoolInv, AcquireMark, Goto, Return, LeaseState, Labels, PoolTypes,
       OperationsHaveTheirPage
<1>2. OperationsHaveTheirPage'
  BY DEF PoolInv, AcquireMark, Goto, Return, Freeing, PoolTypes, OperationsHaveTheirPage
<1>3. SpentStaysDead'
  BY DEF PoolInv, AcquireMark, Goto, Return, Spent, Freeing, SpentStaysDead
<1>4. FreePagesHaveOnePlace'
  BY MaxGenerationAssumption DEF PoolInv, AcquireMark, Goto, Return, Popped, Freeing,
       InTransit, FreePagesHaveOnePlace
<1>5. OwnershipIsExclusive'
  BY DEF PoolInv, AcquireMark, Goto, Return, HeldLeases, PoolTypes, OwnershipIsExclusive
<1> QED
  BY <1>1, <1>2, <1>3, <1>4, <1>5 DEF PoolInv

(* A lease that becomes a detached descriptor keeps its generation; it is issued
   once. *)
LEMMA IntoDescriptorKeeps ==
    ASSUME PoolInv, NEW p \in Procs, IntoDescriptor(p)
    PROVE  PoolInv'
<1>1. PoolTypes'
  BY DEF PoolInv, IntoDescriptor, locals, LeaseState, Descriptors, PoolTypes
<1>2. OperationsHaveTheirPage'
  BY DEF PoolInv, IntoDescriptor, locals, Freeing, OperationsHaveTheirPage
<1>3. SpentStaysDead'
  BY DEF PoolInv, IntoDescriptor, locals, Spent, Freeing, SpentStaysDead
<1>4. FreePagesHaveOnePlace'
  BY DEF PoolInv, IntoDescriptor, locals, Popped, Freeing, InTransit, FreePagesHaveOnePlace
<1>5. OwnershipIsExclusive'
  BY MaxGenerationAssumption DEF PoolInv, IntoDescriptor, locals, NoDesc, HeldLeases,
       Popped, Descriptors, PoolTypes, OwnershipIsExclusive
<1> QED
  BY <1>1, <1>2, <1>3, <1>4, <1>5 DEF PoolInv

(* Dropping a lease begins its release. *)
LEMMA DropLeaseKeeps ==
    ASSUME PoolInv, NEW p \in Procs, DropLease(p)
    PROVE  PoolInv'
<1>1. PoolTypes'
  BY DEF PoolInv, DropLease, Goto, BeginRelease, LeaseState, Labels, PoolTypes
<1>2. OperationsHaveTheirPage'
  BY DEF PoolInv, DropLease, Goto, BeginRelease, Freeing, PoolTypes, OperationsHaveTheirPage
<1>3. SpentStaysDead'
  BY DEF PoolInv, DropLease, Goto, BeginRelease, Spent, Freeing, SpentStaysDead
<1>4. FreePagesHaveOnePlace'
  BY MaxGenerationAssumption DEF PoolInv, DropLease, gauges, Goto, BeginRelease, LeaseState,
       Labels, HeldLeases, Popped, Freeing, InTransit, FreePagesHaveOnePlace
<1>5. OwnershipIsExclusive'
  BY DEF PoolInv, DropLease, Goto, BeginRelease, HeldLeases, PoolTypes, OwnershipIsExclusive
<1> QED
  BY <1>1, <1>2, <1>3, <1>4, <1>5 DEF PoolInv

(* Releasing a descriptor, whoever holds a copy of it, begins its release. *)
LEMMA CallReleaseKeeps ==
    ASSUME PoolInv, NEW p \in Procs, CallRelease(p)
    PROVE  PoolInv'
<1>1. PoolTypes'
  BY DEF PoolInv, CallRelease, handles, Goto, BeginRelease, LeaseState, Labels, PoolTypes
<1>2. OperationsHaveTheirPage'
  BY DEF PoolInv, CallRelease, handles, Goto, BeginRelease, Freeing, PoolTypes,
       OperationsHaveTheirPage
<1>3. SpentStaysDead'
  BY DEF PoolInv, CallRelease, handles, Goto, BeginRelease, Spent, Freeing, SpentStaysDead
<1>4. FreePagesHaveOnePlace'
  BY MaxGenerationAssumption DEF PoolInv, CallRelease, gauges, Goto, BeginRelease,
       LeaseState, Labels, HeldLeases, Popped, Freeing, InTransit, FreePagesHaveOnePlace
<1>5. OwnershipIsExclusive'
  BY DEF PoolInv, CallRelease, handles, Goto, BeginRelease, HeldLeases, PoolTypes,
       OwnershipIsExclusive
<1> QED
  BY <1>1, <1>2, <1>3, <1>4, <1>5 DEF PoolInv

(* A release whose exchange fails names a generation that is over, or is one of
   two that race: it leaves the page to its owner. *)
LEMMA ReleaseRejectedKeeps ==
    ASSUME PoolInv, NEW p \in Procs, ReleaseRejected(p)
    PROVE  PoolInv'
<1>1. PoolTypes'
  BY DEF PoolInv, ReleaseRejected, handles, Goto, Return, LeaseState, Labels, PoolTypes
<1>2. OperationsHaveTheirPage'
  BY DEF PoolInv, ReleaseRejected, handles, Goto, Return, Freeing, PoolTypes,
       OperationsHaveTheirPage
<1>3. SpentStaysDead'
  BY DEF PoolInv, ReleaseRejected, handles, Goto, Return, Spent, Freeing, SpentStaysDead
<1>4. FreePagesHaveOnePlace'
  BY MaxGenerationAssumption DEF PoolInv, ReleaseRejected, handles, Goto, Return,
       LeaseState, Labels, Popped, Freeing, InTransit, FreePagesHaveOnePlace
<1>5. OwnershipIsExclusive'
  BY DEF PoolInv, ReleaseRejected, handles, Goto, Return, HeldLeases, OwnershipIsExclusive
<1> QED
  BY <1>1, <1>2, <1>3, <1>4, <1>5 DEF PoolInv

(* The exchange to Free takes the page from its owner and puts it in transit. *)
LEMMA ReleaseToFreeKeeps ==
    ASSUME PoolInv, NEW p \in Procs, ReleaseToFree(p)
    PROVE  PoolInv'
<1>1. PoolTypes'
  BY Zenon DEF PoolInv, ReleaseToFree, handles, Goto, LeaseState, Labels, PoolTypes
<1>2. OperationsHaveTheirPage'
  BY DEF PoolInv, ReleaseToFree, handles, Goto, Freeing, OperationsHaveTheirPage
<1>3. SpentStaysDead'
  BY DEF PoolInv, ReleaseToFree, handles, Goto, Spent, Freeing, OperationsHaveTheirPage,
       SpentStaysDead
<1>4. FreePagesHaveOnePlace'
  <2> USE DEF PoolInv, ReleaseToFree, Goto, PoolTypes, OperationsHaveTheirPage,
              FreePagesHaveOnePlace, Popped, Freeing, InTransit, Descriptors
  <2> DEFINE i == desc[p].page
  <2>1. /\ i \in Pages /\ word[i].st # "Free"
        /\ word[i].gen < MaxGeneration /\ word[i].gen = desc[p].gen
    BY MaxGenerationAssumption DEF LeaseState
  <2>2. /\ word'[i].st = "Free" /\ word'[i].gen = word[i].gen
        /\ \A j \in Pages : j # i => word'[j] = word[j]
    BY <2>1
  <2>3. \A q \in Procs : q # p => InTransit(q)' = InTransit(q) /\ Freeing(q)' = Freeing(q)
    OBVIOUS
  <2>4. InTransit(p)' /\ Freeing(p)' /\ ~InTransit(p)
    BY DEF Labels
  <2>5. \A q \in Procs : InTransit(q) => desc[q].page \in Pages /\ desc[q].page # i
    BY <2>1
  <2>6. \A j \in free' : word'[j].st = "Free" /\ word'[j].gen < MaxGeneration
    OBVIOUS
  <2>7. ASSUME NEW q \in Procs, InTransit(q)'
        PROVE  /\ desc'[q].page \notin free'
               /\ word'[desc'[q].page].st = "Free"
               /\ word'[desc'[q].page].gen < MaxGeneration
               /\ \A r \in Procs : InTransit(r)' /\ desc'[r].page = desc'[q].page => r = q
               /\ Freeing(q)' => desc'[q].gen = word'[desc'[q].page].gen
    <3>0. i \notin free' /\ desc' = desc
      BY <2>1
    <3> HIDE DEF PoolInv, ReleaseToFree, InTransit, Freeing
    <3>1. CASE q = p
      BY <2>1, <2>2, <2>3, <2>4, <2>5, <2>7, <3>0, <3>1
    <3>2. CASE q # p
      <4>1. InTransit(q) /\ (Freeing(q)' <=> Freeing(q)) /\ desc[q].page \in Pages
            /\ desc[q].page # i /\ word'[desc[q].page] = word[desc[q].page]
        BY <2>2, <2>3, <2>5, <2>7, <3>2
      <4>2. /\ desc[q].page \notin free' /\ word[desc[q].page].st = "Free"
            /\ word[desc[q].page].gen < MaxGeneration
            /\ \A r \in Procs : InTransit(r) /\ desc[r].page = desc[q].page => r = q
            /\ Freeing(q) => desc[q].gen = word[desc[q].page].gen
        BY <4>1 DEF PoolInv, ReleaseToFree
      <4> HIDE DEF FreePagesHaveOnePlace
      <4> QED
        BY <2>3, <3>0, <4>1, <4>2
    <3> QED
      BY <3>1, <3>2
  <2> HIDE DEF InTransit, Freeing
  <2>8. \A j \in Pages : word'[j].st = "Free" =>
            j \in free' \/ \E q \in Procs : InTransit(q)' /\ desc'[q].page = j
    BY <2>1, <2>2, <2>3, <2>4, <2>5
  <2> QED
    BY <2>6, <2>7, <2>8
<1>5. OwnershipIsExclusive'
  BY DEF PoolInv, ReleaseToFree, handles, Goto, NoDesc, HeldLeases, Descriptors, PoolTypes,
       OperationsHaveTheirPage, OwnershipIsExclusive
<1> QED
  BY <1>1, <1>2, <1>3, <1>4, <1>5 DEF PoolInv

(* The exchange to Exhausted takes the page from its owner for good. *)
LEMMA ReleaseToExhaustedKeeps ==
    ASSUME PoolInv, NEW p \in Procs, ReleaseToExhausted(p)
    PROVE  PoolInv'
<1>1. PoolTypes'
  BY Zenon DEF PoolInv, ReleaseToExhausted, handles, Goto, LeaseState, Labels, PoolTypes
<1>2. OperationsHaveTheirPage'
  BY DEF PoolInv, ReleaseToExhausted, handles, Goto, Freeing, OperationsHaveTheirPage
<1>3. SpentStaysDead'
  BY DEF PoolInv, ReleaseToExhausted, handles, Goto, Spent, Freeing, InTransit, Descriptors,
       PoolTypes, SpentStaysDead, FreePagesHaveOnePlace
<1>4. FreePagesHaveOnePlace'
  BY DEF PoolInv, ReleaseToExhausted, Goto, Popped, Freeing, InTransit,
       OperationsHaveTheirPage, FreePagesHaveOnePlace
<1>5. OwnershipIsExclusive'
  BY DEF PoolInv, ReleaseToExhausted, handles, Goto, NoDesc, HeldLeases, InTransit,
       Descriptors, PoolTypes, OperationsHaveTheirPage, OwnershipIsExclusive
<1> QED
  BY <1>1, <1>2, <1>3, <1>4, <1>5 DEF PoolInv

(* Reading the length counter moves no page. *)
LEMMA ReleaseLenKeeps ==
    ASSUME PoolInv, NEW p \in Procs, ReleaseLen(p)
    PROVE  PoolInv'
<1>1. PoolTypes'
  BY DEF PoolInv, ReleaseLen, handles, Goto, Labels, PoolTypes
<1>2. OperationsHaveTheirPage'
  BY DEF PoolInv, ReleaseLen, handles, Goto, Freeing, OperationsHaveTheirPage
<1>3. SpentStaysDead'
  BY DEF PoolInv, ReleaseLen, handles, Goto, Spent, Freeing, SpentStaysDead
<1>4. FreePagesHaveOnePlace'
  BY DEF PoolInv, ReleaseLen, Goto, Popped, Freeing, InTransit, FreePagesHaveOnePlace
<1>5. OwnershipIsExclusive'
  BY DEF PoolInv, ReleaseLen, handles, Goto, HeldLeases, OwnershipIsExclusive
<1> QED
  BY <1>1, <1>2, <1>3, <1>4, <1>5 DEF PoolInv

(* The push puts the page in transit on the freelist. *)
LEMMA ReleasePushKeeps ==
    ASSUME PoolInv, NEW p \in Procs, ReleasePush(p)
    PROVE  PoolInv'
<1>1. PoolTypes'
  BY DEF PoolInv, ReleasePush, handles, Goto, Labels, Descriptors, PoolTypes,
       OperationsHaveTheirPage
<1>2. OperationsHaveTheirPage'
  BY DEF PoolInv, ReleasePush, handles, Goto, Freeing, OperationsHaveTheirPage
<1>3. SpentStaysDead'
  BY DEF PoolInv, ReleasePush, handles, Goto, Spent, Freeing, InTransit, Descriptors,
       SpentStaysDead, FreePagesHaveOnePlace
<1>4. FreePagesHaveOnePlace'
  BY DEF PoolInv, ReleasePush, Goto, Popped, Freeing, InTransit, PoolTypes,
       FreePagesHaveOnePlace
<1>5. OwnershipIsExclusive'
  BY DEF PoolInv, ReleasePush, handles, Goto, HeldLeases, OwnershipIsExclusive
<1> QED
  BY <1>1, <1>2, <1>3, <1>4, <1>5 DEF PoolInv

(* Counting the page that was pushed moves no page. *)
LEMMA ReleaseIncrementKeeps ==
    ASSUME PoolInv, NEW p \in Procs, ReleaseIncrement(p)
    PROVE  PoolInv'
<1>1. PoolTypes'
  BY DEF PoolInv, ReleaseIncrement, handles, Goto, Labels, PoolTypes
<1>2. OperationsHaveTheirPage'
  BY DEF PoolInv, ReleaseIncrement, handles, Goto, Freeing, OperationsHaveTheirPage
<1>3. SpentStaysDead'
  BY DEF PoolInv, ReleaseIncrement, handles, Goto, Spent, Freeing, SpentStaysDead
<1>4. FreePagesHaveOnePlace'
  BY DEF PoolInv, ReleaseIncrement, Goto, Popped, Freeing, InTransit, FreePagesHaveOnePlace
<1>5. OwnershipIsExclusive'
  BY DEF PoolInv, ReleaseIncrement, handles, Goto, HeldLeases, OwnershipIsExclusive
<1> QED
  BY <1>1, <1>2, <1>3, <1>4, <1>5 DEF PoolInv

(* Counting the page that was retired moves no page. *)
LEMMA ReleaseRetireKeeps ==
    ASSUME PoolInv, NEW p \in Procs, ReleaseRetire(p)
    PROVE  PoolInv'
<1>1. PoolTypes'
  BY DEF PoolInv, ReleaseRetire, handles, Goto, Labels, PoolTypes
<1>2. OperationsHaveTheirPage'
  BY DEF PoolInv, ReleaseRetire, handles, Goto, Freeing, OperationsHaveTheirPage
<1>3. SpentStaysDead'
  BY DEF PoolInv, ReleaseRetire, handles, Goto, Spent, Freeing, SpentStaysDead
<1>4. FreePagesHaveOnePlace'
  BY DEF PoolInv, ReleaseRetire, Goto, Popped, Freeing, InTransit, FreePagesHaveOnePlace
<1>5. OwnershipIsExclusive'
  BY DEF PoolInv, ReleaseRetire, handles, Goto, HeldLeases, OwnershipIsExclusive
<1> QED
  BY <1>1, <1>2, <1>3, <1>4, <1>5 DEF PoolInv

(* A release that has put its page back ends. *)
LEMMA ReleaseCountKeeps ==
    ASSUME PoolInv, NEW p \in Procs, ReleaseCount(p)
    PROVE  PoolInv'
<1>1. PoolTypes'
  BY DEF PoolInv, ReleaseCount, Goto, Return, LeaseState, Labels, PoolTypes,
       OperationsHaveTheirPage
<1>2. OperationsHaveTheirPage'
  BY DEF PoolInv, ReleaseCount, Goto, Return, Freeing, PoolTypes, OperationsHaveTheirPage
<1>3. SpentStaysDead'
  BY DEF PoolInv, ReleaseCount, Goto, Return, Spent, Freeing, InTransit, PoolTypes,
       SpentStaysDead
<1>4. FreePagesHaveOnePlace'
  BY MaxGenerationAssumption DEF PoolInv, ReleaseCount, Goto, Return, LeaseState, Popped,
       Freeing, InTransit, Descriptors, FreePagesHaveOnePlace
<1>5. OwnershipIsExclusive'
  BY DEF PoolInv, ReleaseCount, Goto, Return, HeldLeases, Spent, Popped,
       OperationsHaveTheirPage, SpentStaysDead, OwnershipIsExclusive
<1> QED
  BY <1>1, <1>2, <1>3, <1>4, <1>5 DEF PoolInv

(* A refused push gives the page back to the owner it was taken from. *)
LEMMA ReleaseRevertKeeps ==
    ASSUME PoolInv, NEW p \in Procs, ReleaseRevert(p)
    PROVE  PoolInv'
<1>1. PoolTypes'
  BY DEF PoolInv, ReleaseRevert, handles, Goto, Return, Labels, Spent, Popped, Freeing,
       InTransit, Descriptors, PoolTypes, OperationsHaveTheirPage, SpentStaysDead,
       FreePagesHaveOnePlace
<1>2. OperationsHaveTheirPage'
  BY DEF PoolInv, ReleaseRevert, handles, Goto, Return, Freeing, PoolTypes,
       OperationsHaveTheirPage
<1>3. SpentStaysDead'
  BY SMTT(30) DEF PoolInv, ReleaseRevert, handles, Goto, Return, Spent, Freeing, InTransit,
       Descriptors, PoolTypes, OperationsHaveTheirPage, SpentStaysDead
<1>4. FreePagesHaveOnePlace'
  BY DEF PoolInv, ReleaseRevert, Goto, Return, Popped, Freeing, InTransit, PoolTypes,
       OperationsHaveTheirPage, FreePagesHaveOnePlace
<1>5. OwnershipIsExclusive'
  BY SMTT(30) DEF PoolInv, ReleaseRevert, handles, Goto, Return, NoDesc, HeldLeases, Spent, Freeing,
       Descriptors, PoolTypes, SpentStaysDead, OwnershipIsExclusive
<1> QED
  BY <1>1, <1>2, <1>3, <1>4, <1>5 DEF PoolInv

(* PoolInv is inductive. *)
LEMMA PoolStep ==
    ASSUME PoolInv, [Next]_vars
    PROVE  PoolInv'
<1>1. CASE UNCHANGED vars
  BY <1>1 DEF vars, gauges, locals, handles, PoolInv, PoolTypes, OperationsHaveTheirPage,
       SpentStaysDead, Spent, FreePagesHaveOnePlace, OwnershipIsExclusive, HeldLeases, Popped,
       Freeing, InTransit
<1>2. CASE Next
  BY <1>2, AcquireEmptyKeeps, AcquirePopKeeps, AcquireDecrementKeeps, AcquireAttachKeeps,
     AcquireCountKeeps, AcquireMarkKeeps, IntoDescriptorKeeps, DropLeaseKeeps,
     CallReleaseKeeps, ReleaseRejectedKeeps, ReleaseToFreeKeeps, ReleaseToExhaustedKeeps,
     ReleaseLenKeeps, ReleasePushKeeps, ReleaseIncrementKeeps, ReleaseRetireKeeps,
     ReleaseCountKeeps, ReleaseRevertKeeps DEF Next
<1> QED
  BY <1>1, <1>2

(* Every page is at one place, and every lease and descriptor of the current *)
(* generation is the only one, however acquisitions, releases and stale      *)
(* releases of any number of processes interleave.                          *)
THEOREM PoolSafety == Spec => []PoolInv
BY ZenonT(30), InitPool, PoolStep, PTL DEF Spec

-----------------------------------------------------------------------------
(* The pool implements PageOwnership *)

\* AbstractState without its CHOOSE.
AbstractStateIsRight ==
    \A i \in Pages :
        /\ \A p \in Procs : Freeing(p) /\ desc[p].page = i => AbstractState(i) = expected[p]
        /\ (\A p \in Procs : Freeing(p) => desc[p].page # i) => AbstractState(i) = word[i].st

(* Two releases that took their page are of different pages, so AbstractState's
   choice has one candidate. *)
LEMMA ChoiceIsUnique == PoolInv => AbstractStateIsRight
<1> SUFFICES ASSUME PoolInv PROVE AbstractStateIsRight
  OBVIOUS
<1>1. \A p, q \in Procs : Freeing(p) /\ Freeing(q) /\ desc[p].page = desc[q].page => p = q
  BY DEF PoolInv, FreePagesHaveOnePlace, InTransit
<1> QED
  BY <1>1 DEF AbstractState, AbstractStateIsRight

\* A step that the abstract pool does not see.
Quiet ==
    /\ UNCHANGED word
    /\ \A p \in Procs : Freeing(p)' <=> Freeing(p)
    /\ \A p \in Procs : Freeing(p) => desc'[p] = desc[p] /\ expected'[p] = expected[p]

(* A step that changes no word and begins or ends no transit is no step of the
   abstract pool. *)
LEMMA QuietStutters ==
    ASSUME AbstractStateIsRight, AbstractStateIsRight', Quiet
    PROVE  UNCHANGED <<[i \in Pages |-> word[i].gen], [i \in Pages |-> AbstractState(i)]>>
<1>1. \A i \in Pages : AbstractState(i)' = AbstractState(i)
  BY DEF AbstractStateIsRight, Quiet
<1> QED
  BY <1>1 DEF Quiet

(* The steps on the freelist, on the counters and on the handles are such steps. *)
LEMMA QuietActions ==
    ASSUME PoolInv, NEW p \in Procs,
           \/ AcquireEmpty(p) \/ AcquirePop(p) \/ AcquireDecrement(p)
           \/ AcquireCount(p) \/ AcquireMark(p) \/ DropLease(p) \/ CallRelease(p)
           \/ ReleaseRejected(p) \/ ReleaseLen(p) \/ ReleaseIncrement(p)
           \/ ReleaseRetire(p) \/ ReleaseCount(p)
    PROVE  Quiet
BY SMTT(30) DEF PoolInv, PoolTypes, Quiet, Freeing, AcquireEmpty, AcquirePop, AcquireDecrement, AcquireCount, AcquireMark,
       DropLease, CallRelease, BeginRelease, ReleaseRejected, ReleaseLen, ReleaseIncrement, ReleaseRetire, ReleaseCount, Goto, Return, vars, locals, gauges, handles

(* A step on the word of one page leaves the state of the others alone. *)
LEMMA OthersStay ==
    ASSUME AbstractStateIsRight, AbstractStateIsRight', NEW i \in Pages,
           \A j \in Pages : j # i => word'[j] = word[j],
           \A q \in Procs : Freeing(q) /\ desc[q].page # i
                => Freeing(q)' /\ desc'[q] = desc[q] /\ expected'[q] = expected[q],
           \A q \in Procs : Freeing(q)' /\ desc'[q].page # i
                => Freeing(q) /\ desc'[q] = desc[q] /\ expected'[q] = expected[q]
    PROVE  \A j \in Pages : j # i => AbstractState(j)' = AbstractState(j)
BY DEF AbstractStateIsRight

(* The exchange of acquire is the acquisition. *)
LEMMA AttachAcquires ==
    ASSUME PoolInv, AbstractStateIsRight, AbstractStateIsRight', NEW p \in Procs, AcquireAttach(p)
    PROVE  \E i \in Pages : PO!Acquire(i)
<1> USE DEF PoolInv, AcquireAttach, Goto
<1>0. PICK i \in Pages : i = desc[p].page
  BY DEF OperationsHaveTheirPage, Descriptors
<1>1. /\ word'[i].gen = word[i].gen + 1 /\ word'[i].st = "Attached"
      /\ word[i].st = "Free" /\ word[i].gen < MaxGeneration
      /\ \A j \in Pages : j # i => word'[j] = word[j]
  BY <1>0 DEF PoolTypes, FreePagesHaveOnePlace, InTransit, Popped
<1>2. \A q \in Procs : (Freeing(q)' <=> Freeing(q)) /\ (Freeing(q) => desc[q].page # i /\ desc'[q] = desc[q] /\ expected'[q] = expected[q])
  BY <1>0 DEF PoolTypes, FreePagesHaveOnePlace, InTransit, Popped, Freeing
<1>3. AbstractState(i) = "Free" /\ AbstractState(i)' = "Attached"
  BY <1>1, <1>2 DEF AbstractStateIsRight
<1>4. \A j \in Pages : j # i => AbstractState(j)' = AbstractState(j)
  BY <1>1, <1>2, OthersStay
<1>5. PO!Acquire(i)
  <2> HIDE DEF PoolInv, AcquireAttach, Goto
  <2> QED
    BY Zenon, <1>1, <1>3, <1>4 DEF PO!Acquire
<1> QED
  BY <1>5

(* The exchange of into_descriptor is the detachment. *)
LEMMA IntoDetaches ==
    ASSUME PoolInv, AbstractStateIsRight, AbstractStateIsRight', NEW p \in Procs, IntoDescriptor(p)
    PROVE  \E i \in Pages : PO!Detach(i)
<1> USE DEF PoolInv
<1>1. PICK d \in leases[p] : /\ word[d.page] = [gen |-> d.gen, st |-> "Attached"]
                             /\ word' = [word EXCEPT ![d.page].st = "Detached"]
  BY Zenon DEF IntoDescriptor
<1> DEFINE i == d.page
<1>2. /\ i \in Pages
      /\ word[i].st = "Attached" /\ word'[i].st = "Detached" /\ word'[i].gen = word[i].gen
      /\ \A j \in Pages : j # i => word'[j] = word[j]
  BY <1>1 DEF PoolTypes, Descriptors
<1>3. \A q \in Procs : Freeing(q) => desc[q].page # i
  BY <1>2 DEF FreePagesHaveOnePlace, InTransit
<1>4. \A q \in Procs : (Freeing(q)' <=> Freeing(q)) /\ desc'[q] = desc[q] /\ expected'[q] = expected[q]
  BY DEF IntoDescriptor, locals, Freeing
<1>5. AbstractState(i) = "Attached" /\ AbstractState(i)' = "Detached"
  BY SMTT(30), <1>2, <1>3, <1>4 DEF AbstractStateIsRight
<1>6. \A j \in Pages : j # i => AbstractState(j)' = AbstractState(j)
  BY <1>2, <1>4, OthersStay
<1>7. PO!Detach(i)
  <2> HIDE DEF i
  <2> QED
    BY Zenon, <1>2, <1>5, <1>6 DEF PO!Detach
<1> QED
  BY <1>2, <1>7

(* The exchange of release is not yet the release, and giving the page back undoes
   nothing: its owner had not lost it. *)
LEMMA ToFreeStutters ==
    ASSUME PoolInv, AbstractStateIsRight, AbstractStateIsRight', NEW p \in Procs,
           ReleaseToFree(p) \/ ReleaseRevert(p)
    PROVE  UNCHANGED <<[i \in Pages |-> word[i].gen], [i \in Pages |-> AbstractState(i)]>>
<1> USE DEF PoolInv
<1>0. PICK i \in Pages : i = desc[p].page
  BY DEF OperationsHaveTheirPage, Descriptors, ReleaseToFree, ReleaseRevert
<1>1. \A j \in Pages : word'[j].gen = word[j].gen /\ (j # i => word'[j] = word[j])
  BY <1>0 DEF PoolTypes, ReleaseToFree, ReleaseRevert
<1>2. \A q \in Procs : Freeing(q) /\ q # p => desc[q].page # i
  BY <1>0 DEF ReleaseToFree, ReleaseRevert, FreePagesHaveOnePlace, InTransit, Freeing, OperationsHaveTheirPage
<1>3. \A q \in Procs : q # p => (Freeing(q)' <=> Freeing(q)) /\ desc'[q] = desc[q] /\ expected'[q] = expected[q]
  BY DEF ReleaseToFree, ReleaseRevert, Goto, Return, Freeing, PoolTypes
<1>4. AbstractState(i)' = AbstractState(i)
  <2>1. CASE ReleaseToFree(p)
    <3>1. ~Freeing(p) /\ Freeing(p)' /\ desc'[p] = desc[p] /\ expected'[p] = expected[p] /\ word[i].st = expected[p]
      BY <2>1, <1>0 DEF ReleaseToFree, Goto, Freeing, PoolTypes
    <3> QED
      BY <3>1, <1>0, <1>2 DEF AbstractStateIsRight
  <2>2. CASE ReleaseRevert(p)
    <3>1. Freeing(p) /\ ~Freeing(p)' /\ word'[i].st = expected[p]
      BY <2>2, <1>0 DEF ReleaseRevert, Return, Goto, Freeing, PoolTypes, FreePagesHaveOnePlace, InTransit
    <3> QED
      BY <3>1, <1>0, <1>2, <1>3 DEF AbstractStateIsRight
  <2> QED
    BY <2>1, <2>2
<1>5. \A j \in Pages : j # i => AbstractState(j)' = AbstractState(j)
  <2>1. (Freeing(p) => desc[p].page = i) /\ (Freeing(p)' => desc'[p].page = i)
    BY <1>0 DEF ReleaseToFree, ReleaseRevert, Return, Goto, Freeing, PoolTypes
  <2> QED
    BY <1>0, <1>1, <1>3, <2>1, OthersStay
<1> QED
  BY <1>1, <1>4, <1>5

(* The push to the freelist is the release; so is the exchange to Exhausted. *)
LEMMA PushReleases ==
    ASSUME PoolInv, AbstractStateIsRight, AbstractStateIsRight', NEW p \in Procs,
           ReleasePush(p) \/ ReleaseToExhausted(p)
    PROVE  \E i \in Pages : PO!Release(i)
<1> USE DEF PoolInv
<1>0. PICK i \in Pages : i = desc[p].page
  BY DEF OperationsHaveTheirPage, Descriptors, ReleasePush, ReleaseToExhausted
<1>e. expected[p] \in {"Attached", "Detached"}
  BY DEF OperationsHaveTheirPage, Descriptors, ReleasePush, ReleaseToExhausted, Freeing
<1>1. \A j \in Pages : word'[j].gen = word[j].gen /\ (j # i => word'[j] = word[j])
  BY <1>0 DEF PoolTypes, ReleasePush, ReleaseToExhausted
<1>2. \A q \in Procs : Freeing(q) /\ q # p => desc[q].page # i
  BY <1>0, <1>e DEF ReleasePush, ReleaseToExhausted, FreePagesHaveOnePlace, InTransit, Freeing
<1>3. /\ \A q \in Procs : desc'[q] = desc[q] /\ expected'[q] = expected[q]
      /\ \A q \in Procs : q # p => (Freeing(q)' <=> Freeing(q))
      /\ ~Freeing(p)'
  BY DEF ReleasePush, ReleaseToExhausted, Goto, Freeing, PoolTypes
<1>4. /\ AbstractState(i) \in {"Attached", "Detached"}
      /\ AbstractState(i)' = IF word[i].gen = MaxGeneration THEN "Exhausted" ELSE "Free"
  <2>1. CASE ReleasePush(p)
    <3>1. Freeing(p) /\ word'[i].st = "Free" /\ word[i].gen # MaxGeneration
      BY SMTT(30), <2>1, <1>0, <1>e, MaxGenerationAssumption DEF ReleasePush, Freeing, FreePagesHaveOnePlace, InTransit, PoolTypes
    <3> QED
      BY <3>1, <1>0, <1>e, <1>2, <1>3 DEF AbstractStateIsRight
  <2>2. CASE ReleaseToExhausted(p)
    <3>1. ~Freeing(p) /\ word[i].st = expected[p] /\ word'[i].st = "Exhausted" /\ word[i].gen = MaxGeneration
      BY <2>2, <1>0 DEF ReleaseToExhausted, Freeing, PoolTypes
    <3> QED
      BY <3>1, <1>0, <1>e, <1>2, <1>3 DEF AbstractStateIsRight
  <2> QED
    BY <2>1, <2>2
<1>5. \A j \in Pages : j # i => AbstractState(j)' = AbstractState(j)
  BY <1>0, <1>1, <1>3, OthersStay
<1>6. PO!Release(i)
  BY Zenon, <1>1, <1>4, <1>5 DEF PO!Release
<1> QED
  BY <1>6

(* Every step is a step of the abstract pool or a stutter. *)
LEMMA OwnershipStep ==
    ASSUME PoolInv, PoolInv', AbstractStateIsRight, AbstractStateIsRight', [Next]_vars
    PROVE  [PO!Next]_<<[i \in Pages |-> word[i].gen], [i \in Pages |-> AbstractState(i)]>>
<1>1. CASE UNCHANGED vars
  <2>1. Quiet
    BY <1>1 DEF vars, locals, handles, gauges, Quiet, Freeing
  <2> QED
    BY <2>1, QuietStutters
<1>2. CASE Next
  <2>1. PICK p \in Procs :
           \/ AcquireEmpty(p) \/ AcquirePop(p) \/ AcquireDecrement(p) \/ AcquireAttach(p)
           \/ AcquireCount(p) \/ AcquireMark(p)
           \/ IntoDescriptor(p) \/ DropLease(p) \/ CallRelease(p)
           \/ ReleaseRejected(p) \/ ReleaseToFree(p) \/ ReleaseToExhausted(p)
           \/ ReleaseLen(p) \/ ReleasePush(p) \/ ReleaseIncrement(p)
           \/ ReleaseRetire(p) \/ ReleaseCount(p) \/ ReleaseRevert(p)
    BY SMTT(30), <1>2 DEF Next
  <2>2. CASE AcquireAttach(p)
    BY <2>2, AttachAcquires DEF PO!Next
  <2>3. CASE IntoDescriptor(p)
    BY <2>3, IntoDetaches DEF PO!Next
  <2>4. CASE ReleasePush(p) \/ ReleaseToExhausted(p)
    BY <2>4, PushReleases DEF PO!Next
  <2>5. CASE ReleaseToFree(p) \/ ReleaseRevert(p)
    BY <2>5, ToFreeStutters
  <2>6. CASE \/ AcquireEmpty(p) \/ AcquirePop(p) \/ AcquireDecrement(p)
             \/ AcquireCount(p) \/ AcquireMark(p) \/ DropLease(p) \/ CallRelease(p)
             \/ ReleaseRejected(p) \/ ReleaseLen(p) \/ ReleaseIncrement(p)
             \/ ReleaseRetire(p) \/ ReleaseCount(p)
    BY <2>6, QuietActions, QuietStutters
  <2> QED
    BY <2>1, <2>2, <2>3, <2>4, <2>5, <2>6
<1> QED
  BY <1>1, <1>2

(* The pool keeps its promise to its clients, for every number of processes *)
(* and pages: acquire, into_descriptor and release act on a page atomically, *)
(* a generation is acquired once, and a stale release changes nothing.       *)
THEOREM PoolImplementsOwnership == Spec => ImplementsOwnership
<1>1. Init => PO!Init
  <2>1. Init => PoolInv /\ AbstractStateIsRight
    BY InitPool, ChoiceIsUnique
  <2> QED
    BY <2>1 DEF Init, PO!Init, AbstractStateIsRight, Freeing
<1>2. PoolInv /\ [Next]_vars => PoolInv'
  BY PoolStep
<1>3. ASSUME PoolInv, PoolInv', AbstractStateIsRight, AbstractStateIsRight', [Next]_vars
      PROVE  [PO!Next]_<<[i \in Pages |-> word[i].gen], [i \in Pages |-> AbstractState(i)]>>
  BY <1>3, OwnershipStep
<1> QED
  BY <1>1, <1>2, <1>3, InitPool, ChoiceIsUnique, PTL DEF Spec, ImplementsOwnership, PO!Spec
=============================================================================
