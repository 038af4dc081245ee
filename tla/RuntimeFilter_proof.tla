------------------------ MODULE RuntimeFilter_proof -------------------------
(***************************************************************************)
(* The pool of join filters keeps its promises, for any number of          *)
(* backends, slots, builds, scans, rows and keys: a row that is skipped    *)
(* does not join, a slot that is referenced stays, and a retired slot      *)
(* comes back.                                                             *)
(*                                                                         *)
(* TypeOK and Sound together are inductive.  Pinned is inductive relative  *)
(* to them until a lookup races with a claim or a retirement, which raced  *)
(* records and nothing takes back.                                         *)
(***************************************************************************)
EXTENDS RuntimeFilter_build, RuntimeFilter_lookup, RuntimeFilter_release, FiniteSetTheorems

(* The words are wide enough, by the assumptions on the constants.         *)
LEMMA RangesOK == Ranges
<1>1. Cardinality(Probers) \in Nat /\ RefMod \in Nat /\ RefMod > 1
  <2>1. Cardinality(Probers) \in Nat  BY Zenon, FilterAssumption, FS_CardinalityType
  <2> QED  BY <2>1, FilterAssumption
<1>2. 1 \in Slots /\ \A i \in Slots : i = SlotCount \/ i + 1 \in Slots
  BY FilterAssumption DEF Slots
<1>3. /\ NoTarget \in 0..MaxBuilds /\ Targets \subseteq 0..MaxBuilds /\ 0 \in 0..MaxBuilds
      /\ \A b \in 0..MaxBuilds : b < MaxBuilds => b + 1 \in Targets
      /\ \A n, b \in 0..MaxBuilds : n < b => n + 1 \in 0..MaxBuilds
  BY FilterAssumption DEF NoTarget, Targets
<1>4. /\ 0 \in 0..(RefMod - 1) /\ 1 \in 0..(RefMod - 1)
      /\ \A r \in 0..(RefMod - 1) : (r + 1) % RefMod \in 0..(RefMod - 1)
      /\ \A r \in 0..(RefMod - 1) : (r + RefMod - 1) % RefMod \in 0..(RefMod - 1)
  BY <1>1
<1>5. /\ 0 \in 0..MaxRows /\ MaxRows \in 0..MaxRows
      /\ \A n \in 0..MaxRows : n > 0 => n - 1 \in 0..MaxRows
      /\ MaxScans \in 0..MaxScans
      /\ \A n \in 0..MaxScans : n > 0 => n - 1 \in 0..MaxScans
  BY FilterAssumption
<1> QED  BY Zenon, <1>2, <1>3, <1>4, <1>5, FilterAssumption DEF Ranges

(* What the lemmas about steps need follows from the types.                *)
LEMMA TypesGiveWords == ASSUME TypeOK PROVE Words
<1>1. SlotNumbers  BY FilterAssumption DEF SlotNumbers, Slots
<1>2. Roles  BY Zenon, FilterAssumption DEF Roles, Procs
<1>3. ProbesType
  <2>1. ASSUME NEW q \in Probers, NEW h \in probes[q] PROVE h.slot \in Slots
    <3>1. h \in [slot : Slots, gen : 0..MaxBuilds]  BY Zenon DEF TypeOK
    <3> QED  BY <3>1
  <2> QED  BY Zenon, <2>1 DEF TypeOK, ProbesType
<1> QED
  BY Zenon, <1>1, <1>2, <1>3 DEF TypeOK, Words, PcType, BackType, AtType, GType, BuildType,
     StateType,
     RefsType, TargetType, GenerationType, LifeGenType, LifeType, BitsType, WantType, KeyType

(* The worker and the backends are one more than the backends.             *)
LEMMA ProcsAreFinite ==
    /\ IsFiniteSet(Procs) /\ Cardinality(Probers) \in Nat
    /\ Cardinality(Procs) <= Cardinality(Probers) + 1
<1>1. IsFiniteSet(Probers)  BY Zenon, FilterAssumption
<1>2. /\ IsFiniteSet(Probers \cup {Worker}) /\ Cardinality(Probers) \in Nat
      /\ Cardinality(Probers \cup {Worker}) = Cardinality(Probers) + 1
  BY <1>1, FS_AddElement, FS_CardinalityType, FilterAssumption
<1>3. Procs = Probers \cup {Worker}  BY Zenon DEF Procs
<1> QED  BY <1>2, <1>3

(* refs does not wrap: there are fewer processes than values.              *)
LEMMA Counts == Counting
<1>1. /\ IsFiniteSet(Procs) /\ Cardinality(Probers) \in Nat
      /\ Cardinality(Procs) <= Cardinality(Probers) + 1
  BY Zenon, ProcsAreFinite
<1>2. ASSUME NEW S \in SUBSET Procs, NEW p \in Procs
      PROVE /\ Cardinality(S) \in 0..(RefMod - 1)
            /\ p \notin S => Cardinality(S \cup {p}) = (Cardinality(S) + 1) % RefMod
            /\ p \in S => Cardinality(S \ {p}) = (Cardinality(S) + RefMod - 1) % RefMod
            /\ p \in S => (Cardinality(S) = 1 <=> S = {p})
  <2>1. ASSUME NEW T \in SUBSET Procs
        PROVE IsFiniteSet(T) /\ Cardinality(T) \in 0..(RefMod - 1)
    <3>1. /\ IsFiniteSet(T) /\ Cardinality(T) \in Nat /\ Cardinality(Procs) \in Nat
          /\ Cardinality(T) <= Cardinality(Procs)
      BY <1>1, FS_Subset, FS_CardinalityType
    <3> QED  BY <1>1, <3>1, FilterAssumption
  <2>2. ASSUME p \notin S PROVE Cardinality(S \cup {p}) = (Cardinality(S) + 1) % RefMod
    <3>1. Cardinality(S \cup {p}) = Cardinality(S) + 1  BY <2>1, <2>2, FS_AddElement
    <3>2. Cardinality(S \cup {p}) \in 0..(RefMod - 1)  BY Zenon, <2>1
    <3> QED  BY <2>1, <3>1, <3>2, FilterAssumption
  <2>3. ASSUME p \in S
        PROVE /\ Cardinality(S \ {p}) = (Cardinality(S) + RefMod - 1) % RefMod
              /\ Cardinality(S) = 1 <=> S = {p}
    <3>1. Cardinality(S \ {p}) = Cardinality(S) - 1  BY <2>1, <2>3, FS_RemoveElement
    <3>2. IsFiniteSet(S \ {p}) /\ Cardinality(S \ {p}) \in 0..(RefMod - 1)  BY Zenon, <2>1
    <3>3. Cardinality(S \ {p}) = (Cardinality(S) + RefMod - 1) % RefMod
      BY <2>1, <3>1, <3>2, FilterAssumption
    <3>4. Cardinality(S \ {p}) = 0 <=> S \ {p} = {}  BY Zenon, <3>2, FS_EmptySet
    <3>5. Cardinality(S) = 1 <=> S \ {p} = {}  BY <2>1, <3>1, <3>4
    <3>6. S \ {p} = {} <=> S = {p}  BY Zenon, <2>3
    <3> QED  BY Zenon, <3>3, <3>5, <3>6
  <2> QED  BY Zenon, <2>1, <2>2, <2>3
<1>3. Cardinality({Worker}) = 1  BY FS_Singleton
<1> QED  BY Zenon, <1>2, <1>3 DEF Counting

-----------------------------------------------------------------------------
(* FilterInv holds initially: every slot is free and nothing is rejected.  *)
LEMMA FilterInit == Init => FilterInv
<1> SUFFICES ASSUME Init PROVE FilterInv  OBVIOUS
<1>r. Ranges /\ Worker \in Procs  BY Zenon, RangesOK DEF Procs
<1>1. TypeOK
  <2>1. /\ state \in [Slots -> SlotStates] /\ refs \in [Slots -> 0..(RefMod - 1)]
        /\ target \in [Slots -> 0..MaxBuilds] /\ generation \in [Slots -> 0..MaxBuilds]
        /\ lifeGen \in [Slots -> 0..MaxBuilds] /\ life \in [Slots -> LifeStates]
        /\ bits \in [Slots -> SUBSET Keys]
    BY <1>r DEF Init, Ranges, SlotStates, LifeStates
  <2>2. /\ pc \in [Procs -> PcLabels] /\ back \in [Procs -> {"idle", "nextSlot", "scan"}]
        /\ at \in [Procs -> Slots] /\ g \in [Procs -> 0..MaxBuilds]
    BY <1>r DEF Init, Ranges, PcLabels
  <2>3. /\ build \in 0..MaxBuilds /\ want \in [Probers -> 0..MaxBuilds]
        /\ probes \in [Probers -> SUBSET [slot : Slots, gen : 0..MaxBuilds]]
        /\ key \in [Probers -> Keys \cup {NoKey}]
    BY <1>r DEF Init, Ranges
  <2>4. rows \in [Probers -> 0..MaxRows] /\ scans \in [Probers -> 0..MaxScans]
    BY <1>r DEF Init, Ranges
  <2> QED  BY Zenon, <2>1, <2>2, <2>3, <2>4 DEF Init, TypeOK
<1>2. WorkerOK /\ GenerationsLag /\ TargetsOK /\ BuilderOK
  <2>1. pc[Worker] = "idle"  BY Zenon, <1>r DEF Init
  <2>2. build = 0 /\ \A i \in Slots : lifeGen[i] = 0 /\ target[i] = 0
    BY Zenon DEF Init, NoTarget
  <2> QED
    BY <2>1, <2>2 DEF WorkerOK, WorkerLabels, ReleaseLabels, FreeingLabels, GenerationsLag,
       Numbering, TargetsOK, BuilderOK, Allocating
<1>3. ASSUME NEW p \in Probers PROVE ScanOK(p)
  <2>1. pc[p] = "idle" /\ probes[p] = {} /\ want[p] = 0 /\ build = 0
    BY Zenon DEF Init, Procs, NoTarget
  <2> QED  BY <2>1 DEF ScanOK, ProberLabels, ReleaseLabels, FreeingLabels
<1> QED  BY Zenon, <1>1, <1>2, <1>3 DEF Init, FilterInv, Sound, NeverRejectsAJoinableRow

(* A step that changes nothing keeps it.                                   *)
LEMMA FilterStutter == ASSUME FilterInv, UNCHANGED vars PROVE FilterInv'
<1>1. /\ state' = state /\ refs' = refs /\ target' = target /\ generation' = generation
      /\ lifeGen' = lifeGen /\ life' = life /\ bits' = bits /\ pc' = pc /\ back' = back
      /\ at' = at /\ g' = g /\ build' = build /\ todo' = todo /\ want' = want
      /\ probes' = probes /\ key' = key /\ rows' = rows /\ scans' = scans
      /\ rejected' = rejected /\ raced' = raced
  BY Zenon DEF vars, slots, control, worker, scan, history
<1>2. TypeOK'  BY Zenon, <1>1 DEF FilterInv, TypeOK
<1>3. (WorkerOK /\ GenerationsLag /\ TargetsOK)'
  BY Zenon, <1>1 DEF FilterInv, Sound, WorkerOK, GenerationsLag, TargetsOK
<1>4. BuilderOK'  BY Zenon, <1>1 DEF FilterInv, Sound, BuilderOK, Allocating
<1>5. ASSUME NEW p \in Probers PROVE ScanOK(p)'
  BY Zenon, <1>1 DEF FilterInv, Sound, ScanOK, Allocating, QueryLives
<1> QED
  BY Zenon, <1>1, <1>2, <1>3, <1>4, <1>5 DEF FilterInv, Sound, NeverRejectsAJoinableRow

(* Every step of the worker and the backends keeps FilterInv.              *)
LEMMA FilterStep == FilterInv /\ [Next]_vars => FilterInv'
<1> SUFFICES ASSUME FilterInv, [Next]_vars PROVE FilterInv'  OBVIOUS
<1>w. Words /\ Roles /\ Sound /\ TypeOK  BY Zenon, TypesGiveWords DEF FilterInv, Words
<1>1. CASE Allocate \/ Build
  BY Zenon, <1>w, <1>1, RangesOK, BuildKeeps, BuildTypes DEF FilterInv
<1>2. ASSUME NEW p \in Probers, Lookup(p) \/ Scan(p) PROVE FilterInv'
  BY Zenon, <1>w, <1>2, RangesOK, ScanKeeps, ScanTypes DEF FilterInv
<1>3. ASSUME NEW p \in Procs, ReleaseRef(p) PROVE FilterInv'
  BY Zenon, <1>w, <1>3, RangesOK, ReleaseKeeps, ReleaseTypes DEF FilterInv
<1>4. CASE UNCHANGED vars
  BY Zenon, <1>4, FilterStutter
<1> QED  BY Zenon, <1>1, <1>2, <1>3, <1>4 DEF Next

(***************************************************************************)
(* A backend skips a row only if the build side of its own join has no row *)
(* with the row's key (decision_for_hash), for any number of backends,     *)
(* slots, builds and keys, and whatever the lookups raced with: claims,    *)
(* publications, retirements and reuses of the slot by later builds.       *)
(***************************************************************************)
THEOREM SkippedRowsDoNotJoin == Spec => []NeverRejectsAJoinableRow
<1>1. FilterInv => NeverRejectsAJoinableRow  BY Zenon DEF FilterInv, Sound
<1> QED  BY PTL, <1>1, FilterInit, FilterStep DEF Spec

-----------------------------------------------------------------------------
(* PinInv holds initially: no slot has a reference or a holder.            *)
LEMMA PinInit == Init => PinInv
<1> SUFFICES ASSUME Init PROVE Pinned  BY Zenon DEF PinInv
<1>r. Worker \in Procs /\ Probers \subseteq Procs  BY Zenon DEF Procs
<1>i. /\ \A p \in Procs : pc[p] = "idle"
      /\ \A p \in Probers : probes[p] = {}
      /\ \A i \in Slots : state[i] = "FREE" /\ refs[i] = 0 /\ target[i] = NoTarget
                          /\ generation[i] = 0 /\ life[i] = "Free"
  BY Zenon DEF Init
<1>1. ASSUME NEW i \in Slots PROVE Holders(i) = {} /\ \A p \in Procs : ~ Holds(p, i)
  BY <1>i DEF Holders, Holds, CountedIn, HasHandle
<1>2. RefsCount  BY Zenon, <1>1, <1>i, FS_EmptySet DEF RefsCount
<1>3. NobodyHolds  BY Zenon, <1>1 DEF NobodyHolds
<1>4. StatesOK  BY <1>i, <1>r DEF StatesOK, Owned, Clean, Buildable
<1>5. OwnerOK  BY <1>i, <1>r DEF OwnerOK
<1>6. FreesOK  BY <1>i DEF FreesOK, OneFrees, FreeOK, FreeingLabels
<1>7. LookupsOK
  BY <1>i, <1>r DEF LookupsOK, LookupOK, Walking, ReleaseLabels, FreeingLabels
<1>8. HandlesOK  BY Zenon, <1>i DEF HandlesOK
<1> QED  BY Zenon, <1>2, <1>3, <1>4, <1>5, <1>6, <1>7, <1>8 DEF Pinned

(* A step that changes nothing keeps it.                                   *)
LEMMA PinStutter == ASSUME Pinned, UNCHANGED vars PROVE Pinned'
<1>1. /\ state' = state /\ refs' = refs /\ target' = target /\ generation' = generation
      /\ lifeGen' = lifeGen /\ life' = life /\ pc' = pc /\ back' = back
      /\ at' = at /\ g' = g /\ want' = want /\ probes' = probes
  BY Zenon DEF vars, slots, control, scan
<1>2. ASSUME NEW i
      PROVE /\ Holders(i)' = Holders(i) /\ (Claimed(i)' <=> Claimed(i))
            /\ (Owned(i)' <=> Owned(i)) /\ (Clean(i)' <=> Clean(i))
            /\ (Buildable(i)' <=> Buildable(i))
            /\ \A p \in Procs : (Holds(p, i)' <=> Holds(p, i))
                                /\ (FreeingAt(p, i)' <=> FreeingAt(p, i))
  BY Zenon, <1>1 DEF Holders, Holds, CountedIn, HasHandle, Claimed, Owned, Clean,
     Buildable, FreeingAt
<1>3. RefsCount'  BY Zenon, <1>1, <1>2 DEF Pinned, RefsCount
<1>4. NobodyHolds'  BY Zenon, <1>1, <1>2 DEF Pinned, NobodyHolds
<1>5. StatesOK'  BY Zenon, <1>1, <1>2 DEF Pinned, StatesOK
<1>6. OwnerOK'  BY Zenon, <1>1 DEF Pinned, OwnerOK, Clean, Buildable
<1>7. FreesOK'  BY Zenon, <1>1 DEF Pinned, FreesOK, OneFrees, FreeOK, Buildable
<1>8. LookupsOK' /\ HandlesOK'
  BY Zenon, <1>1 DEF Pinned, LookupsOK, LookupOK, HandlesOK, HandleOK
<1> QED  BY Zenon, <1>3, <1>4, <1>5, <1>6, <1>7, <1>8 DEF Pinned

(* Every step of the worker and the backends keeps PinInv: a race is never *)
(* forgotten, and without one the slots stay pinned.                       *)
LEMMA PinStep == FilterInv /\ PinInv /\ [Next]_vars => PinInv'
<1> SUFFICES ASSUME FilterInv, PinInv, [Next]_vars,
   ~ raced' PROVE Pinned'  BY Zenon DEF PinInv
<1>w. Words /\ Sound /\ Counting  BY Zenon, TypesGiveWords, Counts DEF FilterInv
<1>1. CASE Allocate \/ Build
  <2>1. ~ raced
    BY Zenon, <1>1 DEF Allocate, BeginBuild, Goto, history, ClaimSlot, Goto, SkipSlot,
       Goto, StoreRefs, Goto, StoreTarget, Goto,
       TryAcquireBuilder, Goto, BuilderBusy, Goto, GiveBackSlot, Goto, ClearBits, Goto, StoreGeneration, Goto, Build,
       InsertHash, InBuild, PublishReady, Goto, InBuild, DisableBuild, Goto, InBuild, ReleaseOwner, Goto
  <2> QED  BY Zenon, <1>w, <1>1, <2>1, BuildPins DEF PinInv
<1>2. ASSUME NEW p \in Probers, Lookup(p) \/ Scan(p) PROVE Pinned'
  <2>1. ~ raced
    BY Zenon, <1>2 DEF Lookup, Scan, OpenScan, LookupState, LookupAddRef, LookupRecheck,
       LookupMatch,
       LookupAttach, LookupContinue, Probe, ReadBits, DropProbe, CloseScan, history
  <2> QED  BY Zenon, <1>w, <1>2, <2>1, ScanPins DEF PinInv
<1>3. ASSUME NEW p \in Procs, ReleaseRef(p) PROVE Pinned'
  <2>1. ~ raced
    BY Zenon, <1>3 DEF ReleaseRef, FetchSub, CheckRetiring, LoadGeneration, SnapshotLife,
       RetireReady,
       RetireBuilding, Retire, WipeTarget, WipeGeneration, FreeTheSlot, history
  <2> QED  BY Zenon, <1>w, <1>3, <2>1, ReleasePins DEF PinInv
<1>4. CASE UNCHANGED vars
  <2>1. ~ raced  BY Zenon, <1>4 DEF vars, history
  <2> QED  BY Zenon, <1>4, <2>1, PinStutter DEF PinInv
<1> QED  BY Zenon, <1>1, <1>2, <1>3, <1>4 DEF Next

(* The invariant gives what the run checks: the counter counts the         *)
(* holders, and a handle pins its slot.                                    *)
LEMMA PinImpliesInUse == FilterInv /\ PinInv => SlotsInUseStay
<1> SUFFICES ASSUME FilterInv, Pinned PROVE ReferencesPinTheirSlot
  BY Zenon DEF PinInv, SlotsInUseStay, ReferencesPinTheirSlot, FilterInv
<1>w. Words  BY Zenon, TypesGiveWords DEF FilterInv
<1>1. ASSUME NEW p \in Probers, NEW h \in probes[p] PROVE ~ CountedIn(p, h.slot)
  <2>1. LookupOK(p) /\ h.slot \in Int /\ p # Worker
    BY Zenon, <1>w DEF Words, Roles, ProbesType, SlotNumbers, Pinned, LookupsOK
  <2>2. ASSUME at[p] = h.slot PROVE ~ (h.slot < at[p])
    BY <2>1, <2>2
  <2> QED  BY Zenon, <2>1, <2>2 DEF CountedIn, LookupOK, Walking
<1> QED
  BY Zenon, <1>1 DEF Pinned, RefsCount, Claimed, HandlesOK, HandleOK, ReferencesPinTheirSlot

(* And a retired slot has somebody who will free it, clean for the next    *)
(* builder.                                                                *)
LEMMA PinImpliesComeBack == PinInv => RetiredSlotsComeBack
<1> SUFFICES ASSUME Pinned PROVE RetiredSlotsComeBack
  BY Zenon DEF PinInv, RetiredSlotsComeBack
<1>1. ASSUME NEW i \in Slots, state[i] = "RETIRING" PROVE refs[i] > 0 \/ Freeing(i)
  <2>1. PICK p \in Procs : Holds(p, i) \/ FreeingAt(p, i)
    BY Zenon, <1>1 DEF Pinned, StatesOK
  <2>2. CASE FreeingAt(p, i)
    BY Zenon, <2>2 DEF Freeing, FreeingAt, FreeingLabels
  <2>3. CASE Holds(p, i)
    <3>1. ~ Claimed(i)  BY Zenon, <2>3 DEF Pinned, NobodyHolds
    <3>2. refs[i] = Cardinality(Holders(i)) /\ Holders(i) \in SUBSET Procs /\ p \in Holders(i)
      BY Zenon, <2>3, <3>1 DEF Pinned, RefsCount, Holders
    <3>3. Cardinality(Holders(i)) \in Nat /\ Cardinality(Holders(i)) # 0
      <4>1. IsFiniteSet(Procs)  BY Zenon, ProcsAreFinite
      <4>2. IsFiniteSet(Holders(i))  BY Zenon, <3>2, <4>1, FS_Subset
      <4> QED  BY Zenon, <3>2, <4>2, FS_EmptySet, FS_CardinalityType
    <3> QED  BY <3>2, <3>3
  <2> QED  BY Zenon, <2>1, <2>2, <2>3
<1>2. pc[Worker] = "acquire" => life[at[Worker]] \in {"Free", "Disabled"}
  BY Zenon DEF Pinned, OwnerOK, Buildable
<1> QED  BY Zenon, <1>1, <1>2 DEF RetiredSlotsComeBack

(***************************************************************************)
(* As long as no lookup has raced with a claim or a retirement, refs       *)
(* counts the holders of a slot exactly, and a slot with a probe handle    *)
(* keeps its target and generation (lookup_probes, release_ref).           *)
(***************************************************************************)
THEOREM SlotsStayWhileReferenced == Spec => []SlotsInUseStay
<1> QED  BY PTL, FilterInit, FilterStep, PinInit, PinStep, PinImpliesInUse DEF Spec

(***************************************************************************)
(* Under the same condition a retiring slot always has a reference left or *)
(* a release_ref() in the middle of freeing it, and a slot the pool hands  *)
(* out can be taken by a builder: allocate_build() never fails with Busy.  *)
(***************************************************************************)
THEOREM RetiredSlotsAreFreed == Spec => []RetiredSlotsComeBack
<1> QED  BY PTL, FilterInit, FilterStep, PinInit, PinStep, PinImpliesComeBack DEF Spec
=============================================================================
