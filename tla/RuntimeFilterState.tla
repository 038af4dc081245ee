---------------------------- MODULE RuntimeFilterState ----------------------
(***************************************************************************)
(* The state of the pool of join filters: its slots, the worker that       *)
(* builds a filter and the backends that probe it, where each of them is   *)
(* in its code, what must hold of them (NeverRejectsAJoinableRow,          *)
(* SlotsInUseStay, RetiredSlotsComeBack) and the inductive invariants      *)
(* behind that. Sound is the one behind the first and holds whatever       *)
(* lookups race with; Pinned is the one behind the other two and holds     *)
(* until a lookup races with a claim or a retirement.                      *)
(***************************************************************************)
EXTENDS Integers, FiniteSets

CONSTANTS
    Probers,        \* backends that open probe-side scans
    Keys,           \* join keys
    JoinKeys,       \* the keys on the build side of each target
    SlotCount,
    MaxBuilds,      \* bound: filters the worker builds
    MaxScans,       \* bound: scans a backend opens
    MaxRows,        \* bound: rows a scan shows to a filter that is ready
    RefMod          \* refs is an unsigned counter: it wraps

Worker == "worker"
Procs == {Worker} \cup Probers
Slots == 1..SlotCount
Targets == 1..MaxBuilds
NoTarget == 0
NoKey == "none"

ASSUME FilterAssumption ==
    /\ Worker \notin Probers /\ IsFiniteSet(Probers) /\ IsFiniteSet(Keys)
    /\ SlotCount \in Nat \ {0} /\ MaxBuilds \in Nat /\ MaxScans \in Nat
    /\ JoinKeys \in [Targets -> SUBSET Keys]
    /\ MaxRows \in Nat
    /\ RefMod \in Nat /\ RefMod > Cardinality(Probers) + 1    \* a u32, a few backends

VARIABLES
    state, refs, target, generation,    \* PoolSlot: a word for each slot
    lifeGen, life,  \* the lifecycle word of its header: generation and state
    bits,       \* the keys whose bits are set in its filter
    pc, back,   \* where each process is, and where its release_ref returns to
    at,         \* the slot it is working on
    g,          \* the generation in its handle, or loaded by its release_ref
    build,      \* the target of the worker's current build
    todo,       \* keys the build has still to insert
    want,       \* the target of each backend's scan
    probes,     \* the RuntimeFilterProbeHandles of each scan
    key, rows,  \* the row being probed, and rows left
    scans,      \* scans left
    rejected,   \* history: <<target, key>> of rows skipped in a live query
    raced       \* history: a lookup took its reference while the slot was
                \* being claimed, or saw it ALLOCATED before its owner left
                \* and takes the reference after

worker == <<build, todo>>
scan == <<want, probes, key, rows, scans>>
control == <<pc, back, at, g>>
history == <<rejected, raced>>
slots == <<state, refs, target, generation, lifeGen, life, bits>>
vars == <<slots, control, worker, scan, history>>

(* The lifecycle word of a slot: a generation and the state it is in.      *)
InBuild(i, gen, st) == lifeGen[i] = gen /\ life[i] = st

(* The plan of a query opens its scans after the planning that allocates   *)
(* the filter; a scan may outlive the query.                               *)
Allocating ==
    pc[Worker] \in {"claim", "refs", "target", "acquire", "clear", "generation"}
Planned == {t \in Targets : t < build \/ (t = build /\ ~Allocating)}

(* A row skipped after the query has ended is of no account.               *)
QueryLives(t) == build = t /\ pc[Worker] \in {"build", "owner"}

Goto(p, label) == pc' = [pc EXCEPT ![p] = label]

-----------------------------------------------------------------------------
PcLabels ==
    {"idle", "claim", "refs", "target", "acquire", "giveBack", "clear",
     "generation", "build", "owner", "lookup", "addRef", "recheck", "match",
     "attach", "nextSlot", "scan", "bits", "release", "checkState",
     "loadGeneration", "snapshot", "retireReady", "disableBuild", "wipe",
     "wipeGeneration", "free"}

SlotStates == {"FREE", "ALLOCATED", "RETIRING"}
LifeStates == {"Free", "Building", "Ready", "Disabled"}

(* The counters stay in their width, and the generations in the words they *)
(* are packed into (pack_lifecycle_word).                                  *)
TypeOK ==
    /\ state \in [Slots -> SlotStates] /\ refs \in [Slots -> 0..(RefMod - 1)]
    /\ target \in [Slots -> 0..MaxBuilds] /\ generation \in [Slots -> 0..MaxBuilds]
    /\ lifeGen \in [Slots -> 0..MaxBuilds] /\ life \in [Slots -> LifeStates]
    /\ bits \in [Slots -> SUBSET Keys]
    /\ pc \in [Procs -> PcLabels]
    /\ back \in [Procs -> {"idle", "nextSlot", "scan"}]
    /\ at \in [Procs -> Slots] /\ g \in [Procs -> 0..MaxBuilds]
    /\ build \in 0..MaxBuilds /\ todo \subseteq Keys
    /\ want \in [Probers -> 0..MaxBuilds]
    /\ probes \in [Probers -> SUBSET [slot : Slots, gen : 0..MaxBuilds]]
    /\ key \in [Probers -> Keys \cup {NoKey}]
    /\ rows \in [Probers -> 0..MaxRows] /\ scans \in [Probers -> 0..MaxScans]
    /\ rejected \subseteq (0..MaxBuilds) \X Keys /\ raced \in BOOLEAN

(* A backend skips a row only if no build-side row of its own join has the *)
(* row's key, whatever happened to the slot between the lookup, the check  *)
(* of the lifecycle word and the reads of the bits.                        *)
NeverRejectsAJoinableRow ==
    \A r \in rejected : r[2] \notin JoinKeys[r[1]]

(* The references of a slot: its owner's, one for each handle, and those   *)
(* of the lookups that have counted themselves in and not yet out.         *)
CountedIn(p, i) ==
    /\ at[p] = i
    /\ pc[p] \in IF p = Worker
                  THEN {"target", "acquire", "clear", "generation", "build", "owner", "release"}
                  ELSE {"recheck", "match", "attach", "release"}
HasHandle(p, i) == p \in Probers /\ \E h \in probes[p] : h.slot = i
Holds(p, i) == CountedIn(p, i) \/ HasHandle(p, i)
Holders(i) == {p \in Procs : Holds(p, i)}

(* refs counts the holders of the slot exactly, from the moment the claim  *)
(* has stored 1, so that the reference that reads 1 is the last one; no    *)
(* process holds two references to a slot.  And while a scan holds a probe *)
(* handle its slot is not given to another build: it keeps the scan's      *)
(* target, and the lifecycle word stays in the generation the handle was   *)
(* created for, or had not reached it yet when the handle was created (its *)
(* generation is then 0 and never matches).  All are true until a lookup   *)
(* races with a claim or a retirement.                                     *)
ReferencesPinTheirSlot ==
    raced \/
    /\ \A i \in Slots :
          \/ pc[Worker] = "refs" /\ at[Worker] = i
          \/ refs[i] = Cardinality(Holders(i))
    /\ \A p \in Probers : \A h \in probes[p] :
          /\ ~ CountedIn(p, h.slot)
          /\ \A h2 \in probes[p] : h2.slot = h.slot => h2 = h
          /\ target[h.slot] = want[p]
          /\ h.gen \in {0, lifeGen[h.slot]}

(* A slot whose filter some scan still references is not rebuilt, and the  *)
(* counters and generations stay in their words (pack_lifecycle_word).     *)
SlotsInUseStay == TypeOK /\ ReferencesPinTheirSlot

Freeing(i) ==
    \E p \in Procs :
        at[p] = i /\ pc[p] \in {"checkState", "loadGeneration", "snapshot", "retireReady",
                               "disableBuild", "wipe", "wipeGeneration", "free"}

(* A slot whose owner has left is not forgotten: it still has a holder,    *)
(* whose release_ref will free it, or somebody is freeing it.  And a slot  *)
(* the pool hands out is one a builder can take, so that planning never    *)
(* fails over an optimisation.  Both are true until a lookup races with a  *)
(* claim or a retirement.                                                  *)
RetiredSlotsComeBack ==
    raced \/
    /\ \A i \in Slots : state[i] = "RETIRING" => refs[i] > 0 \/ Freeing(i)
    /\ pc[Worker] = "acquire" => life[at[Worker]] \in {"Free", "Disabled"}

-----------------------------------------------------------------------------
(* The steps of release_ref() after the count: only the last reference     *)
(* takes them.                                                             *)
FreeingLabels ==
    {"checkState", "loadGeneration", "snapshot", "retireReady",
     "disableBuild", "wipe", "wipeGeneration", "free"}

(* Where release_ref() can be, and where the worker and a backend can be.  *)
ReleaseLabels == {"release"} \cup FreeingLabels
WorkerLabels ==
    {"idle", "claim", "refs", "target", "acquire", "giveBack", "clear",
     "generation", "build", "owner"} \cup ReleaseLabels
ProberLabels ==
    {"idle", "lookup", "addRef", "recheck", "match", "attach", "nextSlot",
     "scan", "bits"} \cup ReleaseLabels

-----------------------------------------------------------------------------
(* Sound: the current build has its target and its generation to itself.   *)
(* Older slots carry smaller ones, so a scan of the running query can only *)
(* be probing the worker's own slot, and that one is "Ready" only after    *)
(* all keys of the build side went in.                                     *)

(* The worker is in its own code, and its release_ref() returns to it.     *)
WorkerOK ==
    /\ pc[Worker] \in WorkerLabels
    /\ pc[Worker] \in ReleaseLabels => back[Worker] = "idle"
    /\ pc[Worker] # "idle" => build >= 1

(* A slot's generation is at most the number of builds begun, and less     *)
(* while the current build has not taken its own.                          *)
Numbering == {"claim", "refs", "target", "acquire"}
GenerationsLag ==
    \A i \in Slots :
        /\ lifeGen[i] <= build
        /\ pc[Worker] \in Numbering => lifeGen[i] < build

(* Only the worker's slot can carry the target of the current build.       *)
Claiming == {"claim", "refs", "target"}
TargetsOK ==
    \A i \in Slots :
        /\ target[i] <= build
        /\ build >= 1 /\ target[i] = build => i = at[Worker] /\ pc[Worker] \notin Claiming

(* The worker's slot is in its handle's generation. While it is being      *)
(* built, all keys but those in todo are in the bits; once it is ready,    *)
(* all are.                                                                *)
BuilderOK ==
    LET i == at[Worker] IN
    /\ pc[Worker] \in {"clear", "generation", "build"} =>
          lifeGen[i] = g[Worker] /\ life[i] \in {"Building", "Disabled"}
    /\ pc[Worker] = "build" /\ life[i] = "Building" => JoinKeys[build] \ todo \subseteq bits[i]
    /\ Allocating => todo = JoinKeys[build]
    /\ pc[Worker] = "owner" /\ life[i] = "Ready" => JoinKeys[build] \subseteq bits[i]

(* A backend is in its own code, its release_ref() returns to it, and it   *)
(* has handles only in a scan. A scan of the current query was opened      *)
(* after the allocation, and all its filters are in the worker's slot; a   *)
(* backend about to read the bits for the running query reads the complete *)
(* bits of that slot.                                                      *)
ScanOK(p) ==
    /\ pc[p] \in ProberLabels
    /\ pc[p] \in ReleaseLabels => back[p] \in {"nextSlot", "scan"}
    /\ pc[p] = "idle" => probes[p] = {}
    /\ pc[p] # "idle" => want[p] >= 1
    /\ pc[p] = "bits" => key[p] \in Keys
    /\ want[p] <= build
    /\ build >= 1 /\ want[p] = build =>
          /\ ~ Allocating
          /\ pc[p] = "attach" => at[p] = at[Worker]
          /\ \A h \in probes[p] : h.slot = at[Worker]
    /\ pc[p] = "bits" /\ QueryLives(want[p]) =>
          at[p] = at[Worker] /\ JoinKeys[build] \subseteq bits[at[Worker]]

Sound ==
    /\ WorkerOK /\ GenerationsLag /\ TargetsOK /\ BuilderOK
    /\ \A p \in Probers : ScanOK(p)
    /\ NeverRejectsAJoinableRow
FilterInv == TypeOK /\ Sound

-----------------------------------------------------------------------------
(* Pinned: refs is the number of holders, and nobody holds a slot that is  *)
(* free, just claimed, or being freed.                                     *)

Owned(i) ==
    at[Worker] = i /\ pc[Worker] \in {"refs", "target", "acquire", "clear", "generation",
                                      "build", "owner"}
Claimed(i) == pc[Worker] = "refs" /\ at[Worker] = i
Clean(i) == target[i] = NoTarget /\ generation[i] = 0
Buildable(i) == life[i] \in {"Free", "Disabled"}
FreeingAt(p, i) == at[p] = i /\ pc[p] \in FreeingLabels

(* refs is the number of holders, once the claim has stored 1.             *)
RefsCount == \A i \in Slots : Claimed(i) \/ refs[i] = Cardinality(Holders(i))

(* A slot that is free, just claimed or being freed has no holder.         *)
NobodyHolds ==
    \A i \in Slots :
        state[i] = "FREE" \/ Claimed(i) \/ (\E p \in Procs : FreeingAt(p, i))
           => \A p \in Procs : ~ Holds(p, i)

(* The state of a slot says who is responsible for it: its owner, a        *)
(* holder, or the process freeing it. A free slot is clean.                *)
StatesOK ==
    \A i \in Slots :
        /\ state[i] = "ALLOCATED" <=> Owned(i)
        /\ state[i] = "FREE" => Clean(i) /\ Buildable(i)
        /\ state[i] = "RETIRING" => \E p \in Procs : Holds(p, i) \/ FreeingAt(p, i)
        /\ state[i] = "RETIRING" => generation[i] = lifeGen[i]
              \/ \E p \in Procs : at[p] = i /\ pc[p] = "free"

(* What the worker has written into the slot it owns so far.               *)
OwnerOK ==
    LET i == at[Worker] IN
    /\ pc[Worker] # "giveBack"
    /\ pc[Worker] \in {"refs", "target"} => Clean(i)
    /\ pc[Worker] \in {"refs", "target", "acquire"} => Buildable(i)
    /\ pc[Worker] \in {"refs", "target", "acquire", "clear", "generation"} => generation[i] = 0
    /\ pc[Worker] \in {"build", "owner"} => generation[i] = lifeGen[i]
    /\ pc[Worker] = "release" => state[i] = "RETIRING"

(* What a process that frees a slot has undone so far, and that it is      *)
(* alone in this.                                                          *)
FreeOK(p) ==
    LET i == at[p] IN
    pc[p] \in FreeingLabels =>
        /\ state[i] = "RETIRING"
        /\ pc[p] \in {"snapshot", "retireReady", "disableBuild"} => g[p] = lifeGen[i]
        /\ pc[p] = "retireReady" => life[i] = "Ready"
        /\ pc[p] = "disableBuild" => life[i] = "Building"
        /\ pc[p] \in {"wipe", "wipeGeneration", "free"} => Buildable(i)
        /\ pc[p] \in {"wipeGeneration", "free"} => target[i] = NoTarget
        /\ pc[p] = "free" => generation[i] = 0
OneFrees ==
    \A p, q \in Procs :
        pc[p] \in FreeingLabels /\ pc[q] \in FreeingLabels /\ at[p] = at[q] => p = q

(* A lookup that may still attach looks at a slot in its target, and has   *)
(* handles only to the slots it has passed.                                *)
Walking == {"lookup", "addRef", "recheck", "match", "attach", "nextSlot"}
LookupOK(p) ==
    /\ pc[p] = "addRef" => state[at[p]] = "ALLOCATED"
    /\ pc[p] = "attach" => target[at[p]] = want[p]
    /\ pc[p] \in Walking \/ (pc[p] \in ReleaseLabels /\ back[p] = "nextSlot")
         => \A h \in probes[p] : h.slot < at[p]
    /\ pc[p] = "release" => \A h \in probes[p] : h.slot # at[p]

(* A handle's slot keeps the target and the generation it was created for. *)
HandleOK(p, h) ==
    /\ \A h2 \in probes[p] : h2.slot = h.slot => h2 = h
    /\ target[h.slot] = want[p]
    /\ h.gen \in {0, lifeGen[h.slot]}
    /\ at[Worker] = h.slot /\ pc[Worker] \in {"target", "acquire"} => h.gen = 0

LookupsOK == \A p \in Probers : LookupOK(p)
HandlesOK == \A p \in Probers : \A h \in probes[p] : HandleOK(p, h)
FreesOK == OneFrees /\ \A p \in Procs : FreeOK(p)

Pinned ==
    RefsCount /\ NobodyHolds /\ StatesOK /\ OwnerOK /\ FreesOK /\ LookupsOK /\ HandlesOK
PinInv == raced \/ Pinned

-----------------------------------------------------------------------------
(* What the steps need of TypeOK: the words the invariants compare, and    *)
(* where the handles point.                                                *)
SlotNumbers == 1 \in Slots /\ Slots \subseteq Int
Roles == Worker \in Procs /\ Worker \notin Probers /\ Probers \subseteq Procs
PcType == pc \in [Procs -> PcLabels]
BackType == back \in [Procs -> {"idle", "nextSlot", "scan"}]
AtType == at \in [Procs -> Slots]
GType == g \in [Procs -> 0..MaxBuilds]
BuildType == build \in 0..MaxBuilds
StateType == state \in [Slots -> SlotStates]
RefsType == refs \in [Slots -> 0..(RefMod - 1)]
TargetType == target \in [Slots -> 0..MaxBuilds]
GenerationType == generation \in [Slots -> 0..MaxBuilds]
LifeGenType == lifeGen \in [Slots -> 0..MaxBuilds]
LifeType == life \in [Slots -> LifeStates]
BitsType == bits \in [Slots -> SUBSET Keys]
WantType == want \in [Probers -> 0..MaxBuilds]
ProbesType ==
    /\ probes \in [Probers -> SUBSET [slot : Slots, gen : 0..MaxBuilds]]
    /\ \A q \in Probers : \A h \in probes[q] : h.slot \in Slots
KeyType == key \in [Probers -> Keys \cup {NoKey}]
Words ==
    /\ SlotNumbers /\ Roles /\ PcType /\ BackType /\ AtType /\ GType /\ BuildType
    /\ StateType /\ RefsType /\ TargetType /\ GenerationType
    /\ LifeGenType /\ LifeType /\ BitsType /\ WantType /\ ProbesType /\ KeyType

(* The arithmetic of the words: what a step adds or subtracts stays in     *)
(* range.                                                                  *)
Ranges ==
    /\ 1 \in Slots /\ \A i \in Slots : i = SlotCount \/ i + 1 \in Slots
    /\ NoTarget \in 0..MaxBuilds /\ Targets \subseteq 0..MaxBuilds /\ 0 \in 0..MaxBuilds
    /\ \A b \in 0..MaxBuilds : b < MaxBuilds => b + 1 \in Targets
    /\ \A n, b \in 0..MaxBuilds : n < b => n + 1 \in 0..MaxBuilds
    /\ 0 \in 0..(RefMod - 1) /\ 1 \in 0..(RefMod - 1)
    /\ \A r \in 0..(RefMod - 1) : (r + 1) % RefMod \in 0..(RefMod - 1)
    /\ \A r \in 0..(RefMod - 1) : (r + RefMod - 1) % RefMod \in 0..(RefMod - 1)
    /\ 0 \in 0..MaxRows /\ MaxRows \in 0..MaxRows
    /\ \A n \in 0..MaxRows : n > 0 => n - 1 \in 0..MaxRows
    /\ MaxScans \in 0..MaxScans
    /\ \A n \in 0..MaxScans : n > 0 => n - 1 \in 0..MaxScans
    /\ JoinKeys \in [Targets -> SUBSET Keys]

(* refs counts any set of processes exactly: it does not wrap.             *)
Counting ==
    /\ Cardinality({Worker}) = 1
    /\ \A S \in SUBSET Procs : \A p \in Procs :
          /\ Cardinality(S) \in 0..(RefMod - 1)
          /\ p \notin S => Cardinality(S \cup {p}) = (Cardinality(S) + 1) % RefMod
          /\ p \in S => Cardinality(S \ {p}) = (Cardinality(S) + RefMod - 1) % RefMod
          /\ p \in S => (Cardinality(S) = 1 <=> S = {p})
=============================================================================
