------------------------ MODULE RuntimeFilter_build -------------------------
(***************************************************************************)
(* The worker's steps: allocate_build(), insert_hash(), publish_ready(),   *)
(* disable_build() and release_owner() keep the invariants of the pool of  *)
(* join filters, for any number of backends, slots, builds, scans, rows    *)
(* and keys.                                                               *)
(*                                                                         *)
(* Onward, Seeks, Builds and Fills say what these steps leave alone, so    *)
(* that what is left to show of most of them is what they do to the        *)
(* worker's own slot.                                                      *)
(***************************************************************************)
EXTENDS RuntimeFilter, TLAPS

(* A step of the worker within one build: it only moves on, takes its      *)
(* target and its generation at the labels where these belong, and no      *)
(* longer removes keys once the slot is allocated.                         *)
Onward ==
    /\ pc[Worker] # "idle" /\ pc'[Worker] \in WorkerLabels
    /\ pc'[Worker] \in ReleaseLabels => back'[Worker] = "idle"
    /\ Allocating' => Allocating
    /\ pc'[Worker] \in Numbering => pc[Worker] \in Numbering
    /\ pc'[Worker] \in Claiming => pc[Worker] \in Claiming
    /\ pc'[Worker] \in {"build", "owner"} => Allocating \/ pc[Worker] \in {"build", "owner"}
    /\ \A q \in Procs \ {Worker} : pc'[q] = pc[q] /\ back'[q] = back[q]
    /\ at' = at /\ build' = build /\ want' = want /\ probes' = probes /\ key' = key
    /\ rejected' = rejected
    /\ \A j \in Slots :
          /\ \/ lifeGen'[j] = lifeGen[j]
             \/ /\ lifeGen'[j] = lifeGen[j] + 1
                /\ pc[Worker] \in Numbering /\ pc'[Worker] \notin Numbering
          /\ \/ target'[j] = target[j]
             \/ target'[j] = build /\ j = at[Worker] /\ pc'[Worker] \notin Claiming
          /\ Allocating \/ bits[j] \subseteq bits'[j]

(* Such a step keeps Sound if it keeps what is said of the worker's slot.  *)
LEMMA OnwardKeeps ==
    ASSUME Words, Sound, Onward, BuilderOK'
    PROVE  Sound'
<1>u. /\ at' = at /\ build' = build /\ want' = want /\ probes' = probes /\ key' = key
      /\ rejected' = rejected /\ build >= 1
  BY Zenon DEF Onward, Sound, WorkerOK
<1>1. WorkerOK'
  BY Zenon, <1>u DEF Onward, WorkerOK
<1>2. GenerationsLag'
  <2> SUFFICES ASSUME NEW j \in Slots
               PROVE  lifeGen'[j] <= build /\ (pc'[Worker] \in Numbering => lifeGen'[j] < build)
    BY Zenon, <1>u DEF GenerationsLag
  <2>1. lifeGen[j] <= build /\ (pc[Worker] \in Numbering => lifeGen[j] < build)
    BY Zenon DEF Sound, GenerationsLag
  <2>2. lifeGen[j] \in Int /\ build \in Int  BY DEF Words, LifeGenType, BuildType
  <2>3. CASE lifeGen'[j] = lifeGen[j]
    BY Zenon, <2>1, <2>3 DEF Onward
  <2>4. CASE lifeGen'[j] = lifeGen[j] + 1 /\ pc[Worker] \in Numbering /\ pc'[Worker] \notin Numbering
    BY <2>1, <2>2, <2>4
  <2> QED  BY Zenon, <2>3, <2>4 DEF Onward
<1>3. TargetsOK'
  <2> SUFFICES ASSUME NEW j \in Slots
               PROVE  /\ target'[j] <= build
                      /\ target'[j] = build => j = at[Worker] /\ pc'[Worker] \notin Claiming
    BY Zenon, <1>u DEF TargetsOK
  <2>1. /\ target[j] <= build
        /\ target[j] = build => j = at[Worker] /\ pc[Worker] \notin Claiming
    BY Zenon, <1>u DEF Sound, TargetsOK
  <2>2. CASE target'[j] = target[j]
    BY Zenon, <2>1, <2>2 DEF Onward
  <2>3. CASE target'[j] = build /\ j = at[Worker] /\ pc'[Worker] \notin Claiming
    BY <2>3 DEF Words, BuildType
  <2> QED  BY Zenon, <2>2, <2>3 DEF Onward
<1>4. ASSUME NEW q \in Probers PROVE ScanOK(q)'
  <2>1. ScanOK(q) /\ q \in Procs /\ q # Worker  BY Zenon DEF Words, Roles, Sound
  <2>2. pc'[q] = pc[q] /\ back'[q] = back[q]  BY Zenon, <2>1 DEF Onward
  <2>3. want[q] = build => ~ Allocating /\ ~ Allocating'
    BY Zenon, <1>u, <2>1 DEF ScanOK, Onward
  <2>4. QueryLives(want[q])' => QueryLives(want[q]) /\ bits[at[Worker]] \subseteq bits'[at[Worker]]
    BY Zenon, <1>u, <2>3 DEF Words, Roles, AtType, QueryLives, Onward
  <2> QED  BY <1>u, <2>1, <2>2, <2>3, <2>4 DEF ScanOK
<1>5. NeverRejectsAJoinableRow'
  BY Zenon, <1>u DEF Sound, NeverRejectsAJoinableRow
<1> QED  BY Zenon, <1>1, <1>2, <1>3, <1>4, <1>5 DEF Sound

-----------------------------------------------------------------------------
(* No step of the worker lets an incomplete filter be used for its join:   *)
(* it publishes its slot only with all keys of the build side in it.       *)
LEMMA BuildKeeps ==
    ASSUME Words, Sound, Allocate \/ Build
    PROVE  Sound'
<1>1. CASE BeginBuild
  <2>u. /\ pc[Worker] = "idle" /\ pc'[Worker] = "claim"
        /\ \A q \in Procs : q # Worker => pc'[q] = pc[q]
        /\ build' = build + 1 /\ todo' = JoinKeys[build']
        /\ back' = back /\ g' = g /\ want' = want /\ probes' = probes /\ key' = key
        /\ lifeGen' = lifeGen /\ target' = target /\ life' = life /\ bits' = bits
        /\ rejected' = rejected
    BY Zenon, <1>1 DEF Words, Roles, PcType, BeginBuild, Goto, slots, scan, history
  <2>b. build \in Int /\ build >= 0  BY DEF Words, BuildType
  <2>1. WorkerOK'
    BY <2>u, <2>b DEF WorkerOK, WorkerLabels, ReleaseLabels, FreeingLabels
  <2>2. GenerationsLag' /\ TargetsOK'
    <3>1. \A j \in Slots : lifeGen[j] <= build /\ target[j] <= build
      BY Zenon DEF Sound, GenerationsLag, TargetsOK
    <3>2. \A j \in Slots : lifeGen[j] \in Int /\ target[j] \in Int
      BY DEF Words, LifeGenType, TargetType
    <3> QED  BY <2>u, <2>b, <3>1, <3>2 DEF GenerationsLag, TargetsOK
  <2>3. BuilderOK'
    BY Zenon, <2>u DEF BuilderOK
  <2>4. ASSUME NEW q \in Probers PROVE ScanOK(q)'
    <3>1. ScanOK(q) /\ pc'[q] = pc[q]  BY Zenon, <2>u DEF Words, Roles, Sound
    <3>2. want[q] <= build' /\ want[q] # build'
      <4>1. want[q] \in Int  BY DEF Words, WantType
      <4> QED  BY <2>u, <2>b, <3>1, <4>1 DEF ScanOK
    <3> QED  BY Zenon, <2>u, <3>1, <3>2 DEF ScanOK, QueryLives
  <2>5. NeverRejectsAJoinableRow'
    BY Zenon, <2>u DEF Sound, NeverRejectsAJoinableRow
  <2> QED  BY Zenon, <2>1, <2>2, <2>3, <2>4, <2>5 DEF Sound
<1>2. CASE SkipSlot
  <2>u. /\ pc[Worker] = "claim" /\ pc'[Worker] \in {"claim", "idle"}
        /\ \A q \in Procs : q # Worker => pc'[q] = pc[q] /\ at'[q] = at[q]
        /\ build' = build /\ todo' = todo
        /\ back' = back /\ g' = g /\ want' = want /\ probes' = probes /\ key' = key
        /\ lifeGen' = lifeGen /\ target' = target /\ life' = life /\ bits' = bits
        /\ rejected' = rejected
    BY Zenon, <1>2 DEF Words, Roles, PcType, AtType, SkipSlot, Goto, slots, worker, scan,
       history
  <2>b. build >= 1  BY Zenon, <2>u DEF Sound, WorkerOK
  <2>1. WorkerOK'
    BY Zenon, <2>u, <2>b DEF WorkerOK, WorkerLabels, ReleaseLabels, FreeingLabels
  <2>2. GenerationsLag' /\ TargetsOK'
    BY Zenon, <2>u, <2>b DEF Sound, GenerationsLag, TargetsOK, Numbering, Claiming
  <2>3. BuilderOK'
    BY Zenon, <2>u DEF Sound, BuilderOK, Allocating
  <2>4. ASSUME NEW q \in Probers PROVE ScanOK(q)'
    <3>1. ScanOK(q) /\ pc'[q] = pc[q] /\ at'[q] = at[q] /\ want[q] # build
      BY Zenon, <2>u, <2>b DEF Words, Roles, Sound, ScanOK, Allocating
    <3> QED  BY Zenon, <2>u, <3>1 DEF ScanOK, QueryLives
  <2>5. NeverRejectsAJoinableRow'
    BY Zenon, <2>u DEF Sound, NeverRejectsAJoinableRow
  <2> QED  BY Zenon, <2>1, <2>2, <2>3, <2>4, <2>5 DEF Sound
<1>3. ASSUME Allocate \/ Build, ~ BeginBuild, ~ SkipSlot PROVE Onward /\ BuilderOK'
  <2> USE DEF WorkerLabels, ReleaseLabels, FreeingLabels, Numbering, Claiming
  <2>b. BuilderOK  BY Zenon DEF Sound
  <2>1. CASE ClaimSlot
    <3>1. Onward
      BY Zenon, <2>1 DEF Words, Roles, PcType, ClaimSlot, Goto, worker, scan, history,
         Allocating, Onward
    <3>2. BuilderOK'
      BY Zenon, <2>1, <2>b DEF Words, Roles, PcType, ClaimSlot, Goto, worker, scan,
         history, Allocating, BuilderOK
    <3> QED  BY Zenon, <3>1, <3>2
  <2>2. CASE StoreRefs
    <3>1. Onward
      BY Zenon, <2>2 DEF Words, Roles, PcType, StoreRefs, Goto, worker, scan, history,
         Allocating, Onward
    <3>2. BuilderOK'
      BY Zenon, <2>2, <2>b DEF Words, Roles, PcType, StoreRefs, Goto, worker, scan,
         history, Allocating, BuilderOK
    <3> QED  BY Zenon, <3>1, <3>2
  <2>3. CASE StoreTarget
    <3>1. Onward
      BY Zenon, <2>3 DEF Words, Roles, PcType, TargetType, StoreTarget, Goto, worker, scan,
         history, Allocating, Onward
    <3>2. BuilderOK'
      BY Zenon, <2>3, <2>b DEF Words, Roles, PcType, TargetType, StoreTarget, Goto, worker,
         scan, history, Allocating, BuilderOK
    <3> QED  BY Zenon, <3>1, <3>2
  <2>4. CASE TryAcquireBuilder
    <3>1. Onward
      BY Zenon, <2>4 DEF Words, Roles, PcType, AtType, GType, LifeGenType, LifeType,
         TryAcquireBuilder, Goto, worker, scan, history, Allocating, Onward
    <3>2. BuilderOK'
      BY Zenon, <2>4, <2>b DEF Words, Roles, PcType, AtType, GType, LifeGenType, LifeType,
         TryAcquireBuilder, Goto, worker, scan, history, Allocating, BuilderOK
    <3> QED  BY Zenon, <3>1, <3>2
  <2>5. CASE BuilderBusy
    <3>1. Onward
      BY Zenon, <2>5 DEF Words, Roles, PcType, BuilderBusy, Goto, worker, scan, history,
         Allocating, Onward
    <3>2. BuilderOK'
      BY Zenon, <2>5, <2>b DEF Words, Roles, PcType, BuilderBusy, Goto, worker, scan,
         history, Allocating, BuilderOK
    <3> QED  BY Zenon, <3>1, <3>2
  <2>6. CASE GiveBackSlot
    <3>1. Onward
      BY Zenon, <2>6 DEF Words, Roles, PcType, GiveBackSlot, Goto, worker, scan, history,
         Allocating, Onward
    <3>2. BuilderOK'
      BY Zenon, <2>6, <2>b DEF Words, Roles, PcType, GiveBackSlot, Goto, worker, scan,
         history, Allocating, BuilderOK
    <3> QED  BY Zenon, <3>1, <3>2
  <2>7. CASE ClearBits
    <3>1. Onward
      BY Zenon, <2>7 DEF Words, Roles, PcType, ClearBits, Goto, worker, scan, history,
         Allocating, Onward
    <3>2. BuilderOK'
      BY Zenon, <2>7, <2>b DEF Words, Roles, PcType, ClearBits, Goto, worker, scan,
         history, Allocating, BuilderOK
    <3> QED  BY Zenon, <3>1, <3>2
  <2>8. CASE StoreGeneration
    <3>1. Onward
      BY Zenon, <2>8 DEF Words, Roles, PcType, StoreGeneration, Goto, worker, scan,
         history, Allocating, Onward
    <3>2. BuilderOK'
      BY Zenon, <2>8, <2>b DEF Words, Roles, PcType, StoreGeneration, Goto, worker, scan,
         history, Allocating, BuilderOK
    <3> QED  BY Zenon, <3>1, <3>2
  <2>9. CASE \E k \in Keys : InsertHash(k)
    <3>1. Onward
      BY Zenon, <2>9 DEF Words, Roles, AtType, BitsType, InsertHash, InBuild, scan,
         control, history, control, Allocating, Onward
    <3>2. BuilderOK'
      BY <2>9, <2>b DEF Words, Roles, AtType, BitsType, InsertHash, InBuild, scan, control,
         history, control, Allocating, BuilderOK
    <3> QED  BY Zenon, <3>1, <3>2
  <2>10. CASE PublishReady
    <3>1. Onward
      BY Zenon, <2>10 DEF Words, Roles, PcType, AtType, LifeType, PublishReady, Goto,
         InBuild, worker, scan, history, Allocating, Onward
    <3>2. BuilderOK'
      BY Zenon, <2>10, <2>b DEF Words, Roles, PcType, AtType, LifeType, PublishReady, Goto,
         InBuild, worker, scan, history, Allocating, BuilderOK
    <3> QED  BY Zenon, <3>1, <3>2
  <2>11. CASE DisableBuild
    <3>1. Onward
      BY Zenon, <2>11 DEF Words, Roles, PcType, AtType, LifeType, DisableBuild, Goto,
         InBuild, scan, history, Allocating, Onward
    <3>2. BuilderOK'
      BY Zenon, <2>11, <2>b DEF Words, Roles, PcType, AtType, LifeType, DisableBuild, Goto,
         InBuild, scan, history, Allocating, BuilderOK
    <3> QED  BY Zenon, <3>1, <3>2
  <2>12. CASE ReleaseOwner
    <3>1. Onward
      BY Zenon, <2>12 DEF Words, Roles, PcType, BackType, ReleaseOwner, Goto, worker, scan,
         Allocating, Onward
    <3>2. BuilderOK'
      BY Zenon, <2>12, <2>b DEF Words, Roles, PcType, BackType, ReleaseOwner, Goto, worker,
         scan, Allocating, BuilderOK
    <3> QED  BY Zenon, <3>1, <3>2
  <2> QED
    BY Zenon, <1>3, <2>1, <2>2, <2>3, <2>4, <2>5, <2>6, <2>7, <2>8, <2>9, <2>10, <2>11,
       <2>12
       DEF Allocate, Build
<1> QED  BY Zenon, <1>1, <1>2, <1>3, OnwardKeeps

-----------------------------------------------------------------------------
(* The worker looks for a slot: it moves over the slots and leaves them as *)
(* they are.                                                               *)
Seeks ==
    /\ pc[Worker] \in {"idle", "claim"} /\ pc'[Worker] \in {"idle", "claim"}
    /\ \A q \in Procs \ {Worker} : pc'[q] = pc[q] /\ at'[q] = at[q]
    /\ back' = back /\ g' = g /\ want' = want /\ probes' = probes
    /\ state' = state /\ refs' = refs /\ target' = target
    /\ generation' = generation /\ lifeGen' = lifeGen /\ life' = life

(* A worker that has no slot holds none.                                   *)
LEMMA SeeksPins ==
    ASSUME Words, Pinned, Seeks
    PROVE  Pinned'
<1>u. /\ back' = back /\ g' = g /\ want' = want /\ probes' = probes
      /\ state' = state /\ refs' = refs /\ target' = target
      /\ generation' = generation /\ lifeGen' = lifeGen /\ life' = life
  BY Zenon DEF Seeks
<1>w. pc[Worker] \in {"idle", "claim"} /\ pc'[Worker] \in {"idle", "claim"}
  BY Zenon DEF Seeks
<1>o. \A q \in Procs : q # Worker => pc'[q] = pc[q] /\ at'[q] = at[q]
  BY Zenon DEF Seeks
<1>h. \A j \in Slots : \A q \in Procs : Holds(q, j)' <=> Holds(q, j)
  BY Zenon, <1>u, <1>w, <1>o DEF Holds, CountedIn, HasHandle
<1>c. \A j \in Slots : ~ Claimed(j) /\ ~ Claimed(j)' /\ ~ Owned(j) /\ ~ Owned(j)'
  BY Zenon, <1>w DEF Claimed, Owned
<1>e. \A j \in Slots : \A q \in Procs : FreeingAt(q, j)' <=> FreeingAt(q, j)
  BY Zenon, <1>w, <1>o DEF FreeingAt, FreeingLabels
<1>1. RefsCount'
  <2>1. \A j \in Slots : Holders(j)' = Holders(j)  BY Zenon, <1>h DEF Holders
  <2> QED  BY Zenon, <1>c, <1>u, <2>1 DEF Pinned, RefsCount
<1>2. NobodyHolds'
  BY Zenon, <1>h, <1>c, <1>e, <1>u DEF Pinned, NobodyHolds
<1>3. StatesOK'
  <2> SUFFICES ASSUME NEW j \in Slots, state[j] = "RETIRING"
               PROVE  /\ \E q \in Procs : Holds(q, j)' \/ FreeingAt(q, j)'
                      /\ generation[j] = lifeGen[j]
                            \/ \E q \in Procs : at'[q] = j /\ pc'[q] = "free"
    BY <1>c, <1>u DEF Pinned, StatesOK, Clean, Buildable
  <2>1. \E q \in Procs : Holds(q, j)' \/ FreeingAt(q, j)'
    BY Zenon, <1>h, <1>e DEF Pinned, StatesOK
  <2>2. \A q \in Procs : at[q] = j /\ pc[q] = "free" => at'[q] = j /\ pc'[q] = "free"
    BY Zenon, <1>o, <1>w
  <2> QED  BY Zenon, <2>1, <2>2 DEF Pinned, StatesOK
<1>4. OwnerOK'
  BY Zenon, <1>w DEF OwnerOK
<1>5. FreesOK'
  <2>1. OneFrees'
    BY Zenon, <1>o, <1>w DEF Pinned, FreesOK, OneFrees, FreeingLabels
  <2>2. ASSUME NEW q \in Procs PROVE FreeOK(q)'
    <3>1. CASE q = Worker  BY Zenon, <1>w, <3>1 DEF FreeOK, FreeingLabels
    <3>2. CASE q # Worker  BY Zenon, <1>u, <1>o, <3>2 DEF Pinned, FreesOK, FreeOK, Buildable
    <3> QED  BY Zenon, <3>1, <3>2
  <2> QED  BY Zenon, <2>1, <2>2 DEF FreesOK
<1>6. LookupsOK'
  <2>1. ASSUME NEW q \in Probers PROVE LookupOK(q)'
    <3>1. LookupOK(q) /\ q \in Procs /\ q # Worker  BY Zenon DEF Words, Roles, Pinned,
       LookupsOK
    <3> QED  BY Zenon, <1>u, <1>o, <3>1 DEF LookupOK
  <2> QED  BY Zenon, <2>1 DEF LookupsOK
<1>7. HandlesOK'
  BY Zenon, <1>u, <1>w DEF Pinned, HandlesOK, HandleOK
<1> QED  BY Zenon, <1>1, <1>2, <1>3, <1>4, <1>5, <1>6, <1>7 DEF Pinned

(* A step of the worker in the slot it owns: the state and the references  *)
(* of the slots stay, and the others' slots are left alone.                *)
OwnerLabels == {"target", "acquire", "clear", "generation", "build", "owner"}
Builds ==
    /\ pc[Worker] \in OwnerLabels /\ pc'[Worker] \in OwnerLabels
    /\ \A q \in Procs \ {Worker} : pc'[q] = pc[q] /\ g'[q] = g[q]
    /\ at' = at /\ back' = back /\ want' = want /\ probes' = probes
    /\ state' = state /\ refs' = refs
    /\ \A j \in Slots : j # at[Worker] =>
          /\ target'[j] = target[j] /\ generation'[j] = generation[j]
          /\ lifeGen'[j] = lifeGen[j] /\ life'[j] = life[j]

(* A worker that builds disturbs only what is said of its own slot.        *)
LEMMA BuildsPins ==
    ASSUME Words, Pinned, Builds, OwnerOK', LookupsOK', HandlesOK'
    PROVE  Pinned'
<1>i. PICK i \in Slots : i = at[Worker]  BY Zenon DEF Words, Roles, AtType
<1>u. /\ at' = at /\ back' = back /\ want' = want /\ probes' = probes
      /\ state' = state /\ refs' = refs
  BY Zenon DEF Builds
<1>w. pc[Worker] \in OwnerLabels /\ pc'[Worker] \in OwnerLabels
  BY Zenon DEF Builds
<1>o. \A q \in Procs : q # Worker => pc'[q] = pc[q] /\ g'[q] = g[q]
  BY Zenon DEF Builds
<1>j. \A j \in Slots : j # i =>
         /\ target'[j] = target[j] /\ generation'[j] = generation[j]
         /\ lifeGen'[j] = lifeGen[j] /\ life'[j] = life[j]
  BY Zenon, <1>i DEF Builds
<1>a. state[i] = "ALLOCATED"
  BY Zenon, <1>i, <1>w DEF OwnerLabels, Pinned, StatesOK, Owned
<1>h. \A j \in Slots : \A q \in Procs : Holds(q, j)' <=> Holds(q, j)
  BY Zenon, <1>u, <1>w, <1>o DEF OwnerLabels, Holds, CountedIn, HasHandle
<1>c. \A j \in Slots : (Claimed(j)' <=> Claimed(j)) /\ (Owned(j)' <=> Owned(j))
  BY Zenon, <1>u, <1>w DEF OwnerLabels, Claimed, Owned
<1>e. \A j \in Slots : \A q \in Procs : FreeingAt(q, j)' <=> FreeingAt(q, j)
  BY Zenon, <1>u, <1>w, <1>o DEF OwnerLabels, FreeingAt, FreeingLabels
<1>1. RefsCount'
  <2>1. \A j \in Slots : Holders(j)' = Holders(j)  BY Zenon, <1>h DEF Holders
  <2> QED  BY Zenon, <1>c, <1>u, <2>1 DEF Pinned, RefsCount
<1>2. NobodyHolds'
  BY Zenon, <1>h, <1>c, <1>e, <1>u DEF Pinned, NobodyHolds
<1>3. StatesOK'
  <2> SUFFICES ASSUME NEW j \in Slots, j # i
               PROVE  /\ state[j] = "FREE" => Clean(j)' /\ Buildable(j)'
                      /\ state[j] = "RETIRING" => \E q \in Procs : Holds(q, j)' \/ FreeingAt(q, j)'
                      /\ state[j] = "RETIRING" => generation'[j] = lifeGen'[j]
                            \/ \E q \in Procs : at[q] = j /\ pc'[q] = "free"
    <3>1. state[i] = "ALLOCATED" <=> Owned(i)'  BY Zenon, <1>c DEF Pinned, StatesOK
    <3>2. \A j \in Slots : state'[j] = "ALLOCATED" <=> Owned(j)'
      BY Zenon, <1>c, <1>u DEF Pinned, StatesOK
    <3> QED  BY <1>a, <1>u, <3>2 DEF StatesOK
  <2>1. state[j] = "FREE" => Clean(j)' /\ Buildable(j)'
    BY Zenon, <1>j DEF Pinned, StatesOK, Clean, Buildable
  <2>2. state[j] = "RETIRING" => \E q \in Procs : Holds(q, j)' \/ FreeingAt(q, j)'
    BY Zenon, <1>h, <1>e DEF Pinned, StatesOK
  <2>3. \A q \in Procs : at[q] = j /\ pc[q] = "free" => pc'[q] = "free"
    BY Zenon, <1>o, <1>i
  <2> QED  BY Zenon, <1>j, <2>1, <2>2, <2>3 DEF Pinned, StatesOK
<1>5. FreesOK'
  <2>1. OneFrees'
    BY Zenon, <1>u, <1>o, <1>w DEF OwnerLabels, Pinned, FreesOK, OneFrees, FreeingLabels
  <2>2. ASSUME NEW q \in Procs PROVE FreeOK(q)'
    <3>1. CASE q = Worker  BY Zenon, <1>w, <3>1 DEF OwnerLabels, FreeOK, FreeingLabels
    <3>2. CASE q # Worker
      <4>1. pc[q] \in FreeingLabels => at[q] # i  BY Zenon, <1>a DEF Pinned, FreesOK, FreeOK
      <4> QED  BY <1>u, <1>o, <1>j, <3>2, <4>1 DEF Words, AtType, Pinned, FreesOK, FreeOK,
         Buildable
    <3> QED  BY Zenon, <3>1, <3>2
  <2> QED  BY Zenon, <2>1, <2>2 DEF FreesOK
<1> QED  BY Zenon, <1>1, <1>2, <1>3, <1>5 DEF Pinned

(* Such a step once the slot has its target and its builder.               *)
Fills ==
    /\ Builds
    /\ pc'[Worker] \notin {"target", "acquire"}
    /\ target' = target /\ lifeGen' = lifeGen

(* Then the lookups and the handles stay good.                             *)
LEMMA FillsPins ==
    ASSUME Words, Pinned, Fills, OwnerOK'
    PROVE  Pinned'
<1>1. LookupsOK'
  <2>1. ASSUME NEW q \in Probers PROVE LookupOK(q)'
    <3>1. LookupOK(q) /\ q \in Procs /\ q # Worker  BY Zenon DEF Words, Roles, Pinned,
       LookupsOK
    <3> QED  BY Zenon, <3>1 DEF Fills, Builds, LookupOK
  <2> QED  BY Zenon, <2>1 DEF LookupsOK
<1>2. HandlesOK'
  BY Zenon DEF Fills, Builds, Pinned, HandlesOK, HandleOK
<1> QED  BY Zenon, <1>1, <1>2, BuildsPins DEF Fills

-----------------------------------------------------------------------------
(* A free slot is clean and nobody holds it: it can be claimed.            *)
LEMMA ClaimSlotPins ==
    ASSUME Words, Pinned, ClaimSlot
    PROVE  Pinned'
<1>i. PICK i \in Slots : i = at[Worker]  BY Zenon DEF Words, Roles, AtType
<1>u. /\ refs' = refs /\ target' = target /\ generation' = generation
      /\ lifeGen' = lifeGen /\ life' = life /\ back' = back /\ at' = at /\ g' = g
      /\ want' = want /\ probes' = probes
  BY Zenon DEF ClaimSlot, scan
<1>s. state[i] = "FREE" /\ state'[i] = "ALLOCATED" /\ \A j \in Slots : j # i => state'[j] = state[j]
  BY Zenon, <1>i DEF Words, StateType, ClaimSlot
<1>w. pc[Worker] = "claim" /\ pc'[Worker] = "refs"
  BY Zenon DEF Words, Roles, PcType, ClaimSlot, Goto
<1>o. \A q \in Procs : q # Worker => pc'[q] = pc[q]
  BY Zenon DEF Words, PcType, ClaimSlot, Goto
<1>h. \A j \in Slots : \A q \in Procs : Holds(q, j)' <=> Holds(q, j)
  BY Zenon, <1>u, <1>w, <1>o DEF Holds, CountedIn, HasHandle
<1>c. \A j \in Slots : ~ Claimed(j) /\ ~ Owned(j) /\ (Claimed(j)' <=> j = i) /\ (Owned(j)' <=> j = i)
  BY Zenon, <1>i, <1>u, <1>w DEF Claimed, Owned
<1>e. \A j \in Slots : \A q \in Procs : FreeingAt(q, j)' <=> FreeingAt(q, j)
  BY Zenon, <1>u, <1>w, <1>o DEF FreeingAt, FreeingLabels
<1>p. Clean(i) /\ Buildable(i) /\ \A q \in Procs : ~ Holds(q, i)
  BY Zenon, <1>s DEF Pinned, StatesOK, NobodyHolds
<1>1. RefsCount'
  <2>1. \A j \in Slots : Holders(j)' = Holders(j)  BY Zenon, <1>h DEF Holders
  <2> QED  BY Zenon, <1>c, <1>u, <2>1 DEF Pinned, RefsCount
<1>2. NobodyHolds'
  BY Zenon, <1>h, <1>c, <1>e, <1>p, <1>s DEF Pinned, NobodyHolds
<1>3. StatesOK'
  <2> SUFFICES ASSUME NEW j \in Slots, j # i
               PROVE  /\ state[j] = "FREE" => Clean(j)' /\ Buildable(j)'
                      /\ state[j] = "RETIRING" => \E q \in Procs : Holds(q, j)' \/ FreeingAt(q, j)'
                      /\ state[j] = "RETIRING" => generation'[j] = lifeGen'[j]
                            \/ \E q \in Procs : at'[q] = j /\ pc'[q] = "free"
    <3>1. \A j \in Slots : state'[j] = "ALLOCATED" <=> Owned(j)'
      BY Zenon, <1>c, <1>s DEF Pinned, StatesOK
    <3> QED  BY <1>s, <3>1 DEF StatesOK
  <2>1. state[j] = "FREE" => Clean(j)' /\ Buildable(j)'
    BY Zenon, <1>u DEF Pinned, StatesOK, Clean, Buildable
  <2>2. state[j] = "RETIRING" => \E q \in Procs : Holds(q, j)' \/ FreeingAt(q, j)'
    BY Zenon, <1>h, <1>e DEF Pinned, StatesOK
  <2>3. \A q \in Procs : at[q] = j /\ pc[q] = "free" => pc'[q] = "free"
    BY Zenon, <1>o, <1>i
  <2> QED  BY Zenon, <1>u, <2>1, <2>2, <2>3 DEF Pinned, StatesOK
<1>4. OwnerOK'
  BY Zenon, <1>i, <1>u, <1>w, <1>p DEF OwnerOK, Clean, Buildable
<1>5. FreesOK'
  <2>1. OneFrees'
    BY Zenon, <1>u, <1>o, <1>w DEF Pinned, FreesOK, OneFrees, FreeingLabels
  <2>2. ASSUME NEW q \in Procs PROVE FreeOK(q)'
    <3>1. CASE q = Worker  BY Zenon, <1>w, <3>1 DEF FreeOK, FreeingLabels
    <3>2. CASE q # Worker
      <4>1. pc[q] \in FreeingLabels => at[q] # i  BY Zenon, <1>s DEF Pinned, FreesOK, FreeOK
      <4> QED  BY Zenon, <1>u, <1>o, <1>s, <3>2, <4>1 DEF Words, AtType, Pinned, FreesOK,
         FreeOK, Buildable
    <3> QED  BY Zenon, <3>1, <3>2
  <2> QED  BY Zenon, <2>1, <2>2 DEF FreesOK
<1>6. LookupsOK'
  <2>1. ASSUME NEW q \in Probers PROVE LookupOK(q)'
    <3>1. LookupOK(q) /\ q \in Procs /\ q # Worker  BY Zenon DEF Words, Roles, Pinned,
       LookupsOK
    <3>2. state'[at[q]] = state[at[q]] \/ state'[at[q]] = "ALLOCATED"
      BY Zenon, <1>s, <3>1 DEF Words, AtType
    <3> QED  BY Zenon, <1>u, <1>o, <3>1, <3>2 DEF LookupOK
  <2> QED  BY Zenon, <2>1 DEF LookupsOK
<1>7. HandlesOK'
  BY Zenon, <1>u, <1>w DEF Pinned, HandlesOK, HandleOK
<1> QED  BY Zenon, <1>1, <1>2, <1>3, <1>4, <1>5, <1>6, <1>7 DEF Pinned

(* The stored 1 is the count: the worker is the only holder.               *)
LEMMA StoreRefsPins ==
    ASSUME Words, Counting, Pinned, StoreRefs
    PROVE  Pinned'
<1>i. PICK i \in Slots : i = at[Worker]  BY Zenon DEF Words, Roles, AtType
<1>u. /\ state' = state /\ target' = target /\ generation' = generation
      /\ lifeGen' = lifeGen /\ life' = life /\ back' = back /\ at' = at /\ g' = g
      /\ want' = want /\ probes' = probes
  BY Zenon DEF StoreRefs, scan
<1>s. refs'[i] = 1 /\ \A j \in Slots : j # i => refs'[j] = refs[j]
  BY Zenon, <1>i DEF Words, RefsType, StoreRefs
<1>w. pc[Worker] = "refs" /\ pc'[Worker] = "target" /\ Worker \in Procs /\ Worker \notin Probers
  BY Zenon DEF Words, Roles, PcType, StoreRefs, Goto
<1>o. \A q \in Procs : q # Worker => pc'[q] = pc[q]
  BY Zenon DEF Words, PcType, StoreRefs, Goto
<1>h. \A j \in Slots : \A q \in Procs : Holds(q, j)' <=> Holds(q, j) \/ (q = Worker /\ j = i)
  BY Zenon, <1>i, <1>u, <1>w, <1>o DEF Holds, CountedIn, HasHandle
<1>c. \A j \in Slots : (Claimed(j) <=> j = i) /\ ~ Claimed(j)' /\ (Owned(j)' <=> Owned(j))
  BY Zenon, <1>i, <1>u, <1>w DEF Claimed, Owned
<1>e. \A j \in Slots : \A q \in Procs : FreeingAt(q, j)' <=> FreeingAt(q, j)
  BY Zenon, <1>u, <1>w, <1>o DEF FreeingAt, FreeingLabels
<1>p. state[i] = "ALLOCATED" /\ \A q \in Procs : ~ Holds(q, i)
  BY Zenon, <1>i, <1>w, <1>c DEF Pinned, StatesOK, NobodyHolds, Owned
<1>f. \A q \in Procs : ~ FreeingAt(q, i)
  BY Zenon, <1>p DEF Pinned, FreesOK, FreeOK, FreeingAt
<1>1. RefsCount'
  <2>1. Holders(i)' = {Worker}  BY <1>h, <1>p, <1>w DEF Holders
  <2>2. refs'[i] = Cardinality(Holders(i)')  BY <1>s, <2>1 DEF Counting
  <2>3. ASSUME NEW j \in Slots, j # i PROVE Holders(j)' = Holders(j)
    BY Zenon, <1>h, <2>3 DEF Holders
  <2> QED  BY Zenon, <1>c, <1>s, <2>2, <2>3 DEF Pinned, RefsCount
<1>2. NobodyHolds'
  BY Zenon, <1>h, <1>c, <1>e, <1>f, <1>p, <1>u DEF Pinned, NobodyHolds
<1>3. StatesOK'
  <2> SUFFICES ASSUME NEW j \in Slots, state[j] = "RETIRING"
               PROVE  /\ \E q \in Procs : Holds(q, j)' \/ FreeingAt(q, j)'
                      /\ generation[j] = lifeGen[j]
                            \/ \E q \in Procs : at[q] = j /\ pc'[q] = "free"
    BY <1>c, <1>u DEF Pinned, StatesOK, Clean, Buildable
  <2>1. \E q \in Procs : Holds(q, j)' \/ FreeingAt(q, j)'
    BY Zenon, <1>h, <1>e DEF Pinned, StatesOK
  <2>2. \A q \in Procs : pc[q] = "free" => pc'[q] = "free"
    BY Zenon, <1>o, <1>w
  <2> QED  BY Zenon, <2>1, <2>2 DEF Pinned, StatesOK
<1>4. OwnerOK'
  BY Zenon, <1>u, <1>w DEF Pinned, OwnerOK, Clean, Buildable
<1>5. FreesOK'
  <2>1. OneFrees'
    BY Zenon, <1>u, <1>o, <1>w DEF Pinned, FreesOK, OneFrees, FreeingLabels
  <2>2. ASSUME NEW q \in Procs PROVE FreeOK(q)'
    <3>1. CASE q = Worker  BY Zenon, <1>w, <3>1 DEF FreeOK, FreeingLabels
    <3>2. CASE q # Worker  BY Zenon, <1>u, <1>o, <3>2 DEF Pinned, FreesOK, FreeOK, Buildable
    <3> QED  BY Zenon, <3>1, <3>2
  <2> QED  BY Zenon, <2>1, <2>2 DEF FreesOK
<1>6. LookupsOK'
  <2>1. ASSUME NEW q \in Probers PROVE LookupOK(q)'
    <3>1. LookupOK(q) /\ q \in Procs /\ q # Worker  BY Zenon DEF Words, Roles, Pinned,
       LookupsOK
    <3> QED  BY Zenon, <1>u, <1>o, <3>1 DEF LookupOK
  <2> QED  BY Zenon, <2>1 DEF LookupsOK
<1>7. HandlesOK'
  <2>1. ASSUME NEW q \in Probers, NEW h \in probes[q] PROVE h.slot # i
    BY Zenon, <1>p DEF Words, Roles, Holds, HasHandle
  <2> QED  BY Zenon, <1>i, <1>u, <1>w, <2>1 DEF Pinned, HandlesOK, HandleOK
<1> QED  BY Zenon, <1>1, <1>2, <1>3, <1>4, <1>5, <1>6, <1>7 DEF Pinned

(* A slot that stops taking references keeps those it has: its owner's is  *)
(* counted out by the release_ref() that follows.                          *)
LEMMA ReleaseOwnerPins ==
    ASSUME Words, Pinned, ~ raced', ReleaseOwner
    PROVE  Pinned'
<1>i. PICK i \in Slots : i = at[Worker]  BY Zenon DEF Words, Roles, AtType
<1>u. /\ refs' = refs /\ target' = target /\ generation' = generation
      /\ lifeGen' = lifeGen /\ life' = life /\ at' = at /\ g' = g
      /\ want' = want /\ probes' = probes
  BY Zenon DEF ReleaseOwner, scan
<1>w. pc[Worker] = "owner" /\ pc'[Worker] = "release" /\ Worker \in Procs /\ Worker \notin Probers
  BY Zenon DEF Words, Roles, PcType, ReleaseOwner, Goto
<1>o. \A q \in Procs : q # Worker => pc'[q] = pc[q] /\ back'[q] = back[q]
  BY Zenon DEF Words, PcType, BackType, ReleaseOwner, Goto
<1>a. state[i] = "ALLOCATED"
  BY Zenon, <1>i, <1>w DEF Pinned, StatesOK, Owned
<1>s. state'[i] = "RETIRING" /\ \A j \in Slots : j # i => state'[j] = state[j]
  BY Zenon, <1>i, <1>a DEF Words, StateType, ReleaseOwner
<1>h. \A j \in Slots : \A q \in Procs : Holds(q, j)' <=> Holds(q, j)
  BY Zenon, <1>u, <1>w, <1>o DEF Holds, CountedIn, HasHandle
<1>c. \A j \in Slots : ~ Claimed(j) /\ ~ Claimed(j)' /\ (Owned(j) <=> j = i) /\ ~ Owned(j)'
  BY Zenon, <1>i, <1>u, <1>w DEF Claimed, Owned
<1>e. \A j \in Slots : \A q \in Procs : FreeingAt(q, j)' <=> FreeingAt(q, j)
  BY Zenon, <1>u, <1>w, <1>o DEF FreeingAt, FreeingLabels
<1>n. Holds(Worker, i)' /\ generation[i] = lifeGen[i]
  BY Zenon, <1>i, <1>u, <1>w DEF Pinned, OwnerOK, Holds, CountedIn
<1>1. RefsCount'
  <2>1. \A j \in Slots : Holders(j)' = Holders(j)  BY Zenon, <1>h DEF Holders
  <2> QED  BY Zenon, <1>c, <1>u, <2>1 DEF Pinned, RefsCount
<1>2. NobodyHolds'
  BY Zenon, <1>h, <1>c, <1>e, <1>s DEF Pinned, NobodyHolds
<1>3. StatesOK'
  <2> SUFFICES ASSUME NEW j \in Slots
               PROVE  /\ state'[j] = "ALLOCATED" <=> Owned(j)'
                      /\ state'[j] = "FREE" => Clean(j)' /\ Buildable(j)'
                      /\ state'[j] = "RETIRING" => \E q \in Procs : Holds(q, j)' \/ FreeingAt(q, j)'
                      /\ state'[j] = "RETIRING" => generation'[j] = lifeGen'[j]
                            \/ \E q \in Procs : at'[q] = j /\ pc'[q] = "free"
    BY Zenon DEF StatesOK
  <2>1. CASE j = i
    BY Zenon, <1>s, <1>c, <1>n, <1>u, <1>w, <2>1
  <2>2. CASE j # i
    <3>1. state'[j] = "ALLOCATED" <=> Owned(j)'
      BY Zenon, <1>s, <1>c, <2>2 DEF Pinned, StatesOK
    <3>2. state[j] = "FREE" => Clean(j)' /\ Buildable(j)'
      BY Zenon, <1>u DEF Pinned, StatesOK, Clean, Buildable
    <3>3. state[j] = "RETIRING" => \E q \in Procs : Holds(q, j)' \/ FreeingAt(q, j)'
      BY Zenon, <1>h, <1>e DEF Pinned, StatesOK
    <3>4. \A q \in Procs : at[q] = j /\ pc[q] = "free" => pc'[q] = "free"
      BY Zenon, <1>o, <1>i, <2>2
    <3> QED  BY Zenon, <1>s, <1>u, <2>2, <3>1, <3>2, <3>3, <3>4 DEF Pinned, StatesOK
  <2> QED  BY Zenon, <2>1, <2>2
<1>4. OwnerOK'
  BY Zenon, <1>i, <1>s, <1>u, <1>w DEF OwnerOK
<1>5. FreesOK'
  <2>1. OneFrees'
    BY Zenon, <1>u, <1>o, <1>w DEF Pinned, FreesOK, OneFrees, FreeingLabels
  <2>2. ASSUME NEW q \in Procs PROVE FreeOK(q)'
    <3>1. CASE q = Worker  BY Zenon, <1>w, <3>1 DEF FreeOK, FreeingLabels
    <3>2. CASE q # Worker
      <4>1. pc[q] \in FreeingLabels => at[q] # i  BY Zenon, <1>a DEF Pinned, FreesOK, FreeOK
      <4> QED  BY Zenon, <1>u, <1>o, <1>s, <3>2, <4>1 DEF Words, AtType, Pinned, FreesOK,
         FreeOK, Buildable
    <3> QED  BY Zenon, <3>1, <3>2
  <2> QED  BY Zenon, <2>1, <2>2 DEF FreesOK
<1>6. LookupsOK'
  <2>1. ASSUME NEW q \in Probers PROVE LookupOK(q)'
    <3>1. LookupOK(q) /\ q \in Procs /\ q # Worker  BY Zenon DEF Words, Roles, Pinned,
       LookupsOK
    <3>2. pc[q] = "addRef" => state'[at[q]] = state[at[q]]
      BY Zenon, <1>i, <1>s, <3>1 DEF Words, AtType, ReleaseOwner
    <3> QED  BY Zenon, <1>u, <1>o, <3>1, <3>2 DEF LookupOK
  <2> QED  BY Zenon, <2>1 DEF LookupsOK
<1>7. HandlesOK'
  BY Zenon, <1>u, <1>w DEF Pinned, HandlesOK, HandleOK
<1> QED  BY Zenon, <1>1, <1>2, <1>3, <1>4, <1>5, <1>6, <1>7 DEF Pinned

(* Nobody has a handle to a slot whose target is not stored yet: every     *)
(* scan has a target.                                                      *)
LEMMA StoreTargetPins ==
    ASSUME Words, Sound, Pinned, StoreTarget
    PROVE  Pinned'
<1>i. PICK i \in Slots : i = at[Worker]  BY Zenon DEF Words, Roles, AtType
<1>u. /\ refs' = refs /\ state' = state /\ generation' = generation
      /\ lifeGen' = lifeGen /\ life' = life /\ back' = back /\ at' = at /\ g' = g
      /\ want' = want /\ probes' = probes
  BY Zenon DEF StoreTarget, scan
<1>s. target[i] = 0 /\ \A j \in Slots : j # i => target'[j] = target[j]
  BY Zenon, <1>i DEF Words, TargetType, StoreTarget, Pinned, OwnerOK, Clean, NoTarget
<1>w. pc[Worker] = "target" /\ pc'[Worker] = "acquire"
  BY Zenon DEF Words, Roles, PcType, StoreTarget, Goto
<1>o. \A q \in Procs : q # Worker => pc'[q] = pc[q]
  BY Zenon DEF Words, PcType, StoreTarget, Goto
<1>t. ASSUME NEW q \in Probers, pc[q] # "idle" PROVE want[q] # 0
  <2>1. want[q] >= 1  BY Zenon, <1>t DEF Sound, ScanOK
  <2> QED  BY <2>1
<1>1. Builds
  BY Zenon, <1>i, <1>u, <1>s, <1>w, <1>o DEF OwnerLabels, Builds
<1>2. OwnerOK'
  BY Zenon, <1>u, <1>w DEF Pinned, OwnerOK, Clean, Buildable
<1>3. LookupsOK'
  <2>1. ASSUME NEW q \in Probers PROVE LookupOK(q)'
    <3>1. LookupOK(q) /\ q \in Procs /\ q # Worker  BY Zenon DEF Words, Roles, Pinned,
       LookupsOK
    <3>2. pc[q] = "attach" => target'[at[q]] = want[q]
      BY Zenon, <1>s, <1>t, <3>1 DEF Words, AtType, LookupOK
    <3> QED  BY Zenon, <1>u, <1>o, <3>1, <3>2 DEF LookupOK
  <2> QED  BY Zenon, <2>1 DEF LookupsOK
<1>4. HandlesOK'
  <2>1. ASSUME NEW q \in Probers, NEW h \in probes[q] PROVE HandleOK(q, h)'
    <3>1. HandleOK(q, h) /\ h.slot \in Slots  BY Zenon DEF Words, ProbesType, Pinned,
       HandlesOK
    <3>2. pc[q] # "idle"  BY Zenon DEF Sound, ScanOK
    <3>3. target'[h.slot] = want[q]  BY Zenon, <1>s, <1>t, <3>1, <3>2 DEF HandleOK
    <3> QED  BY Zenon, <1>u, <1>w, <3>1, <3>3 DEF HandleOK
  <2> QED  BY Zenon, <1>u, <2>1 DEF HandlesOK
<1> QED  BY Zenon, <1>1, <1>2, <1>3, <1>4, BuildsPins

(* The next generation disturbs no handle: those to the slot were created  *)
(* before it had one.                                                      *)
LEMMA TryAcquireBuilderPins ==
    ASSUME Words, Pinned, TryAcquireBuilder
    PROVE  Pinned'
<1>i. PICK i \in Slots : i = at[Worker]  BY Zenon DEF Words, Roles, AtType
<1>u. /\ refs' = refs /\ state' = state /\ target' = target /\ generation' = generation
      /\ back' = back /\ at' = at /\ want' = want /\ probes' = probes
  BY Zenon DEF TryAcquireBuilder, scan
<1>s. \A j \in Slots : j # i => lifeGen'[j] = lifeGen[j] /\ life'[j] = life[j]
  BY Zenon, <1>i DEF Words, LifeGenType, LifeType, TryAcquireBuilder
<1>w. pc[Worker] = "acquire" /\ pc'[Worker] = "clear"
  BY Zenon DEF Words, Roles, PcType, TryAcquireBuilder, Goto
<1>o. \A q \in Procs : q # Worker => pc'[q] = pc[q] /\ g'[q] = g[q]
  BY Zenon DEF Words, PcType, GType, TryAcquireBuilder, Goto
<1>1. Builds
  BY Zenon, <1>i, <1>u, <1>s, <1>w, <1>o DEF OwnerLabels, Builds
<1>2. OwnerOK'
  BY Zenon, <1>u, <1>w DEF Pinned, OwnerOK
<1>3. LookupsOK'
  <2>1. ASSUME NEW q \in Probers PROVE LookupOK(q)'
    <3>1. LookupOK(q) /\ q \in Procs /\ q # Worker  BY Zenon DEF Words, Roles, Pinned,
       LookupsOK
    <3> QED  BY Zenon, <1>u, <1>o, <3>1 DEF LookupOK
  <2> QED  BY Zenon, <2>1 DEF LookupsOK
<1>4. HandlesOK'
  <2>1. ASSUME NEW q \in Probers, NEW h \in probes[q] PROVE HandleOK(q, h)'
    <3>1. HandleOK(q, h) /\ h.slot \in Slots  BY Zenon DEF Words, ProbesType, Pinned,
       HandlesOK
    <3>2. h.gen \in {0, lifeGen'[h.slot]}  BY Zenon, <1>i, <1>s, <1>w, <3>1 DEF HandleOK
    <3> QED  BY Zenon, <1>u, <1>w, <3>1, <3>2 DEF HandleOK
  <2> QED  BY Zenon, <1>u, <2>1 DEF HandlesOK
<1> QED  BY Zenon, <1>1, <1>2, <1>3, <1>4, BuildsPins

(* Whatever the worker does, a slot with a reference stays, as long as no  *)
(* lookup has raced with a claim or a retirement; and the slot it claims   *)
(* is one it can build in, so it never gives one back.                     *)
LEMMA BuildPins ==
    ASSUME Words, Counting, Sound, Pinned, ~ raced', Allocate \/ Build
    PROVE  Pinned'
<1>1. CASE BeginBuild
  <2>1. Seeks  BY Zenon, <1>1 DEF Words, Roles, PcType, AtType, BeginBuild, Goto, slots,
     scan, history, Seeks
  <2> QED  BY Zenon, <2>1, SeeksPins
<1>2. CASE SkipSlot
  <2>1. Seeks  BY Zenon, <1>2 DEF Words, Roles, PcType, AtType, SkipSlot, Goto, slots,
     worker, scan, history, Seeks
  <2> QED  BY Zenon, <2>1, SeeksPins
<1>3. CASE BuilderBusy
  BY Zenon, <1>3 DEF BuilderBusy, Pinned, OwnerOK, Buildable
<1>4. CASE GiveBackSlot
  BY Zenon, <1>4 DEF GiveBackSlot, Pinned, OwnerOK
<1>5. CASE ClearBits
  <2>1. Fills
    BY Zenon, <1>5 DEF Words, Roles, PcType, ClearBits, Goto, worker, scan, history,
       OwnerLabels, Builds, Fills
  <2>2. OwnerOK'
    BY Zenon, <1>5 DEF Words, Roles, PcType, ClearBits, Goto, Pinned, OwnerOK
  <2> QED  BY Zenon, <2>1, <2>2, FillsPins
<1>6. CASE StoreGeneration
  <2>1. Fills
    BY Zenon, <1>6 DEF Words, Roles, PcType, GenerationType, StoreGeneration, Goto, worker,
       scan, history, OwnerLabels, Builds, Fills
  <2>2. OwnerOK'
    BY Zenon, <1>6 DEF Words, Roles, PcType, AtType, GenerationType, StoreGeneration, Goto,
       Sound, BuilderOK, OwnerOK
  <2> QED  BY Zenon, <2>1, <2>2, FillsPins
<1>7. CASE \E k \in Keys : InsertHash(k)
  <2>1. Fills
    BY Zenon, <1>7 DEF Words, Roles, InsertHash, InBuild, scan, control, history, control,
       OwnerLabels, Builds, Fills
  <2>2. OwnerOK'
    BY Zenon, <1>7 DEF InsertHash, InBuild, control, Pinned, OwnerOK
  <2> QED  BY Zenon, <2>1, <2>2, FillsPins
<1>8. CASE PublishReady
  <2>1. Fills
    BY Zenon, <1>8 DEF Words, Roles, PcType, LifeType, PublishReady, Goto, InBuild, worker,
       scan, history, OwnerLabels, Builds, Fills
  <2>2. OwnerOK'
    BY Zenon, <1>8 DEF Words, Roles, PcType, PublishReady, Goto, InBuild, Pinned, OwnerOK
  <2> QED  BY Zenon, <2>1, <2>2, FillsPins
<1>9. CASE DisableBuild
  <2>1. Fills
    BY Zenon, <1>9 DEF Words, Roles, PcType, LifeType, DisableBuild, Goto, InBuild, scan,
       history, OwnerLabels, Builds, Fills
  <2>2. OwnerOK'
    BY Zenon, <1>9 DEF Words, Roles, PcType, DisableBuild, Goto, InBuild, Pinned, OwnerOK
  <2> QED  BY Zenon, <2>1, <2>2, FillsPins
<1> QED
  BY Zenon, <1>1, <1>2, <1>3, <1>4, <1>5, <1>6, <1>7, <1>8, <1>9, ClaimSlotPins,
     StoreRefsPins,
     StoreTargetPins, TryAcquireBuilderPins, ReleaseOwnerPins DEF Allocate, Build

-----------------------------------------------------------------------------
(* Every step of the worker keeps its words in their types: a build that   *)
(* takes its generation is the first to have that many.                    *)
LEMMA BuildTypes ==
    ASSUME TypeOK, Words, Ranges, Sound, Allocate \/ Build
    PROVE  TypeOK'
<1>1. CASE BeginBuild
  BY Zenon, <1>1 DEF TypeOK, Words, Roles, Ranges, BeginBuild, Goto, slots, scan, history,
     PcLabels
<1>2. CASE ClaimSlot
  BY Zenon, <1>2 DEF TypeOK, Words, Roles, Ranges, ClaimSlot, Goto, worker, scan, history,
     PcLabels, SlotStates
<1>3. CASE SkipSlot
  <2>1. CASE at[Worker] = SlotCount
    BY Zenon, <1>3, <2>1 DEF TypeOK, Words, Roles, Ranges, SkipSlot, Goto, slots, worker,
       scan, history, PcLabels
  <2>2. CASE at[Worker] # SlotCount
    <3>1. at[Worker] + 1 \in Slots  BY Zenon, <2>2 DEF TypeOK, Words, Roles, Ranges
    <3> QED  BY Zenon, <1>3, <2>2, <3>1 DEF TypeOK, Words, Roles, SkipSlot, Goto, slots,
       worker, scan, history
  <2> QED  BY Zenon, <2>1, <2>2
<1>4. CASE StoreRefs
  BY Zenon, <1>4 DEF TypeOK, Words, Roles, Ranges, StoreRefs, Goto, worker, scan, history,
     PcLabels
<1>5. CASE StoreTarget
  BY Zenon, <1>5 DEF TypeOK, Words, Roles, Ranges, StoreTarget, Goto, worker, scan,
     history, PcLabels
<1>6. CASE TryAcquireBuilder
  BY Zenon, <1>6 DEF TypeOK, Words, Roles, Ranges, TryAcquireBuilder, Goto, worker, scan,
     history, PcLabels, LifeStates, Sound, WorkerOK, GenerationsLag, Numbering
<1>7. CASE BuilderBusy
  BY Zenon, <1>7 DEF TypeOK, Words, Roles, Ranges, BuilderBusy, Goto, worker, scan,
     history, PcLabels
<1>8. CASE GiveBackSlot
  BY Zenon, <1>8 DEF TypeOK, Words, Roles, Ranges, GiveBackSlot, Goto, worker, scan,
     history, PcLabels, SlotStates
<1>9. CASE ClearBits
  BY Zenon, <1>9 DEF TypeOK, Words, Roles, Ranges, ClearBits, Goto, worker, scan, history,
     PcLabels
<1>10. CASE StoreGeneration
  BY Zenon, <1>10 DEF TypeOK, Words, Roles, Ranges, StoreGeneration, Goto, worker, scan,
     history, PcLabels
<1>11. CASE \E k \in Keys : InsertHash(k)
  <2>1. PICK k \in Keys : InsertHash(k)  BY Zenon, <1>11
  <2>2. bits' \in [Slots -> SUBSET Keys]  BY Zenon, <2>1 DEF TypeOK, Words, Roles,
     InsertHash
  <2> QED  BY Zenon, <2>1, <2>2 DEF TypeOK, InsertHash, scan, control, history
<1>12. CASE PublishReady
  BY Zenon, <1>12 DEF TypeOK, Words, Roles, Ranges, PublishReady, Goto, InBuild, worker,
     scan, history, PcLabels, LifeStates
<1>13. CASE DisableBuild
  BY Zenon, <1>13 DEF TypeOK, Words, Roles, Ranges, DisableBuild, Goto, InBuild, scan,
     history, PcLabels, LifeStates
<1>14. CASE ReleaseOwner
  BY Zenon, <1>14 DEF TypeOK, Words, Roles, Ranges, ReleaseOwner, Goto, worker, scan,
     PcLabels, SlotStates
<1> QED
  BY Zenon, <1>1, <1>2, <1>3, <1>4, <1>5, <1>6, <1>7, <1>8, <1>9, <1>10, <1>11, <1>12,
     <1>13, <1>14 DEF Allocate, Build
=============================================================================
