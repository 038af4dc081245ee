----------------------- MODULE RuntimeFilter_release ------------------------
(***************************************************************************)
(* The steps of release_ref(), by whoever gives a reference up, keep the   *)
(* invariants of the pool of join filters, for any number of backends,     *)
(* slots, builds, scans, rows and keys.                                    *)
(*                                                                         *)
(* Releases and Frees say what all of these steps leave alone.  Sound      *)
(* follows from that; Pinned follows for the steps between the count and   *)
(* the last store, and has a lemma of its own for those two.               *)
(***************************************************************************)
EXTENDS RuntimeFilter, TLAPS

(* A step of release_ref(): it moves one process within release_ref() or   *)
(* back to its caller, and takes from a slot at most its target and its    *)
(* filter.                                                                 *)
Releases(p) ==
    /\ pc[p] \in ReleaseLabels /\ pc'[p] \in ReleaseLabels \cup {back[p]}
    /\ \A q \in Procs \ {p} : pc'[q] = pc[q]
    /\ at' = at /\ back' = back /\ want' = want /\ probes' = probes /\ key' = key
    /\ build' = build /\ todo' = todo /\ rejected' = rejected
    /\ lifeGen' = lifeGen /\ bits' = bits
    /\ \A q \in Procs \ {p} : g'[q] = g[q]
    /\ \A j \in Slots : target'[j] \in {NoTarget, target[j]} /\ life'[j] \in {"Disabled", life[j]}

(* Giving a reference back never makes a filter match, or a key disappear. *)
LEMMA ReleasesKeeps ==
    ASSUME Words, Sound, NEW p \in Procs, Releases(p)
    PROVE  Sound'
<1>w. /\ pc'[Worker] \in WorkerLabels
      /\ pc'[Worker] = pc[Worker] \/ (p = Worker /\ pc'[Worker] \in ReleaseLabels \cup {"idle"})
  BY Zenon DEF Words, Roles, Sound, Releases, WorkerOK, WorkerLabels
<1>v. pc[Worker] = "idle" => pc'[Worker] = "idle"
  BY Zenon DEF Words, Roles, Releases, ReleaseLabels, FreeingLabels
<1>a. Allocating' => Allocating
  BY Zenon, <1>w DEF Allocating, ReleaseLabels, FreeingLabels
<1>1. WorkerOK'
  <2>1. pc'[Worker] \in ReleaseLabels => back'[Worker] = "idle"
    BY Zenon DEF Words, Roles, Sound, WorkerOK, Releases
  <2>2. pc'[Worker] # "idle" => build' >= 1
    BY Zenon, <1>v DEF Sound, WorkerOK, Releases
  <2> QED  BY Zenon, <1>w, <2>1, <2>2 DEF WorkerOK
<1>2. GenerationsLag'
  BY Zenon, <1>w DEF Sound, Releases, ReleaseLabels, FreeingLabels, GenerationsLag,
     Numbering
<1>3. TargetsOK'
  BY <1>w DEF Words, TargetType, BuildType, Sound, Releases, ReleaseLabels, FreeingLabels,
     TargetsOK, Claiming,
     NoTarget
<1>4. BuilderOK'
  <2>1. pc'[Worker] \in {"clear", "generation", "build", "owner"} =>
           pc'[Worker] = pc[Worker] /\ g'[Worker] = g[Worker]
    BY Zenon, <1>w DEF Words, Roles, Releases, ReleaseLabels, FreeingLabels
  <2> QED  BY Zenon, <1>a, <2>1 DEF Words, Roles, AtType, Sound, Releases, BuilderOK
<1>5. ASSUME NEW q \in Probers PROVE ScanOK(q)'
  <2>1. /\ pc'[q] \in ProberLabels
        /\ pc'[q] \in ReleaseLabels => pc[q] \in ReleaseLabels
    BY Zenon DEF Words, Roles, BackType, Sound, Releases, ScanOK, ProberLabels
  <2>2. pc'[q] = pc[q] \/ (pc'[q] \notin {"idle", "bits", "attach"} /\ pc[q] # "idle")
    BY Zenon DEF Words, Roles, BackType, Sound, Releases, ScanOK, ReleaseLabels,
       FreeingLabels
  <2>3. QueryLives(want[q])' => QueryLives(want[q])
    BY Zenon, <1>w DEF Releases, QueryLives, ReleaseLabels, FreeingLabels
  <2> QED  BY Zenon, <1>a, <2>1, <2>2, <2>3 DEF Sound, Releases, ScanOK
<1>6. NeverRejectsAJoinableRow'
  BY Zenon DEF Sound, Releases, NeverRejectsAJoinableRow
<1> QED  BY Zenon, <1>1, <1>2, <1>3, <1>4, <1>5, <1>6 DEF Sound

(* release_ref() never makes a filter match, or a key disappear.           *)
LEMMA ReleaseKeeps ==
    ASSUME Words, Sound, NEW p \in Procs, ReleaseRef(p)
    PROVE  Sound'
<1> SUFFICES Releases(p)  BY Zenon, ReleasesKeeps
<1>1. CASE FetchSub(p)
  BY Zenon, <1>1 DEF Words, PcType, FetchSub, Goto, worker, scan, history, ReleaseLabels,
     FreeingLabels, Releases
<1>2. CASE CheckRetiring(p)
  BY Zenon, <1>2 DEF Words, PcType, CheckRetiring, Goto, slots, worker, scan, history,
     ReleaseLabels, FreeingLabels, Releases
<1>3. CASE LoadGeneration(p)
  BY Zenon, <1>3 DEF Words, PcType, GType, LoadGeneration, Goto, slots, worker, scan,
     history, ReleaseLabels, FreeingLabels, Releases
<1>4. CASE SnapshotLife(p)
  BY Zenon, <1>4 DEF Words, PcType, SnapshotLife, Goto, slots, worker, scan, history,
     ReleaseLabels, FreeingLabels, Releases
<1>5. CASE RetireReady(p)
  BY Zenon, <1>5 DEF Words, PcType, LifeType, RetireReady, Retire, Goto, InBuild, worker,
     scan, history, ReleaseLabels, FreeingLabels, Releases
<1>6. CASE RetireBuilding(p)
  BY Zenon, <1>6 DEF Words, PcType, LifeType, RetireBuilding, Retire, Goto, InBuild,
     worker, scan, history, ReleaseLabels, FreeingLabels, Releases
<1>7. CASE WipeTarget(p)
  BY Zenon, <1>7 DEF Words, PcType, TargetType, WipeTarget, Goto, worker, scan, history,
     ReleaseLabels, FreeingLabels, Releases, NoTarget
<1>8. CASE WipeGeneration(p)
  BY Zenon, <1>8 DEF Words, PcType, WipeGeneration, Goto, worker, scan, history,
     ReleaseLabels, FreeingLabels, Releases
<1>9. CASE FreeTheSlot(p)
  BY Zenon, <1>9 DEF Words, PcType, FreeTheSlot, Goto, worker, scan, history,
     ReleaseLabels, FreeingLabels, Releases
<1> QED  BY Zenon, <1>1, <1>2, <1>3, <1>4, <1>5, <1>6, <1>7, <1>8, <1>9 DEF ReleaseRef

-----------------------------------------------------------------------------
(* A step of release_ref() in the slot it is freeing, up to the last one.  *)
Frees(p) ==
    /\ pc[p] \in FreeingLabels \ {"free"} /\ pc'[p] \in FreeingLabels
    /\ \A q \in Procs \ {p} : pc'[q] = pc[q] /\ g'[q] = g[q]
    /\ at' = at /\ back' = back /\ want' = want /\ probes' = probes
    /\ state' = state /\ refs' = refs /\ lifeGen' = lifeGen
    /\ generation' = generation \/ pc'[p] = "free"
    /\ \A j \in Slots : j # at[p] =>
          target'[j] = target[j] /\ generation'[j] = generation[j] /\ life'[j] = life[j]

(* It changes nobody's references, and frees what was being freed.         *)
LEMMA FreesHolds ==
    ASSUME Words, NEW p \in Procs, Frees(p)
    PROVE  /\ \A j \in Slots : \A q \in Procs : Holds(q, j)' <=> Holds(q, j)
           /\ \A j \in Slots : \A q \in Procs : FreeingAt(q, j)' <=> FreeingAt(q, j)
           /\ \A q \in Procs : pc'[q] \in FreeingLabels <=> pc[q] \in FreeingLabels
           /\ pc[Worker] \notin FreeingLabels \/ pc'[Worker] \notin FreeingLabels
                => pc'[Worker] = pc[Worker]
<1>1. \A j \in Slots : \A q \in Procs : CountedIn(q, j)' <=> CountedIn(q, j)
  BY Zenon DEF Words, Roles, Frees, FreeingLabels, CountedIn
<1>2. \A j \in Slots : \A q \in Procs : HasHandle(q, j)' <=> HasHandle(q, j)
  BY Zenon DEF Frees, HasHandle
<1>3. \A q \in Procs : pc'[q] \in FreeingLabels <=> pc[q] \in FreeingLabels
  BY Zenon DEF Frees
<1>4. \A j \in Slots : \A q \in Procs : FreeingAt(q, j)' <=> FreeingAt(q, j)
  BY Zenon, <1>3 DEF Frees, FreeingAt
<1>5. pc[Worker] \notin FreeingLabels \/ pc'[Worker] \notin FreeingLabels
         => pc'[Worker] = pc[Worker]
  BY Zenon DEF Words, Roles, Frees
<1> QED  BY Zenon, <1>1, <1>2, <1>3, <1>4, <1>5 DEF Holds

(* It disturbs nobody else, since nobody else holds the slot: what is left *)
(* to show of such a step is what it undoes.                               *)
LEMMA FreesPins ==
    ASSUME Words, Pinned, NEW p \in Procs, Frees(p), FreeOK(p)'
    PROVE  Pinned'
<1>n. \A q \in Procs : ~ Holds(q, at[p])
  BY Zenon DEF Words, AtType, Frees, Pinned, NobodyHolds, FreeingAt
<1>o. state[at[p]] = "RETIRING"
  BY Zenon DEF Frees, Pinned, FreesOK, FreeOK
<1>w. ~ Owned(at[p])
  BY Zenon, <1>o DEF Words, AtType, Pinned, StatesOK
<1>u. \A q \in Procs \ {p} : pc[q] \in FreeingLabels => at[q] # at[p]
  BY Zenon DEF Frees, Pinned, FreesOK, OneFrees
<1>v. pc[Worker] # pc'[Worker] => pc[Worker] \in FreeingLabels /\ pc'[Worker] \in FreeingLabels
  BY Zenon, FreesHolds
<1>c. \A j \in Slots : Claimed(j)' <=> Claimed(j)
  BY Zenon, <1>v DEF Frees, Claimed, FreeingLabels
<1>d. \A j \in Slots : Owned(j)' <=> Owned(j)
  BY Zenon, <1>v DEF Frees, Owned, FreeingLabels
<1>1. RefsCount'
  <2>1. \A j \in Slots : Holders(j)' = Holders(j)  BY Zenon, FreesHolds DEF Holders
  <2> QED  BY Zenon, <1>c, <2>1 DEF Frees, Pinned, RefsCount
<1>2. NobodyHolds'
  BY Zenon, FreesHolds, <1>c DEF Frees, Pinned, NobodyHolds
<1>3. StatesOK'
  <2> SUFFICES ASSUME NEW j \in Slots
               PROVE  /\ state[j] = "FREE" => Clean(j)' /\ Buildable(j)'
                      /\ state[j] = "RETIRING" => generation'[j] = lifeGen[j]
                            \/ \E q \in Procs : at[q] = j /\ pc'[q] = "free"
    BY FreesHolds, <1>d DEF Frees, Pinned, StatesOK
  <2>1. CASE j = at[p]
    BY <1>o, <2>1 DEF Words, AtType, Frees, Pinned, StatesOK
  <2>2. CASE j # at[p]
    BY <2>2 DEF Frees, Pinned, StatesOK, Clean, Buildable
  <2> QED  BY Zenon, <2>1, <2>2
<1>4. OwnerOK'
  <2>1. CASE at[Worker] = at[p]
    BY Zenon, <1>n, <1>w, <1>v, <2>1 DEF Words, Roles, Frees, Pinned, OwnerOK, Owned,
       FreeingLabels, Holds,
       CountedIn
  <2>2. CASE at[Worker] # at[p]
    BY Zenon, <1>v, <2>2 DEF Words, Roles, AtType, Frees, Pinned, OwnerOK, Clean,
       Buildable, FreeingLabels
  <2> QED  BY Zenon, <2>1, <2>2
<1>5. FreesOK'
  <2>1. OneFrees'
    BY Zenon, FreesHolds DEF Frees, Pinned, FreesOK, OneFrees
  <2>2. ASSUME NEW q \in Procs, q # p PROVE FreeOK(q)'
    BY <1>u, <2>2 DEF Words, AtType, Frees, Pinned, FreesOK, FreeOK, Buildable
  <2> QED  BY Zenon, <2>1, <2>2 DEF FreesOK
<1>6. LookupsOK'
  <2> SUFFICES ASSUME NEW q \in Probers PROVE LookupOK(q)'
    BY Zenon DEF LookupsOK
  <2>1. CASE q = p
    BY Zenon, <2>1 DEF Frees, Pinned, LookupsOK, LookupOK, Walking, ReleaseLabels,
       FreeingLabels
  <2>2. CASE q # p
    <3>1. pc[q] = "attach" => at[q] # at[p]
      BY Zenon, <1>n DEF Words, Roles, Holds, CountedIn
    <3> QED  BY <2>2, <3>1 DEF Words, Roles, AtType, Frees, Pinned, LookupsOK, LookupOK
  <2> QED  BY Zenon, <2>1, <2>2
<1>7. HandlesOK'
  <2> SUFFICES ASSUME NEW q \in Probers, NEW h \in probes[q] PROVE HandleOK(q, h)'
    BY Zenon DEF Frees, HandlesOK
  <2>1. h.slot # at[p]
    BY Zenon, <1>n DEF Words, Roles, AtType, Holds, HasHandle
  <2> QED  BY Zenon, <1>v, <2>1 DEF Words, ProbesType, Frees, FreeingLabels, Pinned,
     HandlesOK, HandleOK
<1> QED  BY Zenon, <1>1, <1>2, <1>3, <1>4, <1>5, <1>6, <1>7 DEF Pinned

(* The steps between the count and the last store undo the slot in order:  *)
(* the generation read is that of the lifecycle word, so that the CAS on   *)
(* that word succeeds and the filter is out of use before its target and   *)
(* its generation are wiped.                                               *)
LEMMA FreeingPins ==
    ASSUME Words, Pinned, NEW p \in Procs,
           \/ CheckRetiring(p) \/ LoadGeneration(p) \/ SnapshotLife(p)
           \/ RetireReady(p) \/ RetireBuilding(p) \/ WipeTarget(p) \/ WipeGeneration(p)
    PROVE  Pinned'
<1> SUFFICES Frees(p) /\ FreeOK(p)'  BY Zenon, FreesPins
<1>p. FreeOK(p) /\ at[p] \in Slots
  BY Zenon DEF Words, AtType, Pinned, FreesOK
<1>1. CASE CheckRetiring(p)
  <2>1. state[at[p]] = "RETIRING"
    BY Zenon, <1>p, <1>1 DEF CheckRetiring, FreeOK, FreeingLabels
  <2> QED
    BY Zenon, <1>1, <2>1 DEF Words, PcType, CheckRetiring, Goto, slots, worker, scan,
       history, Frees, FreeOK, FreeingLabels
<1>2. CASE LoadGeneration(p)
  <2>1. Frees(p)
    BY Zenon, <1>2 DEF Words, PcType, GType, LoadGeneration, Goto, slots, worker, scan,
       history, Frees, FreeingLabels
  <2>2. generation[at[p]] = lifeGen[at[p]]
    <3>1. \A q \in Procs : ~ (at[q] = at[p] /\ pc[q] = "free")
      BY Zenon, <1>2 DEF LoadGeneration, Pinned, FreesOK, OneFrees, FreeingLabels
    <3> QED  BY Zenon, <1>p, <1>2, <3>1 DEF LoadGeneration, Pinned, StatesOK, FreeOK,
       FreeingLabels
  <2>3. FreeOK(p)'
    BY Zenon, <1>p, <1>2, <2>2 DEF Words, PcType, GType, LoadGeneration, Goto, slots,
       worker, scan, history, FreeOK, FreeingLabels
  <2> QED  BY Zenon, <2>1, <2>3
<1>3. CASE SnapshotLife(p)
  <2>1. Frees(p)
    BY Zenon, <1>3 DEF Words, PcType, SnapshotLife, Goto, slots, worker, scan, history,
       Frees, FreeingLabels
  <2>2. FreeOK(p)'
    BY Zenon, <1>p, <1>3 DEF Words, PcType, LifeType, SnapshotLife, Goto, slots, FreeOK,
       FreeingLabels, Buildable, LifeStates
  <2> QED  BY Zenon, <2>1, <2>2
<1>4. CASE RetireReady(p)
  <2>1. InBuild(at[p], g[p], "Ready")
    BY Zenon, <1>p, <1>4 DEF RetireReady, Retire, InBuild, FreeOK, FreeingLabels
  <2>2. Frees(p)
    BY Zenon, <1>4 DEF Words, PcType, LifeType, RetireReady, Retire, Goto, InBuild, worker,
       scan, history, Frees, FreeingLabels
  <2>3. FreeOK(p)'
    BY Zenon, <1>p, <1>4, <2>1 DEF Words, PcType, LifeType, RetireReady, Retire, Goto,
       InBuild, FreeOK, FreeingLabels, Buildable
  <2> QED  BY Zenon, <2>2, <2>3
<1>5. CASE RetireBuilding(p)
  <2>1. InBuild(at[p], g[p], "Building")
    BY Zenon, <1>p, <1>5 DEF RetireBuilding, Retire, InBuild, FreeOK, FreeingLabels
  <2>2. Frees(p)
    BY Zenon, <1>5 DEF Words, PcType, LifeType, RetireBuilding, Retire, Goto, InBuild,
       worker, scan, history, Frees, FreeingLabels
  <2>3. FreeOK(p)'
    BY Zenon, <1>p, <1>5, <2>1 DEF Words, PcType, LifeType, RetireBuilding, Retire, Goto,
       InBuild, FreeOK, FreeingLabels, Buildable
  <2> QED  BY Zenon, <2>2, <2>3
<1>6. CASE WipeTarget(p)
  <2>1. Frees(p)
    BY Zenon, <1>6 DEF Words, PcType, TargetType, WipeTarget, Goto, worker, scan, history,
       Frees, FreeingLabels
  <2>2. FreeOK(p)'
    BY Zenon, <1>p, <1>6 DEF Words, PcType, TargetType, WipeTarget, Goto, FreeOK,
       FreeingLabels, Buildable
  <2> QED  BY Zenon, <2>1, <2>2
<1>7. CASE WipeGeneration(p)
  <2>1. Frees(p)
    BY Zenon, <1>7 DEF Words, PcType, GenerationType, WipeGeneration, Goto, worker, scan,
       history, Frees, FreeingLabels
  <2>2. FreeOK(p)'
    BY Zenon, <1>p, <1>7 DEF Words, PcType, GenerationType, WipeGeneration, Goto, FreeOK,
       FreeingLabels, Buildable
  <2> QED  BY Zenon, <2>1, <2>2
<1> QED  BY Zenon, <1>1, <1>2, <1>3, <1>4, <1>5, <1>6, <1>7

-----------------------------------------------------------------------------
(* The reference that reads 1 is the last: nobody else holds the slot then,*)
(* its owner has left, and the process that counted it out frees it.       *)
LEMMA FetchSubPins ==
    ASSUME Words, Counting, Pinned, NEW p \in Procs, FetchSub(p)
    PROVE  Pinned'
<1>i. PICK i \in Slots : i = at[p]  BY Zenon DEF Words, AtType
<1>u. /\ state' = state /\ target' = target /\ generation' = generation
      /\ lifeGen' = lifeGen /\ life' = life /\ back' = back /\ at' = at /\ g' = g
      /\ want' = want /\ probes' = probes
  BY Zenon DEF FetchSub, scan
<1>q. pc[p] = "release" /\ pc' = [pc EXCEPT ![p] = IF refs[i] = 1 THEN "checkState" ELSE back[p]]
  BY Zenon, <1>i DEF FetchSub, Goto
<1>f. pc'[p] \notin FreeingLabels <=> refs[i] # 1
  BY Zenon, <1>q DEF Words, PcType, BackType, FreeingLabels
<1>o. \A q \in Procs : q # p => pc'[q] = pc[q]
  BY Zenon, <1>q DEF Words, PcType
<1>b. pc'[p] = "checkState" \/ pc'[p] \in {"idle", "nextSlot", "scan"}
  BY Zenon, <1>q DEF Words, PcType, BackType
<1>h. \A j \in Slots : \A q \in Procs : Holds(q, j)' <=> Holds(q, j) /\ ~ (q = p /\ j = i)
  <2> SUFFICES ASSUME NEW j \in Slots, NEW q \in Procs
               PROVE  Holds(q, j)' <=> Holds(q, j) /\ ~ (q = p /\ j = i)
    OBVIOUS
  <2>1. HasHandle(q, j)' <=> HasHandle(q, j)  BY Zenon, <1>u DEF HasHandle
  <2>2. CASE q = p
    <3>1. ~ CountedIn(p, j)'  BY Zenon, <1>b DEF CountedIn
    <3>2. CountedIn(p, j) <=> j = i  BY Zenon, <1>i, <1>q DEF CountedIn
    <3>3. ~ HasHandle(p, i)
      BY Zenon, <1>i, <1>q DEF HasHandle, Pinned, LookupsOK, LookupOK
    <3> QED  BY Zenon, <2>1, <2>2, <3>1, <3>2, <3>3 DEF Holds
  <2>3. CASE q # p
    BY Zenon, <1>u, <1>o, <2>1, <2>3 DEF Holds, CountedIn
  <2> QED  BY Zenon, <2>2, <2>3
<1>n. Holds(p, i)
  BY Zenon, <1>i, <1>q DEF Holds, CountedIn
<1>y. state[i] # "FREE" /\ ~ Claimed(i) /\ \A q \in Procs : ~ FreeingAt(q, i)
  BY Zenon, <1>n DEF Pinned, NobodyHolds
<1>r. p \in Holders(i) /\ refs[i] = Cardinality(Holders(i))
  BY Zenon, <1>n, <1>y DEF Pinned, RefsCount, Holders
<1>v. Holders(i) \in SUBSET Procs  BY Zenon DEF Holders
<1>w. refs[i] = 1 <=> \A q \in Procs : Holds(q, i) => q = p
  <2>1. refs[i] = 1 <=> Holders(i) = {p}  BY Zenon, <1>r, <1>v DEF Counting
  <2>2. Holders(i) = {p} <=> \A q \in Procs : Holds(q, i) => q = p
    BY <1>r DEF Holders
  <2> QED  BY Zenon, <2>1, <2>2
<1>x. refs[i] = 1 => state[i] = "RETIRING"
  <2>1. ASSUME state[i] = "ALLOCATED" PROVE Holds(Worker, i) /\ Worker # p
    <3>1. Owned(i)  BY Zenon, <2>1 DEF Pinned, StatesOK
    <3>2. pc[Worker] # "refs"  BY Zenon, <1>y, <3>1 DEF Owned, Claimed
    <3> QED  BY Zenon, <1>q, <3>1, <3>2 DEF Owned, Holds, CountedIn
  <2>2. state[i] \in SlotStates  BY Zenon DEF Words, StateType
  <2> QED  BY Zenon, <1>w, <1>y, <2>1, <2>2 DEF Words, Roles, SlotStates
<1>c. \A j \in Slots : Claimed(j)' <=> Claimed(j)
  BY Zenon, <1>u, <1>o, <1>b, <1>q DEF Words, Roles, Claimed
<1>d. \A j \in Slots : Owned(j)' <=> Owned(j)
  BY Zenon, <1>u, <1>o, <1>b, <1>q DEF Words, Roles, Owned
<1>e. \A j \in Slots : \A q \in Procs : FreeingAt(q, j)' <=>
         FreeingAt(q, j) \/ (q = p /\ j = i /\ refs[i] = 1)
  BY Zenon, <1>i, <1>u, <1>o, <1>f, <1>q DEF FreeingAt, FreeingLabels
<1>1. RefsCount'
  <2>1. Holders(i)' = Holders(i) \ {p}
    BY <1>h DEF Holders
  <2>2. Cardinality(Holders(i)') = (Cardinality(Holders(i)) + RefMod - 1) % RefMod
    BY <1>r, <1>v, <2>1 DEF Counting
  <2>3. /\ refs'[i] = Cardinality(Holders(i)')
        /\ \A j \in Slots : j # i => refs'[j] = refs[j]
    BY <1>i, <1>r, <2>2 DEF Words, RefsType, FetchSub
  <2>4. ASSUME NEW j \in Slots, j # i PROVE Holders(j)' = Holders(j)
    BY Zenon, <1>h, <2>4 DEF Holders
  <2> QED  BY Zenon, <1>c, <2>3, <2>4 DEF Pinned, RefsCount
<1>2. NobodyHolds'
  BY Zenon, <1>h, <1>c, <1>e, <1>u, <1>w DEF Pinned, NobodyHolds
<1>3. StatesOK'
  <2> SUFFICES ASSUME NEW j \in Slots
               PROVE  /\ state[j] = "RETIRING" => \E q \in Procs : Holds(q, j)' \/ FreeingAt(q, j)'
                      /\ state[j] = "RETIRING" => generation[j] = lifeGen[j]
                            \/ \E q \in Procs : at[q] = j /\ pc'[q] = "free"
    BY <1>d, <1>u DEF Pinned, StatesOK, Clean, Buildable
  <2>1. state[j] = "RETIRING" => \E q \in Procs : Holds(q, j)' \/ FreeingAt(q, j)'
    BY Zenon, <1>h, <1>e, <1>w DEF Pinned, StatesOK
  <2>2. state[j] = "RETIRING" => generation[j] = lifeGen[j]
           \/ \E q \in Procs : at[q] = j /\ pc'[q] = "free"
    BY <1>q, <1>o DEF Words, PcType, Pinned, StatesOK
  <2> QED  BY Zenon, <2>1, <2>2
<1>4. OwnerOK'
  BY Zenon, <1>u, <1>o, <1>b, <1>q DEF Words, Roles, Pinned, OwnerOK, Clean, Buildable
<1>5. FreesOK'
  <2>1. OneFrees'
    BY Zenon, <1>i, <1>u, <1>o, <1>y DEF Pinned, FreesOK, OneFrees, FreeingAt
  <2>2. ASSUME NEW q \in Procs PROVE FreeOK(q)'
    <3>1. CASE q = p
      BY Zenon, <1>i, <1>u, <1>f, <1>b, <1>x, <3>1 DEF FreeOK, FreeingLabels
    <3>2. CASE q # p
      BY Zenon, <1>u, <1>o, <3>2 DEF Pinned, FreesOK, FreeOK, Buildable
    <3> QED  BY Zenon, <3>1, <3>2
  <2> QED  BY Zenon, <2>1, <2>2 DEF FreesOK
<1>6. LookupsOK'
  <2> SUFFICES ASSUME NEW q \in Probers PROVE LookupOK(q)'
    BY Zenon DEF LookupsOK
  <2>p. LookupOK(q) /\ q \in Procs  BY Zenon DEF Words, Roles, Pinned, LookupsOK
  <2>1. CASE q = p
    BY Zenon, <1>u, <1>q, <1>b, <2>p, <2>1 DEF Words, PcType, LookupOK, Walking,
       ReleaseLabels, FreeingLabels
  <2>2. CASE q # p
    BY Zenon, <1>u, <1>o, <2>p, <2>2 DEF LookupOK
  <2> QED  BY Zenon, <2>1, <2>2
<1>7. HandlesOK'
  BY Zenon, <1>u, <1>o, <1>b DEF Words, Roles, Pinned, HandlesOK, HandleOK
<1> QED  BY Zenon, <1>1, <1>2, <1>3, <1>4, <1>5, <1>6, <1>7 DEF Pinned

(* The last store gives the slot back, clean.                              *)
LEMMA FreeTheSlotPins ==
    ASSUME Words, Pinned, NEW p \in Procs, FreeTheSlot(p)
    PROVE  Pinned'
<1>i. PICK i \in Slots : i = at[p]  BY Zenon DEF Words, AtType
<1>u. /\ refs' = refs /\ target' = target /\ generation' = generation
      /\ lifeGen' = lifeGen /\ life' = life /\ back' = back /\ at' = at /\ g' = g
      /\ want' = want /\ probes' = probes
  BY Zenon DEF FreeTheSlot, scan
<1>s. state'[i] = "FREE" /\ \A j \in Slots : j # i => state'[j] = state[j]
  BY Zenon, <1>i DEF Words, StateType, FreeTheSlot
<1>q. pc[p] = "free" /\ pc'[p] = back[p] /\ pc'[p] \in {"idle", "nextSlot", "scan"}
  BY Zenon DEF Words, PcType, BackType, FreeTheSlot, Goto
<1>o. \A q \in Procs : q # p => pc'[q] = pc[q]
  BY Zenon DEF Words, PcType, FreeTheSlot, Goto
<1>p. state[i] = "RETIRING" /\ Clean(i) /\ Buildable(i) /\ FreeingAt(p, i)
  BY Zenon, <1>i, <1>q DEF Pinned, FreesOK, FreeOK, FreeingLabels, FreeingAt, Clean
<1>a. \A q \in Procs : q # p => ~ FreeingAt(q, i)
  BY Zenon, <1>i, <1>p DEF Pinned, FreesOK, OneFrees, FreeingAt
<1>n. \A q \in Procs : ~ Holds(q, i)
  BY Zenon, <1>p DEF Pinned, NobodyHolds
<1>h. \A j \in Slots : \A q \in Procs : Holds(q, j)' <=> Holds(q, j)
  BY Zenon, <1>u, <1>o, <1>q DEF Holds, CountedIn, HasHandle
<1>c. \A j \in Slots : Claimed(j)' <=> Claimed(j)
  BY Zenon, <1>u, <1>o, <1>q DEF Words, Roles, Claimed
<1>d. \A j \in Slots : Owned(j)' <=> Owned(j)
  BY Zenon, <1>u, <1>o, <1>q DEF Words, Roles, Owned
<1>w. ~ Owned(i)
  BY Zenon, <1>p DEF Pinned, StatesOK
<1>e. \A j \in Slots : \A q \in Procs : FreeingAt(q, j)' <=> FreeingAt(q, j) /\ q # p
  BY Zenon, <1>u, <1>o, <1>q DEF FreeingAt, FreeingLabels
<1>1. RefsCount'
  <2>1. \A j \in Slots : Holders(j)' = Holders(j)  BY Zenon, <1>h DEF Holders
  <2> QED  BY Zenon, <1>c, <1>u, <2>1 DEF Pinned, RefsCount
<1>2. NobodyHolds'
  BY Zenon, <1>h, <1>c, <1>e, <1>n, <1>s DEF Pinned, NobodyHolds
<1>3. StatesOK'
  <2> SUFFICES ASSUME NEW j \in Slots
               PROVE  /\ state'[j] = "ALLOCATED" <=> Owned(j)'
                      /\ state'[j] = "FREE" => Clean(j)' /\ Buildable(j)'
                      /\ state'[j] = "RETIRING" => \E q \in Procs : Holds(q, j)' \/ FreeingAt(q, j)'
                      /\ state'[j] = "RETIRING" => generation'[j] = lifeGen'[j]
                            \/ \E q \in Procs : at'[q] = j /\ pc'[q] = "free"
    BY Zenon DEF StatesOK
  <2>1. CASE j = i
    BY Zenon, <1>s, <1>d, <1>w, <1>p, <1>u, <2>1 DEF Clean, Buildable
  <2>2. CASE j # i
    <3>1. /\ state[j] = "ALLOCATED" <=> Owned(j)
          /\ state[j] = "FREE" => Clean(j) /\ Buildable(j)
          /\ state[j] = "RETIRING" => \E q \in Procs : Holds(q, j) \/ FreeingAt(q, j)
          /\ state[j] = "RETIRING" => generation[j] = lifeGen[j]
                \/ \E q \in Procs : at[q] = j /\ pc[q] = "free"
      BY Zenon DEF Pinned, StatesOK
    <3>2. \A q \in Procs : at[q] = j => q # p  BY Zenon, <1>i, <2>2
    <3>3. state[j] = "RETIRING" => \E q \in Procs : Holds(q, j)' \/ FreeingAt(q, j)'
      BY Zenon, <1>h, <1>e, <3>1, <3>2 DEF FreeingAt
    <3> QED  BY Zenon, <1>s, <1>d, <1>u, <1>o, <2>2, <3>1, <3>2, <3>3 DEF Clean, Buildable
  <2> QED  BY Zenon, <2>1, <2>2
<1>4. OwnerOK'
  <2>1. pc'[Worker] = "release" => state[at[Worker]] = "RETIRING" /\ at[Worker] # i
    BY Zenon, <1>n, <1>o, <1>q DEF Words, Roles, Pinned, OwnerOK, Holds, CountedIn
  <2> QED
    BY Zenon, <1>u, <1>s, <1>o, <1>q, <2>1 DEF Words, Roles, AtType, Pinned, OwnerOK,
       Clean, Buildable
<1>5. FreesOK'
  <2>1. OneFrees'
    BY Zenon, <1>u, <1>o, <1>q DEF Pinned, FreesOK, OneFrees, FreeingLabels
  <2>2. ASSUME NEW q \in Procs PROVE FreeOK(q)'
    <3>1. CASE q = p
      BY Zenon, <1>q, <3>1 DEF FreeOK, FreeingLabels
    <3>2. CASE q # p
      <4>1. pc[q] \in FreeingLabels => at[q] # i  BY Zenon, <1>a, <3>2 DEF FreeingAt
      <4> QED  BY Zenon, <1>u, <1>s, <1>o, <3>2, <4>1 DEF Words, AtType, Pinned, FreesOK,
         FreeOK, Buildable
    <3> QED  BY Zenon, <3>1, <3>2
  <2> QED  BY Zenon, <2>1, <2>2 DEF FreesOK
<1>6. LookupsOK'
  <2> SUFFICES ASSUME NEW q \in Probers PROVE LookupOK(q)'
    BY Zenon DEF LookupsOK
  <2>p. LookupOK(q) /\ q \in Procs  BY Zenon DEF Words, Roles, Pinned, LookupsOK
  <2>1. CASE q = p
    BY Zenon, <1>u, <1>q, <2>p, <2>1 DEF LookupOK, Walking, ReleaseLabels, FreeingLabels
  <2>2. CASE q # p
    <3>1. pc[q] = "addRef" => at[q] # i  BY Zenon, <1>p, <2>p DEF LookupOK
    <3> QED  BY Zenon, <1>u, <1>s, <1>o, <2>p, <2>2, <3>1 DEF Words, AtType, LookupOK
  <2> QED  BY Zenon, <2>1, <2>2
<1>7. HandlesOK'
  BY Zenon, <1>u, <1>o, <1>q DEF Words, Roles, Pinned, HandlesOK, HandleOK
<1> QED  BY Zenon, <1>1, <1>2, <1>3, <1>4, <1>5, <1>6, <1>7 DEF Pinned

(* release_ref() counts and frees as the pool of slots needs it.           *)
LEMMA ReleasePins ==
    ASSUME Words, Counting, Pinned, NEW p \in Procs, ReleaseRef(p)
    PROVE  Pinned'
BY Zenon, FetchSubPins, FreeingPins, FreeTheSlotPins DEF ReleaseRef

-----------------------------------------------------------------------------
(* Every step of release_ref() keeps the words in their types.             *)
LEMMA ReleaseTypes ==
    ASSUME TypeOK, Ranges, NEW p \in Procs, ReleaseRef(p)
    PROVE  TypeOK'
<1>1. CASE FetchSub(p)
  BY Zenon, <1>1 DEF TypeOK, Ranges, FetchSub, Goto, worker, scan, history, PcLabels
<1>2. CASE CheckRetiring(p)
  BY Zenon, <1>2 DEF TypeOK, Ranges, CheckRetiring, Goto, slots, worker, scan, history,
     PcLabels
<1>3. CASE LoadGeneration(p)
  BY Zenon, <1>3 DEF TypeOK, Ranges, LoadGeneration, Goto, slots, worker, scan, history,
     PcLabels
<1>4. CASE SnapshotLife(p)
  BY Zenon, <1>4 DEF TypeOK, Ranges, SnapshotLife, Goto, slots, worker, scan, history,
     PcLabels
<1>5. CASE RetireReady(p)
  BY Zenon, <1>5 DEF TypeOK, Ranges, RetireReady, Retire, Goto, InBuild, worker, scan,
     history, PcLabels, LifeStates
<1>6. CASE RetireBuilding(p)
  BY Zenon, <1>6 DEF TypeOK, Ranges, RetireBuilding, Retire, Goto, InBuild, worker, scan,
     history, PcLabels, LifeStates
<1>7. CASE WipeTarget(p)
  BY Zenon, <1>7 DEF TypeOK, Ranges, WipeTarget, Goto, worker, scan, history, PcLabels
<1>8. CASE WipeGeneration(p)
  BY Zenon, <1>8 DEF TypeOK, Ranges, WipeGeneration, Goto, worker, scan, history, PcLabels
<1>9. CASE FreeTheSlot(p)
  BY Zenon, <1>9 DEF TypeOK, Ranges, FreeTheSlot, Goto, worker, scan, history, PcLabels,
     SlotStates
<1> QED
  BY Zenon, <1>1, <1>2, <1>3, <1>4, <1>5, <1>6, <1>7, <1>8, <1>9 DEF ReleaseRef
=============================================================================
