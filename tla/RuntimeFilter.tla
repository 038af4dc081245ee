------------------------------- MODULE RuntimeFilter ------------------------
(***************************************************************************)
(* The shared pool of join filters: src/runtime/filter.                    *)
(*                                                                         *)
(* The worker claims a slot for a build (allocate_build), inserts the keys *)
(* of the build side, publishes or disables the filter and releases its    *)
(* ownership.  A backend that opens the probe-side scan walks the slots    *)
(* (lookup_probes), holds a counted reference to each filter of its scan,  *)
(* asks it about every row, and drops the references (release_ref).  The   *)
(* last reference to a retiring slot frees it.  Every step below is one    *)
(* atomic access to the slot.                                              *)
(*                                                                         *)
(* A target (session epoch, scan id) is the number of the build it belongs *)
(* to, and is written together with the column and key type of the filter: *)
(* StoreTarget and the wipe stand for four stores each.  In a wiped slot a *)
(* lookup that comes between them finds a scan that is not its own or no   *)
(* key type, and drops its reference as if it had come before the first.   *)
(* In a slot given back with its target (BuilderBusy) it could also match a *)
(* mixture of two targets, which is left out.  So is the end of the        *)
(* generations (GenerationExhausted, after 2^62 builds of one slot).       *)
(* The Bloom bits are the set of inserted keys: a false positive only      *)
(* passes a row, so it cannot break a property stated here.                *)
(***************************************************************************)
EXTENDS RuntimeFilterState

Init ==
    /\ state = [i \in Slots |-> "FREE"] /\ refs = [i \in Slots |-> 0]
    /\ target = [i \in Slots |-> NoTarget] /\ generation = [i \in Slots |-> 0]
    /\ lifeGen = [i \in Slots |-> 0] /\ life = [i \in Slots |-> "Free"]
    /\ bits = [i \in Slots |-> {}]
    /\ pc = [p \in Procs |-> "idle"] /\ back = [p \in Procs |-> "idle"]
    /\ at = [p \in Procs |-> 1] /\ g = [p \in Procs |-> 0]
    /\ build = NoTarget /\ todo = {}
    /\ want = [p \in Probers |-> NoTarget]
    /\ probes = [p \in Probers |-> {}]
    /\ key = [p \in Probers |-> NoKey]
    /\ rows = [p \in Probers |-> 0] /\ scans = [p \in Probers |-> MaxScans]
    /\ rejected = {} /\ raced = FALSE

-----------------------------------------------------------------------------
(* allocate_build(): the worker walks the slots for one it can claim.      *)

BeginBuild ==
    /\ pc[Worker] = "idle" /\ build < MaxBuilds
    /\ build' = build + 1 /\ todo' = JoinKeys[build + 1]
    /\ at' = [at EXCEPT ![Worker] = 1]
    /\ Goto(Worker, "claim")
    /\ UNCHANGED <<slots, back, g, scan, history>>

ClaimSlot ==
    /\ pc[Worker] = "claim" /\ state[at[Worker]] = "FREE"
    /\ state' = [state EXCEPT ![at[Worker]] = "ALLOCATED"]
    /\ Goto(Worker, "refs")
    /\ UNCHANGED <<refs, target, generation, lifeGen, life, bits>>
    /\ UNCHANGED <<back, at, g, worker, scan, history>>

(* Every slot is taken: Ok(None), and the join runs without a filter.      *)
SkipSlot ==
    /\ pc[Worker] = "claim" /\ state[at[Worker]] # "FREE"
    /\ IF at[Worker] = SlotCount
         THEN at' = [at EXCEPT ![Worker] = 1] /\ Goto(Worker, "idle")
         ELSE at' = [at EXCEPT ![Worker] = @ + 1] /\ UNCHANGED pc
    /\ UNCHANGED <<slots, back, g, worker, scan, history>>

StoreRefs ==
    /\ pc[Worker] = "refs"
    /\ refs' = [refs EXCEPT ![at[Worker]] = 1]
    /\ Goto(Worker, "target")
    /\ UNCHANGED <<state, target, generation, lifeGen, life, bits>>
    /\ UNCHANGED <<back, at, g, worker, scan, history>>

StoreTarget ==
    /\ pc[Worker] = "target"
    /\ target' = [target EXCEPT ![at[Worker]] = build]
    /\ Goto(Worker, "acquire")
    /\ UNCHANGED <<state, refs, generation, lifeGen, life, bits>>
    /\ UNCHANGED <<back, at, g, worker, scan, history>>

TryAcquireBuilder ==
    /\ pc[Worker] = "acquire" /\ life[at[Worker]] \in {"Free", "Disabled"}
    /\ lifeGen' = [lifeGen EXCEPT ![at[Worker]] = @ + 1]
    /\ life' = [life EXCEPT ![at[Worker]] = "Building"]
    /\ g' = [g EXCEPT ![Worker] = lifeGen[at[Worker]] + 1]
    /\ Goto(Worker, "clear")
    /\ UNCHANGED <<state, refs, target, generation, bits>>
    /\ UNCHANGED <<back, at, worker, scan, history>>

(* LifecycleError::Busy: the slot is given back and planning fails.        *)
BuilderBusy ==
    /\ pc[Worker] = "acquire" /\ life[at[Worker]] \in {"Building", "Ready"}
    /\ refs' = [refs EXCEPT ![at[Worker]] = 0]
    /\ Goto(Worker, "giveBack")
    /\ UNCHANGED <<state, target, generation, lifeGen, life, bits>>
    /\ UNCHANGED <<back, at, g, worker, scan, history>>

GiveBackSlot ==
    /\ pc[Worker] = "giveBack"
    /\ state' = [state EXCEPT ![at[Worker]] = "FREE"]
    /\ Goto(Worker, "idle")
    /\ UNCHANGED <<refs, target, generation, lifeGen, life, bits>>
    /\ UNCHANGED <<back, at, g, worker, scan, history>>

ClearBits ==
    /\ pc[Worker] = "clear"
    /\ bits' = [bits EXCEPT ![at[Worker]] = {}]
    /\ Goto(Worker, "generation")
    /\ UNCHANGED <<state, refs, target, generation, lifeGen, life>>
    /\ UNCHANGED <<back, at, g, worker, scan, history>>

StoreGeneration ==
    /\ pc[Worker] = "generation"
    /\ generation' = [generation EXCEPT ![at[Worker]] = g[Worker]]
    /\ Goto(Worker, "build")
    /\ UNCHANGED <<state, refs, target, lifeGen, life, bits>>
    /\ UNCHANGED <<back, at, g, worker, scan, history>>

-----------------------------------------------------------------------------
(* The build: RuntimeFilterBuildState drives the handle.                   *)

(* insert_hash() looks at the lifecycle word, then sets the bits; a key    *)
(* whose generation is no longer being built is left out.                  *)
InsertHash(k) ==
    /\ pc[Worker] = "build" /\ k \in todo
    /\ bits' = IF InBuild(at[Worker], g[Worker], "Building")
                 THEN [bits EXCEPT ![at[Worker]] = @ \cup {k}] ELSE bits
    /\ todo' = todo \ {k}
    /\ UNCHANGED <<state, refs, target, generation, lifeGen, life>>
    /\ UNCHANGED <<control, build, scan, history>>

PublishReadyEarly ==
    /\ pc[Worker] = "build"
    /\ InBuild(at[Worker], g[Worker], "Building")
    /\ life' = [life EXCEPT ![at[Worker]] = "Ready"]
    /\ todo' = {} /\ Goto(Worker, "owner")
    /\ UNCHANGED <<state, refs, target, generation, lifeGen, bits>>
    /\ UNCHANGED <<back, at, g, build, scan, history>>
PublishReady ==
    /\ pc[Worker] = "build" /\ todo = {}
    /\ InBuild(at[Worker], g[Worker], "Building")
    /\ life' = [life EXCEPT ![at[Worker]] = "Ready"]
    /\ Goto(Worker, "owner")
    /\ UNCHANGED <<state, refs, target, generation, lifeGen, bits>>
    /\ UNCHANGED <<back, at, g, worker, scan, history>>

(* disable_build(): the plan fails or is dropped before the build side is  *)
(* exhausted, or publish_ready() failed.  The worker runs one query at a   *)
(* time, so the next build begins after this owner has been released.      *)
DisableBuild ==
    /\ pc[Worker] = "build"
    /\ life' = IF InBuild(at[Worker], g[Worker], "Building")
                 THEN [life EXCEPT ![at[Worker]] = "Disabled"] ELSE life
    /\ todo' = {} /\ Goto(Worker, "owner")
    /\ UNCHANGED <<state, refs, target, generation, lifeGen, bits>>
    /\ UNCHANGED <<back, at, g, build, scan, history>>

(* release_owner(): the slot stops taking references, then the owner's own *)
(* one is released.                                                        *)
ReleaseOwner ==
    /\ pc[Worker] = "owner"
    /\ state' = [state EXCEPT ![at[Worker]] =
                   IF @ = "ALLOCATED" THEN "RETIRING" ELSE @]
    /\ Goto(Worker, "release")
    /\ back' = [back EXCEPT ![Worker] = "idle"]
    /\ raced' = (raced \/ \E p \in Probers : pc[p] = "addRef" /\ at[p] = at[Worker])
    /\ UNCHANGED <<refs, target, generation, lifeGen, life, bits>>
    /\ UNCHANGED <<at, g, worker, scan, rejected>>

Allocate ==
    \/ BeginBuild \/ ClaimSlot \/ SkipSlot \/ StoreRefs \/ StoreTarget
    \/ TryAcquireBuilder \/ BuilderBusy \/ GiveBackSlot \/ ClearBits
    \/ StoreGeneration

Build ==
    \/ \E k \in Keys : InsertHash(k)
    \/ PublishReady \/ DisableBuild \/ ReleaseOwner

-----------------------------------------------------------------------------
(* lookup_probes(): a backend walks all slots for those of its scan.       *)

OpenScan(p) ==
    /\ pc[p] = "idle" /\ scans[p] > 0
    /\ scans' = [scans EXCEPT ![p] = @ - 1]
    /\ \E t \in Planned : want' = [want EXCEPT ![p] = t]
    /\ rows' = [rows EXCEPT ![p] = MaxRows]
    /\ at' = [at EXCEPT ![p] = 1]
    /\ Goto(p, "lookup")
    /\ UNCHANGED <<slots, back, g, worker, probes, key, history>>

(* The walk moves on to the next slot, or the scan starts.                 *)
AdvanceLookup(p) ==
    IF at[p] = SlotCount
      THEN at' = [at EXCEPT ![p] = 1] /\ Goto(p, "scan")
      ELSE at' = [at EXCEPT ![p] = @ + 1] /\ Goto(p, "lookup")

LookupState(p) ==
    /\ pc[p] = "lookup"
    /\ IF state[at[p]] = "ALLOCATED"
         THEN Goto(p, "addRef") /\ UNCHANGED at
         ELSE AdvanceLookup(p)
    /\ UNCHANGED <<slots, back, g, worker, scan, history>>

LookupAddRef(p) ==
    /\ pc[p] = "addRef"
    /\ refs' = [refs EXCEPT ![at[p]] = (@ + 1) % RefMod]
    /\ raced' = (raced \/ (pc[Worker] = "refs" /\ at[Worker] = at[p]))
    /\ Goto(p, "recheck")
    /\ UNCHANGED <<state, target, generation, lifeGen, life, bits>>
    /\ UNCHANGED <<back, at, g, worker, scan, rejected>>

(* The state, then the target, are read again under the reference.         *)
ReleaseThen(p, label) ==
    Goto(p, "release") /\ back' = [back EXCEPT ![p] = label]

LookupRecheck(p) ==
    /\ pc[p] = "recheck"
    /\ IF state[at[p]] = "ALLOCATED"
         THEN Goto(p, "match") /\ UNCHANGED back
         ELSE ReleaseThen(p, "nextSlot")
    /\ UNCHANGED <<slots, at, g, worker, scan, history>>

LookupMatchNever(p) ==
    /\ pc[p] = "match" /\ Goto(p, "attach")
    /\ UNCHANGED <<slots, back, at, g, worker, scan, history>>
LookupMatch(p) ==
    /\ pc[p] = "match"
    /\ IF target[at[p]] = want[p]
         THEN Goto(p, "attach") /\ UNCHANGED back
         ELSE ReleaseThen(p, "nextSlot")
    /\ UNCHANGED <<slots, at, g, worker, scan, history>>

LookupAttach(p) ==
    /\ pc[p] = "attach"
    /\ probes' = [probes EXCEPT ![p] =
                     @ \cup {[slot |-> at[p], gen |-> generation[at[p]]]}]
    /\ AdvanceLookup(p)
    /\ UNCHANGED <<slots, back, g, worker, want, key, rows, scans, history>>

(* A reference given up during the walk.                                   *)
LookupContinue(p) ==
    /\ pc[p] = "nextSlot"
    /\ AdvanceLookup(p)
    /\ UNCHANGED <<slots, back, g, worker, scan, history>>

-----------------------------------------------------------------------------
(* The scan: decision_for_hash() on each row.  A filter that is not ready  *)
(* in the handle's generation passes the row, which changes nothing here.  *)

Probe(p) ==
    /\ pc[p] = "scan" /\ rows[p] > 0
    /\ \E h \in probes[p], k \in Keys :
          /\ InBuild(h.slot, h.gen, "Ready")
          /\ at' = [at EXCEPT ![p] = h.slot]
          /\ key' = [key EXCEPT ![p] = k]
    /\ rows' = [rows EXCEPT ![p] = @ - 1]
    /\ Goto(p, "bits")
    /\ UNCHANGED <<slots, back, g, worker, want, probes, scans, history>>

ReadBits(p) ==
    /\ pc[p] = "bits"
    /\ rejected' = IF key[p] \in bits[at[p]] \/ ~QueryLives(want[p]) THEN rejected
                   ELSE rejected \cup {<<want[p], key[p]>>}
    /\ key' = [key EXCEPT ![p] = NoKey]
    /\ at' = [at EXCEPT ![p] = 1]
    /\ Goto(p, "scan")
    /\ UNCHANGED <<slots, back, g, worker, want, probes, rows, scans, raced>>

DropProbe(p) ==
    /\ pc[p] = "scan"
    /\ \E h \in probes[p] :
          /\ probes' = [probes EXCEPT ![p] = @ \ {h}]
          /\ at' = [at EXCEPT ![p] = h.slot]
    /\ rows' = [rows EXCEPT ![p] = 0]
    /\ ReleaseThen(p, "scan")
    /\ UNCHANGED <<slots, g, worker, want, key, scans, history>>

CloseScan(p) ==
    /\ pc[p] = "scan" /\ probes[p] = {}
    /\ want' = [want EXCEPT ![p] = NoTarget]
    /\ rows' = [rows EXCEPT ![p] = 0]
    /\ at' = [at EXCEPT ![p] = 1]
    /\ Goto(p, "idle")
    /\ UNCHANGED <<slots, back, g, worker, probes, key, scans, history>>

Lookup(p) ==
    \/ OpenScan(p) \/ LookupState(p) \/ LookupAddRef(p) \/ LookupRecheck(p)
    \/ LookupMatch(p) \/ LookupAttach(p) \/ LookupContinue(p)

Scan(p) == Probe(p) \/ ReadBits(p) \/ DropProbe(p) \/ CloseScan(p)

-----------------------------------------------------------------------------
(* release_ref(): the last reference to a retiring slot frees it.          *)
FetchSub(p) ==
    /\ pc[p] = "release"
    /\ refs' = [refs EXCEPT ![at[p]] = (@ + RefMod - 1) % RefMod]
    /\ Goto(p, IF refs[at[p]] = 1 THEN "checkState" ELSE back[p])
    /\ UNCHANGED <<state, target, generation, lifeGen, life, bits>>
    /\ UNCHANGED <<back, at, g, worker, scan, history>>

CheckRetiring(p) ==
    /\ pc[p] = "checkState"
    /\ Goto(p, IF state[at[p]] = "RETIRING" THEN "loadGeneration" ELSE back[p])
    /\ UNCHANGED <<slots, back, at, g, worker, scan, history>>

LoadGeneration(p) ==
    /\ pc[p] = "loadGeneration"
    /\ g' = [g EXCEPT ![p] = generation[at[p]]]
    /\ Goto(p, "snapshot")
    /\ UNCHANGED <<slots, back, at, worker, scan, history>>

(* The state found decides which transition is tried next.                 *)
SnapshotLifeForgetsReady(p) ==
    /\ pc[p] = "snapshot"
    /\ Goto(p, IF life[at[p]] = "Building" THEN "disableBuild" ELSE "wipe")
    /\ UNCHANGED <<slots, back, at, g, worker, scan, history>>
SnapshotLife(p) ==
    /\ pc[p] = "snapshot"
    /\ Goto(p, CASE life[at[p]] = "Ready" -> "retireReady"
                 [] life[at[p]] = "Building" -> "disableBuild"
                 [] OTHER -> "wipe")
    /\ UNCHANGED <<slots, back, at, g, worker, scan, history>>

(* retire_ready_after_quiescence() and disable_build(): one CAS each.      *)
Retire(p, label, st) ==
    /\ pc[p] = label
    /\ life' = IF InBuild(at[p], g[p], st)
                 THEN [life EXCEPT ![at[p]] = "Disabled"] ELSE life
    /\ Goto(p, "wipe")
    /\ UNCHANGED <<state, refs, target, generation, lifeGen, bits>>
    /\ UNCHANGED <<back, at, g, worker, scan, history>>
RetireReady(p) == Retire(p, "retireReady", "Ready")
RetireBuilding(p) == Retire(p, "disableBuild", "Building")

WipeTarget(p) ==
    /\ pc[p] = "wipe"
    /\ target' = [target EXCEPT ![at[p]] = NoTarget]
    /\ Goto(p, "wipeGeneration")
    /\ UNCHANGED <<state, refs, generation, lifeGen, life, bits>>
    /\ UNCHANGED <<back, at, g, worker, scan, history>>

WipeGeneration(p) ==
    /\ pc[p] = "wipeGeneration"
    /\ generation' = [generation EXCEPT ![at[p]] = 0]
    /\ Goto(p, "free")
    /\ UNCHANGED <<state, refs, target, lifeGen, life, bits>>
    /\ UNCHANGED <<back, at, g, worker, scan, history>>

FreeTheSlot(p) ==
    /\ pc[p] = "free"
    /\ state' = [state EXCEPT ![at[p]] = "FREE"]
    /\ Goto(p, back[p])
    /\ UNCHANGED <<refs, target, generation, lifeGen, life, bits>>
    /\ UNCHANGED <<back, at, g, worker, scan, history>>

ReleaseRef(p) ==
    \/ FetchSub(p) \/ CheckRetiring(p) \/ LoadGeneration(p) \/ SnapshotLife(p)
    \/ RetireReady(p) \/ RetireBuilding(p) \/ WipeTarget(p) \/ WipeGeneration(p)
    \/ FreeTheSlot(p)

-----------------------------------------------------------------------------
Next ==
    \/ Allocate \/ Build
    \/ \E p \in Probers : Lookup(p) \/ Scan(p)
    \/ \E p \in Procs : ReleaseRef(p)

Spec == Init /\ [][Next]_vars
=============================================================================
