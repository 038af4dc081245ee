------------------------ MODULE RuntimeFilter_lookup ------------------------
(***************************************************************************)
(* A backend's steps: lookup_probes(), the probes of a scan and the drop   *)
(* of its handles keep the invariants of the pool of join filters, for any *)
(* number of backends, slots, builds, scans, rows and keys.                *)
(*                                                                         *)
(* Scans and Reads say what these steps leave alone, so that what is left  *)
(* to show of one of them is what it does to its own scan.                 *)
(***************************************************************************)
EXTENDS RuntimeFilter, TLAPS

(* A step of a backend: it changes its own variables, and of a slot at     *)
(* most the references.                                                    *)
Scans(p) ==
    /\ \A q \in Procs \ {p} : pc'[q] = pc[q] /\ at'[q] = at[q] /\ back'[q] = back[q]
    /\ \A q \in Probers \ {p} : want'[q] = want[q] /\ probes'[q] = probes[q] /\ key'[q] = key[q]
    /\ g' = g /\ build' = build /\ todo' = todo
    /\ state' = state /\ target' = target /\ lifeGen' = lifeGen /\ life' = life /\ bits' = bits

(* A backend's step keeps Sound if it keeps what is said of itself.        *)
LEMMA ScansKeep ==
    ASSUME Words, Sound, NEW p \in Probers, Scans(p), ScanOK(p)', NeverRejectsAJoinableRow'
    PROVE  Sound'
<1>w. pc'[Worker] = pc[Worker] /\ at'[Worker] = at[Worker] /\ back'[Worker] = back[Worker]
  BY Zenon DEF Words, Roles, Scans
<1>u. /\ g' = g /\ build' = build /\ todo' = todo
      /\ target' = target /\ lifeGen' = lifeGen /\ life' = life /\ bits' = bits
  BY Zenon DEF Scans
<1>a. Allocating' = Allocating  BY Zenon, <1>w DEF Allocating
<1>1. WorkerOK'
  BY Zenon, <1>w, <1>u DEF Sound, WorkerOK
<1>2. GenerationsLag' /\ TargetsOK'
  BY Zenon, <1>w, <1>u DEF Sound, GenerationsLag, TargetsOK
<1>3. BuilderOK'
  BY Zenon, <1>w, <1>u, <1>a DEF Sound, BuilderOK
<1>4. ASSUME NEW q \in Probers, q # p PROVE ScanOK(q)'
  <2>1. /\ pc'[q] = pc[q] /\ at'[q] = at[q] /\ back'[q] = back[q]
        /\ want'[q] = want[q] /\ probes'[q] = probes[q] /\ key'[q] = key[q]
    BY Zenon, <1>4 DEF Words, Roles, Scans
  <2>2. ScanOK(q)  BY Zenon DEF Sound
  <2> QED  BY <1>w, <1>u, <1>a, <2>1, <2>2 DEF ScanOK, QueryLives
<1> QED  BY Zenon, <1>1, <1>2, <1>3, <1>4 DEF Sound

(* The walk over the slots goes on behind the slots it has handles to.     *)
LEMMA AdvanceMoves ==
    ASSUME Words, NEW p \in Probers, AdvanceLookup(p),
           \A h \in probes'[p] : h.slot \in Slots /\ h.slot <= at[p]
    PROVE  /\ pc'[p] \in {"lookup", "scan"}
           /\ pc'[p] = "lookup" => \A h \in probes'[p] : h.slot < at'[p]
           /\ \A q \in Procs \ {p} : pc'[q] = pc[q] /\ at'[q] = at[q]
<1>1. pc'[p] \in {"lookup", "scan"} /\ \A q \in Procs \ {p} : pc'[q] = pc[q] /\ at'[q] = at[q]
  BY DEF Words, Roles, PcType, AtType, AdvanceLookup, Goto
<1>2. ASSUME pc'[p] = "lookup", NEW h \in probes'[p] PROVE h.slot < at'[p]
  <2>1. at'[p] = at[p] + 1  BY <1>2 DEF Words, Roles, PcType, AtType, AdvanceLookup, Goto
  <2>2. at[p] \in Int /\ h.slot \in Int  BY Zenon DEF Words, SlotNumbers, Roles, AtType
  <2> QED  BY <2>1, <2>2
<1> QED  BY Zenon, <1>1, <1>2

-----------------------------------------------------------------------------
(* No step of a backend can make a row be skipped that has a partner: what *)
(* a scan reads for the running query is the complete filter of its join.  *)
LEMMA ScanKeeps ==
    ASSUME Words, Sound, NEW p \in Probers, Lookup(p) \/ Scan(p)
    PROVE  Sound'
<1>p. ScanOK(p) /\ p \in Procs /\ p # Worker  BY Zenon DEF Words, Roles, Sound
<1> SUFFICES Scans(p) /\ ScanOK(p)' /\ NeverRejectsAJoinableRow'  BY Zenon, ScansKeep
<1>w. ASSUME Scans(p)
      PROVE  /\ build' = build /\ bits' = bits /\ at'[Worker] = at[Worker]
             /\ pc'[Worker] = pc[Worker] /\ Allocating' = Allocating
  BY Zenon, <1>p, <1>w DEF Words, Roles, Scans, Allocating
<1>1. CASE OpenScan(p)
  <2>1. Scans(p) /\ NeverRejectsAJoinableRow'
    BY Zenon, <1>1 DEF Words, Roles, PcType, AtType, WantType, OpenScan, Goto, slots,
       worker, history, Scans, Sound, NeverRejectsAJoinableRow
  <2>2. /\ pc[p] = "idle" /\ pc'[p] = "lookup" /\ probes'[p] = probes[p]
        /\ \E t \in Planned : want'[p] = t
    BY Zenon, <1>p, <1>1 DEF Words, PcType, WantType, OpenScan, Goto
  <2>3. want'[p] >= 1 /\ want'[p] <= build /\ (want'[p] = build => ~ Allocating)
    BY <2>2 DEF Words, BuildType, Planned, Targets
  <2> QED  BY <1>p, <1>w, <2>1, <2>2, <2>3 DEF ScanOK, QueryLives, ProberLabels,
     ReleaseLabels, FreeingLabels
<1>2. CASE LookupState(p)
  <2>1. Scans(p) /\ NeverRejectsAJoinableRow'
    BY Zenon, <1>2 DEF Words, Roles, PcType, AtType, LookupState, Goto, AdvanceLookup,
       slots, worker, scan, history, Scans, Sound, NeverRejectsAJoinableRow
  <2>2. /\ pc[p] = "lookup" /\ pc'[p] \in {"addRef", "lookup", "scan"}
        /\ probes'[p] = probes[p] /\ want'[p] = want[p]
    BY Zenon, <1>p, <1>2 DEF Words, PcType, LookupState, Goto, AdvanceLookup, scan
  <2> QED  BY <1>p, <1>w, <2>1, <2>2 DEF ScanOK, QueryLives, ProberLabels, ReleaseLabels,
     FreeingLabels
<1>3. CASE LookupAddRef(p)
  <2>1. Scans(p) /\ NeverRejectsAJoinableRow'
    BY Zenon, <1>3 DEF Words, Roles, PcType, LookupAddRef, Goto, worker, scan, Scans,
       Sound, NeverRejectsAJoinableRow
  <2>2. /\ pc[p] = "addRef" /\ pc'[p] = "recheck"
        /\ probes'[p] = probes[p] /\ want'[p] = want[p]
    BY Zenon, <1>p, <1>3 DEF Words, PcType, LookupAddRef, Goto, scan
  <2> QED  BY <1>p, <1>w, <2>1, <2>2 DEF ScanOK, QueryLives, ProberLabels, ReleaseLabels,
     FreeingLabels
<1>4. CASE LookupRecheck(p)
  <2>1. Scans(p) /\ NeverRejectsAJoinableRow'
    BY Zenon, <1>4 DEF Words, Roles, PcType, BackType, LookupRecheck, Goto, ReleaseThen,
       slots, worker, scan, history, Scans, Sound, NeverRejectsAJoinableRow
  <2>2. /\ pc[p] = "recheck" /\ (pc'[p] = "match" \/ (pc'[p] = "release" /\ back'[p] = "nextSlot"))
        /\ probes'[p] = probes[p] /\ want'[p] = want[p]
    BY Zenon, <1>p, <1>4 DEF Words, PcType, BackType, LookupRecheck, Goto, ReleaseThen, scan
  <2> QED  BY <1>p, <1>w, <2>1, <2>2 DEF ScanOK, QueryLives, ProberLabels, ReleaseLabels,
     FreeingLabels
<1>5. CASE LookupMatch(p)
  <2>1. Scans(p) /\ NeverRejectsAJoinableRow'
    BY Zenon, <1>5 DEF Words, Roles, PcType, BackType, LookupMatch, Goto, ReleaseThen,
       slots, worker, scan, history, Scans, Sound, NeverRejectsAJoinableRow
  <2>2. /\ pc[p] = "match"
        /\ \/ pc'[p] = "attach" /\ target[at[p]] = want[p]
           \/ pc'[p] = "release" /\ back'[p] = "nextSlot"
        /\ probes'[p] = probes[p] /\ want'[p] = want[p] /\ at'[p] = at[p]
    BY Zenon, <1>p, <1>5 DEF Words, PcType, BackType, LookupMatch, Goto, ReleaseThen, scan
  <2>3. pc'[p] = "attach" /\ build >= 1 /\ want[p] = build => at[p] = at[Worker]
    BY Zenon, <1>p, <2>2 DEF Words, AtType, Sound, TargetsOK
  <2> QED  BY <1>p, <1>w, <2>1, <2>2, <2>3 DEF ScanOK, QueryLives, ProberLabels,
     ReleaseLabels, FreeingLabels
<1>6. CASE LookupAttach(p)
  <2>1. Scans(p) /\ NeverRejectsAJoinableRow'
    BY Zenon, <1>6 DEF Words, Roles, PcType, AtType, ProbesType, LookupAttach,
       AdvanceLookup, Goto, slots, worker, history, Scans, Sound, NeverRejectsAJoinableRow
  <2>2. pc[p] = "attach" /\ pc'[p] \in {"lookup", "scan"} /\ want'[p] = want[p]
    BY Zenon, <1>p, <1>6 DEF Words, PcType, LookupAttach, AdvanceLookup, Goto
  <2>3. \A h \in probes'[p] : h \in probes[p] \/ h.slot = at[p]
    BY <1>p, <1>6 DEF Words, ProbesType, LookupAttach
  <2> QED  BY <1>p, <1>w, <2>1, <2>2, <2>3 DEF ScanOK, QueryLives, ProberLabels,
     ReleaseLabels, FreeingLabels
<1>7. CASE LookupContinue(p)
  <2>1. Scans(p) /\ NeverRejectsAJoinableRow'
    BY Zenon, <1>7 DEF Words, Roles, PcType, AtType, LookupContinue, AdvanceLookup, Goto,
       slots, worker, scan, history, Scans, Sound, NeverRejectsAJoinableRow
  <2>2. /\ pc[p] = "nextSlot" /\ pc'[p] \in {"lookup", "scan"}
        /\ probes'[p] = probes[p] /\ want'[p] = want[p]
    BY Zenon, <1>p, <1>7 DEF Words, PcType, LookupContinue, AdvanceLookup, Goto, scan
  <2> QED  BY <1>p, <1>w, <2>1, <2>2 DEF ScanOK, QueryLives, ProberLabels, ReleaseLabels,
     FreeingLabels
<1>8. CASE Probe(p)
  <2>1. Scans(p) /\ NeverRejectsAJoinableRow'
    BY Zenon, <1>8 DEF Words, Roles, PcType, AtType, KeyType, Probe, Goto, InBuild, slots,
       worker, history, Scans, Sound, NeverRejectsAJoinableRow
  <2>2. /\ pc[p] = "scan" /\ pc'[p] = "bits" /\ key'[p] \in Keys
        /\ \E h \in probes[p] : at'[p] = h.slot /\ life[h.slot] = "Ready"
        /\ probes'[p] = probes[p] /\ want'[p] = want[p]
    BY Zenon, <1>p, <1>8 DEF Words, PcType, AtType, KeyType, Probe, Goto, InBuild
  <2>3. QueryLives(want[p]) => at'[p] = at[Worker] /\ JoinKeys[build] \subseteq bits[at[Worker]]
    <3> SUFFICES ASSUME QueryLives(want[p])
                 PROVE  at'[p] = at[Worker] /\ JoinKeys[build] \subseteq bits[at[Worker]]
      OBVIOUS
    <3>1. build = want[p] /\ build >= 1 /\ pc[Worker] \in {"build", "owner"}
      BY Zenon, <1>p, <2>2 DEF QueryLives, ScanOK
    <3>2. at'[p] = at[Worker] /\ life[at[Worker]] = "Ready"
      BY Zenon, <1>p, <2>2, <3>1 DEF ScanOK
    <3> QED  BY Zenon, <3>1, <3>2 DEF Sound, BuilderOK
  <2> QED  BY <1>p, <1>w, <2>1, <2>2, <2>3 DEF ScanOK, QueryLives, ProberLabels,
     ReleaseLabels, FreeingLabels
<1>9. CASE ReadBits(p)
  <2>1. Scans(p)
    BY Zenon, <1>9 DEF Words, Roles, PcType, AtType, KeyType, ReadBits, Goto, slots,
       worker, Scans
  <2>2. /\ pc[p] = "bits" /\ pc'[p] = "scan"
        /\ probes'[p] = probes[p] /\ want'[p] = want[p]
    BY Zenon, <1>p, <1>9 DEF Words, PcType, ReadBits, Goto
  <2>3. ScanOK(p)'
    BY <1>p, <1>w, <2>1, <2>2 DEF ScanOK, QueryLives, ProberLabels, ReleaseLabels,
       FreeingLabels
  <2>4. key[p] \in bits[at[p]] \/ ~ QueryLives(want[p]) \/ key[p] \notin JoinKeys[want[p]]
    BY Zenon, <1>p, <2>2 DEF ScanOK, QueryLives
  <2>5. NeverRejectsAJoinableRow'
    BY <1>9, <2>4 DEF ReadBits, Sound, NeverRejectsAJoinableRow
  <2> QED  BY Zenon, <2>1, <2>3, <2>5
<1>10. CASE DropProbe(p)
  <2>1. Scans(p) /\ NeverRejectsAJoinableRow'
    BY Zenon, <1>10 DEF Words, Roles, PcType, AtType, BackType, ProbesType, DropProbe,
       ReleaseThen, Goto, slots, worker, history, Scans, Sound, NeverRejectsAJoinableRow
  <2>2. /\ pc[p] = "scan" /\ pc'[p] = "release" /\ back'[p] = "scan"
        /\ probes'[p] \subseteq probes[p] /\ want'[p] = want[p]
    BY <1>p, <1>10 DEF Words, PcType, BackType, ProbesType, DropProbe, ReleaseThen, Goto
  <2> QED  BY <1>p, <1>w, <2>1, <2>2 DEF ScanOK, QueryLives, ProberLabels, ReleaseLabels,
     FreeingLabels
<1>11. CASE CloseScan(p)
  <2>1. Scans(p) /\ NeverRejectsAJoinableRow'
    BY Zenon, <1>11 DEF Words, Roles, PcType, AtType, WantType, CloseScan, Goto, slots,
       worker, history, Scans, Sound, NeverRejectsAJoinableRow
  <2>2. pc[p] = "scan" /\ pc'[p] = "idle" /\ probes'[p] = {} /\ want'[p] = 0
    BY Zenon, <1>p, <1>11 DEF Words, PcType, WantType, CloseScan, Goto, NoTarget
  <2>3. want'[p] <= build /\ ~ (build >= 1 /\ want'[p] = build)
    BY <2>2 DEF Words, BuildType
  <2> QED  BY <1>p, <1>w, <2>1, <2>2, <2>3 DEF ScanOK, QueryLives, ProberLabels,
     ReleaseLabels, FreeingLabels
<1> QED  BY Zenon, <1>1, <1>2, <1>3, <1>4, <1>5, <1>6, <1>7, <1>8, <1>9, <1>10,
   <1>11 DEF Lookup, Scan

-----------------------------------------------------------------------------
(* A backend's step that leaves the slots as they are.                     *)
Reads(p) ==
    /\ \A q \in Procs \ {p} : pc'[q] = pc[q] /\ at'[q] = at[q] /\ back'[q] = back[q]
    /\ \A q \in Probers \ {p} : want'[q] = want[q] /\ probes'[q] = probes[q]
    /\ g' = g /\ state' = state /\ refs' = refs /\ target' = target
    /\ generation' = generation /\ lifeGen' = lifeGen /\ life' = life
    /\ pc[p] \notin FreeingLabels /\ pc'[p] \notin FreeingLabels

(* Such a step keeps Pinned if the backend holds what it held, and its     *)
(* lookup and its handles stay good.                                       *)
LEMMA ReadsPins ==
    ASSUME Words, Pinned, NEW p \in Probers, Reads(p),
           \A j \in Slots : Holds(p, j)' <=> Holds(p, j),
           LookupOK(p)', \A h \in probes'[p] : HandleOK(p, h)'
    PROVE  Pinned'
<1>w. pc'[Worker] = pc[Worker] /\ at'[Worker] = at[Worker]
  BY Zenon DEF Words, Roles, Reads
<1>u. /\ g' = g /\ state' = state /\ refs' = refs /\ target' = target
      /\ generation' = generation /\ lifeGen' = lifeGen /\ life' = life
  BY Zenon DEF Reads
<1>o. \A q \in Procs : q # p => pc'[q] = pc[q] /\ at'[q] = at[q] /\ back'[q] = back[q]
  BY Zenon DEF Reads
<1>v. \A q \in Probers : q # p => want'[q] = want[q] /\ probes'[q] = probes[q]
  BY Zenon DEF Reads
<1>l. pc[p] \notin FreeingLabels /\ pc'[p] \notin FreeingLabels
  BY Zenon DEF Reads
<1>h. \A j \in Slots : \A q \in Procs : Holds(q, j)' <=> Holds(q, j)
  <2>1. ASSUME NEW j \in Slots, NEW q \in Procs, q # p PROVE Holds(q, j)' <=> Holds(q, j)
    BY Zenon, <1>o, <1>v, <2>1 DEF Holds, CountedIn, HasHandle
  <2> QED  BY Zenon, <2>1
<1>c. \A j \in Slots : (Claimed(j)' <=> Claimed(j)) /\ (Owned(j)' <=> Owned(j))
  BY Zenon, <1>w DEF Claimed, Owned
<1>e. \A j \in Slots : \A q \in Procs : FreeingAt(q, j)' <=> FreeingAt(q, j)
  BY Zenon, <1>o, <1>l DEF FreeingAt
<1>1. RefsCount'
  <2>1. \A j \in Slots : Holders(j)' = Holders(j)  BY Zenon, <1>h DEF Holders
  <2> QED  BY Zenon, <1>c, <1>u, <2>1 DEF Pinned, RefsCount
<1>2. NobodyHolds'
  BY Zenon, <1>h, <1>c, <1>e, <1>u DEF Pinned, NobodyHolds
<1>3. StatesOK'
  <2> SUFFICES ASSUME NEW j \in Slots, state[j] = "RETIRING"
               PROVE  /\ \E q \in Procs : Holds(q, j)' \/ FreeingAt(q, j)'
                      /\ generation[j] = lifeGen[j]
                            \/ \E q \in Procs : at'[q] = j /\ pc'[q] = "free"
    BY <1>c, <1>u DEF Pinned, StatesOK, Clean, Buildable
  <2>1. \E q \in Procs : Holds(q, j)' \/ FreeingAt(q, j)'
    BY Zenon, <1>h, <1>e DEF Pinned, StatesOK
  <2>2. \A q \in Procs : at[q] = j /\ pc[q] = "free" => at'[q] = j /\ pc'[q] = "free"
    BY Zenon, <1>o, <1>l DEF FreeingLabels
  <2> QED  BY Zenon, <2>1, <2>2 DEF Pinned, StatesOK
<1>4. OwnerOK'
  BY Zenon, <1>w, <1>u DEF Pinned, OwnerOK, Clean, Buildable
<1>5. FreesOK'
  <2>1. OneFrees'
    BY Zenon, <1>o, <1>l DEF Pinned, FreesOK, OneFrees
  <2>2. ASSUME NEW q \in Procs PROVE FreeOK(q)'
    <3>1. CASE q = p  BY Zenon, <1>l, <3>1 DEF FreeOK
    <3>2. CASE q # p  BY Zenon, <1>u, <1>o, <3>2 DEF Pinned, FreesOK, FreeOK, Buildable
    <3> QED  BY Zenon, <3>1, <3>2
  <2> QED  BY Zenon, <2>1, <2>2 DEF FreesOK
<1>6. LookupsOK'
  <2>1. ASSUME NEW q \in Probers, q # p PROVE LookupOK(q)'
    <3>1. LookupOK(q) /\ q \in Procs  BY Zenon DEF Words, Roles, Pinned, LookupsOK
    <3> QED  BY Zenon, <1>u, <1>o, <1>v, <2>1, <3>1 DEF LookupOK
  <2> QED  BY Zenon, <2>1 DEF LookupsOK
<1>7. HandlesOK'
  <2>1. ASSUME NEW q \in Probers, q # p, NEW h \in probes'[q] PROVE HandleOK(q, h)'
    <3>1. h \in probes[q] /\ HandleOK(q, h)  BY Zenon, <1>v, <2>1 DEF Pinned, HandlesOK
    <3> QED  BY Zenon, <1>u, <1>w, <1>v, <2>1, <3>1 DEF HandleOK
  <2> QED  BY Zenon, <2>1 DEF HandlesOK
<1> QED  BY Zenon, <1>1, <1>2, <1>3, <1>4, <1>5, <1>6, <1>7 DEF Pinned

(* A handle that stays, for the same target, stays good.                   *)
LEMMA ReadsHandles ==
    ASSUME Words, Pinned, NEW p \in Probers, Reads(p),
           probes'[p] \subseteq probes[p], probes'[p] = {} \/ want'[p] = want[p]
    PROVE  \A h \in probes'[p] : HandleOK(p, h)'
<1>w. pc'[Worker] = pc[Worker] /\ at'[Worker] = at[Worker]
  BY Zenon DEF Words, Roles, Reads
<1>1. ASSUME NEW h \in probes'[p] PROVE HandleOK(p, h)'
  <2>1. h \in probes[p] /\ HandleOK(p, h) /\ want'[p] = want[p]
    BY Zenon DEF Pinned, HandlesOK
  <2> QED  BY Zenon, <1>w, <2>1 DEF Reads, HandleOK
<1> QED  BY Zenon, <1>1

(* The steps of a lookup and of a scan that only look at the slots: the    *)
(* first one, the three checks, the walk, the probes and the end.          *)
LEMMA LooksPins ==
    ASSUME Words, Pinned, Sound, NEW p \in Probers,
           \/ OpenScan(p) \/ LookupState(p) \/ LookupRecheck(p) \/ LookupMatch(p)
           \/ LookupContinue(p) \/ Probe(p) \/ ReadBits(p) \/ CloseScan(p)
    PROVE  Pinned'
<1>p. LookupOK(p) /\ p \in Procs /\ p # Worker  BY Zenon DEF Words, Roles, Pinned, LookupsOK
<1>s. \A h \in probes[p] : h.slot \in Slots  BY Zenon DEF Words, ProbesType
<1>i. at[p] \in Int /\ \A h \in probes[p] : h.slot \in Int  BY Zenon, <1>p, <1>s DEF Words,
   SlotNumbers, AtType
<1> SUFFICES /\ Reads(p) /\ probes'[p] = probes[p]
             /\ probes[p] = {} \/ want'[p] = want[p]
             /\ \A j \in Slots : CountedIn(p, j)' <=> CountedIn(p, j)
             /\ LookupOK(p)'
  <2>1. \A j \in Slots : Holds(p, j)' <=> Holds(p, j)  BY Zenon DEF Holds, HasHandle
  <2> QED  BY Zenon, <2>1, ReadsHandles, ReadsPins
<1>1. CASE OpenScan(p)
  <2>1. Reads(p) /\ probes'[p] = probes[p]
    BY Zenon, <1>p, <1>1 DEF Words, Roles, PcType, AtType, WantType, OpenScan, Goto, slots,
       worker, history, FreeingLabels, Reads
  <2>2. pc[p] = "idle" /\ pc'[p] = "lookup"  BY Zenon, <1>p, <1>1 DEF Words, PcType,
     OpenScan, Goto
  <2>3. probes[p] = {}  BY Zenon, <2>2 DEF Sound, ScanOK
  <2> QED  BY Zenon, <1>p, <2>1, <2>2, <2>3 DEF CountedIn, LookupOK
<1>2. CASE LookupState(p)
  <2>1. probes'[p] = probes[p] /\ want'[p] = want[p] /\ state' = state
    BY Zenon, <1>2 DEF LookupState, Goto, AdvanceLookup, slots, scan
  <2>2. pc[p] = "lookup" /\ \A h \in probes[p] : h.slot < at[p]
    BY Zenon, <1>p, <1>2 DEF LookupState, LookupOK, Walking
  <2>3. CASE state[at[p]] = "ALLOCATED"
    <3>1. Reads(p)
      BY Zenon, <1>p, <1>2, <2>3 DEF Words, Roles, PcType, LookupState, Goto,
         AdvanceLookup, slots, worker, scan, history, FreeingLabels, Reads
    <3>2. pc'[p] = "addRef" /\ at'[p] = at[p]
      BY Zenon, <1>p, <1>2, <2>3 DEF Words, PcType, LookupState, Goto
    <3> QED  BY Zenon, <1>p, <2>1, <2>2, <2>3, <3>1, <3>2 DEF CountedIn, LookupOK,
       ReleaseLabels, FreeingLabels
  <2>4. CASE state[at[p]] # "ALLOCATED"
    <3>1. AdvanceLookup(p)  BY Zenon, <1>2, <2>4 DEF LookupState
    <3>2. /\ pc'[p] \in {"lookup", "scan"}
          /\ pc'[p] = "lookup" => \A h \in probes'[p] : h.slot < at'[p]
          /\ \A q \in Procs \ {p} : pc'[q] = pc[q] /\ at'[q] = at[q]
      <4>1. \A h \in probes'[p] : h.slot \in Slots /\ h.slot <= at[p]
        BY <1>i, <1>s, <2>1, <2>2
      <4> QED  BY Zenon, <3>1, <4>1, AdvanceMoves
    <3>3. Reads(p)
      BY Zenon, <1>2, <2>2, <3>2 DEF LookupState, slots, scan, FreeingLabels, Reads
    <3> QED
      BY Zenon, <1>p, <2>1, <2>2, <3>2, <3>3 DEF CountedIn, LookupOK, Walking,
         ReleaseLabels, FreeingLabels
  <2> QED  BY Zenon, <2>3, <2>4
<1>3. CASE LookupRecheck(p)
  <2>1. Reads(p) /\ probes'[p] = probes[p] /\ want'[p] = want[p] /\ at'[p] = at[p]
    BY Zenon, <1>p, <1>3 DEF Words, Roles, PcType, BackType, LookupRecheck, Goto,
       ReleaseThen, slots, worker, scan, history, FreeingLabels, Reads
  <2>2. pc[p] = "recheck" /\ pc'[p] \in {"match", "release"}
    BY Zenon, <1>p, <1>3 DEF Words, PcType, LookupRecheck, Goto, ReleaseThen
  <2>3. \A h \in probes[p] : h.slot # at[p] /\ h.slot < at[p]
    BY <1>p, <1>i, <2>2 DEF LookupOK, Walking
  <2> QED  BY Zenon, <1>p, <2>1, <2>2, <2>3 DEF CountedIn, LookupOK
<1>4. CASE LookupMatch(p)
  <2>1. /\ Reads(p) /\ probes'[p] = probes[p] /\ want'[p] = want[p] /\ at'[p] = at[p]
        /\ target' = target
    BY Zenon, <1>p, <1>4 DEF Words, Roles, PcType, BackType, LookupMatch, Goto,
       ReleaseThen, slots, worker, scan, history, FreeingLabels, Reads
  <2>2. /\ pc[p] = "match"
        /\ pc'[p] = "release" \/ (pc'[p] = "attach" /\ target[at[p]] = want[p])
    BY Zenon, <1>p, <1>4 DEF Words, PcType, LookupMatch, Goto, ReleaseThen
  <2>3. \A h \in probes[p] : h.slot # at[p] /\ h.slot < at[p]
    BY <1>p, <1>i, <2>2 DEF LookupOK, Walking
  <2> QED  BY Zenon, <1>p, <2>1, <2>2, <2>3 DEF CountedIn, LookupOK
<1>5. CASE LookupContinue(p)
  <2>1. probes'[p] = probes[p] /\ want'[p] = want[p] /\ AdvanceLookup(p)
    BY Zenon, <1>5 DEF LookupContinue, scan
  <2>2. pc[p] = "nextSlot" /\ \A h \in probes[p] : h.slot < at[p]
    BY Zenon, <1>p, <1>5 DEF LookupContinue, LookupOK, Walking
  <2>3. /\ pc'[p] \in {"lookup", "scan"}
        /\ pc'[p] = "lookup" => \A h \in probes'[p] : h.slot < at'[p]
        /\ \A q \in Procs \ {p} : pc'[q] = pc[q] /\ at'[q] = at[q]
    <3>1. \A h \in probes'[p] : h.slot \in Slots /\ h.slot <= at[p]
      BY <1>i, <1>s, <2>1, <2>2
    <3> QED  BY Zenon, <2>1, <3>1, AdvanceMoves
  <2>4. Reads(p)
    BY Zenon, <1>5, <2>2, <2>3 DEF LookupContinue, slots, scan, FreeingLabels, Reads
  <2> QED
    BY Zenon, <1>p, <2>1, <2>2, <2>3, <2>4 DEF CountedIn, LookupOK, Walking, ReleaseLabels,
       FreeingLabels
<1>6. CASE Probe(p)
  <2>1. Reads(p) /\ probes'[p] = probes[p] /\ want'[p] = want[p]
    BY Zenon, <1>p, <1>6 DEF Words, Roles, PcType, AtType, Probe, Goto, InBuild, slots,
       worker, history, FreeingLabels, Reads
  <2>2. pc[p] = "scan" /\ pc'[p] = "bits"
    BY Zenon, <1>p, <1>6 DEF Words, PcType, Probe, Goto, InBuild
  <2> QED  BY Zenon, <1>p, <2>1, <2>2 DEF CountedIn, LookupOK, Walking, ReleaseLabels,
     FreeingLabels
<1>7. CASE ReadBits(p)
  <2>1. Reads(p) /\ probes'[p] = probes[p] /\ want'[p] = want[p]
    BY Zenon, <1>p, <1>7 DEF Words, Roles, PcType, AtType, ReadBits, Goto, slots, worker,
       FreeingLabels, Reads
  <2>2. pc[p] = "bits" /\ pc'[p] = "scan"
    BY Zenon, <1>p, <1>7 DEF Words, PcType, ReadBits, Goto
  <2> QED  BY Zenon, <1>p, <2>1, <2>2 DEF CountedIn, LookupOK, Walking, ReleaseLabels,
     FreeingLabels
<1>8. CASE CloseScan(p)
  <2>1. Reads(p) /\ probes'[p] = probes[p] /\ probes[p] = {}
    BY Zenon, <1>p, <1>8 DEF Words, Roles, PcType, AtType, WantType, CloseScan, Goto,
       slots, worker, history, FreeingLabels, Reads
  <2>2. pc[p] = "scan" /\ pc'[p] = "idle"
    BY Zenon, <1>p, <1>8 DEF Words, PcType, CloseScan, Goto
  <2> QED  BY Zenon, <1>p, <2>1, <2>2 DEF CountedIn, LookupOK, Walking, ReleaseLabels,
     FreeingLabels
<1> QED  BY Zenon, <1>1, <1>2, <1>3, <1>4, <1>5, <1>6, <1>7, <1>8

-----------------------------------------------------------------------------
(* A lookup that adds its reference while the slot still has its owner,    *)
(* after the claim has stored 1, is counted.                               *)
LEMMA LookupAddRefPins ==
    ASSUME Words, Counting, Pinned, ~ raced', NEW p \in Probers, LookupAddRef(p)
    PROVE  Pinned'
<1>p. LookupOK(p) /\ p \in Procs /\ p # Worker  BY Zenon DEF Words, Roles, Pinned, LookupsOK
<1>i. PICK i \in Slots : i = at[p]  BY Zenon, <1>p DEF Words, AtType
<1>u. /\ state' = state /\ target' = target /\ generation' = generation
      /\ lifeGen' = lifeGen /\ life' = life /\ back' = back /\ at' = at /\ g' = g
      /\ want' = want /\ probes' = probes
  BY Zenon DEF LookupAddRef, scan
<1>q. pc[p] = "addRef" /\ pc'[p] = "recheck"
  BY Zenon, <1>p DEF Words, PcType, LookupAddRef, Goto
<1>o. \A q \in Procs : q # p => pc'[q] = pc[q]
  BY Zenon DEF Words, PcType, LookupAddRef, Goto
<1>w. pc'[Worker] = pc[Worker]
  BY Zenon, <1>p, <1>o DEF Words, Roles
<1>h. \A j \in Slots : \A q \in Procs : Holds(q, j)' <=> Holds(q, j) \/ (q = p /\ j = i)
  <2> SUFFICES ASSUME NEW j \in Slots, NEW q \in Procs
               PROVE  Holds(q, j)' <=> Holds(q, j) \/ (q = p /\ j = i)
    OBVIOUS
  <2>1. HasHandle(q, j)' <=> HasHandle(q, j)  BY Zenon, <1>u DEF HasHandle
  <2>2. CASE q = p
    BY Zenon, <1>p, <1>i, <1>u, <1>q, <2>1, <2>2 DEF Holds, CountedIn
  <2>3. CASE q # p
    BY Zenon, <1>u, <1>o, <2>1, <2>3 DEF Holds, CountedIn
  <2> QED  BY Zenon, <2>2, <2>3
<1>b. \A h \in probes[p] : h.slot < at[p] /\ h.slot # at[p]
  <2>1. at[p] \in Int /\ \A h \in probes[p] : h.slot \in Int
    BY Zenon, <1>p DEF Words, SlotNumbers, AtType, ProbesType
  <2> QED  BY <1>p, <1>q, <2>1 DEF LookupOK, Walking
<1>n. ~ Holds(p, i) /\ state[i] = "ALLOCATED"
  BY Zenon, <1>p, <1>i, <1>q, <1>b DEF Holds, CountedIn, HasHandle, LookupOK
<1>c. ~ Claimed(i) /\ \A j \in Slots : (Claimed(j)' <=> Claimed(j)) /\ (Owned(j)' <=> Owned(j))
  BY Zenon, <1>i, <1>u, <1>w DEF LookupAddRef, Claimed, Owned
<1>e. \A j \in Slots : \A q \in Procs : FreeingAt(q, j)' <=> FreeingAt(q, j)
  BY Zenon, <1>u, <1>o, <1>q DEF FreeingAt, FreeingLabels
<1>f. \A q \in Procs : ~ FreeingAt(q, i)
  BY Zenon, <1>n DEF Pinned, FreesOK, FreeOK, FreeingAt
<1>1. RefsCount'
  <2>1. Holders(i) \in SUBSET Procs /\ p \notin Holders(i) /\ refs[i] = Cardinality(Holders(i))
    BY Zenon, <1>n, <1>c DEF Pinned, RefsCount, Holders
  <2>2. Holders(i)' = Holders(i) \cup {p}
    BY <1>p, <1>h DEF Holders
  <2>3. Cardinality(Holders(i)') = (Cardinality(Holders(i)) + 1) % RefMod
    BY <1>p, <2>1, <2>2 DEF Counting
  <2>4. /\ refs'[i] = Cardinality(Holders(i)')
        /\ \A j \in Slots : j # i => refs'[j] = refs[j]
    BY <1>i, <2>1, <2>3 DEF Words, RefsType, LookupAddRef
  <2>5. ASSUME NEW j \in Slots, j # i PROVE Holders(j)' = Holders(j)
    BY Zenon, <1>h, <2>5 DEF Holders
  <2> QED  BY Zenon, <1>c, <2>4, <2>5 DEF Pinned, RefsCount
<1>2. NobodyHolds'
  BY Zenon, <1>h, <1>c, <1>e, <1>f, <1>n, <1>u DEF Pinned, NobodyHolds
<1>3. StatesOK'
  <2> SUFFICES ASSUME NEW j \in Slots, state[j] = "RETIRING"
               PROVE  /\ \E q \in Procs : Holds(q, j)' \/ FreeingAt(q, j)'
                      /\ generation[j] = lifeGen[j]
                            \/ \E q \in Procs : at[q] = j /\ pc'[q] = "free"
    BY <1>c, <1>u DEF Pinned, StatesOK, Clean, Buildable
  <2>1. \E q \in Procs : Holds(q, j)' \/ FreeingAt(q, j)'
    BY Zenon, <1>h, <1>e DEF Pinned, StatesOK
  <2>2. \A q \in Procs : pc[q] = "free" => pc'[q] = "free"
    BY Zenon, <1>o, <1>q
  <2> QED  BY Zenon, <2>1, <2>2 DEF Pinned, StatesOK
<1>4. OwnerOK'
  BY Zenon, <1>w, <1>u DEF Pinned, OwnerOK, Clean, Buildable
<1>5. FreesOK'
  <2>1. OneFrees'
    BY Zenon, <1>u, <1>o, <1>q DEF Pinned, FreesOK, OneFrees, FreeingLabels
  <2>2. ASSUME NEW q \in Procs PROVE FreeOK(q)'
    <3>1. CASE q = p  BY Zenon, <1>q, <3>1 DEF FreeOK, FreeingLabels
    <3>2. CASE q # p  BY Zenon, <1>u, <1>o, <3>2 DEF Pinned, FreesOK, FreeOK, Buildable
    <3> QED  BY Zenon, <3>1, <3>2
  <2> QED  BY Zenon, <2>1, <2>2 DEF FreesOK
<1>6. LookupsOK'
  <2>1. LookupOK(p)'  BY Zenon, <1>u, <1>q, <1>b DEF LookupOK
  <2>2. ASSUME NEW q \in Probers, q # p PROVE LookupOK(q)'
    <3>1. LookupOK(q) /\ q \in Procs  BY Zenon DEF Words, Roles, Pinned, LookupsOK
    <3> QED  BY Zenon, <1>u, <1>o, <2>2, <3>1 DEF LookupOK
  <2> QED  BY Zenon, <2>1, <2>2 DEF LookupsOK
<1>7. HandlesOK'
  BY Zenon, <1>u, <1>w DEF Pinned, HandlesOK, HandleOK
<1> QED  BY Zenon, <1>1, <1>2, <1>3, <1>4, <1>5, <1>6, <1>7 DEF Pinned

(* The reference of a lookup becomes that of its handle, which is created  *)
(* with the generation of the slot, or with 0 when the slot has none yet.  *)
LEMMA LookupAttachPins ==
    ASSUME Words, Pinned, NEW p \in Probers, LookupAttach(p)
    PROVE  Pinned'
<1>p. LookupOK(p) /\ p \in Procs /\ p # Worker /\ \A h \in probes[p] : HandleOK(p, h)
  BY Zenon DEF Words, Roles, Pinned, LookupsOK, HandlesOK
<1>i. PICK i \in Slots : i = at[p]  BY Zenon, <1>p DEF Words, AtType
<1> DEFINE new == [slot |-> i, gen |-> generation[i]]
<1>q. pc[p] = "attach" /\ want'[p] = want[p] /\ AdvanceLookup(p)
  BY Zenon DEF LookupAttach
<1>a. probes'[p] = probes[p] \cup {new} /\ \A q \in Probers : q # p => probes'[q] = probes[q]
  BY <1>i DEF Words, ProbesType, LookupAttach
<1>r. new.slot = i /\ new.gen = generation[i]  OBVIOUS
<1> HIDE DEF new
<1>n. i \in Int /\ \A h \in probes[p] : h.slot \in Int
  BY Zenon DEF Words, SlotNumbers, ProbesType
<1>b. \A h \in probes[p] : h.slot < i /\ h.slot # i
  BY <1>p, <1>i, <1>q, <1>n DEF LookupOK, Walking
<1>m. /\ pc'[p] \in {"lookup", "scan"}
      /\ pc'[p] = "lookup" => \A h \in probes'[p] : h.slot < at'[p]
      /\ \A q \in Procs \ {p} : pc'[q] = pc[q] /\ at'[q] = at[q]
  <2>1. \A h \in probes[p] : h.slot \in Slots /\ h.slot <= i
    <3>1. \A h \in probes[p] : h.slot \in Slots  BY Zenon DEF Words, ProbesType
    <3> QED  BY <1>b, <1>n, <3>1
  <2>2. new.slot \in Slots /\ new.slot <= i  BY <1>r, <1>n
  <2> QED  BY Zenon, <1>i, <1>q, <1>a, <2>1, <2>2, AdvanceMoves
<1>1. Reads(p)
  BY Zenon, <1>q, <1>a, <1>m DEF LookupAttach, slots, FreeingLabels, Reads
<1>2. \A j \in Slots : Holds(p, j)' <=> Holds(p, j)
  <2> SUFFICES ASSUME NEW j \in Slots PROVE Holds(p, j)' <=> Holds(p, j)
    OBVIOUS
  <2>1. ~ CountedIn(p, j)' /\ (CountedIn(p, j) <=> j = i)
    BY Zenon, <1>p, <1>i, <1>q, <1>m DEF CountedIn
  <2>2. HasHandle(p, j)' <=> HasHandle(p, j) \/ j = i
    BY Zenon, <1>a, <1>r DEF HasHandle
  <2> QED  BY Zenon, <2>1, <2>2 DEF Holds
<1>3. LookupOK(p)'
  BY Zenon, <1>m DEF LookupOK, Walking, ReleaseLabels, FreeingLabels
<1>4. ASSUME NEW h \in probes'[p] PROVE HandleOK(p, h)'
  <2>w. /\ pc'[Worker] = pc[Worker] /\ at'[Worker] = at[Worker]
        /\ target' = target /\ lifeGen' = lifeGen
    BY Zenon, <1>p, <1>1 DEF Words, Roles, Reads
  <2>1. \A h2 \in probes'[p] : h2.slot = h.slot => h2 = h
    <3>1. \A h1, h2 \in probes[p] : h2.slot = h1.slot => h2 = h1  BY Zenon,
       <1>p DEF HandleOK
    <3> QED  BY Zenon, <1>a, <1>b, <1>r, <3>1
  <2>2. CASE h \in probes[p]
    BY Zenon, <1>p, <1>q, <2>w, <2>1, <2>2 DEF HandleOK
  <2>3. CASE h = new
    <3>1. target[i] = want[p]  BY Zenon, <1>p, <1>i, <1>q DEF LookupOK
    <3>2. /\ generation[i] \in {0, lifeGen[i]}
          /\ at[Worker] = i /\ pc[Worker] \in {"target", "acquire"} => generation[i] = 0
      <4>1. Holds(p, i)
        BY Zenon, <1>p, <1>i, <1>q DEF Holds, CountedIn
      <4>2. state[i] # "FREE" /\ ~ Claimed(i) /\ \A q \in Procs : ~ FreeingAt(q, i)
        BY Zenon, <1>p, <4>1 DEF Pinned, NobodyHolds
      <4>3. CASE state[i] = "ALLOCATED"
        <5>1. Owned(i)  BY Zenon, <4>3 DEF Pinned, StatesOK
        <5> QED  BY Zenon, <4>2, <5>1 DEF Pinned, OwnerOK, Owned, Claimed
      <4>4. CASE state[i] = "RETIRING"
        <5>1. ~ Owned(i)  BY Zenon, <4>4 DEF Pinned, StatesOK
        <5>2. generation[i] = lifeGen[i]
          BY Zenon, <4>2, <4>4 DEF Pinned, StatesOK, FreeingAt, FreeingLabels
        <5> QED  BY Zenon, <5>1, <5>2 DEF Owned
      <4>5. state[i] \in SlotStates  BY Zenon DEF Words, StateType
      <4> QED  BY Zenon, <4>2, <4>3, <4>4, <4>5 DEF SlotStates
    <3> QED  BY Zenon, <1>q, <1>r, <2>w, <2>1, <2>3, <3>1, <3>2 DEF HandleOK
  <2> QED  BY Zenon, <1>a, <2>2, <2>3
<1> QED  BY Zenon, <1>1, <1>2, <1>3, <1>4, ReadsPins

(* The reference of a handle becomes that of the release_ref() it calls.   *)
LEMMA DropProbePins ==
    ASSUME Words, Pinned, NEW p \in Probers, DropProbe(p)
    PROVE  Pinned'
<1>p. p \in Procs /\ p # Worker /\ \A h \in probes[p] : HandleOK(p, h)
  BY Zenon DEF Words, Roles, Pinned, HandlesOK
<1>d. PICK d \in probes[p] : probes'[p] = probes[p] \ {d} /\ at'[p] = d.slot
  BY <1>p DEF Words, AtType, ProbesType, DropProbe
<1>q. pc[p] = "scan" /\ pc'[p] = "release" /\ back'[p] = "scan" /\ want'[p] = want[p]
  BY Zenon, <1>p DEF Words, PcType, BackType, DropProbe, ReleaseThen, Goto
<1>1. Reads(p)
  <2>1. /\ \A q \in Procs \ {p} : pc'[q] = pc[q] /\ back'[q] = back[q]
        /\ \A q \in Procs \ {p} : at'[q] = at[q]
        /\ \A q \in Probers \ {p} : probes'[q] = probes[q]
    BY Zenon, <1>p DEF Words, PcType, AtType, BackType, ProbesType, DropProbe, ReleaseThen,
       Goto
  <2> QED  BY Zenon, <1>q, <2>1 DEF DropProbe, slots, FreeingLabels, Reads
<1>s. \A h \in probes[p] : h.slot = d.slot <=> h = d
  BY Zenon, <1>p DEF HandleOK
<1>2. \A j \in Slots : Holds(p, j)' <=> Holds(p, j)
  BY Zenon, <1>p, <1>d, <1>q, <1>s DEF Holds, CountedIn, HasHandle
<1>3. LookupOK(p)'
  BY Zenon, <1>d, <1>q, <1>s DEF LookupOK, Walking
<1>4. \A h \in probes'[p] : HandleOK(p, h)'
  BY Zenon, <1>d, <1>q, <1>1, ReadsHandles
<1> QED  BY Zenon, <1>1, <1>2, <1>3, <1>4, ReadsPins

(* Whatever a backend does, a slot with a reference stays, as long as no   *)
(* lookup has raced with a claim or a retirement.                          *)
LEMMA ScanPins ==
    ASSUME Words, Counting, Sound, Pinned, ~ raced', NEW p \in Probers, Lookup(p) \/ Scan(p)
    PROVE  Pinned'
BY Zenon, LooksPins, LookupAddRefPins, LookupAttachPins, DropProbePins DEF Lookup, Scan

-----------------------------------------------------------------------------
(* Moving on keeps the words in their types.                               *)
LEMMA AdvanceTypes ==
    ASSUME TypeOK, Ranges, NEW p \in Procs, AdvanceLookup(p)
    PROVE  at' \in [Procs -> Slots] /\ pc' \in [Procs -> PcLabels]
<1> QED  BY Zenon DEF TypeOK, Ranges, AdvanceLookup, Goto, PcLabels

(* So does every step of a lookup or a scan.                               *)
LEMMA ScanTypes ==
    ASSUME TypeOK, Words, Ranges, Sound, NEW p \in Probers, Lookup(p) \/ Scan(p)
    PROVE  TypeOK'
<1>p. p \in Procs  BY Zenon DEF Words, Roles
<1>1. CASE OpenScan(p)
  <2>1. /\ at' \in [Procs -> Slots] /\ pc' \in [Procs -> PcLabels]
        /\ want' \in [Probers -> 0..MaxBuilds]
    BY Zenon, <1>p, <1>1 DEF TypeOK, OpenScan, Goto, PcLabels, Planned, Ranges
  <2>2. rows' \in [Probers -> 0..MaxRows] /\ scans' \in [Probers -> 0..MaxScans]
    BY Zenon, <1>1 DEF TypeOK, OpenScan, Ranges
  <2> QED  BY Zenon, <1>1, <2>1, <2>2 DEF TypeOK, OpenScan, slots, worker, history
<1>2. CASE LookupState(p)
  <2>1. at' \in [Procs -> Slots] /\ pc' \in [Procs -> PcLabels]
    BY Zenon, <1>p, <1>2, AdvanceTypes DEF TypeOK, LookupState, Goto, PcLabels
  <2> QED  BY Zenon, <1>2, <2>1 DEF TypeOK, LookupState, slots, worker, scan, history
<1>3. CASE LookupAddRef(p)
  BY Zenon, <1>p, <1>3 DEF TypeOK, Ranges, LookupAddRef, Goto, worker, scan, PcLabels
<1>4. CASE LookupRecheck(p)
  <2>1. back' \in [Procs -> {"idle", "nextSlot", "scan"}] /\ pc' \in [Procs -> PcLabels]
    BY Zenon, <1>p, <1>4 DEF TypeOK, LookupRecheck, Goto, ReleaseThen, PcLabels
  <2> QED  BY Zenon, <1>4, <2>1 DEF TypeOK, LookupRecheck, slots, worker, scan, history
<1>5. CASE LookupMatch(p)
  <2>1. back' \in [Procs -> {"idle", "nextSlot", "scan"}] /\ pc' \in [Procs -> PcLabels]
    BY Zenon, <1>p, <1>5 DEF TypeOK, LookupMatch, Goto, ReleaseThen, PcLabels
  <2> QED  BY Zenon, <1>5, <2>1 DEF TypeOK, LookupMatch, slots, worker, scan, history
<1>6. CASE LookupAttach(p)
  <2>1. at' \in [Procs -> Slots] /\ pc' \in [Procs -> PcLabels]
    BY Zenon, <1>p, <1>6, AdvanceTypes DEF LookupAttach
  <2>2. probes' \in [Probers -> SUBSET [slot : Slots, gen : 0..MaxBuilds]]
    <3>1. at[p] \in Slots /\ generation[at[p]] \in 0..MaxBuilds  BY Zenon, <1>p DEF TypeOK
    <3>2. [slot |-> at[p], gen |-> generation[at[p]]] \in [slot : Slots, gen : 0..MaxBuilds]
      BY <3>1
    <3> QED  BY Zenon, <1>6, <3>2 DEF TypeOK, LookupAttach
  <2> QED  BY Zenon, <1>6, <2>1, <2>2 DEF TypeOK, LookupAttach, slots, worker, history
<1>7. CASE LookupContinue(p)
  <2>1. at' \in [Procs -> Slots] /\ pc' \in [Procs -> PcLabels]
    BY Zenon, <1>p, <1>7, AdvanceTypes DEF LookupContinue
  <2> QED  BY Zenon, <1>7, <2>1 DEF TypeOK, LookupContinue, slots, worker, scan, history
<1>8. CASE Probe(p)
  <2>1. PICK h \in probes[p], k \in Keys :
            at' = [at EXCEPT ![p] = h.slot] /\ key' = [key EXCEPT ![p] = k]
    BY Zenon, <1>8 DEF Probe
  <2>2. h.slot \in Slots  BY Zenon DEF Words, ProbesType
  <2>3. /\ at' \in [Procs -> Slots] /\ pc' \in [Procs -> PcLabels]
        /\ key' \in [Probers -> Keys \cup {NoKey}]
    BY Zenon, <1>p, <1>8, <2>1, <2>2 DEF TypeOK, Probe, Goto, PcLabels
  <2>4. rows' \in [Probers -> 0..MaxRows]  BY Zenon, <1>8 DEF TypeOK, Probe, Ranges
  <2> QED  BY Zenon, <1>8, <2>3, <2>4 DEF TypeOK, Probe, slots, worker, history
<1>9. CASE ReadBits(p)
  <2>1. rejected' \subseteq (0..MaxBuilds) \X Keys
    <3>1. want[p] \in 0..MaxBuilds /\ key[p] \in Keys
      BY Zenon, <1>9 DEF TypeOK, ReadBits, Sound, ScanOK
    <3>2. <<want[p], key[p]>> \in (0..MaxBuilds) \X Keys  BY <3>1
    <3> QED  BY Zenon, <1>9, <3>2 DEF TypeOK, ReadBits
  <2>2. /\ at' \in [Procs -> Slots] /\ pc' \in [Procs -> PcLabels]
        /\ key' \in [Probers -> Keys \cup {NoKey}]
    BY Zenon, <1>p, <1>9 DEF TypeOK, ReadBits, Goto, PcLabels, Ranges
  <2> QED  BY Zenon, <1>9, <2>1, <2>2 DEF TypeOK, ReadBits, slots, worker
<1>10. CASE DropProbe(p)
  <2>1. PICK h \in probes[p] :
            probes' = [probes EXCEPT ![p] = @ \ {h}] /\ at' = [at EXCEPT ![p] = h.slot]
    BY Zenon, <1>10 DEF DropProbe
  <2>2. h.slot \in Slots  BY Zenon DEF Words, ProbesType
  <2>3. /\ at' \in [Procs -> Slots] /\ pc' \in [Procs -> PcLabels]
        /\ back' \in [Procs -> {"idle", "nextSlot", "scan"}]
    BY Zenon, <1>p, <1>10, <2>1, <2>2 DEF TypeOK, DropProbe, ReleaseThen, Goto, PcLabels
  <2>4. /\ rows' \in [Probers -> 0..MaxRows]
        /\ probes' \in [Probers -> SUBSET [slot : Slots, gen : 0..MaxBuilds]]
    BY Zenon, <1>10, <2>1 DEF TypeOK, DropProbe, Ranges
  <2> QED  BY Zenon, <1>10, <2>3, <2>4 DEF TypeOK, DropProbe, slots, worker, history
<1>11. CASE CloseScan(p)
  BY Zenon, <1>p, <1>11 DEF TypeOK, Ranges, CloseScan, Goto, slots, worker, history,
     PcLabels
<1> QED
  BY Zenon, <1>1, <1>2, <1>3, <1>4, <1>5, <1>6, <1>7, <1>8, <1>9, <1>10, <1>11 DEF Lookup,
     Scan
=============================================================================
