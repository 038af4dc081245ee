------------------------------ MODULE SlotLease ------------------------------
(***************************************************************************)
(* The leases of the control transport's slots (runtime/control_transport/ *)
(* src/region).  A backend takes a slot from the freelist, publishes a     *)
(* lease of it in the current worker generation and sends frames through   *)
(* its ring.  The worker side claims the leased slot, reads the frames and *)
(* detaches.  The slot returns to the freelist once nobody owns it.        *)
(*                                                                         *)
(* A slot's packed word slot_meta (lease state, lease epoch, owner bits)   *)
(* changes by compare-and-swap only.  Its slot_generation, backend_pid and *)
(* ring are separate cells.  An operation is therefore a sequence of       *)
(* steps, one per compare-and-swap and one per store that another process  *)
(* may see too late.  A retried compare-and-swap is the step at which it   *)
(* succeeds.  Coarser than the code: a snapshot of a slot (generation,     *)
(* word, pid) is read in one step, and so are stores in a row to a slot    *)
(* that is neither leased nor in the freelist.                             *)
(*                                                                         *)
(* Without reinit_in_place only the process that popped or finalized a     *)
(* slot moves it on, so the error branches for a slot that was moved under *)
(* it (in publish_free_slot, reserve_popped_slot_for_acquire and           *)
(* publish_backend_lease) are guards here.                                 *)
(*                                                                         *)
(* Left out: reinit_in_place, which the extension never calls, and with it *)
(* the freelist epoch, which only reinit_in_place advances; the frames in  *)
(* the worker-to-backend direction; failing liveness probes.               *)
(***************************************************************************)
EXTENDS Naturals, Sequences, FiniteSets

CONSTANTS
    Backends,       \* backend processes; each one is its own pid
    Claimers,       \* processes that open the worker side of a slot
    Worker,         \* the claimer that switches generations
    SlotCount,      \* slot_count of the region
    NoPid,          \* the value 0 of a backend_pid cell
    MaxLeases,      \* bound: lease epochs that are handed out
    MaxGenerations  \* bound: generations that are published

ASSUME WorkerAssumption == Worker \in Claimers
ASSUME ActorsAssumption == Backends \cap Claimers = {} /\ NoPid \notin Backends \cup Claimers
ASSUME BoundAssumption == SlotCount \in Nat \ {0} /\ MaxLeases \in Nat /\ MaxGenerations \in Nat

VARIABLES
    region,     \* region_meta: [gen, state]
    meta,       \* slot_meta of every slot: [state, epoch, owners]
    sgen,       \* slot_generation of every slot
    pid,        \* backend_pid of every slot
    ring,       \* backend_to_worker of every slot: the epochs its frames were sent under
    free,       \* the freelist, top first
    next_lease_epoch,
    alive,      \* the processes kill(pid, 0) finds
    handle,     \* BackendSlotLease or WorkerSlot of every process
    op,         \* where every process is in its operation, with its locals
    misreaped   \* history: a live backend lost its lease to a reaper

vars == <<region, meta, sgen, pid, ring, free, next_lease_epoch, alive, handle, op, misreaped>>
cells == <<sgen, pid, ring>>

\* Bound: the frames a ring holds.
RingFrames == 1

Slots == 0 .. SlotCount - 1
Procs == Backends \cup Claimers

\* Free slots are FREE_PENDING once finalized, then FREE_PUSH_CLAIMED,
\* FREE_PUSHED and FREE_PUBLISHED on their way back to the freelist, and
\* FREE_POPPED and ACQUIRE_RESERVED on their way to the next lease.
LeaseStates == {"FreePublished", "AcquireReserved", "Leased", "FreePending",
                "FreePushClaimed", "FreePushed", "FreePopped"}
Unleased(state) == [state |-> state, epoch |-> 0, owners |-> {}]
Leased(e, owners) == [state |-> "Leased", epoch |-> e, owners |-> owners]

\* A LeaseIncarnation with its slot; epoch 0 is no lease.
Incarnation(s, g, e) == [slot |-> s, gen |-> g, epoch |-> e]
NoLease == Incarnation(0, 0, 0)

\* The locals of an operation: the incarnation it works on, the owner bits it
\* clears, where it returns to, the slot cursor of a pass over all slots, the
\* slot state it read, the generation it acquires in, the generation whose
\* slots it passes over, whether it already reaped, and the frame it received.
At(pc) == [pc |-> pc, inc |-> NoLease, bits |-> {}, ret |-> "idle", cur |-> 0,
           seen |-> "", gen |-> 0, pass |-> 0, reaped |-> FALSE, got |-> 0]

is_online_generation(g) == g # 0 /\ region = [gen |-> g, state |-> "Online"]

\* slot_generation, state and epoch of the slot are those of the incarnation.
matches_incarnation_any_epoch(inc) ==
    /\ sgen[inc.slot] = inc.gen
    /\ meta[inc.slot].state = "Leased"
matches_incarnation(inc) ==
    /\ sgen[inc.slot] = inc.gen
    /\ meta[inc.slot].state = "Leased"
    /\ meta[inc.slot].epoch = inc.epoch

\* probe_pid_alive: pid 0 is never alive.
probe_pid_alive(q) == q \in alive

Goto(p, pc) == op' = [op EXCEPT ![p].pc = pc]
Return(p) ==
    op' = [op EXCEPT ![p] =
              IF @.ret = "idle" THEN At("idle")
              ELSE [At(@.ret) EXCEPT
                      !.inc = IF op[p].ret \in {"reap_dead", "sweep_worker"} THEN op[p].inc ELSE NoLease,
                      !.cur = op[p].cur, !.gen = op[p].gen, !.pass = op[p].pass,
                      !.reaped = op[p].reaped]]
At_pc(p, pc) == p \in alive /\ op[p].pc = pc

-----------------------------------------------------------------------------
(***************************************************************************)
(* Letting go of a lease: clear owner bits, and if that leaves no owner,   *)
(* finalize the slot and publish it as free.  Shared by every operation    *)
(* that drops an owner; op[p].ret says where it continues.                 *)
(***************************************************************************)

\* Clear the bits of incarnation inc and come back to ret.
ClearThen(p, inc, bits, ret) ==
    op' = [op EXCEPT ![p].pc = "clear", ![p].inc = inc, ![p].bits = bits, ![p].ret = ret]

\* The owners of a lease that remain once a process cleared its bits.
clear_owner_bits(p) ==
    /\ matches_incarnation(op[p].inc)
    /\ meta[op[p].inc.slot].owners \cap op[p].bits # {}
    /\ meta' = [meta EXCEPT ![op[p].inc.slot].owners = @ \ op[p].bits]

\* The caller goes on to store the pid when it cleared the backend's bit, and
\* to finalize when no owner was left at its own compare-and-swap.
ClearOwnerBits(p) ==
    /\ At_pc(p, "clear")
    /\ LET s == op[p].inc.slot
           left == meta[s].owners \ op[p].bits IN
       \/ /\ clear_owner_bits(p)
          /\ CASE "B" \in op[p].bits ->
                     op' = [op EXCEPT ![p].pc = "pid", ![p].bits = {},
                                      ![p].seen = IF left = {} THEN "ownerless" ELSE "owned"]
               [] "B" \notin op[p].bits /\ left = {} ->
                     op' = [op EXCEPT ![p].pc = "finalize", ![p].bits = {}]
               [] OTHER -> Return(p)
          /\ misreaped' = (misreaped \/ \E b \in (Backends \cap alive) \ {p} :
                                            "B" \in op[p].bits /\ handle[b] = op[p].inc)
       \/ /\ ~(matches_incarnation(op[p].inc) /\ meta[s].owners \cap op[p].bits # {})
          /\ Return(p)
          /\ UNCHANGED <<meta, misreaped>>
    /\ UNCHANGED <<region, cells, free, next_lease_epoch, alive, handle>>

\* The store of backend_pid comes after the owner bit is gone, so after the
\* moment at which another owner may finalize the slot.
StorePidOnly(p) ==
    /\ At_pc(p, "pid")
    /\ pid' = [pid EXCEPT ![op[p].inc.slot] = NoPid]
    /\ Return(p)
    /\ UNCHANGED <<region, meta, sgen, ring, free, next_lease_epoch, alive, handle, misreaped>>
StorePid(p) ==
    /\ At_pc(p, "pid")
    /\ pid' = [pid EXCEPT ![op[p].inc.slot] = NoPid]
    /\ IF op[p].seen = "ownerless"
       THEN op' = [op EXCEPT ![p].pc = "finalize", ![p].seen = ""]
       ELSE Return(p)
    /\ UNCHANGED <<region, meta, sgen, ring, free, next_lease_epoch, alive, handle, misreaped>>

\* The exact compare-and-swap from the ownerless lease to FREE_PENDING.
try_finalize(p) ==
    /\ matches_incarnation(op[p].inc)
    /\ meta[op[p].inc.slot].owners = {}

FinalizeSlot(p) ==
    /\ At_pc(p, "finalize")
    /\ \/ /\ try_finalize(p)
          /\ meta' = [meta EXCEPT ![op[p].inc.slot] = Unleased("FreePending")]
          /\ Goto(p, "wipe")
       \/ /\ ~try_finalize(p)
          /\ Return(p)
          /\ UNCHANGED meta
    /\ UNCHANGED <<region, cells, free, next_lease_epoch, alive, handle, misreaped>>

\* clear_slot: the ring keeps no frame of the previous lease.
clear_ring_never(s) == ring' = ring
clear_ring(s) == ring' = [ring EXCEPT ![s] = <<>>]

WipeSlot(p) ==
    /\ At_pc(p, "wipe")
    /\ clear_ring(op[p].inc.slot)
    /\ pid' = [pid EXCEPT ![op[p].inc.slot] = NoPid]
    /\ sgen' = [sgen EXCEPT ![op[p].inc.slot] = 0]
    /\ Goto(p, "publish")
    /\ UNCHANGED <<region, meta, free, next_lease_epoch, alive, handle, misreaped>>

\* publish_free_slot: claim the push, push the slot on the freelist, and only
\* then mark it FREE_PUSHED, clear the pid and mark it FREE_PUBLISHED.
ClaimPush(p) ==
    /\ At_pc(p, "publish")
    /\ meta[op[p].inc.slot].state = "FreePending"
    /\ meta' = [meta EXCEPT ![op[p].inc.slot] = Unleased("FreePushClaimed")]
    /\ pid' = [pid EXCEPT ![op[p].inc.slot] = p]
    /\ Goto(p, "push")
    /\ UNCHANGED <<region, sgen, ring, free, next_lease_epoch, alive, handle, misreaped>>

PushFree(p) ==
    /\ At_pc(p, "push")
    /\ free' = <<op[p].inc.slot>> \o free
    /\ Goto(p, "pushed")
    /\ UNCHANGED <<region, meta, cells, next_lease_epoch, alive, handle, misreaped>>

MarkPushed(p) ==
    /\ At_pc(p, "pushed")
    /\ meta[op[p].inc.slot].state = "FreePushClaimed"
    /\ meta' = [meta EXCEPT ![op[p].inc.slot] = Unleased("FreePushed")]
    /\ Goto(p, "publish_pid")
    /\ UNCHANGED <<region, cells, free, next_lease_epoch, alive, handle, misreaped>>

PublishPid(p) ==
    /\ At_pc(p, "publish_pid")
    /\ pid' = [pid EXCEPT ![op[p].inc.slot] = NoPid]
    /\ Goto(p, "published")
    /\ UNCHANGED <<region, meta, sgen, ring, free, next_lease_epoch, alive, handle, misreaped>>

\* An acquirer may have popped the slot since it was FREE_PUSHED.
MarkPublished(p) ==
    /\ At_pc(p, "published")
    /\ meta' = IF meta[op[p].inc.slot].state = "FreePushed"
               THEN [meta EXCEPT ![op[p].inc.slot] = Unleased("FreePublished")]
               ELSE meta
    /\ Return(p)
    /\ UNCHANGED <<region, cells, free, next_lease_epoch, alive, handle, misreaped>>

LettingGo(p) ==
    \/ ClearOwnerBits(p) \/ StorePid(p) \/ FinalizeSlot(p) \/ WipeSlot(p)
    \/ ClaimPush(p) \/ PushFree(p) \/ MarkPushed(p) \/ PublishPid(p) \/ MarkPublished(p)

-----------------------------------------------------------------------------
(***************************************************************************)
(* BackendSlotLease::acquire                                               *)
(***************************************************************************)

\* The gate: acquire only in a generation that is online.
Acquire(b) ==
    /\ At_pc(b, "idle")
    /\ is_online_generation(region.gen)
    /\ next_lease_epoch <= MaxLeases
    /\ op' = [op EXCEPT ![b] = [At("pop") EXCEPT !.gen = region.gen]]
    /\ UNCHANGED <<region, meta, cells, free, next_lease_epoch, alive, handle, misreaped>>

\* Pop a slot.  On an empty freelist, reap dead backends once and try again,
\* then give up with AcquireError::Empty.
PopFree(b) ==
    /\ At_pc(b, "pop")
    /\ \/ /\ free # <<>>
          /\ free' = Tail(free)
          /\ op' = [op EXCEPT ![b].pc = "token", ![b].inc = Incarnation(Head(free), op[b].gen, 0)]
       \/ /\ free = <<>> /\ ~op[b].reaped
          /\ op' = [op EXCEPT ![b].pc = "reap", ![b].reaped = TRUE, ![b].pass = region.gen]
          /\ UNCHANGED free
       \/ /\ free = <<>> /\ op[b].reaped
          /\ op' = [op EXCEPT ![b] = At("idle")]
          /\ UNCHANGED free
    /\ UNCHANGED <<region, meta, cells, next_lease_epoch, alive, handle, misreaped>>

\* reap_current_generation_dead_backend_slots: one slot of the pass.
dead_backend_owner(s, inc) ==
    /\ matches_incarnation(inc)
    /\ "B" \in meta[s].owners
    /\ ~probe_pid_alive(pid[s])

ReapSlot(b) ==
    /\ At_pc(b, "reap")
    /\ LET s == op[b].cur
           inc == Incarnation(s, op[b].pass, meta[s].epoch) IN
       \/ /\ s \in Slots /\ dead_backend_owner(s, inc)
          /\ op' = [op EXCEPT ![b].pc = "clear", ![b].inc = inc, ![b].bits = {"B"},
                              ![b].ret = "reap", ![b].cur = s + 1]
       \/ /\ s \in Slots /\ ~dead_backend_owner(s, inc)
          /\ op' = [op EXCEPT ![b].cur = s + 1]
       \/ /\ s \notin Slots
          /\ op' = [op EXCEPT ![b].pc = "pop", ![b].cur = 0, ![b].pass = 0]
    /\ UNCHANGED <<region, meta, cells, free, next_lease_epoch, alive, handle, misreaped>>

\* claim_freelist_token_after_pop: a slot that is not yet FREE_PUSHED is not
\* taken, and the acquirer goes back to the freelist without it.
SeeToken(b) ==
    /\ At_pc(b, "token")
    /\ LET s == op[b].inc.slot IN
       \/ /\ meta[s].state \in {"FreePublished", "FreePushed"}
          /\ pid' = [pid EXCEPT ![s] = b]
          /\ op' = [op EXCEPT ![b].pc = "take", ![b].seen = meta[s].state]
       \/ /\ meta[s].state \notin {"FreePublished", "FreePushed"}
          /\ op' = [op EXCEPT ![b] = [At("pop") EXCEPT !.gen = op[b].gen, !.reaped = op[b].reaped]]
          /\ UNCHANGED pid
    /\ UNCHANGED <<region, meta, sgen, ring, free, next_lease_epoch, alive, handle, misreaped>>

TakeToken(b) ==
    /\ At_pc(b, "take")
    /\ LET s == op[b].inc.slot IN
       \/ /\ meta[s].state = op[b].seen
          /\ meta' = [meta EXCEPT ![s] = Unleased("FreePopped")]
          /\ op' = [op EXCEPT ![b].pc = "gate", ![b].seen = ""]
          /\ UNCHANGED pid
       \/ /\ meta[s].state # op[b].seen
          /\ pid' = [pid EXCEPT ![s] = NoPid]
          /\ op' = [op EXCEPT ![b].pc = "token", ![b].seen = ""]
          /\ UNCHANGED meta
    /\ UNCHANGED <<region, sgen, ring, free, next_lease_epoch, alive, handle, misreaped>>

\* The generation is checked once the slot is popped.  When it is gone,
\* abort_reserved_slot_acquire finds FREE_POPPED and returns at once.
GateAfterPop(b) ==
    /\ At_pc(b, "gate")
    /\ op' = [op EXCEPT ![b] = IF is_online_generation(@.gen) THEN [@ EXCEPT !.pc = "reserve"]
                                                             ELSE At("idle")]
    /\ UNCHANGED <<region, meta, cells, free, next_lease_epoch, alive, handle, misreaped>>

ReservePopped(b) ==
    /\ At_pc(b, "reserve")
    /\ meta[op[b].inc.slot].state = "FreePopped"
    /\ meta' = [meta EXCEPT ![op[b].inc.slot] = Unleased("AcquireReserved")]
    /\ Goto(b, "prepare")
    /\ UNCHANGED <<region, cells, free, next_lease_epoch, alive, handle, misreaped>>

\* publish_backend_lease: fill the slot's cells, then publish the lease.
PrepareLease(b) ==
    /\ At_pc(b, "prepare")
    /\ LET s == op[b].inc.slot IN
       /\ next_lease_epoch' = next_lease_epoch + 1
       /\ clear_ring(s)
       /\ sgen' = [sgen EXCEPT ![s] = op[b].gen]
       /\ pid' = [pid EXCEPT ![s] = b]
       /\ op' = [op EXCEPT ![b].pc = "lease", ![b].inc.epoch = next_lease_epoch]
    /\ UNCHANGED <<region, meta, free, alive, handle, misreaped>>

PublishLease(b) ==
    /\ At_pc(b, "lease")
    /\ meta[op[b].inc.slot].state = "AcquireReserved"
    /\ meta' = [meta EXCEPT ![op[b].inc.slot] = Leased(op[b].inc.epoch, {"B"})]
    /\ handle' = [handle EXCEPT ![b] = op[b].inc]
    /\ Goto(b, "recheck")
    /\ UNCHANGED <<region, cells, free, next_lease_epoch, alive, misreaped>>

\* release looks at the slot before it clears the backend's bit.
ReleaseHandle(b) ==
    /\ handle' = [handle EXCEPT ![b] = NoLease]
    /\ LET inc == handle[b] IN
       op' = [op EXCEPT ![b] =
                IF sgen[inc.slot] = inc.gen /\ "B" \in meta[inc.slot].owners
                THEN [At("clear") EXCEPT !.inc = inc, !.bits = {"B"}]
                ELSE At("idle")]

\* The lease is given back when its generation ended before acquire returns.
RecheckGeneration(b) ==
    /\ At_pc(b, "recheck")
    /\ \/ /\ is_online_generation(op[b].gen)
          /\ op' = [op EXCEPT ![b] = At("held")]
          /\ UNCHANGED handle
       \/ /\ ~is_online_generation(op[b].gen)
          /\ ReleaseHandle(b)
    /\ UNCHANGED <<region, meta, cells, free, next_lease_epoch, alive, misreaped>>

Acquiring(b) ==
    \/ PopFree(b) \/ ReapSlot(b) \/ SeeToken(b) \/ TakeToken(b) \/ GateAfterPop(b)
    \/ ReservePopped(b) \/ PrepareLease(b) \/ PublishLease(b) \/ RecheckGeneration(b)

-----------------------------------------------------------------------------
(***************************************************************************)
(* A backend that holds a lease.                                           *)
(***************************************************************************)

validate_lease(inc) ==
    /\ region.gen = inc.gen
    /\ matches_incarnation(inc)
    /\ "B" \in meta[inc.slot].owners

\* send_frame: validate, then write into the ring of the slot.
BeginSend(b) ==
    /\ At_pc(b, "held")
    /\ validate_lease(handle[b])
    /\ Goto(b, "send")
    /\ UNCHANGED <<region, meta, cells, free, next_lease_epoch, alive, handle, misreaped>>

ring_write(b) ==
    ring' = IF Len(ring[handle[b].slot]) < RingFrames
            THEN [ring EXCEPT ![handle[b].slot] = Append(@, handle[b].epoch)]
            ELSE ring

SendFrame(b) ==
    /\ At_pc(b, "send")
    /\ ring_write(b)
    /\ Goto(b, "held")
    /\ UNCHANGED <<region, meta, sgen, pid, free, next_lease_epoch, alive, handle, misreaped>>

Release(b) ==
    /\ At_pc(b, "held")
    /\ ReleaseHandle(b)
    /\ UNCHANGED <<region, meta, cells, free, next_lease_epoch, alive, misreaped>>

\* A backend that exits abnormally leaves its lease to the reapers.
Die(b) ==
    /\ At_pc(b, "held")
    /\ alive' = alive \ {b}
    /\ handle' = [handle EXCEPT ![b] = NoLease]
    /\ op' = [op EXCEPT ![b] = At("idle")]
    /\ UNCHANGED <<region, meta, cells, free, next_lease_epoch, misreaped>>

-----------------------------------------------------------------------------
(***************************************************************************)
(* The worker side of a slot: next_ready_backend_lease names a leased slot *)
(* with a frame, slot_for_backend_lease claims exactly that lease.         *)
(***************************************************************************)

PickReady(w, s) ==
    /\ At_pc(w, "idle")
    /\ is_online_generation(region.gen)
    /\ meta[s].state = "Leased" /\ sgen[s] = region.gen
    /\ meta[s].owners \cap {"W", "P"} = {}
    /\ ring[s] # <<>>
    /\ op' = [op EXCEPT ![w] = [At("claim") EXCEPT !.inc = Incarnation(s, region.gen, meta[s].epoch)]]
    /\ UNCHANGED <<region, meta, cells, free, next_lease_epoch, alive, handle, misreaped>>

\* A claim needs the picked lease as it was, and reaps it when its backend died.
BeginClaim(w) ==
    /\ At_pc(w, "claim")
    /\ LET inc == op[w].inc
           claimable == /\ is_online_generation(inc.gen)
                        /\ matches_incarnation(inc)
                        /\ meta[inc.slot].owners = {"B"} IN
       \/ /\ claimable /\ probe_pid_alive(pid[inc.slot])
          /\ Goto(w, "pend")
       \/ /\ claimable /\ ~probe_pid_alive(pid[inc.slot])
          /\ ClearThen(w, inc, {"B"}, "idle")
       \/ /\ ~claimable
          /\ op' = [op EXCEPT ![w] = At("idle")]
    /\ UNCHANGED <<region, meta, cells, free, next_lease_epoch, alive, handle, misreaped>>

\* The compare-and-swap {B} -> {B, P} of the lease.  The generation of the slot
\* is not part of the word.
PendClaim(w) ==
    /\ At_pc(w, "pend")
    /\ LET inc == op[w].inc IN
       \/ /\ meta[inc.slot] = Leased(inc.epoch, {"B"})
          /\ meta' = [meta EXCEPT ![inc.slot] = Leased(inc.epoch, {"B", "P"})]
          /\ Goto(w, "claimed")
       \/ /\ meta[inc.slot] # Leased(inc.epoch, {"B"})
          /\ op' = [op EXCEPT ![w] = At("idle")]
          /\ UNCHANGED meta
    /\ UNCHANGED <<region, cells, free, next_lease_epoch, alive, handle, misreaped>>

\* The recheck under the pending bit: roll back when the lease or the
\* generation moved, and reap when the backend died in between.
RecheckClaim(w) ==
    /\ At_pc(w, "claimed")
    /\ LET inc == op[w].inc
           stands == /\ is_online_generation(inc.gen)
                     /\ matches_incarnation(inc)
                     /\ meta[inc.slot].owners = {"B", "P"} IN
       \/ stands /\ probe_pid_alive(pid[inc.slot]) /\ Goto(w, "commit")
       \/ stands /\ ~probe_pid_alive(pid[inc.slot]) /\ ClearThen(w, inc, {"P"}, "reap_dead")
       \/ ~stands /\ ClearThen(w, inc, {"P"}, "idle")
    /\ UNCHANGED <<region, meta, cells, free, next_lease_epoch, alive, handle, misreaped>>

ReapDead(w) ==
    /\ At_pc(w, "reap_dead")
    /\ LET inc == op[w].inc IN
       \/ dead_backend_owner(inc.slot, inc) /\ ClearThen(w, inc, {"B"}, "idle")
       \/ ~dead_backend_owner(inc.slot, inc) /\ op' = [op EXCEPT ![w] = At("idle")]
    /\ UNCHANGED <<region, meta, cells, free, next_lease_epoch, alive, handle, misreaped>>

\* The compare-and-swap {B, P} -> {B, W}; it fails when the backend let go.
commit_claim(inc) == meta[inc.slot] = Leased(inc.epoch, {"B", "P"})

CommitClaim(w) ==
    /\ At_pc(w, "commit")
    /\ LET inc == op[w].inc IN
       \/ /\ commit_claim(inc)
          /\ meta' = [meta EXCEPT ![inc.slot] = Leased(inc.epoch, {"B", "W"})]
          /\ handle' = [handle EXCEPT ![w] = inc]
          /\ op' = [op EXCEPT ![w] = At("attached")]
       \/ /\ ~commit_claim(inc)
          /\ ClearThen(w, inc, {"P"}, "idle")
          /\ UNCHANGED <<meta, handle>>
    /\ UNCHANGED <<region, cells, free, next_lease_epoch, alive, misreaped>>

validate_worker_slot_access(inc) ==
    /\ is_online_generation(inc.gen)
    /\ matches_incarnation(inc)
    /\ {"W", "B"} \subseteq meta[inc.slot].owners

\* recv_frame_into: validate, then read the ring of the slot.  Other claimers,
\* like a leader that cancels its scan workers, only write to the other ring.
\* got is the frame that left the ring: the validation after it may still
\* answer with an error, but does not put the frame back.
BeginRecv(w) ==
    /\ w = Worker /\ At_pc(w, "attached")
    /\ validate_worker_slot_access(handle[w])
    /\ op' = [op EXCEPT ![w] = At("recv")]
    /\ UNCHANGED <<region, meta, cells, free, next_lease_epoch, alive, handle, misreaped>>

RecvFrame(w) ==
    /\ At_pc(w, "recv")
    /\ LET s == handle[w].slot IN
       \/ /\ ring[s] # <<>>
          /\ ring' = [ring EXCEPT ![s] = Tail(@)]
          /\ op' = [op EXCEPT ![w] = [At("attached") EXCEPT !.got = Head(ring[s])]]
       \/ /\ ring[s] = <<>>
          /\ op' = [op EXCEPT ![w] = At("attached")]
          /\ UNCHANGED ring
    /\ UNCHANGED <<region, meta, sgen, pid, free, next_lease_epoch, alive, handle, misreaped>>

\* Drop of a WorkerSlot, and release_owned_slots_for_exit.
Detach(w) ==
    /\ At_pc(w, "attached")
    /\ op' = [op EXCEPT ![w] = [At("clear") EXCEPT !.inc = handle[w], !.bits = {"W"}]]
    /\ handle' = [handle EXCEPT ![w] = NoLease]
    /\ UNCHANGED <<region, meta, cells, free, next_lease_epoch, alive, misreaped>>

Claiming(w) ==
    \/ BeginClaim(w) \/ PendClaim(w) \/ RecheckClaim(w) \/ ReapDead(w) \/ CommitClaim(w)
    \/ BeginRecv(w) \/ RecvFrame(w) \/ Detach(w)

-----------------------------------------------------------------------------
(***************************************************************************)
(* Generations: a starting worker publishes the next one as RESTARTING,    *)
(* sweeps the slots older ones left behind, and goes ONLINE.               *)
(***************************************************************************)

\* The worker process dies with whatever it holds; a new one starts.
Crash ==
    /\ Worker \in alive
    /\ region.gen < MaxGenerations
    /\ alive' = alive \ {Worker}
    /\ handle' = [handle EXCEPT ![Worker] = NoLease]
    /\ op' = [op EXCEPT ![Worker] = At("start")]
    /\ UNCHANGED <<region, meta, cells, free, next_lease_epoch, misreaped>>

\* An orderly exit: no slot is attached any more.
Deactivate ==
    /\ At_pc(Worker, "idle")
    /\ region.gen < MaxGenerations
    /\ region' = [gen |-> region.gen + 1, state |-> "Offline"]
    /\ alive' = alive \ {Worker}
    /\ op' = [op EXCEPT ![Worker] = At("start")]
    /\ UNCHANGED <<meta, cells, free, next_lease_epoch, handle, misreaped>>

Activate ==
    /\ op[Worker].pc = "start"
    /\ region.gen < MaxGenerations
    /\ alive' = alive \cup {Worker}
    /\ region' = [gen |-> region.gen + 1, state |-> "Restarting"]
    /\ op' = [op EXCEPT ![Worker] = [At("sweep") EXCEPT !.pass = region.gen + 1]]
    /\ UNCHANGED <<meta, cells, free, next_lease_epoch, handle, misreaped>>

\* sweep_old_generation_slots, the end of a slot's turn: clear its worker bits,
\* finalize it when nobody owns it, or leave it.
SweepOn(s, inc) ==
    LET next == [op[Worker] EXCEPT !.inc = inc, !.ret = "sweep", !.cur = s + 1] IN
    IF meta[s].owners \cap {"W", "P"} # {}
    THEN [next EXCEPT !.pc = "clear", !.bits = {"W", "P"}]
    ELSE IF meta[s].state = "Leased" /\ meta[s].owners = {}
    THEN [next EXCEPT !.pc = "finalize"]
    ELSE [At("sweep") EXCEPT !.cur = s + 1, !.pass = op[Worker].pass]

\* The start of a slot's turn.  Only a slot with a backend owner is looked at a
\* second time, after its backend was reaped or found alive.
SweepReap ==
    /\ At_pc(Worker, "sweep")
    /\ LET s == op[Worker].cur
           inc == Incarnation(s, sgen[s], meta[s].epoch) IN
       /\ s \in Slots
       /\ op' = [op EXCEPT ![Worker] =
                   IF sgen[s] \in {0, op[Worker].pass} \/ meta[s].epoch = 0
                   THEN [@ EXCEPT !.cur = s + 1]
                   ELSE IF "B" \notin meta[s].owners
                   THEN SweepOn(s, inc)
                   ELSE IF dead_backend_owner(s, inc)
                   THEN [@ EXCEPT !.pc = "clear", !.inc = inc, !.bits = {"B"}, !.ret = "sweep_worker"]
                   ELSE [@ EXCEPT !.pc = "sweep_worker", !.inc = inc]]
    /\ UNCHANGED <<region, meta, cells, free, next_lease_epoch, alive, handle, misreaped>>

SweepWorker ==
    /\ At_pc(Worker, "sweep_worker")
    /\ op' = [op EXCEPT ![Worker] = SweepOn(op[Worker].cur, op[Worker].inc)]
    /\ UNCHANGED <<region, meta, cells, free, next_lease_epoch, alive, handle, misreaped>>

GoOnline ==
    /\ At_pc(Worker, "sweep") /\ op[Worker].cur \notin Slots
    /\ region' = [gen |-> op[Worker].pass, state |-> "Online"]
    /\ op' = [op EXCEPT ![Worker] = At("idle")]
    /\ UNCHANGED <<meta, cells, free, next_lease_epoch, alive, handle, misreaped>>

-----------------------------------------------------------------------------
\* init_in_place, then a worker that never ran.  Freelist order: slot n-1 on top.
Init ==
    /\ region = [gen |-> 0, state |-> "Offline"]
    /\ meta = [s \in Slots |-> Unleased("FreePublished")]
    /\ sgen = [s \in Slots |-> 0]
    /\ pid = [s \in Slots |-> NoPid]
    /\ ring = [s \in Slots |-> <<>>]
    /\ free = [i \in 1 .. SlotCount |-> SlotCount - i]
    /\ next_lease_epoch = 1
    /\ alive = Procs \ {Worker}
    /\ handle = [p \in Procs |-> NoLease]
    /\ op = [p \in Procs |-> At(IF p = Worker THEN "start" ELSE "idle")]
    /\ misreaped = FALSE

BackendNext(b) == Acquire(b) \/ Acquiring(b) \/ LettingGo(b) \/ BeginSend(b) \/ SendFrame(b)
                  \/ Release(b) \/ Die(b)
ClaimerNext(w) == (\E s \in Slots : PickReady(w, s)) \/ Claiming(w) \/ LettingGo(w)

Next ==
    \/ \E b \in Backends : BackendNext(b)
    \/ \E w \in Claimers : ClaimerNext(w)
    \/ Crash \/ Deactivate \/ Activate \/ SweepReap \/ SweepWorker \/ GoOnline

Spec == Init /\ [][Next]_vars

-----------------------------------------------------------------------------
\* Every variable keeps its type.
TypeOK ==
    /\ region \in [gen : 0 .. MaxGenerations, state : {"Offline", "Restarting", "Online"}]
    /\ meta \in [Slots -> [state : LeaseStates, epoch : 0 .. MaxLeases + Cardinality(Backends),
                           owners : SUBSET {"B", "W", "P"}]]
    /\ sgen \in [Slots -> 0 .. MaxGenerations]
    /\ pid \in [Slots -> Procs \cup {NoPid}]
    /\ \A s \in Slots : Len(ring[s]) <= RingFrames
    /\ \A i \in DOMAIN free : free[i] \in Slots
    /\ next_lease_epoch \in 1 .. MaxLeases + Cardinality(Backends) + 1
    /\ alive \subseteq Procs
    /\ DOMAIN handle = Procs /\ DOMAIN op = Procs
    /\ misreaped \in BOOLEAN

\* The freelist never offers a slot twice, and never offers one that is leased
\* or on its way to a lease: publish_free_slot pushes a slot exactly once per
\* finalization, however releases, reaps, rollbacks and sweeps interleave.
TokensAreUnique ==
    /\ \A i, j \in DOMAIN free : free[i] = free[j] => i = j
    /\ \A i \in DOMAIN free :
          meta[free[i]].state \in {"FreePushClaimed", "FreePushed", "FreePublished"}

\* A worker reads only frames that were sent under the lease it claimed, however
\* often the slot was reused before.  The exception is a region in which a
\* reaper took the lease of a live backend, which then still writes to the slot.
FramesBelongToTheLease ==
    \A w \in Claimers : op[w].got # 0 => misreaped \/ op[w].got = handle[w].epoch

\* A leased slot that lost its last owner is not forgotten: the process that
\* cleared the last bit is about to finalize it, or the worker that was doing so
\* is dead or still sweeping.
OwnerlessSlotsAreFinalized ==
    \A s \in Slots :
        (meta[s].state = "Leased" /\ meta[s].owners = {}) =>
            \/ Worker \notin alive
            \/ region.state = "Restarting"
            \/ \E p \in alive : /\ op[p].pc \in {"pid", "finalize"}
                                /\ op[p].inc = Incarnation(s, sgen[s], meta[s].epoch)

\* A slot is not recycled under anybody who holds it.  As long as the generation
\* of an attached worker handle lasts, the slot is leased in the handle's epoch
\* and still carries the worker's owner bit.  And a live backend keeps its lease
\* until it releases it: no stale release, rollback, detach, sweep or publication
\* of an earlier lease takes it away; the exception is a reaper that met a pid
\* some late store had zeroed.
Stands(h, owner) ==
    /\ meta[h.slot].state = "Leased" /\ meta[h.slot].epoch = h.epoch
    /\ owner \in meta[h.slot].owners
HandlesStand ==
    /\ \A w \in Claimers :
          handle[w] # NoLease /\ handle[w].gen = region.gen => Stands(handle[w], "W")
    /\ misreaped \/ \A b \in Backends \cap alive :
          handle[b] # NoLease => Stands(handle[b], "B")
=============================================================================
