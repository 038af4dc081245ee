----------------------------- MODULE MCSlotLease -----------------------------
(***************************************************************************)
(* Small instances of SlotLease: one slot, two backends and two claimers.  *)
(* Backends are interchangeable, and so are they in every property.        *)
(***************************************************************************)
EXTENDS SlotLease, TLC

Symmetry == Permutations(Backends)

(* The freelist offers a slot once and never a leased one, and a slot is   *)
(* not recycled under anybody who holds it.                                *)
SlotsAreHeldOnce == TypeOK /\ TokensAreUnique /\ HandlesStand
=============================================================================
