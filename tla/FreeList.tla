------------------------------ MODULE FreeList ------------------------------
(***************************************************************************)
(* What the clients of the lock-free stack rely on: allocate() atomically  *)
(* takes a free index and hands it to its caller, release() atomically     *)
(* makes an index its caller owns free again, or refuses and leaves it     *)
(* with the caller.                                                        *)
(***************************************************************************)
CONSTANTS Indices, Callers, Nothing

VARIABLES
    free,  \* the indices that can be allocated
    hand,  \* the index an operation of each caller is moving, or Nothing
    out    \* the indices owned by clients

Init ==
    /\ free \in {Indices, {}}
    /\ out = Indices \ free
    /\ hand = [c \in Callers |-> Nothing]

Allocate(c) ==
    /\ hand[c] = Nothing
    /\ \E i \in free :
          /\ free' = free \ {i}
          /\ hand' = [hand EXCEPT ![c] = i]
    /\ UNCHANGED out

(* The allocated index, or the one release() refused, goes to the client.  *)
Deliver(c) ==
    /\ hand[c] # Nothing
    /\ out' = out \cup {hand[c]}
    /\ hand' = [hand EXCEPT ![c] = Nothing]
    /\ UNCHANGED free

Surrender(c) ==
    /\ hand[c] = Nothing
    /\ \E i \in out :
          /\ out' = out \ {i}
          /\ hand' = [hand EXCEPT ![c] = i]
    /\ UNCHANGED free

Release(c) ==
    /\ hand[c] # Nothing
    /\ free' = free \cup {hand[c]}
    /\ hand' = [hand EXCEPT ![c] = Nothing]
    /\ UNCHANGED out

Next ==
    \E c \in Callers : Allocate(c) \/ Deliver(c) \/ Surrender(c) \/ Release(c)

Spec == Init /\ [][Next]_<<free, hand, out>>
=============================================================================
