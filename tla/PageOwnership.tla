---------------------------- MODULE PageOwnership ----------------------------
(***************************************************************************)
(* What the page pool promises its clients (src/page/pool): a page moves   *)
(* atomically between Free, Attached, Detached and Exhausted, each         *)
(* acquisition opens the next generation of the page, and only the current *)
(* generation can be detached or released.                                 *)
(***************************************************************************)
EXTENDS Naturals

CONSTANTS Pages, MaxGeneration

VARIABLES gen, st

Init ==
    /\ gen = [i \in Pages |-> 0]
    /\ st = [i \in Pages |-> "Free"]

Acquire(i) ==
    /\ st[i] = "Free"
    /\ gen[i] < MaxGeneration
    /\ st' = [st EXCEPT ![i] = "Attached"]
    /\ gen' = [gen EXCEPT ![i] = @ + 1]

Detach(i) ==
    /\ st[i] = "Attached"
    /\ st' = [st EXCEPT ![i] = "Detached"]
    /\ UNCHANGED gen

Release(i) ==
    /\ st[i] \in {"Attached", "Detached"}
    /\ st' = [st EXCEPT ![i] = IF gen[i] = MaxGeneration THEN "Exhausted" ELSE "Free"]
    /\ UNCHANGED gen

Next == \E i \in Pages : Acquire(i) \/ Detach(i) \/ Release(i)

Spec == Init /\ [][Next]_<<gen, st>>
=============================================================================
