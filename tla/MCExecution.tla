---------------------------- MODULE MCExecution ----------------------------
(***************************************************************************)
(* The pages a query is executed with and the control of its execution.    *)
(* They meet in the permits, which PageStream ties to the pages, so that a *)
(* behaviour is one of either, as `mode` says, and the other stands still  *)
(* in its initial state, where its invariants need no second look:         *)
(*   pages    a session and the worker, two pages of two generations each; *)
(*   queries  two sessions and the worker, up to three queries of one plan *)
(*            page and two result pages, with two permits and rings of two *)
(*            frames, which neither a plan nor a result fits at once.      *)
(***************************************************************************)
EXTENDS PagePool, Integers, Sequences, TLC

CONSTANTS Backends, Slots, Permits, RingFrames, PlanPages, ResultPages, MaxQueries

ASSUME ControlAssumption ==
    /\ IsFiniteSet(Backends) /\ IsFiniteSet(Slots)
    /\ {Permits, RingFrames, PlanPages} \subseteq Nat \ {0}
    /\ {ResultPages, MaxQueries} \subseteq Nat

VARIABLES mode,
    host, epoch, active, toPublish, ingress, holder, lease, toWorker, toBackend, permits,
    wpc, wstate, cur, peer, latest, planRx, plan, sent, outcome, left

Control == INSTANCE ExecutionControl

controlVars ==
    <<host, epoch, active, toPublish, ingress, holder, lease, toWorker, toBackend, permits,
      wpc, wstate, cur, peer, latest, planRx, plan, sent, outcome, left>>
all == <<mode, vars, controlVars>>

Symmetry == Permutations(Backends) \cup Permutations(Slots)

MCInit == mode \in {"pages", "queries"} /\ Init /\ Control!Init

MCNext ==
    /\ UNCHANGED mode
    /\ \/ mode = "pages" /\ Next /\ UNCHANGED controlVars
       \/ mode = "queries" /\ Control!Next /\ UNCHANGED vars

MCSpec == MCInit /\ [][MCNext]_all

(* A page has one owner and one place, a released descriptor stays dead,   *)
(* and the gauges of the pool count leases exactly up to the operations in *)
(* flight.                                                                 *)
PagesHaveOneOwner == mode = "pages" => TypeOK /\ PoolInv /\ GaugesAccount

(* A query gets its own result pages in order, EOF only once the worker    *)
(* has completed it, and no permit is lost.                                *)
ResultsBelongToTheQuery ==
    mode = "queries" =>
        /\ Control!TypeOK
        /\ Control!ResultsBelongToTheQuery
        /\ Control!EofMeansCompleted
        /\ Control!PermitsAreConserved

(* A session that waits for its result will hear from the worker.          *)
NoQueryIsForgotten == Control!NoQueryIsForgotten

(* As long as every plan decodes, lowers and executes, and no query is     *)
(* abandoned, the worker lives (src/docs/architecture.md: many backends    *)
(* feed work into the same worker).                                        *)
WorkerServesManyBackends == Control!WorkerServesManyBackends
=============================================================================
