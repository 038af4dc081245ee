------------------------------- MODULE MCPlans -------------------------------
(***************************************************************************)
(* A plan on its way to the worker and what the worker's own operators do  *)
(* with it, in three parts that share no state, so that a behaviour is one *)
(* of one of them, as `mode` says, and the others stand still:             *)
(*   ship       plans of every kind of node, in pages of every small size; *)
(*   ctes       three readers of one CTE, one of them inside the input of  *)
(*              a second CTE, with and without a fetch;                    *)
(*   aggregate  two accumulators of a group, over a calendar of 3 days a   *)
(*              month and 4 seconds a day, ten ticks a second, and limits  *)
(*              that two or three of the values exceed.                    *)
(***************************************************************************)
EXTENDS PlanFlow, TLC

CONSTANTS r1, r2, r3, r4, A, B,
          Readers, Ctes, CteOf, Inside, Top, Batches, Fetch, NoFetch, Nobody, MaxDrops,
          Accs, Values, Null, Scales, MaxRows, AvgScale, MaxI128, MaxFloat, PartMax, AggTimeMax,
          NanosPerMicro, DaysPerMonth, SecsPerDay, UsecsPerSec, TsPrecInv

VARIABLES mode,
          pc, holder, result, index, left, out, runs, lost,
          kind, scale, distinct, acc, rows, merged, spent, failed

CteReading == INSTANCE CteReads
Aggregates == INSTANCE PgAggregates WITH TimeMax <- AggTimeMax

-----------------------------------------------------------------------------
Spec1 ==
    [scan_id |-> 1, table_oid |-> 7, schema_name |-> <<<<"s">>>>,
     table |-> <<"t", "u">>, sql |-> <<"q">>, requested_limit |-> <<3>>,
     sql_limit |-> <<>>, selected_columns |-> <<0, 2>>,
     output_columns |-> <<0>>, filter_only_columns |-> <<2>>,
     residual_filter_columns |-> <<>>,
     pushed_filters |-> <<[original_index |-> 1, sql |-> <<"f">>]>>,
     residual_filters |-> <<<<5, 6>>>>, all_filters_compiled |-> FALSE,
     uses_dummy_projection |-> TRUE, planner_fetch_hint |-> <<3>>,
     local_row_cap |-> <<>>, schema |-> <<4>>]
Spec2 ==
    [Spec1 EXCEPT !.scan_id = 2, !.schema_name = <<>>, !.sql_limit = <<1>>,
                  !.pushed_filters = <<>>, !.residual_filters = <<>>,
                  !.all_filters_compiled = TRUE, !.output_columns = <<>>,
                  !.schema = <<>>, !.local_row_cap = <<1>>,
                  !.uses_dummy_projection = FALSE]

Scan(spec) == [op |-> "scan", inputs |-> 0, spec |-> spec]
Cte == [op |-> "cte", inputs |-> 1,
        cte |-> [cte_id |-> 1, name |-> <<"c">>, projection |-> <<<<0>>>>,
                 fetch |-> <<>>, schema |-> <<4>>]]
Plain(n) == [op |-> "plain", inputs |-> n, what |-> <<n>>]
Call(sort, name) == [op |-> "call", inputs |-> 1, what |-> <<sort, name>>]

\* A scan read twice, through a CTE and directly; a join of two scans under an
\* aggregate; no scan at all; a call of a function the worker does not know.
MCPlans ==
    {<<Scan(Spec1), Cte, Scan(Spec1), Plain(2)>>,
     <<Scan(Spec2), Scan(Spec1), Plain(2), Call("udaf", "avg")>>,
     <<Plain(0), Call("udf", "pg_fusion_int_add_checked")>>,
     <<Plain(0), Call("udf", "unknown")>>}

-----------------------------------------------------------------------------
MCCteOf == (r1 :> A @@ r2 :> A @@ r3 :> B @@ r4 :> A)
MCInside == (r1 :> Top @@ r2 :> Top @@ r3 :> Top @@ r4 :> B)
MCBatches == (A :> << <<1, 2>>, <<>>, <<3>> >> @@ B :> << <<4>> >>)
MCFetch == (r1 :> NoFetch @@ r2 :> 1 @@ r3 :> NoFetch @@ r4 :> 3)

-----------------------------------------------------------------------------
MCScales == {0, 1, 3}

F(c, v, b) == [c |-> c, v |-> v, bits |-> b]
I(m, d, t) == [months |-> m, days |-> d, time |-> t]

MCAggValues ==
  [k \in {"int", "decimal", "float", "interval", "subquery"} |->
     CASE k \in {"int", "decimal"} -> {-7, 2, 3, 700}
       [] k = "float" -> {F("fin", 0, 0), F("fin", 0, 1), F("fin", 5, 0), F("fin", -30, 0),
                          F("nan", 0, 0), F("nan", 0, 1), F("pinf", 0, 0), F("ninf", 0, 0)}
       [] k = "interval" -> {I(1, 0, 0), I(-2, 5, 6), I(0, -1, 40), I(30, 3, 0), I(0, 0, 3)}
       [] k = "subquery" -> {1, 2}]

-----------------------------------------------------------------------------
cteVars == <<pc, holder, result, index, left, out, runs, lost>>
aggregateVars == <<kind, scale, distinct, acc, rows, merged, spent, failed>>
all == <<mode, vars, cteVars, aggregateVars>>

MCInit ==
  /\ mode \in {"ship", "ctes", "aggregate"}
  /\ Init /\ CteReading!Init /\ Aggregates!Init
  /\ mode # "ship" => room = 1
  /\ mode # "aggregate" => kind = "subquery"

MCNext ==
  /\ UNCHANGED mode
  /\ \/ mode = "ship" /\ Next /\ UNCHANGED <<cteVars, aggregateVars>>
     \/ mode = "ctes" /\ CteReading!Next /\ UNCHANGED <<vars, aggregateVars>>
     \/ mode = "aggregate" /\ Aggregates!Next /\ UNCHANGED <<vars, cteVars>>

\* The fairness of PlanFlow and of CteReads, each while it runs.
MCFairness ==
  /\ WF_vars(mode = "ship" /\ StepPage) /\ WF_vars(mode = "ship" /\ StepClose)
  /\ WF_vars(mode = "ship" /\ OpenWorker) /\ WF_vars(mode = "ship" /\ RejectFrame)
  /\ WF_vars(mode = "ship" /\ AcceptFrame) /\ WF_vars(mode = "ship" /\ CloseWorker)
  /\ WF_vars(mode = "ship" /\ StartIsNext /\ AbortWorker)
  /\ \A r \in Readers : WF_cteVars(mode = "ctes" /\ CteReading!Polls(r))

MCSpec == MCInit /\ [][MCNext]_all /\ MCFairness

(* What a read of a CTE emits is a prefix of the rows of the CTE's input.  *)
CteReadersAgree == CteReading!CteReadersAgree

(* An aggregate is what PostgreSQL's aggregate of the same rows is.        *)
AggregatesAreExact == Aggregates!AggregatesAreExact

(* A plan being sent ends at the worker, and no read of a CTE waits        *)
(* forever.                                                                *)
PlansAndReadsEnd == PlanFlowEnds /\ <>[](mode = "ctes" => CteReading!AllRead)
=============================================================================
