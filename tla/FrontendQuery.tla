---------------------------- MODULE FrontendQuery ----------------------------
(***************************************************************************)
(* The compiler of the SQL frontend: how a typed query, the analysed       *)
(* PostgreSQL query tree, becomes a DataFusion logical plan.               *)
(*                                                                         *)
(* An expression is a node of one uniform shape: its kind `t`, an operator *)
(* `op`, its arguments, the FILTER of an aggregate, a subquery and, once   *)
(* compiled, the subquery's plan.  Types are what the compiler tells       *)
(* apart: "int", "text" in the default collation, "coll" in another one,   *)
(* "bpchar" with its insignificant padding.  Wherever the code returns an  *)
(* error the node Unsupported (or the plan Rejected) stands in the tree: a *)
(* query is compiled when none is left in it.                              *)
(***************************************************************************)
EXTENDS Integers, Sequences, FiniteSets, SequencesExt

CONSTANT LongNames    \* identifiers longer than NAMEDATALEN - 1 bytes

E0 == [t |-> "lit", op |-> "", rt |-> 0, col |-> 0, lv |-> 0, name |-> "", ty |-> "int", v |-> 0, args |-> <<>>,
       filter |-> <<>>, distinct |-> FALSE, q |-> <<>>, plan |-> <<>>]

Unsupported == [E0 EXCEPT !.t = "unsupported"]
Rejected == [p |-> "rejected"]
Col(ref, name, ty) == [E0 EXCEPT !.t = "col", !.op = ref, !.name = name, !.ty = ty]
Node(t, args) == [E0 EXCEPT !.t = t, !.args = args]

OrderOps == {"<"}
EqualityOps == {"=", "distinct"}
PatternOps == {"~"}
TextTypes == {"text", "coll", "bpchar"}

----------------------------------------------------------------------------
(* Walks over an expression.  None of them but the search for outer        *)
(* variables enters a subquery.                                            *)

Kids(e) == e.args \o e.filter

RECURSIVE Preorder(_)
Preorder(e) == <<e>> \o FlattenSeq([i \in DOMAIN Kids(e) |-> Preorder(Kids(e)[i])])

Sub(e) == ToSet(Preorder(e))

CollectExprRtindexes(e) == {s.rt : s \in {x \in Sub(e) : x.t = "var"}}

CollectScalarSubqueries(e) == SelectSeq(Preorder(e), LAMBDA s : s.t = "scalar")

ContainsScalarSubquery(e) == CollectScalarSubqueries(e) # <<>>

ContainsPredicateSubquery(e) == \E s \in Sub(e) : s.t \in {"exists", "in"}

ContainsAggregateCall(e) == \E s \in Sub(e) : s.t = "agg"

CollectAggregateCalls(e) == SelectSeq(Preorder(e), LAMBDA s : s.t = "agg")

ExprIsGroupingInvariant(e) == \A s \in Sub(e) : s.t # "var"

RECURSIVE FromContainsOuterVar(_), QueryContainsOuterVar(_)
ExprContainsOuterVar(e) ==
    \E s \in Sub(e) : s.t = "outer" \/ \E i \in DOMAIN s.q : QueryContainsOuterVar(s.q[i])

FromContainsOuterVar(item) ==
    /\ item.k = "join"
    /\ \/ \E i \in DOMAIN item.quals : ExprContainsOuterVar(item.quals[i])
       \/ FromContainsOuterVar(item.left)
       \/ FromContainsOuterVar(item.right)

QueryContainsOuterVar(q) ==
    \/ \E e \in ToSet(q.where \o q.limit \o q.offset \o q.having) : ExprContainsOuterVar(e)
    \/ \E i \in DOMAIN q.targets : ExprContainsOuterVar(q.targets[i].e)
    \/ FromContainsOuterVar(q.from)
    \/ \E i \in DOMAIN q.ctes : QueryContainsOuterVar(q.ctes[i].q)
    \/ \E i \in DOMAIN q.rtable : q.rtable[i].kind = "sub" /\ QueryContainsOuterVar(q.rtable[i].q[1])

----------------------------------------------------------------------------
(* What DataFusion may not evaluate above a scan: text whose meaning is    *)
(* the collation's.                                                        *)

BinaryOpNeedsPgTextSemantics(e) ==
    LET types == {e.args[1].ty, e.args[2].ty}
    IN \/ e.op \in PatternOps \cup OrderOps /\ types \cap TextTypes # {}
       \/ e.op \in EqualityOps /\ "coll" \in types

FunctionCallNeedsPgTextSemantics(e) ==
    e.op # "length" /\ \E i \in DOMAIN e.args : e.args[i].ty = "bpchar"

ResidualFilterNeedsPgTextSemantics(e) ==
    \E s \in Sub(e) :
        \/ s.t = "cast" /\ s.ty = "coll"
        \/ s.t = "op" /\ BinaryOpNeedsPgTextSemantics(s)
        \/ s.t = "fn" /\ FunctionCallNeedsPgTextSemantics(s)

----------------------------------------------------------------------------
(* The range table.                                                        *)

TableRef(entry) == IF entry.alias = "" THEN entry.full ELSE entry.alias

CompileVar(e, q) ==
    IF e.rt \in DOMAIN q.rtable /\ e.col \in DOMAIN q.rtable[e.rt].cols
    THEN Col(TableRef(q.rtable[e.rt]), q.rtable[e.rt].cols[e.col], e.ty)
    ELSE Unsupported

RECURSIVE FromRtindexes(_)
FromRtindexes(item) ==
    CASE item.k = "empty" -> {}
      [] item.k = "leaf" -> {item.rt}
      [] item.k = "join" -> FromRtindexes(item.left) \cup FromRtindexes(item.right)

RECURSIVE FromQuals(_)
FromQuals(item) == IF item.k = "join" THEN item.quals \o FromQuals(item.left) \o FromQuals(item.right) ELSE <<>>

(* The relations whose rows a WHERE filter of the whole FROM clause may    *)
(* remove early: those no outer join extends with nulls.                   *)
RECURSIVE TopLevelPushdown(_, _)
TopLevelPushdown(item, q) ==
    CASE item.k = "leaf" -> IF q.rtable[item.rt].kind = "rel" THEN {item.rt} ELSE {}
      [] item.k = "join" ->
           (IF item.kind \in {"inner", "left"} THEN TopLevelPushdown(item.left, q) ELSE {})
           \cup (IF item.kind \in {"inner", "right"} THEN TopLevelPushdown(item.right, q) ELSE {})
      [] OTHER -> {}

(* The mutant pushes below every join.                                     *)
RECURSIVE PushdownBelowOuterJoins(_, _)
PushdownBelowOuterJoins(item, q) ==
    CASE item.k = "leaf" -> IF q.rtable[item.rt].kind = "rel" THEN {item.rt} ELSE {}
      [] item.k = "join" -> PushdownBelowOuterJoins(item.left, q) \cup PushdownBelowOuterJoins(item.right, q)
      [] OTHER -> {}

TopLevelWherePushdownRtindexes(item, q) == TopLevelPushdown(item, q)

RelationProjection(q, rt) ==
    LET junk == q.sort # <<>> \/ q.distinct = "on"
        exprs == {q.targets[i].e : i \in {j \in DOMAIN q.targets : junk \/ ~q.targets[j].junk}}
                 \cup ToSet(q.where \o FromQuals(q.from))
    IN {s.col : s \in {x \in UNION {Sub(e) : e \in exprs} : x.t = "var" /\ x.rt = rt}}

----------------------------------------------------------------------------
(* Conjunctions.                                                           *)

RECURSIVE SplitAndPredicates(_)
SplitAndPredicates(e) ==
    IF e.t = "and" THEN FlattenSeq([i \in DOMAIN e.args |-> SplitAndPredicates(e.args[i])]) ELSE <<e>>

CombineAndPredicates(ps) == IF Len(ps) < 2 THEN ps ELSE <<Node("and", ps)>>

Conjuncts(selection) == IF selection = <<>> THEN <<>> ELSE SplitAndPredicates(selection[1])

CanPushPredicateIntoScan(p) ==
    ~ContainsScalarSubquery(p) /\ ~ContainsPredicateSubquery(p) /\ ~ExprContainsOuterVar(p) /\ ~ContainsAggregateCall(p)

(* The relation a conjunct is pushed to, or 0.                             *)
PushTarget(p, q) ==
    LET pushable == TopLevelWherePushdownRtindexes(q.from, q)
        used == CollectExprRtindexes(p)
    IN IF ~CanPushPredicateIntoScan(p) THEN 0
       ELSE IF Cardinality(used) = 1 /\ used \subseteq pushable THEN CHOOSE r \in used : TRUE
       ELSE IF used = {} /\ pushable # {} /\ ResidualFilterNeedsPgTextSemantics(p) THEN CHOOSE r \in pushable : TRUE
       ELSE 0

SplitSelectionForScanPushdown(q) ==
    LET ps == Conjuncts(q.where)
        kept == SelectSeq(ps, LAMBDA p : PushTarget(p, q) = 0)
    IN [scan |-> [r \in DOMAIN q.rtable |-> SelectSeq(ps, LAMBDA p : PushTarget(p, q) = r)],
        rejected |-> \E i \in DOMAIN kept : ResidualFilterNeedsPgTextSemantics(kept[i]),
        residual |-> CombineAndPredicates(kept)]

----------------------------------------------------------------------------
(* The schema of a plan: the qualified names of its columns.               *)

RECURSIVE Schema(_)
Schema(plan) ==
    CASE plan.p \in {"rejected", "empty"} -> <<>>
      [] plan.p = "scan" -> LET is == SelectSeq([i \in DOMAIN plan.cols |-> i], LAMBDA i : i \in plan.proj)
                            IN [i \in DOMAIN is |-> <<plan.ref, plan.cols[is[i]]>>]
      [] plan.p = "values" -> [i \in DOMAIN plan.cols |-> <<"", plan.cols[i]>>]
      [] plan.p = "alias" -> [i \in DOMAIN Schema(plan.input) |-> <<plan.ref, Schema(plan.input)[i][2]>>]
      [] plan.p = "join" -> IF plan.kind = "semi" THEN Schema(plan.left) ELSE Schema(plan.left) \o Schema(plan.right)
      [] plan.p = "agg" -> plan.names
      [] plan.p = "project" -> plan.names
      [] plan.p = "on" -> [i \in DOMAIN plan.select |-> <<plan.select[i].op, plan.select[i].name>>]
      [] plan.p = "union" -> Schema(plan.left)
      [] OTHER -> Schema(plan.input)

ColumnAt(plan, i) == Col(Schema(plan)[i][1], Schema(plan)[i][2], "int")

----------------------------------------------------------------------------
(* Expressions.  B binds expressions to columns the plan already computes: *)
(* aggregate calls, grouped expressions and scalar subqueries.             *)

BindingOf(e, B) == {i \in DOMAIN B : B[i].e = e}

CompileBpcharEqualityOperand(c, source) == IF source.ty = "bpchar" THEN Node("key", <<c>>) ELSE c

CompileBinaryExpr(e, l, r) ==
    LET keyed(c, s) == IF e.op \in EqualityOps THEN CompileBpcharEqualityOperand(c, s) ELSE c
    IN [e EXCEPT !.args = <<keyed(l, e.args[1]), keyed(r, e.args[2])>>]

CompileCoalesce(args) ==
    IF args = <<>> THEN Unsupported
    ELSE IF Len(args) = 1 THEN args[1]
    ELSE Node("case", FlattenSeq([i \in 1..(Len(args) - 1) |-> <<Node("isnotnull", <<args[i]>>), args[i]>>]) \o <<Last(args)>>)

CompileBool(e, args) ==
    IF (e.t \in {"and", "or"} /\ args = <<>>) \/ (e.t = "not" /\ Len(args) # 1) THEN Unsupported ELSE [e EXCEPT !.args = args]

BooleanTestExprs == [IsTrue |-> "istrue", IsNotTrue |-> "isnottrue", IsFalse |-> "isfalse", IsNotFalse |-> "isnotfalse",
                     IsUnknown |-> "isunknown", IsNotUnknown |-> "isnotunknown"]

CompileBooleanTest(e, args) == Node(BooleanTestExprs[e.op], args)

CompileOuterVar(e) == [e EXCEPT !.t = "outref"]

(* Which argument shapes of an aggregate have a DataFusion function.       *)
AggregateShapes(e) ==
    CASE e.op = "count" -> Len(e.args) = 1 \/ (Len(e.args) = 0 /\ ~e.distinct)
      [] e.op \in {"sum", "avg", "min", "max", "stddev", "variance"} -> Len(e.args) = 1
      [] e.op \in {"regr", "covar", "corr", "string_agg"} -> Len(e.args) = 2
      [] e.op = "grouping" -> e.args # <<>> /\ ~e.distinct

ScalarSubqueryValuePlan(plan, name) ==
    IF Len(Schema(plan)) # 1 THEN Rejected
    ELSE [p |-> "agg", sets |-> << <<>> >>, groups |-> <<>>, input |-> plan, names |-> << <<"", name>> >>,
          aggs |-> <<[E0 EXCEPT !.t = "agg", !.op = "value", !.args = <<ColumnAt(plan, 1)>>]>>]

CompileAggregateCall(e, filter) == IF AggregateShapes(e) THEN [e EXCEPT !.filter = filter] ELSE Unsupported

(* An uncorrelated scalar subquery is the one value of its rows.           *)
CompileScalarSubquery(e, q, plan) ==
    IF QueryContainsOuterVar(q) THEN e ELSE [e EXCEPT !.plan = <<ScalarSubqueryValuePlan(plan, "scalar_subquery_value")>>]

RECURSIVE CompileExpr(_, _, _), CompileQuery(_), BasePlan(_), BuildFromItem(_, _, _)
CompileExpr(e, q, B) ==
    LET sub == IF e.q = <<>> THEN <<>> ELSE <<CompileQuery(e.q[1])>>
        args == [i \in DOMAIN e.args |-> CompileExpr(e.args[i], q, B)]
        compiled == [e EXCEPT !.args = args, !.q = <<>>, !.plan = sub]
    IN IF BindingOf(e, B) # {} THEN B[CHOOSE i \in BindingOf(e, B) : \A j \in BindingOf(e, B) : i <= j].col
       ELSE CASE e.t = "var" -> CompileVar(e, q)
              [] e.t = "outer" -> CompileOuterVar(e)
              [] e.t = "param" -> Unsupported
              [] e.t = "relabel" -> args[1]
              [] e.t = "op" -> CompileBinaryExpr(e, args[1], args[2])
              [] e.t = "coalesce" -> CompileCoalesce(args)
              [] e.t \in {"and", "or", "not"} -> CompileBool(e, args)
              [] e.t = "booltest" -> CompileBooleanTest(e, args)
              [] e.t = "in" /\ Len(Schema(sub[1])) # 1 -> Unsupported
              [] e.t = "scalar" -> CompileScalarSubquery(compiled, e.q[1], sub[1])
              [] e.t = "agg" -> CompileAggregateCall(compiled, [i \in DOMAIN e.filter |-> CompileExpr(e.filter[i], q, B)])
              [] OTHER -> compiled

(* Every scalar subquery without outer variables is evaluated once: the    *)
(* plan is joined with its single row.                                     *)
RECURSIVE AttachScalarSubqueries(_, _, _)
AttachScalarSubqueries(plan, es, B) ==
    LET news == SelectSeq(FlattenSeq([i \in DOMAIN es |-> CollectScalarSubqueries(es[i])]),
                          LAMBDA s : BindingOf(s, B) = {} /\ ~QueryContainsOuterVar(s.q[1]))
        n == Len(B) + 1
        ref == "scalar_subquery_" \o ToString(n)
        name == IF n = 1 THEN "scalar_subquery_value" ELSE "scalar_subquery_value_" \o ToString(n)
        value == [p |-> "alias", ref |-> ref, input |-> ScalarSubqueryValuePlan(CompileQuery(news[1].q[1]), name)]
    IN IF news = <<>> THEN [plan |-> plan, B |-> B]
       ELSE AttachScalarSubqueries([p |-> "join", kind |-> "inner", left |-> plan, right |-> value, on |-> <<>>, filter |-> <<>>],
                                   es, Append(B, [e |-> news[1], col |-> Col(ref, name, "int")]))

FilterPlan(plan, predicate, q, B) ==
    LET a == AttachScalarSubqueries(plan, <<predicate>>, <<>>)
    IN [p |-> "filter", pred |-> CompileExpr(predicate, q, a.B \o B), input |-> a.plan]

----------------------------------------------------------------------------
(* FROM.                                                                   *)

EquiJoinPair(e, lefts, rights) ==
    LET var(x) == IF x.t = "relabel" THEN x.args[1] ELSE x
        l == var(e.args[1])
        r == var(e.args[2])
    IN IF e.t # "op" THEN <<>>
       ELSE IF e.op # "=" \/ l.t # "var" \/ r.t # "var" THEN <<>>
       ELSE IF l.rt \in lefts /\ r.rt \in rights THEN <<l, r>>
       ELSE IF r.rt \in lefts /\ l.rt \in rights THEN <<r, l>>
       ELSE <<>>

(* The conjuncts of an ON clause: equalities between the two sides and     *)
(* everything else.                                                        *)
CollectJoinQuals(quals, lefts, rights, q) ==
    LET ps == Conjuncts(quals)
        pair(p) == EquiJoinPair(p, lefts, rights)
        equi == SelectSeq(ps, LAMBDA p : pair(p) # <<>>)
        key(v) == CompileBpcharEqualityOperand(CompileVar(v, q), v)
        rest == SelectSeq(ps, LAMBDA p : pair(p) = <<>>)
    IN [on |-> [i \in DOMAIN equi |-> <<key(pair(equi[i])[1]), key(pair(equi[i])[2])>>],
        filter |-> [i \in DOMAIN rest |-> CompileExpr(rest[i], q, <<>>)]]

BuildJoin(q, item, filters) ==
    LET left == BuildFromItem(q, item.left, filters)
        right == BuildFromItem(q, item.right, filters)
        quals == CollectJoinQuals(item.quals, FromRtindexes(item.left), FromRtindexes(item.right), q)
        swapped == [p |-> "join", kind |-> "left", left |-> right, right |-> left, filter |-> quals.filter,
                    on |-> [i \in DOMAIN quals.on |-> <<quals.on[i][2], quals.on[i][1]>>]]
        names == Schema(left) \o Schema(right)
    IN IF item.kind = "right"
       THEN [p |-> "project", names |-> names, exprs |-> [i \in DOMAIN names |-> Col(names[i][1], names[i][2], "int")], input |-> swapped]
       ELSE [p |-> "join", kind |-> item.kind, left |-> left, right |-> right, on |-> quals.on, filter |-> quals.filter]

(* A query in FROM: its columns take the range table's names.              *)
NamedColumns(entry, input) ==
    LET exprs == [i \in DOMAIN Schema(input) |-> ColumnAt(input, i)]
    IN IF Len(Schema(input)) # Len(entry.cols) THEN Rejected
       ELSE [p |-> "alias", ref |-> TableRef(entry),
             input |-> [p |-> "project", exprs |-> exprs, names |-> [i \in DOMAIN entry.cols |-> <<"", entry.cols[i]>>], input |-> input]]

BuildSubqueryScan(entry) == NamedColumns(entry, CompileQuery(entry.q[1]))

(* A reference to a CTE compiles the definition it names.                  *)
BuildCteScan(entry, q) ==
    LET defs == SelectSeq(q.ctes, LAMBDA d : d.id = entry.id)
    IN IF defs = <<>> THEN Rejected ELSE NamedColumns(entry, CompileQuery(defs[1].q))

BuildValuesScan(entry, q) ==
    [p |-> "alias", ref |-> TableRef(entry),
     input |-> [p |-> "values", cols |-> entry.cols,
                rows |-> [i \in DOMAIN entry.rows |-> [j \in DOMAIN entry.rows[i] |-> CompileExpr(entry.rows[i][j], q, <<>>)]]]]

BuildRelationScan(q, rt, filters) ==
    LET entry == q.rtable[rt]
    IN [p |-> "scan", table |-> entry.table, ref |-> TableRef(entry), cols |-> entry.cols,
        proj |-> IF q.aggs THEN DOMAIN entry.cols ELSE RelationProjection(q, rt),
        filters |-> [i \in DOMAIN filters[rt] |-> CompileExpr(filters[rt][i], q, <<>>)]]

BuildFromItem(q, item, filters) ==
    CASE item.k = "empty" -> [p |-> "empty"]
      [] item.k = "join" -> BuildJoin(q, item, filters)
      [] item.k = "leaf" ->
           CASE q.rtable[item.rt].kind = "rel" -> BuildRelationScan(q, item.rt, filters)
             [] q.rtable[item.rt].kind = "values" -> BuildValuesScan(q.rtable[item.rt], q)
             [] q.rtable[item.rt].kind = "cte" -> BuildCteScan(q.rtable[item.rt], q)
             [] OTHER -> BuildSubqueryScan(q.rtable[item.rt])

RECURSIVE CompileSetOperationTree(_, _)
CompileSetOperationTree(tree, q) ==
    IF tree.k = "range" THEN BuildSubqueryScan(q.rtable[tree.rt])
    ELSE LET union == [p |-> "union", left |-> CompileSetOperationTree(tree.left, q), right |-> CompileSetOperationTree(tree.right, q)]
         IN IF tree.all THEN union ELSE [p |-> "distinct", input |-> union]

RECURSIVE FirstSetOperationRtindex(_)
FirstSetOperationRtindex(tree) == IF tree.k = "range" THEN tree.rt ELSE FirstSetOperationRtindex(tree.left)

----------------------------------------------------------------------------
(* Correlated EXISTS and IN conjuncts become semi joins.                   *)

SplitOuterInnerExpr(e) ==
    IF e.t # "op" THEN <<>>
    ELSE LET l == ExprContainsOuterVar(e.args[1])
             r == ExprContainsOuterVar(e.args[2])
         IN IF l /\ ~r THEN <<e.args[1], e.args[2]>> ELSE IF r /\ ~l THEN <<e.args[2], e.args[1]>> ELSE <<>>

CorrelatedEquiPair(e) == IF e.t = "op" /\ e.op = "=" THEN SplitOuterInnerExpr(e) ELSE <<>>

(* The variable of the outer query an outer reference names: relations are *)
(* found by alias or name, all of them when it names none, and exactly one *)
(* must have the column.                                                   *)
OuterVarToQueryVar(q, e) ==
    LET hits == {<<i, c>> \in (DOMAIN q.rtable) \X (1..9) :
                    LET entry == q.rtable[i]
                    IN /\ entry.kind = "rel"
                       /\ e.op \in {"", entry.alias, entry.table}
                       /\ c \in DOMAIN entry.cols
                       /\ entry.cols[c] = e.name}
    IN IF Cardinality(hits) # 1 THEN Unsupported
       ELSE LET h == CHOOSE x \in hits : TRUE IN [E0 EXCEPT !.t = "var", !.rt = h[1], !.col = h[2], !.ty = e.ty]

RECURSIVE OuterExprToQueryExpr(_, _)
OuterExprToQueryExpr(q, e) ==
    CASE e.t = "outer" -> OuterVarToQueryVar(q, e)
      [] e.t \in {"relabel", "cast"} -> [e EXCEPT !.args = <<OuterExprToQueryExpr(q, e.args[1])>>]
      [] OTHER -> Unsupported

RECURSIVE CompileOuterJoinExpr(_)
CompileOuterJoinExpr(e) ==
    CASE e.t = "outer" -> Col(e.op, e.name, e.ty)
      [] e.t = "relabel" -> CompileOuterJoinExpr(e.args[1])
      [] e.t = "cast" -> [e EXCEPT !.args = <<CompileOuterJoinExpr(e.args[1])>>]
      [] OTHER -> Unsupported

RECURSIVE CompileCorrelatedJoinFilter(_, _)
CompileCorrelatedJoinFilter(e, inner) ==
    LET args == [i \in DOMAIN e.args |-> CompileCorrelatedJoinFilter(e.args[i], inner)]
    IN IF ~ExprContainsOuterVar(e) THEN CompileExpr(e, inner, <<>>)
       ELSE CASE e.t \in {"outer", "relabel", "cast"} -> CompileOuterJoinExpr(e)
              [] e.t = "op" -> CompileBinaryExpr(e, args[1], args[2])
              [] e.t \in {"and", "or", "not"} -> CompileBool(e, args)
              [] e.t \in {"isnull", "isnotnull"} -> [e EXCEPT !.args = args]
              [] e.t = "booltest" -> CompileBooleanTest(e, args)
              [] OTHER -> Unsupported

AddTargets(q, es) == [q EXCEPT !.targets = @ \o [i \in DOMAIN es |-> [e |-> es[i], name |-> "__pg_fusion_corr", ref |-> 0, junk |-> FALSE]]]

CorrelatedPredicates(sub) == SelectSeq(Conjuncts(sub.where), ExprContainsOuterVar)

(* One semi join: the conjuncts with outer variables move from the inner   *)
(* query into the join condition, and what they need is projected.  Only   *)
(* the FROM and WHERE of the inner query are compiled.                     *)
ApplyCorrelatedJoin(plan, p, outer) ==
    LET sub == p.q[1]
        corr == CorrelatedPredicates(sub)
        pairs == SelectSeq(corr, LAMBDA c : SplitOuterInnerExpr(c) # <<>>)
        local == SelectSeq(Conjuncts(sub.where), LAMBDA c : ~ExprContainsOuterVar(c))
        inner == AddTargets([sub EXCEPT !.where = CombineAndPredicates(local)],
                            [i \in DOMAIN pairs |-> SplitOuterInnerExpr(pairs[i])[2]])
        equi == SelectSeq(corr, LAMBDA c : CorrelatedEquiPair(c) # <<>>)
        rest == SelectSeq(corr, LAMBDA c : CorrelatedEquiPair(c) = <<>>)
        visible == SelectSeq(inner.targets, LAMBDA t : ~t.junk)
        tested == IF p.t = "in" THEN << <<CompileExpr(p.args[1], outer, <<>>), CompileExpr(visible[1].e, inner, <<>>)>> >> ELSE <<>>
    IN IF (p.t = "exists" /\ corr = <<>>) \/ (p.t = "in" /\ visible = <<>>) THEN Rejected
       ELSE [p |-> "join", kind |-> "semi", left |-> plan, right |-> BasePlan(inner),
             on |-> tested \o [i \in DOMAIN equi |-> <<CompileOuterJoinExpr(CorrelatedEquiPair(equi[i])[1]),
                                                        CompileExpr(CorrelatedEquiPair(equi[i])[2], inner, <<>>)>>],
             filter |-> [i \in DOMAIN rest |-> CompileCorrelatedJoinFilter(rest[i], inner)]]

RECURSIVE ApplyCorrelatedJoins(_, _, _)
ApplyCorrelatedJoins(plan, ps, outer) ==
    IF ps = <<>> THEN plan ELSE ApplyCorrelatedJoins(ApplyCorrelatedJoin(plan, Head(ps), outer), Tail(ps), outer)

(* What the semi joins need of the outer query, as further targets.        *)
CorrelatedOuterTargets(q, p) ==
    LET pairs == SelectSeq(Conjuncts(p.q[1].where), LAMBDA c : SplitOuterInnerExpr(c) # <<>>)
    IN (IF p.t = "in" THEN p.args ELSE <<>>) \o [i \in DOMAIN pairs |-> OuterExprToQueryExpr(q, SplitOuterInnerExpr(pairs[i])[1])]

----------------------------------------------------------------------------
(* The FROM and WHERE of a query.                                          *)

SelectedPlan(q) ==
    LET selection == SplitSelectionForScanPushdown(q)
        plan == BuildFromItem(q, q.from, selection.scan)
    IN IF selection.rejected THEN Rejected
       ELSE IF selection.residual = <<>> THEN plan
       ELSE FilterPlan(plan, selection.residual[1], q, <<>>)

IsCorrelated(p, t) == p.t = t /\ QueryContainsOuterVar(p.q[1])

BasePlan(q) ==
    LET ps == Conjuncts(q.where)
        kind == IF \E i \in DOMAIN ps : IsCorrelated(ps[i], "exists") THEN "exists" ELSE "in"
        joined == SelectSeq(ps, LAMBDA p : IsCorrelated(p, kind))
        needed == FlattenSeq([i \in DOMAIN joined |-> CorrelatedOuterTargets(q, joined[i])])
        outer == AddTargets([q EXCEPT !.where = CombineAndPredicates(SelectSeq(ps, LAMBDA p : ~IsCorrelated(p, kind)))], needed)
    IN IF q.union # <<>>
       THEN [p |-> "alias", ref |-> TableRef(q.rtable[FirstSetOperationRtindex(q.union[1])]), input |-> CompileSetOperationTree(q.union[1], q)]
       ELSE IF joined = <<>> THEN SelectedPlan(q)
       ELSE IF \E i \in DOMAIN needed : Unsupported \in Sub(needed[i]) THEN Rejected
       ELSE ApplyCorrelatedJoins(SelectedPlan(outer), joined, outer)

----------------------------------------------------------------------------
(* Grouping.                                                               *)

(* The grouping sets a specification stands for, as lists of target refs.  *)
(* PostgreSQL's parser refuses a CUBE of more than 12 elements, so the     *)
(* number of its sets does not overflow.                                   *)
RECURSIVE GroupingSetLists(_)
GroupingSetLists(spec) ==
    CASE spec.k = "simple" -> <<FlattenSeq(spec.atoms)>>
      [] spec.k = "rollup" -> [i \in 1..(Len(spec.atoms) + 1) |-> FlattenSeq(SubSeq(spec.atoms, 1, Len(spec.atoms) + 1 - i))]
      [] spec.k = "cube" ->
           LET n == Len(spec.atoms)
               bit(mask, i) == (mask \div (2^(i - 1))) % 2 = 1
               set(mask) == FlattenSeq([i \in 1..n |-> IF bit(mask, i) THEN spec.atoms[i] ELSE <<>>])
           IN [i \in 1..(2^n) |-> set(2^n - i)]
      [] spec.k = "sets" -> FlattenSeq([i \in DOMAIN spec.nested |-> GroupingSetLists(spec.nested[i])])

(* Several specifications multiply.                                        *)
RECURSIVE CrossedSets(_)
CrossedSets(specs) ==
    IF specs = <<>> THEN << <<>> >>
    ELSE LET first == GroupingSetLists(Head(specs))
             rest == CrossedSets(Tail(specs))
         IN FlattenSeq([i \in DOMAIN first |-> [j \in DOMAIN rest |-> first[i] \o rest[j]]])

RECURSIVE Distinctly(_)
Distinctly(s) == IF s = <<>> THEN <<>> ELSE <<Head(s)>> \o Distinctly(SelectSeq(Tail(s), LAMBDA x : x # Head(s)))

AggregateGroupRefs(q) ==
    IF q.sets = <<>> THEN q.groups ELSE Distinctly(FlattenSeq(FlattenSeq([i \in DOMAIN q.sets |-> GroupingSetLists(q.sets[i])])))

TargetByRef(q, ref) == {i \in DOMAIN q.targets : q.targets[i].ref = ref}

TargetIndex(q, ref) == CHOOSE i \in TargetByRef(q, ref) : \A j \in TargetByRef(q, ref) : i <= j

(* The internal name of an aggregate: the k-th name of its function's base *)
(* that no group has, for the k-th call.  The bases have no name in        *)
(* common.  GROUPING keeps the name it has in the schema.                  *)
ReadableInternalAlias(calls, used, i) ==
    LET base == calls[i].op
        k == Cardinality({j \in 1..i : calls[j].op = base})
        name(n) == IF n = 1 THEN base ELSE base \o "_" \o ToString(n)
    IN SelectSeq([n \in 1..(k + Cardinality(used)) |-> name(n)], LAMBDA a : a \notin used)[k]

SchemaName(e) == IF e.t = "col" THEN e.op \o "." \o e.name ELSE e.op
GroupingName(call) == FoldLeft(LAMBDA s, a : s \o "," \o SchemaName(a), "grouping", call.args)

IsGroupTarget(q, t) == t.ref # 0 /\ t.ref \in ToSet(q.groups)

AggregatePlan(q, input) ==
    LET sets == IF q.sets = <<>> THEN <<q.groups>> ELSE CrossedSets(q.sets)
        refs == AggregateGroupRefs(q)
        targetOf(i) == q.targets[TargetIndex(q, refs[i])].e
        groups == [i \in DOMAIN refs |-> CompileExpr(targetOf(i), q, <<>>)]
        calls == Distinctly(FlattenSeq([i \in DOMAIN q.targets |-> CollectAggregateCalls(q.targets[i].e)])
                            \o FlattenSeq([i \in DOMAIN q.having |-> CollectAggregateCalls(q.having[i])]))
        groupName(i) == IF groups[i].t = "col" THEN <<groups[i].op, groups[i].name>> ELSE <<"", "group_" \o ToString(i)>>
        aggs == [i \in DOMAIN calls |-> CompileExpr(calls[i], q, <<>>)]
        used == {SchemaName(groups[i]) : i \in DOMAIN groups}
        callName(i) == IF calls[i].op = "grouping" THEN GroupingName(aggs[i]) ELSE ReadableInternalAlias(calls, used, i)
        names == [i \in DOMAIN groups |-> groupName(i)] \o [i \in DOMAIN calls |-> <<"", callName(i)>>]
        keyOf(set) == [i \in DOMAIN refs |-> refs[i] \in ToSet(set)]
        column(i) == Col(names[i][1], names[i][2], "int")
        badTarget(t) == ~IsGroupTarget(q, t) /\ ~ContainsAggregateCall(t.e) /\ ~ExprIsGroupingInvariant(t.e)
    IN IF \/ \E i \in DOMAIN q.targets : badTarget(q.targets[i])
          \/ \E i \in DOMAIN refs : TargetByRef(q, refs[i]) = {}
          \/ (calls = <<>> /\ q.groups = <<>> /\ q.sets = <<>>)
       THEN [plan |-> Rejected, B |-> <<>>]
       ELSE [plan |-> [p |-> "agg", groups |-> groups, sets |-> [i \in DOMAIN sets |-> keyOf(sets[i])], names |-> names,
                       aggs |-> aggs, input |-> input],
             B |-> [i \in DOMAIN refs |-> [e |-> targetOf(i), col |-> column(i)]]
                   \o [i \in DOMAIN calls |-> [e |-> calls[i], col |-> column(Len(refs) + i)]]]

----------------------------------------------------------------------------
(* The rest of a query: HAVING, targets, DISTINCT, ORDER BY and LIMIT.     *)

(* Repeated output names are told apart.                                   *)
DeduplicateProjectionNames(names) ==
    [i \in DOMAIN names |->
        LET k == Cardinality({j \in 1..i : names[j] = names[i]})
        IN IF k = 1 THEN names[i] ELSE <<"", names[i][2] \o "__pg_fusion_" \o ToString(k)>>]

CompileSort(q, plan) ==
    [i \in DOMAIN q.sort |->
        IF TargetByRef(q, q.sort[i].ref) = {} THEN [e |-> Unsupported, asc |-> TRUE, first |-> FALSE]
        ELSE [e |-> ColumnAt(plan, TargetIndex(q, q.sort[i].ref)), asc |-> q.sort[i].asc, first |-> q.sort[i].first]]

VisibleIndexes(q) == SelectSeq([i \in DOMAIN q.targets |-> i], LAMBDA i : ~q.targets[i].junk)

DistinctOnPlan(q, plan) ==
    IF \E i \in DOMAIN q.on : TargetByRef(q, q.on[i]) = {} THEN Rejected
    ELSE [p |-> "on", on |-> [i \in DOMAIN q.on |-> ColumnAt(plan, TargetIndex(q, q.on[i]))], sort |-> CompileSort(q, plan),
          select |-> [i \in DOMAIN VisibleIndexes(q) |-> ColumnAt(plan, VisibleIndexes(q)[i])], input |-> plan]

DistinctIsRedundantAfterGlobalAggregate(q) == q.aggs /\ q.groups = <<>>

RECURSIVE CompileLimitBound(_)
CompileLimitBound(e) ==
    CASE e.t = "lit" -> e
      [] e.t = "relabel" -> CompileLimitBound(e.args[1])
      [] OTHER -> Unsupported

LimitBoundIsZero(e) == CompileLimitBound(e).t = "lit" /\ CompileLimitBound(e).v = 0

ProjectTargets(q, plan, B) ==
    LET all == q.distinct = "on" \/ q.sort # <<>>
        ts == SelectSeq(q.targets, LAMBDA t : all \/ ~t.junk)
        a == AttachScalarSubqueries(plan, [i \in DOMAIN ts |-> ts[i].e], <<>>)
        exprs == [i \in DOMAIN ts |-> CompileExpr(ts[i].e, q, B \o a.B)]
        name(i) == IF ts[i].name = "" /\ exprs[i].t = "col" THEN <<exprs[i].op, exprs[i].name>> ELSE <<"", ts[i].name>>
    IN [p |-> "project", exprs |-> exprs, names |-> DeduplicateProjectionNames([i \in DOMAIN ts |-> name(i)]), input |-> a.plan]

SortAndLimit(q, plan) ==
    LET sorted == IF q.sort = <<>> \/ q.distinct = "on" THEN plan
                  ELSE [p |-> "sort", keys |-> CompileSort(q, plan), input |-> plan]
        skip == SelectSeq(q.offset, LAMBDA e : ~LimitBoundIsZero(e))
    IN IF q.limit = <<>> /\ skip = <<>> THEN sorted
       ELSE [p |-> "limit", skip |-> [i \in DOMAIN skip |-> CompileLimitBound(skip[i])],
             fetch |-> [i \in DOMAIN q.limit |-> CompileLimitBound(q.limit[i])], input |-> sorted]

VisibleOnly(q, plan) ==
    LET is == VisibleIndexes(q)
        exprs == [i \in DOMAIN is |-> ColumnAt(plan, is[i])]
    IN IF q.sort = <<>> \/ q.distinct = "on" \/ Len(is) = Len(q.targets) THEN plan
       ELSE [p |-> "project", exprs |-> exprs, names |-> [i \in DOMAIN is |-> Schema(plan)[is[i]]], input |-> plan]

IdentifiersFit(q) ==
    \A i \in DOMAIN q.rtable : q.rtable[i].kind = "rel" => {q.rtable[i].schema, q.rtable[i].table} \cap LongNames = {}

CompileQuery(q) ==
    LET base == BasePlan(q)
        grouped == IF q.aggs \/ q.groups # <<>> \/ q.having # <<>> \/ q.sets # <<>>
                   THEN AggregatePlan(q, base) ELSE [plan |-> base, B |-> <<>>]
        kept == IF q.having = <<>> THEN grouped.plan ELSE FilterPlan(grouped.plan, q.having[1], q, grouped.B)
        projected == ProjectTargets(q, kept, grouped.B)
        distinct == CASE q.distinct = "row" /\ ~DistinctIsRedundantAfterGlobalAggregate(q) -> [p |-> "distinct", input |-> projected]
                      [] q.distinct = "on" -> DistinctOnPlan(q, projected)
                      [] OTHER -> projected
    IN IF ~IdentifiersFit(q) \/ grouped.plan.p = "rejected" THEN Rejected ELSE VisibleOnly(q, SortAndLimit(q, distinct))
=============================================================================
