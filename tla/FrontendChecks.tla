--------------------------- MODULE FrontendChecks ---------------------------
(***************************************************************************)
(* Checks of the SQL frontend's compiler: what a compiled plan returns     *)
(* (external: DataFusion's operators, and PostgreSQL's for the filters of  *)
(* a scan) against what the query means in PostgreSQL, over small queries  *)
(* and small databases.                                                    *)
(***************************************************************************)
EXTENDS FrontendQuery

CONSTANTS Null,     \* SQL's NULL
          Failed    \* a query or an expression that raises an error

Bool(b) == IF b THEN 1 ELSE 0
Cross(S, T) == FlattenSeq([i \in DOMAIN S |-> [j \in DOMAIN T |-> <<S[i], T[j]>>]])
Indexes(s) == [i \in DOMAIN s |-> i]
RECURSIVE SumOf(_)
SumOf(s) == IF s = <<>> THEN 0 ELSE Head(s) + SumOf(Tail(s))
Maximum(s) == CHOOSE x \in ToSet(s) : \A y \in ToSet(s) : y <= x
Minimum(s) == CHOOSE x \in ToSet(s) : \A y \in ToSet(s) : x <= y
SameBag(s, t) == Len(s) = Len(t) /\ \A x \in ToSet(s) : Cardinality({i \in DOMAIN s : s[i] = x}) = Cardinality({i \in DOMAIN t : t[i] = x})

----------------------------------------------------------------------------
(* Operators on values.  Text in the default collation sorts unlike its    *)
(* bytes; in another collation values equal up to v \div 2; the last bit   *)
(* of a bpchar value is its padding.                                       *)

AndOf(s) == IF 0 \in ToSet(s) THEN 0 ELSE IF Null \in ToSet(s) THEN Null ELSE 1
OrOf(s) == IF 1 \in ToSet(s) THEN 1 ELSE IF Null \in ToSet(s) THEN Null ELSE 0
NotOf(v) == IF v = Null THEN Null ELSE 1 - v

SameValue(a, b, ty, pg) == IF ty \in {"coll", "bpchar"} /\ pg THEN a \div 2 = b \div 2 ELSE a = b

Binary(op, a, b, ty, pg) ==
    CASE op = "distinct" -> Bool(IF a = Null \/ b = Null THEN a # b ELSE ~SameValue(a, b, ty, pg))
      [] op # "distinct" /\ (a = Null \/ b = Null) -> Null
      [] op = "=" -> Bool(SameValue(a, b, ty, pg))
      [] op = "<" -> Bool(IF ty \in TextTypes /\ pg THEN b < a ELSE a < b)
      [] op = "~" -> Bool(IF pg THEN a >= b ELSE a > b)
      [] op = "+" -> a + b

Call(fn, v, ty, pg) == IF v = Null THEN Null ELSE IF ty = "bpchar" /\ pg /\ fn # "length" THEN v \div 2 ELSE v

(* An aggregate over the values of its argument; rows where every argument *)
(* counts have the value 1 for count without arguments.                    *)
Aggregated(op, distinct, vs) ==
    LET some == SelectSeq(vs, LAMBDA v : v # Null)
        used == IF distinct THEN SetToSeq(ToSet(some)) ELSE some
    IN CASE op = "count" -> Len(used)
         [] op = "value" -> IF Len(vs) > 1 THEN Failed ELSE IF vs = <<>> THEN Null ELSE vs[1]
         [] op # "count" /\ used = <<>> -> Null
         [] op = "sum" -> SumOf(used)
         [] op = "max" -> Maximum(used)
         [] op = "min" -> Minimum(used)

Membership(v, vs) == IF vs = <<>> THEN 0 ELSE OrOf([i \in DOMAIN vs |-> Binary("=", v, vs[i], "int", TRUE)])

(* Null sorts above every value unless it comes first.                     *)
Before(a, b, k) ==
    IF a = Null \/ b = Null THEN a # b /\ (a = Null) = k.first ELSE IF k.asc THEN a < b ELSE b < a

RECURSIVE KeysBefore(_, _, _)
KeysBefore(a, b, keys) ==
    keys # <<>> /\ (Before(Head(a), Head(b), Head(keys)) \/ (Head(a) = Head(b) /\ KeysBefore(Tail(a), Tail(b), Tail(keys))))

(* A stable sort of the rows by the key tuples ks.                         *)
Sorted(rows, ks, keys) ==
    LET rank(i) == Cardinality({j \in DOMAIN rows : KeysBefore(ks[j], ks[i], keys) \/ (ks[j] = ks[i] /\ j <= i)})
    IN [n \in DOMAIN rows |-> rows[CHOOSE i \in DOMAIN rows : rank(i) = n]]

FirstsOf(rows, ks) ==
    LET is == SelectSeq([i \in DOMAIN rows |-> i], LAMBDA i : \A j \in 1..(i - 1) : ks[j] # ks[i])
    IN [n \in DOMAIN is |-> rows[is[n]]]

Window(rows, skip, fetch) ==
    LET from == IF skip = <<>> THEN 0 ELSE IF skip[1] = Null THEN 0 ELSE skip[1]
        to == IF fetch = <<>> THEN Len(rows) ELSE IF fetch[1] = Null THEN Len(rows) ELSE from + fetch[1]
    IN SubSeq(rows, from + 1, IF to < Len(rows) THEN to ELSE Len(rows))

----------------------------------------------------------------------------
(* Which plans run: no rejected part, and every column found exactly once. *)

ExprsOf(plan) ==
    CASE plan.p = "filter" -> {plan.pred}
      [] plan.p \in {"agg"} -> ToSet(plan.groups) \cup UNION {ToSet(Kids(a)) : a \in ToSet(plan.aggs)}
      [] plan.p = "project" -> ToSet(plan.exprs)
      [] plan.p = "on" -> ToSet(plan.on \o plan.select) \cup {plan.sort[i].e : i \in DOMAIN plan.sort}
      [] plan.p = "sort" -> {plan.keys[i].e : i \in DOMAIN plan.keys}
      [] plan.p = "limit" -> ToSet(plan.skip \o plan.fetch)
      [] OTHER -> {}

Distincts(S) == \A i, j \in DOMAIN S : S[i] = S[j] => i = j

(* A column without a relation is looked for in all of them.               *)
Names(field, e) == field[2] = e.name /\ e.op \in {"", field[1]}

RECURSIVE Runs(_, _)
Resolves(e, S, outer) ==
    \A s \in Sub(e) :
        /\ s.t \notin {"unsupported", "agg"}
        /\ s.t = "col" => Cardinality({i \in DOMAIN S : Names(S[i], s)}) = 1
        /\ s.t = "outref" => outer # <<>> /\ \E i \in DOMAIN outer[1] : Names(outer[1][i], s)
        /\ \A i \in DOMAIN s.plan : Runs(s.plan[i], <<S>>) /\ (s.t = "scalar" => Len(Schema(s.plan[i])) = 1)

Runs(plan, outer) ==
    CASE plan.p = "rejected" -> FALSE
      [] plan.p = "empty" -> TRUE
      [] plan.p = "values" -> \A i \in DOMAIN plan.rows : \A j \in DOMAIN plan.rows[i] : Resolves(plan.rows[i][j], <<>>, outer)
      [] plan.p = "scan" ->
           \A i \in DOMAIN plan.filters : Resolves(plan.filters[i], [c \in DOMAIN plan.cols |-> <<plan.ref, plan.cols[c]>>], <<>>)
      [] plan.p = "join" ->
           /\ Runs(plan.left, outer) /\ Runs(plan.right, outer)
           /\ plan.kind # "semi" => Distincts(Schema(plan))
           /\ \A i \in DOMAIN plan.on : Resolves(plan.on[i][1], Schema(plan.left), <<>>) /\ Resolves(plan.on[i][2], Schema(plan.right), <<>>)
           /\ \A i \in DOMAIN plan.filter : Resolves(plan.filter[i], Schema(plan.left) \o Schema(plan.right), outer)
      [] plan.p = "union" ->
           Runs(plan.left, outer) /\ Runs(plan.right, outer) /\ Len(Schema(plan.left)) = Len(Schema(plan.right))
      [] OTHER ->
           /\ Runs(plan.input, outer)
           /\ Distincts(Schema(plan))
           /\ plan.p = "agg" => \A i \in DOMAIN plan.aggs : plan.aggs[i].t = "agg"
           /\ \A e \in ExprsOf(plan) : Resolves(e, Schema(plan.input), outer)

----------------------------------------------------------------------------
(* What a plan returns.  env is the row an outer reference reads.          *)

OpType(e) ==
    LET ts == {e.args[i].ty : i \in DOMAIN e.args} \ {"int"} IN IF ts = {} THEN "int" ELSE CHOOSE ty \in ts : TRUE

At(S, e) == CHOOSE i \in DOMAIN S : Names(S[i], e)

(* The value of a node that is neither a leaf nor a subquery.              *)
Applied(e, vs, pg) ==
    CASE Failed \in ToSet(vs) -> Failed
      [] Failed \notin ToSet(vs) /\ e.t = "op" -> Binary(e.op, vs[1], vs[2], OpType(e), pg)
      [] Failed \notin ToSet(vs) /\ e.t = "and" -> AndOf(vs)
      [] Failed \notin ToSet(vs) /\ e.t = "or" -> OrOf(vs)
      [] Failed \notin ToSet(vs) /\ e.t = "not" -> NotOf(vs[1])
      [] Failed \notin ToSet(vs) /\ e.t = "isnull" -> Bool(vs[1] = Null)
      [] Failed \notin ToSet(vs) /\ e.t = "isnotnull" -> Bool(vs[1] # Null)
      [] Failed \notin ToSet(vs) /\ e.t = "istrue" -> Bool(vs[1] = 1)
      [] Failed \notin ToSet(vs) /\ e.t = "isnottrue" -> Bool(vs[1] # 1)
      [] Failed \notin ToSet(vs) /\ e.t = "isfalse" -> Bool(vs[1] = 0)
      [] Failed \notin ToSet(vs) /\ e.t = "isnotfalse" -> Bool(vs[1] # 0)
      [] Failed \notin ToSet(vs) /\ e.t = "isunknown" -> Bool(vs[1] = Null)
      [] Failed \notin ToSet(vs) /\ e.t = "isnotunknown" -> Bool(vs[1] # Null)
      [] Failed \notin ToSet(vs) /\ e.t = "booltest" ->
           Bool(vs[1] \in (CASE e.op = "IsTrue" -> {1} [] e.op = "IsNotTrue" -> {0, Null} [] e.op = "IsFalse" -> {0}
                             [] e.op = "IsNotFalse" -> {1, Null} [] e.op = "IsUnknown" -> {Null} [] OTHER -> {0, 1}))
      [] Failed \notin ToSet(vs) /\ e.t \in {"relabel", "cast"} -> vs[1]
      [] Failed \notin ToSet(vs) /\ e.t = "key" -> IF vs[1] = Null THEN Null ELSE vs[1] \div 2
      [] Failed \notin ToSet(vs) /\ e.t = "fn" -> Call(e.op, vs[1], e.args[1].ty, pg)
      [] Failed \notin ToSet(vs) /\ e.t = "coalesce" ->
           LET some == SelectSeq(vs, LAMBDA v : v # Null) IN IF some = <<>> THEN Null ELSE some[1]
      [] Failed \notin ToSet(vs) /\ e.t = "case" ->
           LET is == {i \in 1..(Len(vs) \div 2) : vs[2 * i - 1] = 1}
           IN IF is = {} THEN vs[Len(vs)] ELSE vs[2 * Minimum(SetToSeq(is))]

Column(rows) == [i \in DOMAIN rows |-> rows[i][1]]

SubqueryValue(t, vs, rows) ==
    CASE t = "exists" -> Bool(rows # <<>>)
      [] t = "in" -> Membership(vs[1], Column(rows))
      [] t = "scalar" -> Aggregated("value", FALSE, Column(rows))

(* A list of rows, or a failure when a computed value is one.              *)
Result(computed, rows) == IF \E i \in DOMAIN computed : Failed \in ToSet(computed[i]) THEN Failed ELSE rows

RECURSIVE Exec(_, _, _), Value(_, _, _, _, _, _)
Value(e, S, r, env, db, pg) ==
    LET vs == [i \in DOMAIN e.args |-> Value(e.args[i], S, r, env, db, pg)]
        rows == Exec(e.plan[1], <<[S |-> S, r |-> r]>>, db)
    IN CASE e.t = "lit" -> e.v
         [] e.t = "col" -> r[At(S, e)]
         [] e.t = "outref" -> env[1].r[At(env[1].S, e)]
         [] e.t \in {"exists", "in", "scalar"} ->
              IF rows = Failed THEN Failed
              ELSE SubqueryValue(e.t, vs, rows)
         [] OTHER -> Applied(e, vs, pg)

ExecJoin(plan, L, R, env, db) ==
    LET SL == Schema(plan.left)
        SR == Schema(plan.right)
        val(e, S, r) == Value(e, S, r, env, db, FALSE)
        holds(l, r) ==
            /\ \A i \in DOMAIN plan.on : Binary("=", val(plan.on[i][1], SL, l), val(plan.on[i][2], SR, r), "int", FALSE) = 1
            /\ \A i \in DOMAIN plan.filter : val(plan.filter[i], SL \o SR, l \o r) = 1
        matched == SelectSeq(Cross(Indexes(L), Indexes(R)), LAMBDA p : holds(L[p[1]], R[p[2]]))
        pairs == [i \in DOMAIN matched |-> L[matched[i][1]] \o R[matched[i][2]]]
        lonely(D, k) == SelectSeq([i \in D |-> i], LAMBDA i : \A m \in DOMAIN matched : matched[m][k] # i)
        nulls(S) == [i \in DOMAIN S |-> Null]
        lefts == [i \in DOMAIN lonely(DOMAIN L, 1) |-> L[lonely(DOMAIN L, 1)[i]] \o nulls(SR)]
        rights == [i \in DOMAIN lonely(DOMAIN R, 2) |-> nulls(SL) \o R[lonely(DOMAIN R, 2)[i]]]
    IN CASE plan.kind = "inner" -> pairs
         [] plan.kind = "left" -> pairs \o lefts
         [] plan.kind = "full" -> pairs \o lefts \o rights
         [] plan.kind = "semi" -> SelectSeq(L, LAMBDA l : \E j \in DOMAIN R : holds(l, R[j]))

(* One row for each group of each grouping set.                            *)
ExecAggregate(plan, rows, S, env, db) ==
    LET val(e, r) == Value(e, S, r, env, db, FALSE)
        keyed(set) == [i \in DOMAIN rows |-> [g \in DOMAIN plan.groups |-> IF set[g] THEN val(plan.groups[g], rows[i]) ELSE Null]]
        bits(a, set) == [i \in DOMAIN a.args |-> Bool(~set[CHOOSE g \in DOMAIN plan.groups : plan.groups[g] = a.args[i]])]
        members(ks, k) == SelectSeq([i \in DOMAIN rows |-> i], LAMBDA i : ks[i] = k)
        used(a, is) == SelectSeq(is, LAMBDA i : \A f \in DOMAIN a.filter : val(a.filter[f], rows[i]) = 1)
        agg(a, set, is) == IF a.op = "grouping" THEN FoldLeft(LAMBDA x, b : 2 * x + b, 0, bits(a, set))
                           ELSE Aggregated(a.op, a.distinct, [n \in DOMAIN used(a, is) |-> IF a.args = <<>> THEN 1 ELSE val(a.args[1], rows[used(a, is)[n]])])
        row(set, ks, k) == k \o [j \in DOMAIN plan.aggs |-> agg(plan.aggs[j], set, members(ks, k))]
        keys(set) == IF \A g \in DOMAIN set : ~set[g] THEN <<[g \in DOMAIN plan.groups |-> Null]>> ELSE Distinctly(keyed(set))
    IN FlattenSeq([s \in DOMAIN plan.sets |-> [n \in DOMAIN keys(plan.sets[s]) |-> row(plan.sets[s], keyed(plan.sets[s]), keys(plan.sets[s])[n])]])

Exec(plan, env, db) ==
    LET in == Exec(plan.input, env, db)
        S == Schema(plan.input)
        L == Exec(plan.left, env, db)
        R == Exec(plan.right, env, db)
        val(e, r) == Value(e, S, r, env, db, FALSE)
        mapped(es) == [i \in DOMAIN in |-> [j \in DOMAIN es |-> val(es[j], in[i])]]
        keysOf(ks) == mapped([i \in DOMAIN ks |-> ks[i].e])
    IN CASE plan.p = "empty" -> << <<>> >>
         [] plan.p = "values" -> [i \in DOMAIN plan.rows |-> [j \in DOMAIN plan.rows[i] |-> Value(plan.rows[i][j], <<>>, <<>>, env, db, FALSE)]]
         [] plan.p = "scan" ->
              LET all == [c \in DOMAIN plan.cols |-> <<plan.ref, plan.cols[c]>>]
                  kept == SelectSeq(db[plan.table], LAMBDA r : \A i \in DOMAIN plan.filters : Value(plan.filters[i], all, r, <<>>, db, TRUE) = 1)
                  is == SelectSeq([c \in DOMAIN plan.cols |-> c], LAMBDA c : c \in plan.proj)
              IN [i \in DOMAIN kept |-> [j \in DOMAIN is |-> kept[i][is[j]]]]
         [] plan.p \in {"join", "union"} ->
              IF L = Failed \/ R = Failed THEN Failed ELSE IF plan.p = "union" THEN L \o R ELSE ExecJoin(plan, L, R, env, db)
         [] OTHER ->
              IF in = Failed THEN Failed
              ELSE CASE plan.p = "alias" -> in
                     [] plan.p = "filter" -> Result(mapped(<<plan.pred>>), SelectSeq(in, LAMBDA r : val(plan.pred, r) = 1))
                     [] plan.p = "agg" -> LET rows == ExecAggregate(plan, in, S, env, db) IN Result(rows, rows)
                     [] plan.p = "project" -> Result(mapped(plan.exprs), mapped(plan.exprs))
                     [] plan.p = "distinct" -> Distinctly(in)
                     [] plan.p = "sort" -> Sorted(in, keysOf(plan.keys), plan.keys)
                     [] plan.p = "limit" -> Window(in, [i \in DOMAIN plan.skip |-> plan.skip[i].v], [i \in DOMAIN plan.fetch |-> plan.fetch[i].v])
                     [] plan.p = "on" ->
                          LET order == Sorted([i \in DOMAIN in |-> i], keysOf(plan.sort), plan.sort)
                              ks == [n \in DOMAIN order |-> mapped(plan.on)[order[n]]]
                          IN FirstsOf([n \in DOMAIN order |-> mapped(plan.select)[order[n]]], ks)

----------------------------------------------------------------------------
(* What a query means.  A frame is the current row of one query level: the *)
(* tuples of its range table entries, the rows of its group and the values *)
(* of its grouped expressions.                                             *)

Frame(row) == [row |-> row, members |-> <<>>, keys |-> <<>>]

RECURSIVE Sql(_, _, _), Eval(_, _, _)
Eval(e, F, db) ==
    LET vs == [i \in DOMAIN e.args |-> Eval(e.args[i], F, db)]
        rows == Sql(e.q[1], F, db)
        keys == SelectSeq(F[1].keys, LAMBDA k : k.e = e)
        at(m) == <<Frame(m)>> \o Tail(F)
        used == SelectSeq(F[1].members, LAMBDA m : \A f \in DOMAIN e.filter : Eval(e.filter[f], at(m), db) = 1)
        grouped(a) == \E i \in DOMAIN F[1].keys : F[1].keys[i].e = a /\ F[1].keys[i].grouped
    IN IF keys # <<>> THEN keys[1].v
       ELSE CASE e.t = "lit" -> e.v
              [] e.t = "var" -> F[1].row[e.rt][e.col]
              [] e.t = "outer" -> F[1 + e.lv].row[e.rt][e.col]
              [] e.t = "agg" ->
                   IF e.op = "grouping" THEN FoldLeft(LAMBDA x, a : 2 * x + Bool(~grouped(a)), 0, e.args)
                   ELSE Aggregated(e.op, e.distinct, [i \in DOMAIN used |-> IF e.args = <<>> THEN 1 ELSE Eval(e.args[1], at(used[i]), db)])
              [] e.t \in {"exists", "in", "scalar"} ->
                   IF rows = Failed THEN Failed
                   ELSE SubqueryValue(e.t, vs, rows)
              [] OTHER -> Applied(e, vs, TRUE)

(* The rows of a FROM item: functions from range table index to tuple.     *)
RECURSIVE FromRows(_, _, _, _), UnionRows(_, _, _, _)
FromRows(q, item, F, db) ==
    LET entry == q.rtable[item.rt]
        tuples == CASE entry.kind = "rel" -> db[entry.table]
                    [] entry.kind = "values" -> [i \in DOMAIN entry.rows |-> [j \in DOMAIN entry.rows[i] |-> Eval(entry.rows[i][j], <<Frame(<<>>)>> \o F, db)]]
                    [] entry.kind = "cte" -> Sql(SelectSeq(q.ctes, LAMBDA d : d.id = entry.id)[1].q, F, db)
                    [] OTHER -> Sql(entry.q[1], F, db)
        L == FromRows(q, item.left, F, db)
        R == FromRows(q, item.right, F, db)
        holds(l, r) == \A i \in DOMAIN item.quals : Eval(item.quals[i], <<Frame(l @@ r)>> \o F, db) = 1
        nulls(side) == [r \in FromRtindexes(side) |-> [c \in DOMAIN q.rtable[r].cols |-> Null]]
        matched == SelectSeq(Cross(L, R), LAMBDA p : holds(p[1], p[2]))
        aloneLeft == SelectSeq(L, LAMBDA l : \A j \in DOMAIN R : ~holds(l, R[j]))
        aloneRight == SelectSeq(R, LAMBDA r : \A i \in DOMAIN L : ~holds(L[i], r))
    IN CASE item.k = "empty" -> << <<>> >>
         [] item.k = "leaf" -> [i \in DOMAIN tuples |-> item.rt :> tuples[i]]
         [] item.k = "join" ->
              [i \in DOMAIN matched |-> matched[i][1] @@ matched[i][2]]
              \o (IF item.kind \in {"left", "full"} THEN [i \in DOMAIN aloneLeft |-> aloneLeft[i] @@ nulls(item.right)] ELSE <<>>)
              \o (IF item.kind \in {"right", "full"} THEN [i \in DOMAIN aloneRight |-> aloneRight[i] @@ nulls(item.left)] ELSE <<>>)

UnionRows(q, tree, F, db) ==
    IF tree.k = "range" THEN Sql(q.rtable[tree.rt].q[1], F, db)
    ELSE LET both == UnionRows(q, tree.left, F, db) \o UnionRows(q, tree.right, F, db)
         IN IF tree.all THEN both ELSE Distinctly(both)

(* The frames a query's targets are computed in: its rows, or its groups.  *)
Grouped(q) == q.aggs \/ q.groups # <<>> \/ q.having # <<>> \/ q.sets # <<>>

GroupFrames(q, rows, F, db) ==
    LET sets == IF q.sets = <<>> THEN <<q.groups>> ELSE CrossedSets(q.sets)
        exprOf(ref) == q.targets[TargetIndex(q, ref)].e
        val(ref, r) == Eval(exprOf(ref), <<Frame(r)>> \o F, db)
        key(set, r) == [i \in DOMAIN q.groups |-> IF q.groups[i] \in ToSet(set) THEN val(q.groups[i], r) ELSE Null]
        keys(set) == IF set = <<>> THEN <<[i \in DOMAIN q.groups |-> Null]>> ELSE Distinctly([i \in DOMAIN rows |-> key(set, rows[i])])
        frame(set, k) == [row |-> <<>>, members |-> SelectSeq(rows, LAMBDA r : key(set, r) = k),
                          keys |-> [i \in DOMAIN q.groups |-> [e |-> exprOf(q.groups[i]), v |-> k[i], grouped |-> q.groups[i] \in ToSet(set)]]]
    IN FlattenSeq([s \in DOMAIN sets |-> [n \in DOMAIN keys(sets[s]) |-> frame(sets[s], keys(sets[s])[n])]])

Sql(q, F, db) ==
    LET source == IF q.union = <<>> THEN FromRows(q, q.from, F, db)
                  ELSE LET u == UnionRows(q, q.union[1], F, db) IN [i \in DOMAIN u |-> FirstSetOperationRtindex(q.union[1]) :> u[i]]
        under(f) == <<f>> \o F
        where(r) == \A i \in DOMAIN q.where : Eval(q.where[i], under(Frame(r)), db) = 1
        failed(r) == \E i \in DOMAIN q.where : Eval(q.where[i], under(Frame(r)), db) = Failed
        rows == SelectSeq(source, where)
        frames == IF Grouped(q) THEN GroupFrames(q, rows, F, db) ELSE [i \in DOMAIN rows |-> Frame(rows[i])]
        kept == SelectSeq(frames, LAMBDA f : \A i \in DOMAIN q.having : Eval(q.having[i], under(f), db) = 1)
        computed == [i \in DOMAIN kept |-> [t \in DOMAIN q.targets |-> Eval(q.targets[t].e, under(kept[i]), db)]]
        visible(r) == [n \in DOMAIN VisibleIndexes(q) |-> r[VisibleIndexes(q)[n]]]
        sortKey(r) == [k \in DOMAIN q.sort |-> r[TargetIndex(q, q.sort[k].ref)]]
        sorted == Sorted(computed, [i \in DOMAIN computed |-> sortKey(computed[i])], q.sort)
        onKey(r) == [k \in DOMAIN q.on |-> r[TargetIndex(q, q.on[k])]]
        distinct == CASE q.distinct = "on" -> FirstsOf(sorted, [i \in DOMAIN sorted |-> onKey(sorted[i])])
                      [] q.distinct = "row" -> FirstsOf(sorted, [i \in DOMAIN sorted |-> visible(sorted[i])])
                      [] OTHER -> sorted
        bounded == Window(distinct, [i \in DOMAIN q.offset |-> Eval(q.offset[i], under(Frame(<<>>)), db)],
                          [i \in DOMAIN q.limit |-> Eval(q.limit[i], under(Frame(<<>>)), db)])
    IN IF source = Failed THEN Failed
       ELSE IF (\E i \in DOMAIN source : failed(source[i])) \/ \E i \in DOMAIN computed : Failed \in ToSet(computed[i]) THEN Failed
       ELSE [i \in DOMAIN bounded |-> visible(bounded[i])]

----------------------------------------------------------------------------
(* Queries.                                                                *)

V(r, c) == [E0 EXCEPT !.t = "var", !.rt = r, !.col = c]
Typed(e, ty) == [e EXCEPT !.ty = ty]
Lit(n) == [E0 EXCEPT !.v = n]
Op(op, a, b) == [E0 EXCEPT !.t = "op", !.op = op, !.args = <<a, b>>]
Outer(entry, r, c, lv) == [E0 EXCEPT !.t = "outer", !.op = TableRef(entry), !.name = entry.cols[c], !.rt = r, !.col = c, !.lv = lv]
Agg(op, args) == [E0 EXCEPT !.t = "agg", !.op = op, !.args = args]
SubExpr(t, args, q) == [E0 EXCEPT !.t = t, !.args = args, !.q = <<q>>]
Exists(q) == SubExpr("exists", <<>>, q)
In(e, q) == SubExpr("in", <<e>>, q)
Scalar(q) == SubExpr("scalar", <<>>, q)

Rel(table, alias) == [kind |-> "rel", table |-> table, schema |-> "public", alias |-> alias, full |-> "public." \o table, cols |-> <<"a", "b">>, q |-> <<>>, rows |-> <<>>, id |-> 0]
Derived(alias, cols, q) == [Rel("", alias) EXCEPT !.kind = "sub", !.cols = cols, !.q = <<q>>]
CteRef(alias, cols, id) == [Rel("", alias) EXCEPT !.kind = "cte", !.cols = cols, !.id = id]
ValuesOf(alias, rows) == [Rel("", alias) EXCEPT !.kind = "values", !.rows = rows]
Leaf(r) == [k |-> "leaf", rt |-> r]
JoinOf(kind, l, r, quals) == [k |-> "join", kind |-> kind, left |-> l, right |-> r, quals |-> quals]
T(e, name) == [e |-> e, name |-> name, ref |-> 0, junk |-> FALSE]
Ref(t, n) == [t EXCEPT !.ref = n]
Junk(t) == [t EXCEPT !.junk = TRUE]
Key(n) == [ref |-> n, asc |-> TRUE, first |-> FALSE]
Simple(atoms) == [k |-> "simple", atoms |-> atoms]

Q0 == [rtable |-> <<Rel("t", "x")>>, from |-> Leaf(1), where |-> <<>>, having |-> <<>>, limit |-> <<>>, offset |-> <<>>,
       targets |-> <<T(V(1, 1), "a"), T(V(1, 2), "b")>>, groups |-> <<>>, sets |-> <<>>, sort |-> <<>>, distinct |-> "none",
       on |-> <<>>, union |-> <<>>, ctes |-> <<>>, aggs |-> FALSE]
Where(q, e) == [q EXCEPT !.where = <<e>>]
Select(q, ts) == [q EXCEPT !.targets = ts]

Accepted(Q) == {[q |-> q, ok |-> TRUE] : q \in Q}
Refused(Q) == {[q |-> q, ok |-> FALSE] : q \in Q}

(* Joins of two and three relations, filtered above the join.              *)
Joined(kind, quals) ==
    [Q0 EXCEPT !.rtable = <<Rel("t", "x"), Rel("s", "y")>>, !.from = JoinOf(kind, Leaf(1), Leaf(2), quals),
               !.targets = <<T(V(1, 1), "a"), T(V(1, 2), "b"), T(V(2, 1), "a"), T(V(2, 2), "d")>>]
Equi == Op("=", V(1, 1), V(2, 1))
JoinQuals == {<<>>, <<Equi>>, <<Op("=", V(2, 1), V(1, 1))>>, <<Node("and", <<Equi, Op("<", V(2, 2), Lit(2))>>)>>, <<Op("<", V(1, 1), V(2, 2))>>}
JoinFilters == {Op("=", V(1, 2), Lit(1)), Op("=", V(2, 2), Lit(1)), Node("isnull", <<V(2, 1)>>), Node("isnull", <<V(1, 1)>>),
                Op("<", V(1, 1), V(2, 2)), Node("and", <<Op("=", V(1, 2), Lit(1)), Op("distinct", V(2, 2), Lit(1))>>),
                Op("=", Node("coalesce", <<V(2, 2), Lit(1)>>), Lit(1))}
Kinds == {"inner", "left", "right", "full"}
BoolTest(k, e) == [E0 EXCEPT !.t = "booltest", !.op = k, !.args = <<e>>]
TestKinds == DOMAIN BooleanTestExprs
JoinQueries == Accepted({Where(Joined(k, quals), f) : k \in Kinds, quals \in JoinQuals, f \in JoinFilters})

Three(k1, k2) ==
    [Q0 EXCEPT !.rtable = <<Rel("t", "x"), Rel("s", "y"), Rel("t", "z")>>,
               !.from = JoinOf(k1, JoinOf(k2, Leaf(1), Leaf(2), <<Equi>>), Leaf(3), <<Op("=", V(2, 2), V(3, 2))>>),
               !.targets = <<T(V(1, 1), "a"), T(V(3, 2), "c")>>]
Nested(k1, k2) == [Three(k1, k2) EXCEPT !.from = JoinOf(k1, Leaf(3), JoinOf(k2, Leaf(1), Leaf(2), <<Equi>>), <<Op("=", V(3, 2), V(2, 2))>>)]
ThreeQueries == Accepted({Where(shape, f) : shape \in {Three(k1, k2) : k1, k2 \in Kinds} \cup {Nested(k1, k2) : k1, k2 \in {"right", "left"}},
                                            f \in {Op("=", V(2, 2), Lit(1)), Node("isnull", <<V(3, 1)>>)}})

(* Text: pushed into a scan, or refused above it.                          *)
TextFilters(r) == {Op(o, Typed(V(r, 2), "text"), Typed(Lit(1), "text")) : o \in {"<", "~"}}
                  \cup {Op(o, Typed(V(r, 2), "coll"), Typed(Lit(2), "coll")) : o \in {"=", "distinct"}}
                  \cup {Op("=", [E0 EXCEPT !.t = "fn", !.op = "upper", !.args = <<Typed(V(r, 2), "bpchar")>>], Lit(1))}
TextAcrossSides == Op("<", Typed(V(1, 2), "text"), Typed(V(2, 2), "text"))
Padded(a, b) == Op("=", Typed(a, "bpchar"), Typed(b, "bpchar"))
TextQueries ==
    Accepted({Where(Q0, f) : f \in TextFilters(1)}
             \cup {Where(Joined(k, <<Equi>>), f) : k \in {"inner", "left"}, f \in TextFilters(1)}
             \cup {Where(Joined("right", <<Equi>>), f) : f \in TextFilters(2)}
             \cup {Joined(k, <<Padded(V(1, 2), V(2, 2))>>) : k \in Kinds}
             \cup {Where(Joined(k, <<>>), Padded(V(1, 2), V(2, 2))) : k \in Kinds})
    \cup Refused({Where(Joined(k, <<Equi>>), f) : k \in {"left", "full"}, f \in TextFilters(2)}
                 \cup {Where(Joined("inner", <<Equi>>), TextAcrossSides)}
                 \cup {Where([Q0 EXCEPT !.rtable = <<Derived("d", <<"a", "b">>, Q0)>>], f) : f \in TextFilters(1)})

(* Subqueries.  The inner query reads s as y; its outer references are to  *)
(* x, the relation t of the outer query.                                   *)
X(c) == Outer(Rel("t", "x"), 1, c, 1)
Inner == [Q0 EXCEPT !.rtable = <<Rel("s", "y")>>, !.targets = <<T(V(1, 2), "b")>>]
Correlations == {Op("=", V(1, 1), X(1)), Op("=", X(1), Node("relabel", <<V(1, 1)>>)), Op("<", V(1, 2), X(2)),
                 Node("and", <<Op("=", V(1, 1), X(1)), Op("=", V(1, 2), Lit(1))>>),
                 Node("and", <<Op("=", V(1, 1), X(1)), Op("<", X(2), V(1, 2))>>),
                 Op("=", V(1, 1), Node("cast", <<X(1)>>)), Op("=", V(1, 1), [X(1) EXCEPT !.op = ""])}
Maximal(q) == [q EXCEPT !.targets = <<T(Agg("max", <<V(1, 2)>>), "m")>>, !.aggs = TRUE]
Counted(q) == [q EXCEPT !.targets = <<T(Agg("count", <<>>), "n")>>, !.aggs = TRUE]
Tests(q) == {Exists(q), Node("not", <<Exists(q)>>), In(V(1, 2), q), Node("not", <<In(V(1, 2), q)>>)}
SubqueryQueries ==
    Accepted({Where(Q0, f) : f \in UNION {Tests(Where(Inner, c)) : c \in Correlations} \cup Tests(Inner) \cup Tests(Maximal(Inner))}
             \cup {Where(Q0, Node("and", <<Op("=", V(1, 1), Lit(1)), Exists(Where(Inner, c))>>)) : c \in Correlations}
             \cup {Where(Q0, Node("or", <<Op("=", V(1, 1), Lit(1)), In(V(1, 2), Where(Inner, c))>>)) : c \in Correlations}
             \cup {Where(Q0, BoolTest(k, Op("<", V(1, 1), V(1, 2)))) : k \in TestKinds}
             \cup {Where(Q0, Exists(Where(Inner, BoolTest(k, Op("<", V(1, 2), X(2)))))) : k \in TestKinds}
             \cup {Where(Q0, Op("=", V(1, 2), Scalar(q))) : q \in {Inner, Maximal(Inner), Maximal(Where(Inner, Op("=", V(1, 1), X(1))))}}
             \cup {Select(Q0, <<T(V(1, 1), "a"), T(Scalar(q), "m"), T(Scalar(Counted(Inner)), "n"), T(Scalar(q), "k")>>) :
                      q \in {Inner, Maximal(Inner)}}
             \cup {Where([Joined(k, <<Equi>>) EXCEPT !.targets = <<T(V(1, 1), "a")>>], Exists(Where(Inner, Op("=", V(1, 1), X(1))))) : k \in {"inner", "left"}})
    \cup Refused({Where(Joined("inner", <<Equi>>), Exists(Where(Inner, Op("=", V(1, 1), [X(1) EXCEPT !.op = ""])))),
                  Where(Q0, Exists(Where(Inner, Node("or", <<Op("=", V(1, 1), X(1)), Op("=", V(1, 1), X(2))>>)))),
                  Where([Q0 EXCEPT !.rtable = <<Rel("t", "")>>], Exists(Where(Inner, Op("=", V(1, 1), Outer(Rel("t", ""), 1, 1, 1))))),
                  Where(Select(Q0, <<T(Scalar(Maximal(Inner)), "m")>>), Op("=", V(1, 2), Scalar(Maximal(Inner))))})

(* Groups, having, distinct, order and limits.                             *)
ByA == [Q0 EXCEPT !.targets = <<Ref(T(V(1, 1), "a"), 1), T(Agg("count", <<>>), "n"), T(Agg("sum", <<V(1, 2)>>), "s")>>,
                  !.groups = <<1>>, !.aggs = TRUE]
ByBoth == [Q0 EXCEPT !.targets = <<Ref(T(V(1, 1), "a"), 1), Ref(T(V(1, 2), "b"), 2), T(Agg("count", <<V(1, 2)>>), "n"), T(Agg("grouping", <<V(1, 2), V(1, 1)>>), "g")>>,
                     !.groups = <<1, 2>>, !.aggs = TRUE]
Specs == {<<Simple(<< <<1>>, <<2>> >>)>>, <<[k |-> "rollup", atoms |-> << <<1>>, <<2>> >>]>>, <<[k |-> "cube", atoms |-> << <<2>>, <<1>> >>]>>,
          <<[k |-> "sets", nested |-> <<Simple(<< <<2>> >>), Simple(<<>>), Simple(<< <<1>>, <<2>> >>)>>]>>,
          <<[k |-> "rollup", atoms |-> << <<1, 2>> >>]>>, <<Simple(<< <<1>> >>), [k |-> "rollup", atoms |-> << <<2>> >>]>>}
CountSum == <<T(Agg("count", <<>>), "n"), T(Agg("count", <<V(1, 1)>>), "c"), T([Agg("count", <<V(1, 1)>>) EXCEPT !.distinct = TRUE], "d"),
              T([Agg("sum", <<V(1, 2)>>) EXCEPT !.filter = <<Op("=", V(1, 1), Lit(1))>>], "s"), T(Op("+", Agg("sum", <<V(1, 2)>>), Lit(1)), "p")>>
Havings == {Op("<", Lit(1), Agg("count", <<>>)), Op("<", Agg("min", <<V(1, 2)>>), Scalar(Counted(Inner))), Op("=", V(1, 1), Lit(1))}
Both == <<Ref(T(V(1, 1), "a"), 1), Ref(T(V(1, 2), "b"), 2)>>
OrderedBoth == [Q0 EXCEPT !.targets = Both, !.sort = <<Key(2), [Key(1) EXCEPT !.asc = FALSE, !.first = TRUE]>>]
OneRow == [Q0 EXCEPT !.targets = <<T(Lit(1), "one")>>, !.having = <<Op("=", Lit(1), Lit(1))>>]
GroupQueries ==
    Accepted({Where(ByA, Op("<", V(1, 2), Lit(2))), ByBoth, [Q0 EXCEPT !.targets = Both, !.groups = <<1, 2>>],
              [Q0 EXCEPT !.targets = CountSum, !.aggs = TRUE], [Q0 EXCEPT !.targets = CountSum, !.aggs = TRUE, !.distinct = "row"],
              [ByA EXCEPT !.distinct = "row", !.targets = <<Junk(Ref(T(V(1, 1), ""), 1)), T(Agg("count", <<>>), "n")>>],
              [ByA EXCEPT !.targets = Append(@, T(Op("+", V(1, 1), Agg("count", <<>>)), "n"))]}
             \cup {[ByA EXCEPT !.having = <<h>>] : h \in Havings} \cup {[OneRow EXCEPT !.sets = <<Simple(<<>>)>>]}
             \cup {[ByBoth EXCEPT !.sets = s] : s \in Specs})
    \cup Refused({OneRow, [ByA EXCEPT !.targets = Append(@, T(V(1, 2), "b"))],
                  [Q0 EXCEPT !.targets = <<Junk(Ref(T(V(1, 1), ""), 1)), T(Lit(1), "one")>>, !.groups = <<1>>]})
OrderQueries ==
    Accepted({OrderedBoth, [OrderedBoth EXCEPT !.distinct = "row"], [OrderedBoth EXCEPT !.targets[2].junk = TRUE],
              [Q0 EXCEPT !.distinct = "row"], [Q0 EXCEPT !.targets = <<T(V(1, 2), "b")>>, !.distinct = "row"],
              [Q0 EXCEPT !.targets = <<Both[1], Both[2]>>, !.distinct = "on", !.on = <<1>>, !.sort = <<Key(1), Key(2)>>],
              [Q0 EXCEPT !.targets = <<Both[1], Junk(Both[2])>>, !.distinct = "on", !.on = <<2>>, !.sort = <<Key(2), Key(1)>>],
              [ByA EXCEPT !.sort = <<Key(1)>>, !.limit = <<Lit(1)>>]}
             \cup {[OrderedBoth EXCEPT !.limit = l, !.offset = o] : l \in {<<>>, <<Lit(0)>>, <<Lit(1)>>, <<Lit(Null)>>}, o \in {<<>>, <<Lit(0)>>, <<Lit(1)>>}})
    \cup Refused({[OrderedBoth EXCEPT !.limit = <<Op("+", Lit(1), Lit(1))>>]})

(* Subqueries, VALUES and UNION in FROM.                                   *)
Renamed(q) == [Q0 EXCEPT !.rtable = <<Derived("d", <<"c", "e">>, q)>>, !.targets = <<T(V(1, 2), "e"), T(V(1, 1), "c")>>]
With(q, id) == [Renamed(q) EXCEPT !.rtable = <<CteRef("d", <<"c", "e">>, 2), CteRef("f", <<"c", "e">>, id)>>,
                                  !.from = JoinOf("left", Leaf(1), Leaf(2), <<Equi>>), !.targets = Append(@, T(V(2, 2), "e")),
                                  !.ctes = <<[id |-> 1, q |-> Select(Q0, <<T(Lit(1), "a"), T(Lit(2), "b")>>)], [id |-> 2, q |-> q]>>]
UnionOf(l, r, all) ==
    [Q0 EXCEPT !.rtable = <<Derived("*SELECT* 1", <<"a", "b">>, l), Derived("*SELECT* 2", <<"p", "q">>, r)>>,
               !.union = <<[k |-> "union", all |-> all, left |-> [k |-> "range", rt |-> 1], right |-> [k |-> "range", rt |-> 2]]>>,
               !.from = [k |-> "empty"], !.targets = Both]
FromQueries ==
    Accepted({Where(f, Op("=", V(1, 1), Lit(1))) : f \in UNION {{Renamed(q), With(q, 1), With(q, 2)} : q \in {Q0, [OrderedBoth EXCEPT !.limit = <<Lit(1)>>], [Q0 EXCEPT !.targets = <<T(V(1, 1), "a"), T(V(1, 1), "a")>>]}}}
             \cup {UnionOf(l, r, all) : l, r \in {Q0, [Q0 EXCEPT !.rtable = <<Rel("s", "")>>, !.distinct = "row"]}, all \in BOOLEAN}
             \cup {[UnionOf(Q0, [Q0 EXCEPT !.rtable = <<Rel("s", "")>>], FALSE) EXCEPT !.sort = OrderedBoth.sort, !.limit = <<Lit(2)>>],
                   Where([Q0 EXCEPT !.rtable = <<ValuesOf("v", << <<Lit(1), Lit(2)>>, <<Lit(Null), Op("+", Lit(1), Lit(1))>> >>)>>], Op("=", V(1, 2), Lit(2))),
                   [Q0 EXCEPT !.from = [k |-> "empty"], !.targets = <<T(Op("+", Lit(1), Lit(2)), "n"), T(Scalar(Counted(Inner)), "m")>>],
                   Where([Q0 EXCEPT !.rtable = <<Rel("t", "x"), Derived("d", <<"m">>, Maximal(Inner))>>, !.from = JoinOf("inner", Leaf(1), Leaf(2), <<>>)], Op("=", V(1, 1), V(2, 1)))})
    \cup Refused({[Q0 EXCEPT !.rtable[1].table = "long"], [Q0 EXCEPT !.rtable[1].schema = "long"], With(Q0, 3), Renamed(Select(Q0, <<T(V(1, 1), "a")>>)), Select(Q0, <<T([E0 EXCEPT !.t = "param"], "p")>>)})

(* What the semi join of a correlated subquery leaves out: the inner       *)
(* query's own grouping and bounds, and the padding of bpchar keys.        *)
SemiJoinLosses ==
    LET q == Where(Inner, Op("=", V(1, 1), X(1)))
    IN {Exists(Counted(q)), Exists([q EXCEPT !.limit = <<Lit(0)>>]), Exists([q EXCEPT !.offset = <<Lit(1)>>]),
        In(V(1, 2), [q EXCEPT !.sort = <<Key(1)>>, !.targets[1].ref = 1, !.offset = <<Lit(1)>>]),
        Exists(Where(Inner, Padded(V(1, 2), X(2))))}

FrontendInputs == JoinQueries \cup ThreeQueries \cup TextQueries \cup SubqueryQueries \cup GroupQueries \cup OrderQueries \cup FromQueries
FrontendLosses == Accepted({Where(Q0, f) : f \in SemiJoinLosses})

Tables == {<<>>, << <<1, 1>>, <<2, 2>> >>, << <<1, Null>>, <<1, 1>>, <<Null, 2>> >>, << <<2, 3>>, <<2, 3>>, <<1, 2>> >>}
Databases == {[t |-> t, s |-> s] : t, s \in Tables}

HasScalar(q) == \E e \in ToSet(q.where \o q.having) \cup {q.targets[i].e : i \in DOMAIN q.targets} : ContainsScalarSubquery(e)

(* A compiled plan fails whenever PostgreSQL does, earlier only because a  *)
(* scalar subquery is evaluated before it is needed, and otherwise returns *)
(* the same rows.                                                          *)
SameAnswer(q, plan, db) ==
    \A got \in {Exec(plan, <<>>, db)} : \A want \in {Sql(q, <<>>, db)} :
        IF got = Failed \/ want = Failed THEN got = Failed /\ (want = Failed \/ HasScalar(q))
        ELSE IF q.sort # <<>> /\ q.distinct # "on" THEN got = want
        ELSE SameBag(got, want)

FrontendHolds(in) ==
    \A plan \in {CompileQuery(in.q)} :
        /\ Runs(plan, <<>>) = in.ok
        /\ in.ok => \A db \in Databases : SameAnswer(in.q, plan, db)
=============================================================================
