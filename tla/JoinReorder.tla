----------------------------- MODULE JoinReorder -----------------------------
(***************************************************************************)
(* Statistics-based join reordering (src/pg/plan_builder/join_reorder.rs)  *)
(* over the estimates of src/pg/statistics.  A plan is a record:           *)
(*   scan      [op, name]           a PostgreSQL table; its columns and    *)
(*                                  statistics are cat[name]               *)
(*   alias     [op, input]          a SubqueryAlias                        *)
(*   project   [op, cols, input]    a Projection of plain columns          *)
(*   compute   [op, cols, input]    a Projection with an expression        *)
(*   join      [op, left, right, on, type, constraint, filter,             *)
(*              nulls_equal, null_aware]                                   *)
(*   filter    [op, input]          any other unary node                   *)
(* A column is <<name, attnum>>: names are the qualifiers of its scan.     *)
(***************************************************************************)
EXTENDS JoinOrder, SequencesExt

CONSTANT NoStat    \* a statistic PostgreSQL does not have

-----------------------------------------------------------------------------
(* src/pg/statistics                                                       *)

SanitizeRows(x) == IF x.n > 0 THEN x ELSE Zero

(* pg_statistic.stadistinct: a count, or minus a fraction of the rows.     *)
NormalizeStadistinct(s, base_rows) ==
  CASE s.n = 0 -> NoStat
    [] s.n > 0 -> s
    [] OTHER -> IF base_rows = NoStat \/ base_rows.n <= 0 THEN NoStat
                ELSE MaxRatio(Times(Ratio(-s.n, s.d), base_rows), One)

EffectiveNdv(ndv, rows) ==
  CASE ndv = NoStat -> NoStat
    [] ndv.n <= 0 -> NoStat
    [] rows.n <= 0 -> Zero
    [] OTHER -> MaxRatio(MinRatio(ndv, rows), One)

NonnullRows(rows, null_frac) ==
  LET f == IF null_frac = NoStat THEN Zero ELSE MaxRatio(Zero, MinRatio(null_frac, One))
  IN  Times(rows, Ratio(f.d - f.n, f.d))

DefaultSelectivity == Ratio(1, 100)

EquiJoinSelectivity(l, r) ==
  LET left_rows == SanitizeRows(l.rows)
      right_rows == SanitizeRows(r.rows)
      possible == Times(left_rows, right_rows)
      left_nonnull == NonnullRows(left_rows, l.null_frac)
      right_nonnull == NonnullRows(right_rows, r.null_frac)
      both == Times(left_nonnull, right_nonnull)
      ndvs == {EffectiveNdv(l.ndv, left_nonnull), EffectiveNdv(r.ndv, right_nonnull)} \ {NoStat}
      rows == IF ndvs = {} \/ \E d \in ndvs : d.n <= 0 THEN Times(both, DefaultSelectivity)
              ELSE Over(both, CHOOSE d \in ndvs : \A e \in ndvs : ~Less(d, e))
      by_right == IF r.unique THEN MinRatio(rows, left_nonnull) ELSE rows
      by_left == IF l.unique THEN MinRatio(by_right, right_nonnull) ELSE by_right
  IN  IF possible.n <= 0 THEN Zero ELSE Over(MinRatio(by_left, possible), possible)

(* load_one_column_stats: the statistics of the inheritance tree before    *)
(* those of the table alone.                                               *)
LoadColumnStats(table, attnum) ==
  LET inh == table.inherited[attnum]
      stat == IF inh # NoStat THEN inh ELSE table.stats[attnum]
  IN  IF stat = NoStat THEN [null_frac |-> NoStat, ndv |-> NoStat]
      ELSE [null_frac |-> stat.null_frac, ndv |-> NormalizeStadistinct(stat.stadistinct, table.reltuples)]

(* Indexes are [attnums, unique, valid, live, predicate]; an attnum 0 is   *)
(* an expression.                                                          *)
LoadUniqueKeys(table) ==
  {ix.attnums : ix \in {i \in table.indexes : /\ i.unique /\ i.valid /\ i.live /\ ~i.predicate
                                              /\ i.attnums # {} /\ \A a \in i.attnums : a > 0}}

(* estimate_scan_sql runs the planner inside one SPI connection.  fault    *)
(* names the call that fails; held is what is left open at the return.     *)
EstimateFaults ==
  {"none", "SPI_connect", "SPI_prepare_cursor", "NotCursorPlan", "MultipleStatements", "no_cached_plan",
   "NonSelectStatement", "MissingPlanTree", "SPI_freeplan", "SPI_finish", "ereport_prepare", "ereport_plan"}

EstimateScanSql(fault) ==
  LET connected == fault # "SPI_connect"
      planned == connected /\ fault \notin {"SPI_prepare_cursor", "ereport_prepare"}
      freed == planned /\ fault \notin {"ereport_plan", "SPI_freeplan"}
      finished == connected /\ fault # "SPI_finish"
  IN  [ok |-> fault = "none",
       (* SPI_finish drops the plans the connection still holds.          *)
       held |-> IF connected /\ ~finished
                THEN {"connection"} \cup (IF planned /\ ~freed THEN {"plan"} ELSE {}) ELSE {}]

-----------------------------------------------------------------------------
(* Collecting a component.                                                 *)

RECURSIVE Schema(_, _)
Schema(cat, plan) ==
  CASE plan.op = "scan" -> [i \in 1 .. Len(cat[plan.name].attnums) |-> <<plan.name, cat[plan.name].attnums[i]>>]
    [] plan.op \in {"project", "compute"} -> plan.cols
    [] plan.op = "join" -> Schema(cat, plan.left) \o Schema(cat, plan.right)
    [] OTHER -> Schema(cat, plan.input)

None == [tag |-> "none"]
Rejected(e) == [tag |-> "err", err |-> e]

IsReorderableJoin(j) == j.type = "Inner" /\ j.constraint = "On" /\ ~j.filter /\ ~j.nulls_equal /\ ~j.null_aware

(* Only a scan of a PostgreSQL table is a leaf, behind at most one alias.  *)
TableLeaf(plan) ==
  CASE plan.op = "scan" -> plan.pg
    [] plan.op = "alias" -> plan.input.op = "scan" /\ plan.input.pg
    [] OTHER -> FALSE

LocateJoinColumn(cat, leaves, col) == {i \in 1 .. Len(leaves) : Contains(Schema(cat, leaves[i]), col)}

Shifted(preds, offset) ==
  [i \in 1 .. Len(preds) |-> [preds[i] EXCEPT !.lrel = @ + offset, !.rrel = @ + offset]]

RECURSIVE CollectComponent(_, _)
CollectComponent(cat, plan) ==
  CASE plan.op = "compute" -> None
    [] plan.op = "project" -> LET c == CollectComponent(cat, plan.input)
                              IN  IF c.tag = "some" THEN [c EXCEPT !.schema = plan.cols] ELSE c
    [] plan.op # "join" -> IF TableLeaf(plan)
                           THEN [tag |-> "some", leaves |-> <<plan>>, preds |-> <<>>, schema |-> Schema(cat, plan)]
                           ELSE None
    [] OTHER ->
       LET l == CollectComponent(cat, plan.left)
           r == CollectComponent(cat, plan.right)
           leaves == l.leaves \o r.leaves
           at(col) == LocateJoinColumn(cat, leaves, col)
           sides == [i \in 1 .. Len(plan.on) |-> <<at(plan.on[i][1]), at(plan.on[i][2])>>]
           lost == {i \in 1 .. Len(plan.on) :
                      \/ Cardinality(sides[i][1]) # 1 \/ Cardinality(sides[i][2]) # 1
                      \/ sides[i][1] = sides[i][2]}
           first == sides[Min(lost)]
       IN  IF ~IsReorderableJoin(plan) THEN None
           ELSE IF l.tag # "some" THEN l
           ELSE IF r.tag # "some" THEN r
           ELSE IF lost # {} THEN
             IF Cardinality(first[1]) > 1 \/ (first[1] # {} /\ Cardinality(first[2]) > 1)
             THEN Rejected("ambiguous") ELSE None
           ELSE [tag |-> "some", leaves |-> leaves, schema |-> Schema(cat, plan),
                 preds |-> l.preds \o Shifted(r.preds, Len(l.leaves))
                             \o [i \in 1 .. Len(plan.on) |->
                                   [lrel |-> Min(sides[i][1]) - 1, rrel |-> Min(sides[i][2]) - 1,
                                    lcol |-> plan.on[i][1], rcol |-> plan.on[i][2]]]]

-----------------------------------------------------------------------------
(* The optimizer's problem.                                                *)

MaxLeaves == 4 * MaxSetRels - 1     \* u8::MAX; a set has 64 relations

LeafName(leaf) == IF leaf.op = "alias" THEN leaf.input.name ELSE leaf.name

(* The scan does not compile, or PostgreSQL cannot plan it or read its     *)
(* statistics: no estimate.                                                *)
LeafStatisticsLoad(cat, c) == \A i \in 1 .. Len(c.leaves) : cat[LeafName(c.leaves[i])].estimate # NoStat

(* Predicates of one pair of relations make one edge.                      *)
PairOf(p) == {p.lrel, p.rrel}

UniqueKeyCovered(keys, attnums) == \E k \in keys : k \subseteq attnums

EdgeSelectivity(cat, c, preds) ==
  LET first == preds[1]
      table(rel) == cat[LeafName(c.leaves[rel + 1])]
      rows(rel) == SanitizeRows(table(rel).estimate.rows)
      col(p, rel) == IF p.lrel = rel THEN p.lcol[2] ELSE p.rcol[2]
      side(p, rel) == LET s == LoadColumnStats(table(rel), col(p, rel))
                      IN  [rows |-> rows(rel), null_frac |-> s.null_frac, unique |-> FALSE,
                          ndv |-> EffectiveNdv(s.ndv, rows(rel))]
      attnums(rel) == {col(preds[i], rel) : i \in 1 .. Len(preds)}
      possible == Times(rows(first.lrel), rows(first.rrel))
      product == FoldLeft(LAMBDA acc, p : Times(acc, EquiJoinSelectivity(side(p, first.lrel), side(p, first.rrel))),
                          possible, preds)
      clamp(x, rel, other) == IF UniqueKeyCovered(LoadUniqueKeys(table(rel)), attnums(rel))
                              THEN MinRatio(x, rows(other)) ELSE x
      clamped == clamp(clamp(product, first.lrel, first.rrel), first.rrel, first.lrel)
  IN  IF possible.n <= 0 THEN Zero ELSE MinRatio(Over(clamped, possible), One)

BuildProblem(cat, c) ==
  LET n == Len(c.leaves)
      keys == {PairOf(c.preds[i]) : i \in 1 .. Len(c.preds)}
      ordered == SetToSortSeq(keys, LAMBDA x, y : \/ Min(x) < Min(y)
                                                  \/ Min(x) = Min(y) /\ Max(x) < Max(y))
      group(k) == SelectSeq(c.preds, LAMBDA p : PairOf(p) = k)
  IN  [rels |-> [i \in 1 .. n |-> LET e == cat[LeafName(c.leaves[i])].estimate
                                  IN  [rows |-> SanitizeRows(e.rows), bytes |-> SanitizeRows(e.bytes)]],
       edges |-> [i \in 1 .. Len(ordered) |->
                    [left |-> {Min(ordered[i])}, right |-> {Max(ordered[i])}, kind |-> "Inner",
                     commutative |-> TRUE, pred_end |-> Len(SelectSeq(c.preds, LAMBDA p :
                        \E j \in 1 .. i : PairOf(p) = ordered[j])),
                     sel |-> EdgeSelectivity(cat, c, group(ordered[i]))]],
       preds |-> Len(c.preds)]

-----------------------------------------------------------------------------
(* Rebuilding the plan.                                                    *)

PredicatesOneWay(left, right, preds) ==
  LET crossing == SelectSeq(preds, LAMBDA p : p.lrel \in left /\ p.rrel \in right)
  IN  [i \in 1 .. Len(crossing) |-> <<crossing[i].lcol, crossing[i].rcol>>]

PredicatesCrossingSplit(left, right, preds) ==
  LET forward(p) == p.lrel \in left /\ p.rrel \in right
      reverse(p) == p.rrel \in left /\ p.lrel \in right
      crossing == SelectSeq(preds, LAMBDA p : forward(p) \/ reverse(p))
  IN  [i \in 1 .. Len(crossing) |->
         IF forward(crossing[i]) THEN <<crossing[i].lcol, crossing[i].rcol>>
         ELSE <<crossing[i].rcol, crossing[i].lcol>>]

InnerJoin(left, right, on) ==
  [op |-> "join", left |-> left, right |-> right, on |-> on, type |-> "Inner", constraint |-> "On",
   filter |-> FALSE, nulls_equal |-> FALSE, null_aware |-> FALSE]

RECURSIVE BuildJoinTree(_, _, _)
BuildJoinTree(set, entries, c) ==
  IF Cardinality(set) = 1 THEN c.leaves[Min(set) + 1]
  ELSE LET best == entries[set]
           l == IF best.build_side = "Left" THEN best.left ELSE best.right
           r == set \ l
       IN  InnerJoin(BuildJoinTree(l, entries, c), BuildJoinTree(r, entries, c),
                     PredicatesCrossingSplit(l, r, c.preds))

PreserveOutputOrder(cat, plan, schema) ==
  IF Schema(cat, plan) = schema THEN plan ELSE [op |-> "project", cols |-> schema, input |-> plan]

TryRewriteComponent(cat, config, plan) ==
  LET c == CollectComponent(cat, plan)
      found == Optimize(BuildProblem(cat, c), config)
  IN  IF plan.op # "join" THEN None
      ELSE IF c.tag # "some" THEN c
      ELSE IF Len(c.leaves) < 2 THEN None
      ELSE IF Len(c.leaves) > MaxLeaves THEN Rejected("TooManyLeaves")
      ELSE IF ~LeafStatisticsLoad(cat, c) THEN Rejected("Statistics")
      ELSE IF ~found.ok THEN Rejected(found.err)
      ELSE [tag |-> "some",
            plan |-> PreserveOutputOrder(cat, BuildJoinTree(0 .. (Len(c.leaves) - 1), found.entries, c), c.schema)]

RECURSIVE RewriteJoinOrder(_, _, _)
RewriteJoinOrder(cat, config, plan) ==
  LET rewritten == TryRewriteComponent(cat, config, plan)
      child(p) == RewriteJoinOrder(cat, config, p)
  IN  CASE rewritten.tag = "some" \/ rewritten.tag = "err" -> rewritten
        [] plan.op = "scan" -> [tag |-> "some", plan |-> plan]
        [] plan.op = "join" ->
             LET l == child(plan.left) r == child(plan.right)
             IN  IF l.tag = "err" THEN l ELSE IF r.tag = "err" THEN r
                 ELSE [tag |-> "some", plan |-> [plan EXCEPT !.left = l.plan, !.right = r.plan]]
        [] OTHER -> LET i == child(plan.input)
                    IN  IF i.tag = "err" THEN i ELSE [tag |-> "some", plan |-> [plan EXCEPT !.input = i.plan]]

-----------------------------------------------------------------------------
(***************************************************************************)
(* Inputs and references for JoinOrder and JoinReorder: every bushy tree   *)
(* of a small problem, and the rows a small plan returns.                  *)
(***************************************************************************)

-----------------------------------------------------------------------------
(* Problems of up to four relations: every subset of a set of edges.       *)

RelChoices == <<[rows |-> Ratio(4, 1), bytes |-> Ratio(8, 1)], [rows |-> Ratio(1, 1), bytes |-> Ratio(8, 1)],
                [rows |-> Ratio(2, 1), bytes |-> Zero], [rows |-> Ratio(8, 1), bytes |-> Ratio(8, 1)]>>

Edge(l, r, sel) ==
  [left |-> {l}, right |-> {r}, kind |-> "Inner", commutative |-> TRUE, sel |-> sel, pred_end |-> 0]

GoodEdges == <<Edge(0, 1, Ratio(1, 4)), Edge(2, 1, One), Edge(2, 3, Ratio(1, 2)),
              Edge(0, 3, Zero), Edge(1, 3, Ratio(1, 8)), Edge(0, 2, Ratio(1, 2))>>

BadEdges == <<[Edge(0, 1, One) EXCEPT !.kind = "Left"], Edge(0, 0, One), Edge(0, 7, One),
             [Edge(0, 1, One) EXCEPT !.pred_end = 1], Edge(0, 1, Ratio(-1, 1))>>

Config(cross, pairs, late1, late2) ==
  [max_relations |-> 4, max_pairs |-> pairs, allow_cross_joins |-> cross, late_count |-> late1, late_search |-> late2]

Configs == {Config(cross, pairs, late, FALSE) : cross \in BOOLEAN, pairs \in {0, 6, 100}, late \in BOOLEAN}
             \cup {Config(cross, 100, FALSE, TRUE) : cross \in BOOLEAN}

Problem(rels, edges) ==
  [rels |-> rels, edges |-> SelectSeq(BadEdges \o GoodEdges, LAMBDA e : e \in edges), preds |-> 0]

Within(edges, n) == {e \in ToSet(edges) : e.left \cup e.right \subseteq 0 .. (n - 1)}

OrderInputs ==
  UNION {[kind : {"order"}, p : {Problem(SubSeq(RelChoices, 1, n), es) : es \in SUBSET Within(GoodEdges, n)},
          c : IF n = 4 THEN {Config(FALSE, 100, FALSE, FALSE), Config(TRUE, 6, FALSE, FALSE)} ELSE Configs] : n \in 0 .. 4}
    \cup [kind : {"order"}, p : {Problem(SubSeq(RelChoices, 1, 3), {e, f}) : e \in ToSet(BadEdges), f \in ToSet(BadEdges \o GoodEdges)},
          c : {Config(TRUE, 100, FALSE, FALSE)}]
    \cup [kind : {"order"}, c : {Config(TRUE, 100, FALSE, FALSE)},
          p : {Problem(<<[rows |-> Ratio(-1, 1), bytes |-> Zero]>>, {}), Problem(RelChoices \o RelChoices, {})}]

(* The reference: every unordered tree whose joins are linked, or crossed  *)
(* when cross joins are allowed, with its estimate.                        *)
RECURSIVE Trees(_, _, _)
Trees(p, c, set) ==
  IF Cardinality(set) = 1 THEN {LeafEntry(p, Min(set))}
  ELSE UNION {{EstimateJoin(l, set \ l, x, y, Link(p, c, l, set \ l)) :
                 x \in Trees(p, c, l), y \in Trees(p, c, set \ l)} :
              l \in {k \in (SUBSET set) \ {set} : Min(set) \in k /\ Link(p, c, k, set \ k).found}}

Bind(x, Body(_)) == \A v \in {x} : Body(v)

OrderIsBest(p, c) ==
  LET root == Universe(p)
      valid == Validate(p, c).ok
      best(found, trees) ==
        /\ valid
        /\ \A t \in trees : ~Less(t.cost, found.entries[root].cost)
        /\ \E t \in trees : t.cost = found.entries[root].cost
        (* an estimate does not depend on the tree                         *)
        /\ \A t \in trees : t.rows = found.entries[root].rows /\ t.bytes = found.entries[root].bytes
      refused(found) ==
        /\ found.err = "DisconnectedGraph" => Trees(p, c, root) = {}
        /\ found.err = "BudgetExceeded" =>
             CountPartitions(p, [c EXCEPT !.max_pairs = 1000, !.late_count = FALSE]).pairs > c.max_pairs
        /\ found.err = "Timeout" => c.late_count \/ c.late_search
        /\ found.err = "NoPlan" => FALSE
  IN  Bind(Optimize(p, c), LAMBDA found :
        IF found.ok THEN Bind(Trees(p, c, root), LAMBDA trees : best(found, trees)) ELSE refused(found))

-----------------------------------------------------------------------------
(* Small plans over four tables.  Column 1 and 2 hold 1, 2 or NULL.        *)

Names == {"a", "b", "c", "d"}
Null == 0
Data == [n \in Names |-> CASE n = "a" -> <<<<1, 2>>, <<2, Null>>, <<Null, 1>>>>
                           [] n = "b" -> <<<<1, 1>>, <<1, 2>>, <<2, Null>>>>
                           [] n = "c" -> <<<<2, 1>>, <<Null, Null>>, <<1, 1>>>>
                           [] OTHER -> <<<<1, 2>>, <<2, 2>>>>]

Table(rows, bytes, ndv, null_frac, indexes) ==
  [attnums |-> <<1, 2>>, estimate |-> [rows |-> rows, bytes |-> bytes], reltuples |-> Ratio(8, 1), indexes |-> indexes,
   inherited |-> [i \in 1 .. 2 |-> IF i = 2 THEN [stadistinct |-> Ratio(-1, 2), null_frac |-> null_frac] ELSE NoStat],
   stats |-> [i \in 1 .. 2 |-> IF ndv = Zero THEN NoStat ELSE [stadistinct |-> ndv, null_frac |-> null_frac]]]

Index(attnums, unique, predicate) ==
  [attnums |-> attnums, unique |-> unique, valid |-> TRUE, live |-> TRUE, predicate |-> predicate]

Small == Table(Ratio(2, 1), Ratio(4, 1), Ratio(2, 1), Zero, {Index({1}, TRUE, FALSE)})
Large == Table(Ratio(16, 1), Ratio(64, 1), Ratio(4, 1), Ratio(1, 2), {Index({1}, TRUE, TRUE), Index({0, 2}, TRUE, FALSE)})
Empty == Table(Ratio(-1, 1), Zero, Zero, NoStat, {Index({2}, FALSE, FALSE)})

Catalogs == {[n \in Names |-> CASE n = "a" -> Small [] n = "b" -> Large [] n = "c" -> Small [] OTHER -> Large],
             [n \in Names |-> CASE n = "a" -> Large [] n = "b" -> Large [] n = "c" -> Small [] OTHER -> Small],
             [n \in Names |-> CASE n = "a" -> Large [] n = "b" -> Empty [] n = "c" -> Large [] OTHER -> Small],
             [n \in Names |-> IF n = "c" THEN [Small EXCEPT !.estimate = NoStat] ELSE Large]}

Scan(n) == [op |-> "scan", name |-> n, pg |-> TRUE]
Leaves == [n \in Names |-> IF n = "c" THEN [op |-> "alias", input |-> Scan("c")] ELSE Scan(n)]

Join(l, r, on, type) == [InnerJoin(l, r, on) EXCEPT !.type = type]

(* A Projection between two joins that keeps the columns joined above it.  *)
Reversed(l, kind) ==
  CASE kind = "plain" -> l
    [] kind = "project" -> [op |-> "project", input |-> l, cols |-> <<<<"b", 2>>, <<"a", 1>>>>]
    [] kind = "compute" -> [op |-> "compute", input |-> l, cols |-> <<<<"b", 2>>, <<"a", 1>>>>]
    [] OTHER -> [op |-> "filter", input |-> l]

OnAB == {<<>>, <<<<<<"a", 1>>, <<"b", 1>>>>>>, <<<<<<"b", 1>>, <<"a", 1>>>>, <<<<"a", 2>>, <<"b", 2>>>>>>}
OnC == {<<>>, <<<<<<"b", 2>>, <<"c", 1>>>>>>, <<<<<<"a", 1>>, <<"c", 2>>>>, <<<<"c", 1>>, <<"b", 2>>>>>>}
OnD == {<<<<<<"c", 1>>, <<"d", 1>>>>>>, <<<<<<"d", 2>>, <<"a", 1>>>>, <<<<"b", 2>>, <<"d", 2>>>>>>}

Three == {Join(Reversed(Join(Leaves["a"], Leaves["b"], on1, t1), k), Leaves["c"], on2, t2) :
            on1 \in OnAB, on2 \in OnC, t1 \in {"Inner", "Left"}, t2 \in {"Inner", "Left"},
            k \in {"plain", "project", "compute", "filter"}}
Four == {Join(Join(Leaves["a"], Leaves["b"], on1, "Inner"), Join(Leaves["c"], Leaves["d"], on2, t), on3, "Inner") :
           on1 \in OnAB, on2 \in {<<>>, <<<<<<"c", 1>>, <<"d", 1>>>>>>}, on3 \in OnC \cup OnD, t \in {"Inner", "Left"}}
Nulls == {[j EXCEPT ![f] = TRUE] : f \in {"filter", "nulls_equal", "null_aware"},
            j \in {Join(Join(Leaves["a"], Leaves["b"], on1, "Inner"), Leaves["c"], on2, "Inner") : on1 \in OnAB, on2 \in OnC}}
Using == {[j EXCEPT !.constraint = "Using"] : j \in {k \in Three : k.type = "Inner" /\ k.left.op = "join"}}
LeftDeep(n) == LET f[i \in 1 .. n] == IF i = 1 THEN Leaves["d"] ELSE Join(f[i - 1], Leaves["d"], <<>>, "Inner") IN f[n]
(* The same scan on both sides: the column cannot be told apart.           *)
Twice == {Join(Leaves["a"], Leaves["a"], <<<<<<"a", 1>>, <<"a", 2>>>>>>, "Inner"),
          Join([op |-> "scan", name |-> "a", pg |-> FALSE], Leaves["b"], <<>>, "Inner")}

ReorderInputs ==
  [kind : {"reorder"}, cat : Catalogs, plan : Three \cup Four \cup Nulls \cup Using \cup Twice \cup {LeftDeep(MaxLeaves), LeftDeep(MaxLeaves + 1)},
   c : {Config(TRUE, 100, FALSE, FALSE), Config(FALSE, 4, FALSE, FALSE)}]

Value(row, col) == IF row[col[1]] = 0 THEN Null ELSE Data[col[1]][row[col[1]]][col[2]]

NoRow == [n \in Names |-> 0]

(* The rows of a plan, each as the table rows it combines: a multiset, as  *)
(* no two combinations are the same.  A filter keeps everything.           *)
RECURSIVE Rows(_)
Rows(plan) ==
  CASE plan.op = "scan" -> {[NoRow EXCEPT ![plan.name] = i] : i \in 1 .. Len(Data[plan.name])}
    [] plan.op = "join" ->
         LET ls == Rows(plan.left) rs == Rows(plan.right)
             both(l, r) == [n \in Names |-> IF l[n] # 0 THEN l[n] ELSE r[n]]
             match(l, r) == \A i \in 1 .. Len(plan.on) :
                              LET x == Value(both(l, r), plan.on[i][1]) y == Value(both(l, r), plan.on[i][2])
                              IN  x = y /\ (x # Null \/ plan.nulls_equal)
         IN  {both(l, r) : <<l, r>> \in {lr \in ls \X rs : match(lr[1], lr[2])}}
               \cup (IF plan.type = "Left" THEN {l \in ls : \A r \in rs : ~match(l, r)} ELSE {})
    [] OTHER -> Rows(plan.input)

(* Each join names its left columns on the left and its right ones on the  *)
(* right, as the hash join requires.                                       *)
RECURSIVE SidesAgree(_, _)
SidesAgree(cat, plan) ==
  CASE plan.op = "scan" -> TRUE
    [] plan.op = "join" -> /\ SidesAgree(cat, plan.left) /\ SidesAgree(cat, plan.right)
                           /\ \A i \in 1 .. Len(plan.on) :
                                /\ Contains(Schema(cat, plan.left), plan.on[i][1])
                                /\ Contains(Schema(cat, plan.right), plan.on[i][2])
    [] OTHER -> SidesAgree(cat, plan.input)

ReorderKeepsTheQuery(cat, c, plan) ==
  \A r \in {RewriteJoinOrder(cat, c, plan)} :
  IF r.tag = "err" THEN CASE r.err = "DisconnectedGraph" -> ~c.allow_cross_joins
                          [] r.err = "Statistics" -> \E n \in Names : cat[n].estimate = NoStat
                          [] r.err = "TooManyLeaves" -> plan = LeftDeep(MaxLeaves + 1)
                          [] r.err = "TooManyRelations" -> plan = LeftDeep(MaxLeaves)
                          [] OTHER -> r.err \in {"ambiguous", "BudgetExceeded"}
  ELSE /\ Rows(r.plan) = Rows(plan)
       /\ Schema(cat, r.plan) = Schema(cat, plan)
       /\ SidesAgree(cat, plan) => SidesAgree(cat, r.plan)

(* Selectivities are fractions, the same from both sides.                  *)
SideInputs == [rows : {Ratio(-1, 1), One, Ratio(4, 1)}, null_frac : {NoStat, Ratio(-1, 2), Zero, Ratio(1, 2), One},
               ndv : {NoStat, Zero, Ratio(2, 1), Ratio(8, 1)}, unique : BOOLEAN]

SelectivityIsAFraction(l, r) ==
  \A s \in {EquiJoinSelectivity(l, r)} :
  /\ s.n >= 0 /\ ~Less(One, s)
  /\ s = EquiJoinSelectivity(r, l)
  /\ r.unique => ~Less(NonnullRows(SanitizeRows(l.rows), l.null_frac),
                       Times(s, Times(SanitizeRows(l.rows), SanitizeRows(r.rows))))

JoinInputs == OrderInputs \cup ReorderInputs
                \cup [kind : {"selectivity"}, l : SideInputs, r : SideInputs]
                \cup [kind : {"estimate"}, fault : EstimateFaults]

JoinHolds(in) ==
  CASE in.kind = "order" -> OrderIsBest(in.p, in.c)
    [] in.kind = "reorder" -> ReorderKeepsTheQuery(in.cat, in.c, in.plan)
    [] in.kind = "selectivity" -> SelectivityIsAFraction(in.l, in.r)
    [] in.kind = "estimate" -> LET e == EstimateScanSql(in.fault)
                               IN  /\ e.ok = (in.fault = "none")
                                   /\ in.fault # "SPI_finish" => e.held = {}

=============================================================================
