------------------------------ MODULE PlanBuild ------------------------------
(***************************************************************************)
(* From the frontend's logical plan to the plan sent to the worker         *)
(* (src/pg/plan_builder) and the page materializers of the physical plan   *)
(* (src/pg/scan_node/src/page_materialize.rs).                             *)
(*                                                                         *)
(* A plan node is [op, info, exprs, subs, kids]: exprs the kinds of        *)
(* expression it holds, subs the plans of its subquery expressions, kids   *)
(* its inputs.  DataFusion's optimizer is a parameter: any plan.  The rows *)
(* of VALUES have one column, and it is not renamed on its way up.         *)
(***************************************************************************)
EXTENDS ScanSql

CONSTANT MaxScanId   \* largest scan id (2^64 - 1)

Reject(e) == [ok |-> FALSE, err |-> e]

RECURSIVE Nodes(_)
Nodes(p) == <<p>> \o FlattenSeq([i \in 1 .. Len(p.kids) |-> Nodes(p.kids[i])])

RECURSIVE NodesWithSubqueries(_)
NodesWithSubqueries(p) ==
  <<p>> \o FlattenSeq([i \in 1 .. Len(p.subs) |-> NodesWithSubqueries(p.subs[i])])
        \o FlattenSeq([i \in 1 .. Len(p.kids) |-> NodesWithSubqueries(p.kids[i])])

SubqueryExprs == {"scalar_subquery", "exists", "in_subquery", "set_comparison", "outer_reference"}
AnalysisExprs == SubqueryExprs \cup {"grouping_set", "grouping"}

NodeRequiresAnalysis(p) ==
  \/ p.op \in {"distinct", "union"}
  \/ p.op = "join" /\ p.info.type = "inner" /\ p.info.on = 0 /\ ~p.info.filter

PlanRequiresFrontendAnalysis(p) ==
  LET nodes == NodesWithSubqueries(p)
  IN  \E i \in DOMAIN nodes : NodeRequiresAnalysis(nodes[i]) \/ nodes[i].exprs \cap AnalysisExprs # {}

ValidateSupportedPlanShape(p) ==
  LET nodes == NodesWithSubqueries(p)
  IN  \A i \in DOMAIN nodes : nodes[i].exprs \cap SubqueryExprs = {}

(* NaN and the infinities have no decimal.  exprs: "special" is a string   *)
(* that spells one of them, "column" a column, "special cast" and "column  *)
(* cast" their casts to a decimal.                                         *)
RECURSIVE SpecialNumericStringColumns(_)
SpecialNumericStringColumns(p) ==
  CASE p.op = "values" -> p.info.special
    [] p.op = "project" -> \/ p.exprs \cap {"special", "special cast"} # {}
                           \/ p.exprs \cap {"column", "column cast"} # {} /\ SpecialNumericStringColumns(p.kids[1])
    [] OTHER -> \E i \in 1 .. Len(p.kids) : SpecialNumericStringColumns(p.kids[i])

(* The columns are those of the root; the casts are looked for everywhere. *)
ValidateNoSpecialNumericLiterals(p) ==
  LET nodes == NodesWithSubqueries(p)
  IN  \A i \in DOMAIN nodes : /\ "special cast" \notin nodes[i].exprs
                              /\ "column cast" \in nodes[i].exprs => ~SpecialNumericStringColumns(p)

-----------------------------------------------------------------------------
(* The scan builder: [next, scans] and the plan, in postfix order.         *)

Node(op, info, kids) == [op |-> op, info |-> info, exprs |-> {}, subs |-> <<>>, kids |-> kids]

(* A bare reference that is not the table's name is an alias of it.        *)
ScanRelation(rel, name) == IF name # rel.table THEN [rel EXCEPT !.aliases = @ \cup {name}] ELSE rel

BuildTableScan(p, b) ==
  LET compiled == CompileScan([p.info.input EXCEPT !.rel = ScanRelation(@, p.info.name)])
      scan == compiled.v
      leaf == Node("scan", [id |-> b.next, scan |-> scan, hints |-> FetchHints(scan)], <<>>)
      filtered == IF scan.residual = <<>> THEN leaf ELSE Node("filter", scan.residual, <<leaf>>)
      projected == IF scan.residual_columns = <<>> THEN filtered
                   ELSE Node("project", [i \in 1 .. Len(scan.selected) |-> i], <<filtered>>)
  IN  CASE p.info.source # "pg" -> Reject("ForeignTable")
        [] compiled.tag = "err" -> Reject(compiled.err)
        [] b.next = MaxScanId -> Reject("ScanIdOverflow")
        [] OTHER -> [ok |-> TRUE, plan |-> projected, next |-> b.next + 1, scans |-> Append(b.scans, leaf.info)]

RECURSIVE BuildNodes(_, _)
BuildNodes(p, b) ==
  LET step[i \in 0 .. Len(p.kids)] ==
        IF i = 0 THEN [ok |-> TRUE, kids |-> <<>>, next |-> b.next, scans |-> b.scans]
        ELSE IF ~step[i - 1].ok THEN step[i - 1]
        ELSE LET k == BuildNodes(p.kids[i], [next |-> step[i - 1].next, scans |-> step[i - 1].scans])
             IN  IF ~k.ok THEN k ELSE [ok |-> TRUE, kids |-> Append(step[i - 1].kids, k.plan), next |-> k.next, scans |-> k.scans]
      done == step[Len(p.kids)]
  IN  IF p.op = "table" THEN BuildTableScan(p, b)
      ELSE IF ~done.ok THEN done
      ELSE [ok |-> TRUE, plan |-> [p EXCEPT !.kids = done.kids], next |-> done.next, scans |-> done.scans]

(* Every reference of a CTE reads the input of the first one visited.      *)
RECURSIVE Deduplicate(_, _)
Deduplicate(p, inputs) ==
  LET step[i \in 0 .. Len(p.kids)] ==
        IF i = 0 THEN [kids |-> <<>>, inputs |-> inputs]
        ELSE LET k == Deduplicate(p.kids[i], step[i - 1].inputs)
             IN  [kids |-> Append(step[i - 1].kids, k.plan), inputs |-> k.inputs]
      done == step[Len(p.kids)]
      seen == SelectSeq(done.inputs, LAMBDA e : e.id = p.info.id)
  IN  IF p.op # "cte" THEN [plan |-> [p EXCEPT !.kids = done.kids], inputs |-> done.inputs]
      ELSE IF seen # <<>> THEN [plan |-> [p EXCEPT !.kids = <<seen[1].input>>], inputs |-> done.inputs]
      ELSE [plan |-> [p EXCEPT !.kids = done.kids], inputs |-> Append(done.inputs, [id |-> p.info.id, input |-> done.kids[1]])]

KeepCteInputs(plan) == plan
DeduplicateCteInputs(plan) == Deduplicate(plan, <<>>).plan

RetainScansUsedBy(scans, plan) ==
  LET nodes == Nodes(plan)
      used == {nodes[i].info.id : i \in {j \in DOMAIN nodes : nodes[j].op = "scan"}}
  IN  SelectSeq(scans, LAMBDA s : s.id \in used)

BuildScans(plan, first) ==
  LET built == BuildNodes(plan, [next |-> first, scans |-> <<>>])
      shared == DeduplicateCteInputs(built.plan)
  IN  IF ~built.ok THEN built ELSE [ok |-> TRUE, plan |-> shared, scans |-> RetainScansUsedBy(built.scans, shared)]

-----------------------------------------------------------------------------
(* The root: types [t1, ..] of its fields.                                 *)

OutputType(t) == CASE t = "uint64" -> "int64" [] t = "large_utf8" -> "utf8" [] OTHER -> t

(* A projection of casts when some output type is not PostgreSQL's.        *)
NormalizeRootOutputTypes(plan, types) ==
  LET casts == [i \in 1 .. Len(types) |-> OutputType(types[i])]
  IN  IF casts = types THEN [plan |-> plan, types |-> types]
      ELSE [plan |-> Node("project", casts, <<plan>>), types |-> casts]

RestoreEmptyRootSchema(root, expected) ==
  IF root.plan.op = "empty" /\ ~root.plan.info.one_row /\ root.types = <<>> /\ expected # <<>>
  THEN [root EXCEPT !.types = expected] ELSE root

(* optimized: [plan, types], what the optimizer makes of the plan.         *)
BuildFrontendLogicalPlan(plan, types, optimized, first) ==
  LET chosen == IF PlanRequiresFrontendAnalysis(plan) THEN optimized ELSE [plan |-> plan, types |-> types]
      built == BuildScans(chosen.plan, first)
      root == RestoreEmptyRootSchema(NormalizeRootOutputTypes(built.plan, chosen.types), types)
  IN  CASE \E p \in {plan, chosen.plan} : ~ValidateNoSpecialNumericLiterals(p) -> Reject("SpecialNumeric")
        [] ~ValidateSupportedPlanShape(chosen.plan) -> Reject("UnsupportedSubquery")
        [] ~built.ok -> built
        [] \E i \in 1 .. Len(built.scans) : built.scans[i].scan.residual # <<>> -> Reject("ResidualFilters")
        [] OTHER -> [ok |-> TRUE, plan |-> root.plan, types |-> root.types, scans |-> built.scans]

-----------------------------------------------------------------------------
(* Physical plans: [op, kids].  Operators that hold their input's batches  *)
(* must not hold shared pages.                                             *)

RetainingChildIndexes(op) ==
  CASE op \in {"sort", "partial_sort", "window", "bounded_window", "cross_join", "nested_loop_join", "hash_join"} -> {1}
    [] op = "symmetric_hash_join" -> {1, 2}
    [] OTHER -> {}

RECURSIVE RewritePageMaterializers(_)
RewritePageMaterializers(p) ==
  LET kids == [i \in 1 .. Len(p.kids) |-> RewritePageMaterializers(p.kids[i])]
      wrap(i) == IF i \in RetainingChildIndexes(p.op) /\ kids[i].paged /\ kids[i].plan.op # "materialize"
                 THEN [op |-> "materialize", kids |-> <<kids[i].plan>>] ELSE kids[i].plan
  IN  [plan |-> [p EXCEPT !.kids = [i \in 1 .. Len(p.kids) |-> wrap(i)]],
       paged |-> p.op = "page_scan" \/ \E i \in 1 .. Len(p.kids) : kids[i].paged]

InsertPageMaterializers(p) == RewritePageMaterializers(p).plan

-----------------------------------------------------------------------------
(***************************************************************************)
(* Inputs and reference answers for ScanSql and PlanBuild: SQL meaning of  *)
(* expressions and literals, the rows a scan returns, the scans a plan     *)
(* executes, the batches a physical plan holds.                            *)
(***************************************************************************)

Null == -9
DayLength == 24     \* time units in a day

E(op, info, args) == [op |-> op, info |-> info, args |-> args]
NoMeta == [tag |-> "none"]
Lit(type, v) == [type |-> type, v |-> v, meta |-> NoMeta]
Num(n) == E("lit", Lit("int4", n), <<>>)
NullLit == E("lit", Lit("int4", Missing), <<>>)
Col(name) == E("col", [rel |-> <<>>, name |-> name], <<>>)

-----------------------------------------------------------------------------
(* SQL's three-valued meaning; 0 and 1 are also FALSE and TRUE.            *)

Truth(b) == IF b THEN 1 ELSE 0
NotV(x) == IF x = Null THEN Null ELSE 1 - x
AndV(x, y) == CASE x = 0 \/ y = 0 -> 0 [] x = Null \/ y = Null -> Null [] OTHER -> 1
OrV(x, y) == NotV(AndV(NotV(x), NotV(y)))
Strict(x, y, r) == IF x = Null \/ y = Null THEN Null ELSE r
EqV(x, y) == Strict(x, y, Truth(x = y))

InV(x, items) ==
  LET f[i \in 0 .. Len(items)] == IF i = 0 THEN 0 ELSE OrV(f[i - 1], EqV(x, items[i])) IN f[Len(items)]

CaseV(vs) ==
  LET n == Len(vs) \div 2
      hit == {i \in 1 .. n : vs[2 * i - 1] = 1}
  IN  IF hit # {} THEN vs[2 * (CHOOSE i \in hit : \A j \in hit : i <= j)] ELSE IF Len(vs) % 2 = 1 THEN vs[Len(vs)] ELSE Null

(* Operators the two systems share, over already computed operands.        *)
Meaning(op, tag, v) ==
  CASE op = "bin" /\ tag = "AND" -> AndV(v[1], v[2])
    [] op = "bin" /\ tag = "OR" -> OrV(v[1], v[2])
    [] op = "bin" /\ tag = "=" -> EqV(v[1], v[2])
    [] op = "bin" /\ tag = "<" -> Strict(v[1], v[2], Truth(v[1] < v[2]))
    [] op = "bin" /\ tag = ">" -> Strict(v[1], v[2], Truth(v[1] > v[2]))
    [] op = "bin" /\ tag = "~" -> Strict(v[1], v[2], Truth(v[1] >= v[2]))
    [] op = "bin" /\ tag = "IS DISTINCT FROM" -> Truth(v[1] # v[2])
    [] op = "un" /\ tag = "NOT" -> NotV(v[1])
    [] op = "is" /\ tag = "IS NULL" -> Truth(v[1] = Null)
    [] op = "is" /\ tag = "IS NOT TRUE" -> Truth(v[1] # 1)
    [] op = "between" -> LET r == AndV(NotV(Strict(v[1], v[2], Truth(v[1] < v[2]))), NotV(Strict(v[3], v[1], Truth(v[3] < v[1]))))
                         IN  IF tag = "NOT" THEN NotV(r) ELSE r
    [] op = "in" -> LET r == InV(v[1], Tail(v)) IN IF tag = "NOT IN" THEN NotV(r) ELSE r
    [] op = "case" -> CaseV(v)
    [] op \in {"cast", "alias"} -> v[1]
    [] op = "fn" /\ tag = "nullif" -> IF v[1] = v[2] THEN Null ELSE v[1]
    [] op = "fn" /\ tag = "strpos" -> Strict(v[1], v[2], Truth(v[1] = v[2]))
    [] op = "fn" /\ tag \in {"round", "varchar", "bpchar"} -> Strict(v[1], v[2], 10 * v[1] + v[2])

RECURSIVE DfValue(_, _)
DfValue(e, row) ==
  LET v == [i \in 1 .. Len(e.args) |-> DfValue(e.args[i], row)]
  IN  CASE e.op = "col" -> IF e.info.name \in DOMAIN row THEN row[e.info.name] ELSE Null
        [] e.op = "lit" -> IF e.info.v = Missing THEN Null ELSE e.info.v
        [] e.op = "opaque" -> Truth(v[1] = 1)
        [] e.op = "fn" /\ e.info = "contains" -> EqV(v[1], v[2])
        [] e.op = "fn" /\ e.info = "pg_fusion_numeric_round_scale" -> Meaning("fn", "round", v)
        [] e.op = "fn" /\ e.info = "pg_fusion_varchar_typmod" -> IF v[2] > 4 THEN Meaning("fn", "varchar", <<v[1], v[2] - 4>>) ELSE v[1]
        [] OTHER -> Meaning(e.op, e.info, v)

RECURSIVE SqlValue(_, _)
SqlValue(e, row) ==
  CASE e.op = "col" -> row[e.info]
    [] e.op = "lit" -> CASE e.info.form = "null" -> Null [] e.info.form = "bool" -> Truth(e.info.v) [] OTHER -> e.info.v
    [] OTHER -> Meaning(e.op, e.info, [i \in 1 .. Len(e.args) |-> SqlValue(e.args[i], row)])

-----------------------------------------------------------------------------
(* Scans.                                                                  *)

Bin(o, x, y) == E("bin", o, <<x, y>>)
A == Col("a")
B == Col("b")
Predicates ==
  {Bin("=", A, Num(1)), Bin("<", A, B), Bin("~", B, Num(1)), E("un", "NOT", <<Bin("=", A, B)>>), E("is", "IS NULL", <<A>>),
   E("is", "IS NOT TRUE", <<Bin("<", B, Num(1))>>), E("between", "", <<A, Num(0), B>>), E("between", "NOT", <<A, Num(1), B>>),
   E("in", "IN", <<A, Num(0), NullLit>>), E("in", "NOT IN", <<A, Num(0), NullLit>>), E("in", "NOT IN", <<A>>), E("in", "IN", <<B>>),
   E("opaque", "try_cast", <<B>>), E("fn", "contains", <<A, B>>), Bin("=", E("fn", "nullif", <<A, B>>), Num(0)),
   Bin("=", E("fn", "pg_fusion_numeric_round_scale", <<A, E("cast", "int8", <<B>>)>>), Num(11)),
   Bin("=", E("fn", "pg_fusion_varchar_typmod", <<A, Num(5)>>), Num(11)), Bin("=", E("fn", "pg_fusion_varchar_typmod", <<A, Num(4)>>), B),
   Bin("=", E("fn", "pg_fusion_varchar_typmod", <<B, E("cast", "int4", <<Num(9)>>)>>), Num(15)),
   Bin("=", E("fn", "unknown", <<A>>), Num(1)), E("case", "", <<Bin("=", A, Num(0)), Num(0), Bin("~", A, B), Num(1)>>),
   Bin("OR", Bin("=", A, Num(0)), E("opaque", "try_cast", <<B>>)),
   E("alias", "x", <<Bin("AND", Bin("=", B, Num(0)), Bin("AND", E("opaque", "try_cast", <<A>>), Bin("IS DISTINCT FROM", A, B)))>>),
   Bin("=", E("col", [rel |-> <<"t">>, name |-> "a"], <<>>), E("col", [rel |-> <<"s", "t">>, name |-> "b"], <<>>)),
   Bin("~", E("col", [rel |-> <<"other">>, name |-> "a"], <<>>), A), Bin("~", B, Col("missing")), Bin("=", Col("long"), A),
   Bin("AND", E("in", "IN", <<Col("missing")>>), Bin("=", A, A))}

Table1 == [schema |-> "s", table |-> "t", aliases |-> {}, columns |-> <<"a", "b">>]

ScanInputs ==
  {[kind |-> "scan", rel |-> r, projection |-> pr, filters |-> fs, fetch |-> n, lowering |-> "ExternalHint"] :
     r \in {Table1}, pr \in {NoLimit, <<1>>, <<2, 1>>, <<>>}, n \in {NoLimit, 1, 2},
     fs \in {<<>>} \cup {<<p>> : p \in Predicates} \cup {<<p, q>> : p, q \in Predicates}}
  \cup {[kind |-> "scan", rel |-> r, projection |-> pr, filters |-> <<Bin("=", A, Num(1))>>, fetch |-> 1, lowering |-> "SqlClause"] :
          r \in {Table1, [Table1 EXCEPT !.schema = "long"], [Table1 EXCEPT !.columns = <<"a", "b", "long">>]},
          pr \in {NoLimit, <<1>>, <<3>>}}

Rows == LET v == <<0, 1, Null>> IN [i \in 1 .. 9 |-> [a |-> v[((i * 2) % 3) + 1], b |-> v[(((i - 1) \div 3) % 3) + 1]]]

Take(s, n) == IF n = NoLimit THEN s ELSE SubSeq(s, 1, IF n < Len(s) THEN n ELSE Len(s))
Project(rel, cols, rows) == [i \in 1 .. Len(rows) |-> [k \in 1 .. Len(cols) |-> rows[i][rel.columns[cols[k]]]]]

(* Of uninterpreted functions, and of a typmod behind a cast, which loses  *)
(* its header twice and which the frontend never makes, only the errors    *)
(* are checked.                                                            *)
RECURSIVE Interpreted(_)
Interpreted(e) ==
  /\ ~(e.op = "fn" /\ (e.info = "unknown" \/ (e.info = "pg_fusion_varchar_typmod" /\ e.args[2].op = "cast")))
  /\ \A i \in 1 .. Len(e.args) : Interpreted(e.args[i])

(* The columns a filter mentions, an empty IN list never being looked at.  *)
RECURSIVE Mentioned(_)
Mentioned(e) ==
  CASE e.op = "col" -> {e.info} [] e.op = "in" /\ Len(e.args) = 1 -> {}
    [] OTHER -> UNION {Mentioned(e.args[i]) : i \in 1 .. Len(e.args)}

KnownColumn(c) == c.name \in {"a", "b"} /\ c.rel \in {<<>>, <<"t">>, <<"s", "t">>}

(* A scan compiles exactly when its names are known; PostgreSQL's rows,    *)
(* cut at the row cap, filtered by the residual and projected, are the     *)
(* rows of the query, as far as the limit above asks for them.             *)
ScanReturnsTheRows(in) ==
  LET c == CompileScan(in)
      legal == /\ in.rel.schema # "long" /\ "long" \notin ToSet(in.rel.columns)
               /\ in.projection = NoLimit \/ \A i \in 1 .. Len(in.projection) : in.projection[i] <= Len(in.rel.columns)
               /\ \A i \in 1 .. Len(in.filters) : \A m \in Mentioned(in.filters[i]) : KnownColumn(m)
      scan == c.v
      hold(es, value(_, _), rows) == SelectSeq(rows, LAMBDA r : \A i \in 1 .. Len(es) : value(es[i], r) = 1)
      heap == Take(hold(scan.pushed, SqlValue, Rows), FetchHints(scan).row_cap)
      above == hold(scan.residual, DfValue, heap)
      wanted == Project(in.rel, scan.selected, hold(in.filters, DfValue, Rows))
  IN  /\ (c.tag = "some") = legal
      /\ legal /\ (\A i \in 1 .. Len(in.filters) : Interpreted(in.filters[i])) =>
           /\ Take(Project(in.rel, scan.selected, above), in.fetch) = Take(wanted, in.fetch)
           /\ \A k \in 1 .. Len(scan.residual) : \A m \in Mentioned(scan.residual[k]) :
                \E i \in 1 .. Len(scan.output) : in.rel.columns[scan.output[i]] = m.name

BlockInputs == {[kind |-> "blocks", ends |-> <<x, y, z>>] : x, y, z \in 0 .. 3}

(* The ranges of consecutive producers hold every row exactly once.        *)
BlocksPartition(in) ==
  LET ends == SortSeq(in.ends, <)
      lo(i) == IF i = 1 THEN 0 ELSE ends[i - 1]
  IN  \A b \in 0 .. 2, o \in 1 .. 2 :
        Cardinality({i \in 1 .. 3 : InBlockRange([block |-> b, offset |-> o], lo(i), ends[i])}) = Truth(b < ends[3])

-----------------------------------------------------------------------------
(* Literals.                                                               *)

Texts == {<<>>, <<"x">>, <<Quote>>, <<"x", Quote, Quote>>, <<Backslash, Quote>>}
Literals ==
  {Lit(t, v) : t \in {"int2", "int8"}, v \in {-2, 0, 3}} \cup {Lit("bool", b) : b \in BOOLEAN}
  \cup {Lit("text", v) : v \in Texts}
  \cup {[type |-> "text", v |-> v, meta |-> m] : v \in Texts \cup {Missing},
          m \in {[tag |-> "broken"]} \cup [tag : {"type"}, oid : {"text", "name", "varchar", "bpchar", "json"}, typmod : {-1, 4, 7}]}
  \cup {[type |-> "decimal", v |-> v, scale |-> s, meta |-> NoMeta] : v \in {-205, -3, 0, 7, 40, 1234}, s \in -2 .. 4}
  \cup {Lit("bytea", v) : v \in {<<>>, <<1>>, <<2, 3>>}} \cup {[type |-> "float", v |-> 1, finite |-> f, meta |-> NoMeta] : f \in BOOLEAN}
  \cup {Lit("time", v) : v \in {0, 1, DayLength - 1, DayLength}} \cup {Lit("date", v) : v \in {-1, 0, 9}}
  \cup {[type |-> "timestamp", v |-> v, zone |-> z, meta |-> NoMeta] : v \in {-1, 5}, z \in BOOLEAN}
  \cup {Lit(t, Missing) : t \in {"int4", "interval", "nanos", "list", "bytea", "time"}} \cup {Lit("interval", 1)}
LiteralInputs == {[kind |-> "literal", lit |-> l] : l \in Literals}

(* PostgreSQL's lexer: the characters between the quotes, pairs of quotes  *)
(* standing for one; "unterminated" when a lone quote ends it early.       *)
Lexed(text) ==
  LET inner == SubSeq(text, 2, Len(text) - 1)
      f[i \in 0 .. Len(inner)] ==
        IF i = 0 THEN [out |-> <<>>, open |-> FALSE, ok |-> TRUE]
        ELSE IF inner[i] # Quote THEN [f[i - 1] EXCEPT !.out = IF f[i - 1].open THEN @ ELSE Append(@, inner[i]),
                                                       !.ok = @ /\ ~f[i - 1].open]
        ELSE IF f[i - 1].open THEN [f[i - 1] EXCEPT !.out = Append(@, Quote), !.open = FALSE]
        ELSE [f[i - 1] EXCEPT !.open = TRUE]
      end == f[Len(inner)]
  IN  IF end.ok /\ ~end.open THEN Some(end.out) ELSE Nothing

(* byteain: hex format after \x, otherwise escape format, where \\ is one  *)
(* backslash.                                                              *)
ByteaIn(chars) ==
  IF Len(chars) >= 2 /\ SubSeq(chars, 1, 2) = <<Backslash, "x">>
  THEN [i \in 1 .. Len(chars) - 2 |-> CHOOSE b \in 0 .. 3 : Hex(b) = <<chars[i + 2]>>]
  ELSE IF Len(chars) >= 2 /\ SubSeq(chars, 1, 2) = <<Backslash, Backslash>>
  THEN <<Backslash>> \o SubSeq(chars, 3, Len(chars)) ELSE chars

NumberOf(digits) == LET f[i \in 0 .. Len(digits)] == IF i = 0 THEN 0 ELSE 10 * f[i - 1] + digits[i] IN f[Len(digits)]

Blank == " "
StripBlanks(chars) ==
  LET last == {i \in 1 .. Len(chars) : chars[i] # Blank} \cup {0} IN SubSeq(chars, 1, CHOOSE i \in last : \A j \in last : j <= i)

ReadsAs(form, lit) ==
  CASE form.form = "null" -> lit.v = Missing
    [] form.form \in {"number", "bool", "float", "date_plus", "timestamp_plus"} -> form.v = lit.v
    [] form.form = "time_plus" -> form.v % DayLength = lit.v
    [] form.form = "string" -> Lexed(form.text) = Some(lit.v)
    [] form.form = "bytea" -> ByteaIn(Lexed(form.text).v) = lit.v
    [] form.form = "typed" ->
         LET read == Lexed(form.text)
             n == form.target.len
         IN  read.tag = "some" /\ StripBlanks(IF n = Nothing THEN read.v ELSE Take(read.v, n.v)) = StripBlanks(lit.v)
    [] form.form = "decimal" ->
         /\ form.text.whole # <<>> /\ form.text.neg = (lit.v < 0)
         /\ Len(form.text.frac) = IF lit.scale > 0 THEN lit.scale ELSE 0
         /\ NumberOf(form.text.whole \o form.text.frac) = (IF lit.v < 0 THEN -lit.v ELSE lit.v) * (IF lit.scale < 0 THEN 10 ^ (-lit.scale) ELSE 1)

(* A rendered literal that PostgreSQL reads as another value: any bytea,   *)
(* and the time 24:00:00, which the addition wraps to 00:00:00.            *)
Misread(lit) == lit.v # Missing /\ (lit.type = "bytea" \/ (lit.type = "time" /\ lit.v = DayLength))
LiteralKeepsItsValue(in) ==
  LET r == RenderLiteral(in.lit) IN r # Nothing => (Misread(in.lit) \/ ReadsAs(r.v, in.lit))
ByteaIsRead(in) == LET r == RenderLiteral(in.lit) IN in.lit.type = "bytea" /\ r # Nothing => ReadsAs(r.v, in.lit)

-----------------------------------------------------------------------------
(* Plans.                                                                  *)

PlanTable(name, filter) ==
  Node("table", [source |-> "pg", name |-> name,
                 input |-> [rel |-> Table1, projection |-> <<1>>, filters |-> filter, fetch |-> NoLimit, lowering |-> "ExternalHint"]], <<>>)
Plain == PlanTable("alias", <<Bin("=", E("col", [rel |-> <<"alias">>, name |-> "a"], <<>>), Num(1))>>)
Cte1 == Node("cte", [id |-> 1], <<Node("join", [type |-> "inner", on |-> 1, filter |-> FALSE], <<Plain, Plain>>)>>)
SpecialValues == Node("values", [special |-> TRUE], <<>>)
SpecialCast == [Node("filter", <<>>, <<Plain>>) EXCEPT !.exprs = {"special cast"}]
SpecialPlans ==
  {[Node("project", <<1>>, <<x>>) EXCEPT !.exprs = es] : es \in {{"column"}, {"column cast"}, {"special"}},
     x \in {SpecialValues, Node("values", [special |-> FALSE], <<>>), Node("union", <<>>, <<Plain, SpecialValues>>),
            [Node("project", <<1>>, <<SpecialValues>>) EXCEPT !.exprs = {"column"}]}}
Leaves ==
  {Plain, Cte1, Node("cte", [id |-> 2], <<Node("project", <<1>>, <<Cte1>>)>>), PlanTable("t", <<Bin("~", B, Num(1))>>),
   PlanTable("t", <<Bin("=", Col("missing"), A)>>), [Plain EXCEPT !.info.source = "other"], Node("empty", [one_row |-> FALSE], <<>>),
   [Node("filter", <<>>, <<Plain>>) EXCEPT !.exprs = {"exists"}, !.subs = <<Plain>>],
   [Node("agg", <<>>, <<Plain>>) EXCEPT !.exprs = {"grouping"}], SpecialValues, SpecialCast}
Plans ==
  Leaves \cup SpecialPlans \cup {Node("join", [type |-> t, on |-> n, filter |-> FALSE], <<x, y>>) : t \in {"inner", "left"}, n \in {0, 1}, x, y \in Leaves}
         \cup {Node("union", <<>>, <<x, y, z>>) : x, y, z \in Leaves}
PlanInputs ==
  {[kind |-> "plan", plan |-> p, types |-> <<"uint64", "int64">>, first |-> f,
    optimized |-> [plan |-> p, types |-> <<"uint64", "int64">>]] : p \in Plans, f \in {1, MaxScanId - 3}}
  \cup {[kind |-> "plan", plan |-> p, types |-> <<"utf8", "large_utf8">>, optimized |-> o, first |-> 1] :
          p \in Leaves, o \in {[plan |-> Node("empty", [one_row |-> b], <<>>), types |-> ts] : b \in BOOLEAN, ts \in {<<>>, <<"utf8", "large_utf8">>}}
                               \cup {[plan |-> q, types |-> <<"utf8", "large_utf8">>] : q \in {Cte1, SpecialCast}}}

(* Where a scan runs: under its innermost CTE, at a position of its input. *)
RECURSIVE Sites(_, _, _)
Sites(p, cte, at) ==
  IF p.op = "scan" THEN {[id |-> p.info.id, cte |-> cte, at |-> at]}
  ELSE UNION {IF p.op = "cte" THEN Sites(p.kids[i], p.info.id, <<>>) ELSE Sites(p.kids[i], cte, Append(at, i)) : i \in 1 .. Len(p.kids)}

(* Spelled in VALUES or in a projection and passed up to p.                *)
RECURSIVE SpecialReaches(_)
SpecialReaches(p) ==
  CASE p.op = "values" -> p.info.special
    [] "special" \in p.exprs -> TRUE
    [] p.op = "project" /\ p.exprs = {} -> FALSE
    [] OTHER -> \E i \in 1 .. Len(p.kids) : SpecialReaches(p.kids[i])

(* An accepted plan holds no table scan, no subquery and no cast of a NaN, *)
(* not of a column of the root that may be one either, gives each place a  *)
(* scan runs an id of its own, lists exactly the scans it runs, leaves no  *)
(* filter to DataFusion and returns columns PostgreSQL has types for.      *)
PlanIsExecutable(in) ==
  \A r \in {BuildFrontendLogicalPlan(in.plan, in.types, in.optimized, in.first)} :
    r.ok =>
      LET sites == Sites(r.plan, 0, <<>>)
          nodes == NodesWithSubqueries(r.plan)
      IN  /\ \A i \in DOMAIN nodes : nodes[i].op # "table" /\ nodes[i].exprs \cap (SubqueryExprs \cup {"special cast"}) = {}
          /\ \A i \in DOMAIN nodes : "column cast" \in nodes[i].exprs => ~SpecialReaches(nodes[i].kids[1])
          /\ \A s, t \in sites : (s.id = t.id) = (s.cte = t.cte /\ s.at = t.at)
          /\ {r.scans[i].id : i \in 1 .. Len(r.scans)} = {s.id : s \in sites}
          /\ \A i, j \in 1 .. Len(r.scans) : r.scans[i].id = r.scans[j].id => i = j
          /\ \A i \in 1 .. Len(r.scans) : r.scans[i].id < MaxScanId /\ r.scans[i].scan.all_filters_compiled
          /\ ToSet(r.types) \cap {"uint64", "large_utf8"} = {} \/ r.plan.op = "empty"

PUnary(ps) == {[op |-> o, kids |-> <<p>>] : o \in {"sort", "bounded_window", "filter", "cte_read"}, p \in ps}
PBinary(ps, qs) == {[op |-> o, kids |-> <<p, q>>] : o \in {"hash_join", "symmetric_hash_join", "union"}, p \in ps, q \in qs}
PHolders(ps) == {[op |-> o, kids |-> <<p>>] : o \in {"partial_sort", "window"}, p \in ps}
                  \cup {[op |-> o, kids |-> <<p, q>>] : o \in {"cross_join", "nested_loop_join"}, p, q \in ps}
PLeaf == {[op |-> "page_scan", kids |-> <<>>], [op |-> "values", kids |-> <<>>]}
PSmall == PLeaf \cup PUnary(PLeaf) \cup PBinary(PLeaf, PLeaf)
PhysicalInputs == {[kind |-> "physical", plan |-> p] : p \in PUnary(PUnary(PSmall)) \cup PBinary(PSmall, PSmall) \cup PUnary(PBinary(PSmall, PLeaf)) \cup PHolders(PSmall)}

(* A page may reach the output of p.  Materializers and CTE reads copy.    *)
RECURSIVE EmitsPages(_)
EmitsPages(p) == p.op = "page_scan" \/ (p.op \notin {"materialize", "cte_read"} /\ \E i \in 1 .. Len(p.kids) : EmitsPages(p.kids[i]))

(* The inputs whose batches an operator keeps after it has asked for the   *)
(* next one: all rows to be ordered, the rows of a window's frame, the     *)
(* build side of a join, both sides when either may be probed.             *)
Keeps(op, i) == CASE op \in {"filter", "union", "cte_read", "materialize"} -> FALSE
                  [] op = "symmetric_hash_join" -> TRUE
                  [] OTHER -> i = 1

RECURSIVE HoldsNoPages(_)
HoldsNoPages(p) == \A i \in 1 .. Len(p.kids) : HoldsNoPages(p.kids[i]) /\ (Keeps(p.op, i) => ~EmitsPages(p.kids[i]))

RECURSIVE Stripped(_)
Stripped(p) == IF p.op = "materialize" THEN Stripped(p.kids[1]) ELSE [p EXCEPT !.kids = [i \in 1 .. Len(p.kids) |-> Stripped(p.kids[i])]]

(* After the rewrite no retaining operator holds shared pages, the plan is *)
(* otherwise unchanged, and rewriting again changes nothing.               *)
PagesAreNotHeld(in) ==
  \A p \in {InsertPageMaterializers(in.plan)} : HoldsNoPages(p) /\ Stripped(p) = in.plan /\ InsertPageMaterializers(p) = p

-----------------------------------------------------------------------------
ScanSqlInputs == ScanInputs \cup BlockInputs \cup LiteralInputs
ScanPlanInputs == PlanInputs \cup PhysicalInputs

ScanSqlHolds(in) ==
  CASE in.kind = "scan" -> ScanReturnsTheRows(in)
    [] in.kind = "blocks" -> BlocksPartition(in)
    [] in.kind = "literal" -> LiteralKeepsItsValue(in)
    [] OTHER -> TRUE

ScanPlanHolds(in) ==
  CASE in.kind = "plan" -> PlanIsExecutable(in)
    [] in.kind = "physical" -> PagesAreNotHeld(in)
    [] OTHER -> TRUE

=============================================================================
