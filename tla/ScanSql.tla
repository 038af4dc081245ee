------------------------------- MODULE ScanSql -------------------------------
(***************************************************************************)
(* Compiling a table scan to PostgreSQL SQL (src/pg/scan_sql) and the scan *)
(* leaf built from it (PgScanSpec, PgScanFetchHints, PgScanBuilder).       *)
(*                                                                         *)
(* An expression is [op, info, args]: op "col" (info a column name), "lit" *)
(* (info a literal), "alias", "bin", "un", "is", "between", "in", "case",  *)
(* "cast", "fn", "like" or "opaque" (an expression with no SQL form).  SQL *)
(* text is the tree it is parsed to: every form is parenthesised.  Strings *)
(* are sequences of characters.                                            *)
(***************************************************************************)
EXTENDS Integers, Sequences, FiniteSets, SequencesExt

CONSTANTS
  LongNames,       \* identifiers longer than NAMEDATALEN - 1 bytes
  NoLimit,         \* no fetch requested
  Missing          \* the value of a NULL literal

Some(x) == [tag |-> "some", v |-> x]
Nothing == [tag |-> "none"]
CompileError(e) == [tag |-> "err", err |-> e]

-----------------------------------------------------------------------------
(* Literals: [type, v, meta].  meta is the type the frontend attached:     *)
(* its tag is "none", "broken" (a key missing) or "type", with the oid and *)
(* the typmod.                                                             *)

Quote == "'"
Doubled(chars) ==
  LET f[i \in 0 .. Len(chars)] ==
        IF i = 0 THEN <<>> ELSE f[i - 1] \o IF chars[i] = Quote THEN <<Quote, Quote>> ELSE <<chars[i]>>
  IN  f[Len(chars)]

RenderString(chars) == <<Quote>> \o Doubled(chars) \o <<Quote>>

Digits(n) ==
  LET f[i \in 0 .. 9] == IF i = 0 THEN <<>> ELSE
        IF n \div (10 ^ (i - 1)) = 0 /\ i > 1 THEN f[i - 1] ELSE <<(n \div (10 ^ (i - 1))) % 10>> \o f[i - 1]
  IN  f[9]

Zeros(n) == [i \in 1 .. n |-> 0]

(* The point is placed scale digits from the right.                        *)
ApplyDecimalScale(value, scale) ==
  LET digits == Digits(IF value < 0 THEN -value ELSE value)
      n == Len(digits)
  IN  [neg |-> value < 0,
       whole |-> CASE scale <= 0 -> digits \o Zeros(-scale)
                   [] n <= scale -> <<0>>
                   [] OTHER -> SubSeq(digits, 1, n - scale),
       frac |-> CASE scale <= 0 -> <<>>
                  [] n <= scale -> Zeros(scale - n) \o digits
                  [] OTHER -> SubSeq(digits, n - scale + 1, n)]

TextTypmodLength(typmod) == IF typmod > 4 THEN Some(typmod - 4) ELSE Nothing

(* The cast target of a text-like type, its length when it has one.        *)
CastTarget(meta) ==
  CASE meta.oid \in {"text", "name"} -> Some([oid |-> meta.oid, len |-> Nothing])
    [] meta.oid \in {"varchar", "bpchar"} ->
         IF meta.typmod = -1 THEN Some([oid |-> meta.oid, len |-> Nothing])
         ELSE IF TextTypmodLength(meta.typmod) = Nothing THEN Nothing
         ELSE Some([oid |-> meta.oid, len |-> TextTypmodLength(meta.typmod)])
    [] OTHER -> Nothing

Hex(b) == SubSeq(<<"0", "1", "2", "3">>, b + 1, b + 1)
Backslash == "\\"

(* Two backslashes before the x: format!("'\\\\x{}'::bytea").              *)
RenderBytea(bytes) == <<Quote, Backslash, Backslash, "x">> \o FlattenSeq([i \in 1 .. Len(bytes) |-> Hex(bytes[i])]) \o <<Quote>>

IntTypes == {"int2", "int4", "int8"}

RenderUntyped(lit) ==
  LET t == lit.type IN
  CASE lit.v = Missing -> IF t \in {"interval", "nanos", "list"} THEN Nothing ELSE Some([form |-> "null"])
    [] t = "bool" -> Some([form |-> "bool", v |-> lit.v])
    [] t \in IntTypes -> Some([form |-> "number", v |-> lit.v])
    [] t = "float" -> IF lit.finite THEN Some([form |-> "float", v |-> lit.v]) ELSE Nothing
    [] t = "decimal" -> Some([form |-> "decimal", text |-> ApplyDecimalScale(lit.v, lit.scale), scale |-> lit.scale])
    [] t = "text" -> Some([form |-> "string", text |-> RenderString(lit.v)])
    [] t = "bytea" -> Some([form |-> "bytea", text |-> RenderBytea(lit.v)])
    [] t = "date" -> Some([form |-> "date_plus", v |-> lit.v])
    [] t = "time" -> Some([form |-> "time_plus", v |-> lit.v])
    [] t = "timestamp" -> IF lit.zone THEN Nothing ELSE Some([form |-> "timestamp_plus", v |-> lit.v])
    [] OTHER -> Nothing

RenderLiteral(lit) ==
  CASE lit.meta.tag = "none" -> RenderUntyped(lit)
    [] lit.meta.tag = "broken" -> Nothing
    [] OTHER -> LET target == CastTarget(lit.meta)
                IN  IF target = Nothing \/ lit.type # "text" THEN Nothing
                    ELSE IF lit.v = Missing THEN Some([form |-> "null"])
                    ELSE Some([form |-> "typed", target |-> target.v, text |-> RenderString(lit.v)])

-----------------------------------------------------------------------------
(* Expressions.                                                            *)

NoSqlOperators == {"~", "~*", "!~", "!~*"}

CastTypes == {"bool", "int2", "int4", "int8", "float", "decimal", "text", "bytea"}

(* Functions by their number of arguments; the SQL name when it differs.   *)
Functions1 == {"abs", "ceil", "floor", "lower", "upper", "trim", "ltrim", "rtrim", "btrim", "exp", "ln", "sqrt", "round",
               "trunc", "acosh", "asinh", "atanh", "cosh", "sinh", "tanh", "length", "char_length",
               "pg_fusion_bpchar_cmp_key", "pg_fusion_bpchar_length"}
Functions2 == {"strpos", "contains", "nullif", "power", "round", "trunc"}
ScaleFunctions == {"pg_fusion_numeric_round_scale", "pg_fusion_numeric_trunc_scale"}
TypmodFunctions == {"pg_fusion_varchar_typmod", "pg_fusion_bpchar_typmod"}

(* The length of a constant text typmod.  Behind a cast to int4 the length *)
(* is taken of the length once more.                                       *)
RECURSIVE TypmodArg(_)
TypmodArg(e) ==
  CASE e.op = "lit" -> IF e.info.type = "int4" /\ e.info.v # Missing THEN TextTypmodLength(e.info.v) ELSE Nothing
    [] e.op = "cast" /\ e.info = "int4" ->
         LET inner == TypmodArg(e.args[1]) IN IF inner = Nothing THEN Nothing ELSE TextTypmodLength(inner.v)
    [] OTHER -> Nothing

(* A cast to int8 around the scale argument is replaced by one to int4.    *)
ScaleArg(e) ==
  [op |-> "cast", info |-> "int4", args |-> <<IF e.op = "cast" /\ e.info = "int8" THEN e.args[1] ELSE e>>]

FunctionSql(e, args) ==
  LET name == e.info
      call(n, as) == Some([op |-> "fn", info |-> n, args |-> as])
  IN  CASE Len(args) = 1 /\ name = "pg_fusion_bpchar_cmp_key" -> Some(args[1])
        [] Len(args) = 1 /\ name = "pg_fusion_bpchar_length" -> call("length", args)
        [] Len(args) = 1 /\ name \in {"length", "char_length"} -> call("char_length", args)
        [] Len(args) = 1 /\ name \in Functions1 -> call(name, args)
        [] Len(args) = 2 /\ name = "contains" ->
             Some([op |-> "bin", info |-> ">", args |-> <<[op |-> "fn", info |-> "strpos", args |-> args],
                                                         [op |-> "lit", info |-> [form |-> "number", v |-> 0], args |-> <<>>]>>])
        [] Len(args) = 2 /\ name \in Functions2 -> call(name, args)
        [] Len(args) = 2 /\ name \in ScaleFunctions -> call(IF name = "pg_fusion_numeric_round_scale" THEN "round" ELSE "trunc", args)
        [] Len(args) = 2 /\ name \in TypmodFunctions ->
             LET n == TypmodArg(e.args[2])
             IN  IF n = Nothing THEN Nothing
                 ELSE call(IF name = "pg_fusion_varchar_typmod" THEN "varchar" ELSE "bpchar",
                           <<args[1], [op |-> "lit", info |-> [form |-> "number", v |-> n.v], args |-> <<>>]>>)
        [] Len(args) > 0 /\ name = "concat" -> call(name, args)
        [] OTHER -> Nothing

Rendered(e, args) ==
  CASE e.op = "bin" -> IF e.info \in NoSqlOperators THEN Nothing ELSE Some([e EXCEPT !.args = args])
    [] e.op = "cast" -> IF e.info \in CastTypes THEN Some([e EXCEPT !.args = args]) ELSE Nothing
    [] e.op = "fn" -> FunctionSql(e, args)
    [] e.op = "like" -> IF e.info = "SIMILAR TO ci" THEN Nothing ELSE Some([e EXCEPT !.args = args])
    [] OTHER -> Some([e EXCEPT !.args = args])

(* rel: [schema, table, aliases, columns].  A column is [rel, name], rel   *)
(* the empty sequence, <<table>> or <<schema, table>>.                     *)
Matches(rel, reference) ==
  IF Len(reference) = 1 THEN reference[1] = rel.table \/ reference[1] \in rel.aliases
  ELSE reference = <<rel.schema, rel.table>>

RenderColumn(c, rel) ==
  CASE \E i \in 1 .. Len(c.rel) : c.rel[i] \in LongNames -> CompileError("OverlongIdentifier")
    [] c.rel # <<>> /\ ~Matches(rel, c.rel) -> CompileError("UnexpectedRelation")
    [] c.name \in LongNames -> CompileError("OverlongIdentifier")
    [] ~Contains(rel.columns, c.name) -> CompileError("UnknownColumn")
    [] OTHER -> Some([sql |-> [op |-> "col", info |-> c.name, args |-> <<>>], cols |-> {c.name}])

RECURSIVE RenderExpr(_, _)
RenderExpr(e, rel) ==
  CASE e.op = "alias" -> RenderExpr(e.args[1], rel)
    [] e.op = "col" -> RenderColumn(e.info, rel)
    [] e.op = "lit" -> LET l == RenderLiteral(e.info)
                       IN  IF l = Nothing THEN Nothing
                           ELSE Some([sql |-> [op |-> "lit", info |-> l.v, args |-> <<>>], cols |-> {}])
    [] e.op = "opaque" -> Nothing
    [] e.op = "in" /\ Len(e.args) = 1 ->
         Some([sql |-> [op |-> "lit", info |-> [form |-> "bool", v |-> e.info = "NOT IN"], args |-> <<>>], cols |-> {}])
    [] OTHER ->
         LET operands == IF e.op = "fn" /\ e.info \in ScaleFunctions /\ Len(e.args) = 2
                         THEN <<e.args[1], ScaleArg(e.args[2])>> ELSE e.args
             parts == [i \in 1 .. Len(operands) |-> RenderExpr(operands[i], rel)]
             stop == {i \in 1 .. Len(parts) : parts[i].tag # "some"}
             first == parts[CHOOSE i \in stop : \A j \in stop : i <= j]
             whole == Rendered(e, [i \in 1 .. Len(parts) |-> parts[i].v.sql])
         IN  IF stop # {} THEN first
             ELSE IF whole = Nothing THEN Nothing
             ELSE Some([sql |-> whole.v, cols |-> UNION {parts[i].v.cols : i \in 1 .. Len(parts)}])

RECURSIVE ColumnRefs(_)
ColumnRefs(e) ==
  IF e.op = "col" THEN <<e.info>> ELSE FlattenSeq([i \in 1 .. Len(e.args) |-> ColumnRefs(e.args[i])])

(* The names of the columns, or the error of the first bad one.            *)
CollectFilterColumns(e, rel) ==
  LET refs == ColumnRefs(e)
      bad == {i \in 1 .. Len(refs) : RenderColumn(refs[i], rel).tag = "err"}
  IN  IF bad # {} THEN RenderColumn(refs[CHOOSE i \in bad : \A j \in bad : i <= j], rel)
      ELSE Some({refs[i].name : i \in 1 .. Len(refs)})

RECURSIVE SplitTopLevelAnd(_)
SplitTopLevelAnd(e) ==
  CASE e.op = "alias" -> SplitTopLevelAnd(e.args[1])
    [] e.op = "bin" /\ e.info = "AND" -> SplitTopLevelAnd(e.args[1]) \o SplitTopLevelAnd(e.args[2])
    [] OTHER -> <<e>>

-----------------------------------------------------------------------------
(* input: [rel, projection, filters, fetch, lowering]; projection NoLimit  *)
(* selects every column.                                                   *)

IdentifiersFit(rel) == ({rel.schema, rel.table} \cup ToSet(rel.columns)) \cap LongNames = {}

CompileScan(input) ==
  LET fields == input.rel.columns
      selected == IF input.projection = NoLimit THEN [i \in 1 .. Len(fields) |-> i] ELSE input.projection
      conjuncts == FlattenSeq([i \in 1 .. Len(input.filters) |-> SplitTopLevelAnd(input.filters[i])])
      rendered == [i \in 1 .. Len(conjuncts) |->
                     LET r == RenderExpr(conjuncts[i], input.rel)
                     IN  IF r.tag # "none" THEN r
                         ELSE LET c == CollectFilterColumns(conjuncts[i], input.rel) IN IF c.tag = "err" THEN c ELSE r]
      errors == {i \in 1 .. Len(rendered) : rendered[i].tag = "err"}
      pushed == SelectSeq([i \in 1 .. Len(rendered) |-> i], LAMBDA i : rendered[i].tag = "some")
      residual == SelectSeq([i \in 1 .. Len(rendered) |-> i], LAMBDA i : rendered[i].tag = "none")
      index(names) == {i \in 1 .. Len(fields) : fields[i] \in names}
      extra == SetToSortSeq(index(UNION {CollectFilterColumns(conjuncts[residual[k]], input.rel).v : k \in 1 .. Len(residual)})
                              \ ToSet(selected), <)
      output == selected \o extra
  IN  CASE ~IdentifiersFit(input.rel) -> CompileError("OverlongIdentifier")
        [] \E i \in 1 .. Len(selected) : selected[i] > Len(fields) -> CompileError("InvalidProjectionIndex")
        [] errors # {} -> rendered[CHOOSE i \in errors : \A j \in errors : i <= j]
        [] OTHER ->
             Some([selected |-> selected, output |-> output, residual_columns |-> extra,
                   pushed |-> [k \in 1 .. Len(pushed) |-> rendered[pushed[k]].v.sql],
                   residual |-> [k \in 1 .. Len(residual) |-> conjuncts[residual[k]]],
                   filter_only |-> index(UNION {rendered[pushed[k]].v.cols : k \in 1 .. Len(pushed)}) \ ToSet(output),
                   all_filters_compiled |-> residual = <<>>, dummy |-> output = <<>>,
                   requested_limit |-> input.fetch,
                   sql_limit |-> IF input.lowering = "SqlClause" THEN input.fetch ELSE NoLimit])

(* The block range of one producer: ctid >= (start,1) and < (end,1).       *)
InBlockRange(ctid, start, end) ==
  /\ ctid.block > start \/ (ctid.block = start /\ ctid.offset >= 1)
  /\ ctid.block < end \/ (ctid.block = end /\ ctid.offset < 1)

(* A row cap would stop a scan before its residual filters are satisfied.  *)
FetchHintsAlways(scan) == [planner |-> scan.requested_limit, row_cap |-> scan.requested_limit]
FetchHints(scan) ==
  [planner |-> scan.requested_limit,
   row_cap |-> IF scan.all_filters_compiled THEN scan.requested_limit ELSE NoLimit]

=============================================================================
