---------------------------- MODULE MCTranslation ----------------------------
(***************************************************************************)
(* Everything that is translated from one form into another: values,       *)
(* functions, filters, queries, join trees, scan SQL, plans and messages.  *)
(* A state is one input of one of the translations; the first states only  *)
(* name the groups of inputs.  The properties of the larger translations   *)
(* say of every step that the input it draws is translated right.          *)
(*                                                                         *)
(* MaxPrecision 8 keeps the unscaled decimals within TLC's integers and    *)
(* one base-10000 digit short of the widest numeric, so that every         *)
(* overflow of the sum is reached.                                         *)
(***************************************************************************)
EXTENDS FilterKeys

CONSTANTS FnNull, IntMax, MaxDigits, FracDigits, NanosInMicro,
          TimeoutCheckInterval, MaxSetRels, NoStat,
          LongNames, NoLimit, Missing, MaxScanId,
          SqlNull, Failed

VARIABLE in

Fn == INSTANCE PgFunctions
Joining == INSTANCE JoinReorder
Scanning == INSTANCE PlanBuild
Frontend == INSTANCE FrontendChecks WITH Null <- SqlNull
Control == INSTANCE ControlMessages

MCIntMax == [int2 |-> 7, int4 |-> 15]

MCDateMin == -32768
MCTimeMin == -524288

Typmod(precision, scale) == 4 + precision * 65536 + (scale % 2048)

Typmods == {-1, 0, 3, 4} \cup {Typmod(p, s) : p \in {0, 1, 2, 5, 8, 9}, s \in {-2, 0, 1, 2, 5, 6}}

Dates ==
  UNION {{d - 1, d, d + 1} : d \in {0, EpochDays, -EpochDays, DateMax - EpochDays, DateMin + EpochDays}}
    \cup {DateMin, DateMin + 1, DateMax - 1, DateMax}

Times == {TimeMin, TimeMin \div 1000 - 1, TimeMin \div 1000, -1001, -1000, -1, 0, 1, 999, 1000,
          TimeMax \div 1000, TimeMax \div 1000 + 1, TimeMax}

Intervals ==
  [month : {DateMin, 0, DateMax}, day : {DateMin, 1, DateMax}, time : Times]

NumDigits == {1, 25, 100, 2500, 9999}

Numerics ==
  [special : {FALSE}, neg : BOOLEAN, weight : {-65, -64, -2, -1, 0, 1},
   digits : {<<>>} \cup {<<d>> : d \in NumDigits} \cup {<<d, e>> : d \in {1, 100, 9999}, e \in {0, 1, 2500, 9900}}]
    \cup [special : {TRUE}, neg : {FALSE}, weight : {0}, digits : {<<>>}]

Joins ==
  [type : JoinTypes, null_equality : {"NullEqualsNothing", "NullEqualsNull"}, null_aware : BOOLEAN,
   left_partitions : 1 .. 2, on : {1, 2}, columns : BOOLEAN, right_is_scan : BOOLEAN]

Keys == {NullKey, 1, 2}
LeftRows == {<<a, b>> : a \in [key : Keys, part : 1 .. 2], b \in [key : Keys, part : 1 .. 2]}

Texts == [chars : 0 .. 4, blanks : 0 .. 2]

Attrs == [oid : {"int4", "date", "text"}, typmod : {-1}, dropped : {FALSE}]
           \cup [oid : {"int4"}, typmod : {-1}, dropped : {TRUE}]
           \cup [oid : {"numeric"}, typmod : {-1, Typmod(5, 2)}, dropped : {FALSE}]
Descs == UNION {[1 .. n -> Attrs] : n \in 1 .. 2}
Projections == {Straight, <<1>>, <<2>>, <<2, 1>>, <<3>>}

ValueInputs ==
  [kind : {"type"}, oid : SupportedOids \cup {"json"}, typmod : Typmods]
    \cup [kind : {"date"}, v : {d \in Dates : d \in DateMin .. DateMax}]
    \cup [kind : {"interval"}, iv : Intervals]
    \cup [kind : {"numeric"}, num : Numerics, typmod : {-1} \cup {Typmod(p, s) : p \in {2, 5, 8}, s \in {0, 1, 2, 5}}]
    \cup [kind : {"word"}, oid : {"bool"} \cup ShortTypes \cup LongTypes, word : {0, 1} \cup {Word(d) : d \in Dates}]
    \cup [kind : {"row"}, desc : Descs, actual : Descs, projection : Projections, nullable : BOOLEAN, utf8 : BOOLEAN]
    \cup [kind : {"varlena"}, len : {0, 1, 125, 126, 127, 200}]
    \cup [kind : {"text"}, oid : TextOids, text : Texts, typmod : {-1, 4, 5, 7}]

FilterInputs ==
  [kind : {"join"}, join : Joins, left : {<<>>} \cup LeftRows, right : {<<a, b>> : a \in Keys, b \in Keys}]

Groups == {"value", "filter", "function", "join order", "scan SQL", "plan", "query", "message"}

InputsOf(group) ==
  CASE group = "value" -> ValueInputs
    [] group = "filter" -> FilterInputs
    [] group = "function" -> Fn!FunctionInputs
    [] group = "join order" -> Joining!JoinInputs
    [] group = "scan SQL" -> Scanning!ScanSqlInputs
    [] group = "plan" -> Scanning!ScanPlanInputs
    [] group = "query" -> [kind : {"query"}, query : Frontend!FrontendInputs]
    [] group = "message" -> Control!MessageInputs
    [] group = "lost query" -> [kind : {"query"}, query : Frontend!FrontendLosses]

Init == in \in [kind : {"group"}, group : Groups]

Pick == in.kind = "group" /\ in' \in InputsOf(in.group)
Stay == in.kind # "group" /\ UNCHANGED in

Spec == Init /\ [][Pick \/ Stay]_in

\* Only what is left out of the inputs above, because it is lost.
LiteralSpec == in \in Scanning!LiteralInputs /\ [][Stay]_in
SemiJoinSpec == in = [kind |-> "group", group |-> "lost query"] /\ [][Pick \/ Stay]_in

-----------------------------------------------------------------------------
(* References                                                              *)

\* The decimal digit at 10^pos, read off the base-10000 digits.
DecimalDigit(num, pos) ==
  LET i == num.weight - (pos \div 4) + 1
  IN  IF i \notin DOMAIN num.digits THEN 0 ELSE (num.digits[i] \div Pow10[pos % 4]) % 10

Places(num) == 4 * (num.weight - Len(num.digits)) .. 4 * num.weight + 4

Representable(num, shape) ==
  /\ ~num.special
  /\ \A pos \in Places(num) :
       DecimalDigit(num, pos) # 0 => pos \in -shape.scale .. shape.precision - shape.scale - 1

Unscaled(num, shape) ==
  LET places == [k \in 1 .. shape.precision |-> DecimalDigit(num, shape.precision - shape.scale - k)]
  IN  IF num.neg THEN -NumberOf(places) ELSE NumberOf(places)

\* What numeric_out prints: every digit down to the last one that is not zero.
NumericOut(num, extra) ==
  LET low == Min({pos \in Places(num) : DecimalDigit(num, pos) # 0} \cup {0})
      high == Max(Places(num) \cup {0})
      dscale == -low + extra
  IN  [special |-> num.special, neg |-> num.neg,
       whole |-> [k \in 1 .. high + 1 |-> DecimalDigit(num, high + 1 - k)],
       frac |-> [k \in 1 .. dscale |-> DecimalDigit(num, -k)]]

\* numeric_in's value: equal texts up to zeros at either end
SameNumber(a, b) ==
  /\ TrimStart(a.whole) = TrimStart(b.whole)
  /\ TrimEnd(a.frac) = TrimEnd(b.frac)
  /\ a.neg = b.neg \/ (TrimStart(a.whole) = <<>> /\ TrimEnd(a.frac) = <<>>)

NumericSurvives(num, typmod) ==
  LET shape == NumericShape(typmod)
      got == DecodeNumeric(NumericVarlena(num), shape)
      text == FormatDecimal(got.v, shape.scale, typmod < 0)
      back == NumericOut(num, 0)
  IN  /\ got.ok <=> Representable(num, shape)
      /\ got.ok => /\ got.v = Unscaled(num, shape)
                   /\ SameNumber(text, back)
                   /\ typmod >= 0 => Len(text.frac) = shape.scale
                   /\ typmod < 0 => text.frac = TrimEnd(text.frac)
      /\ DecodeText(back, shape) = got
      /\ \A extra \in 1 .. 2 :
           DecodeText(NumericOut(num, extra), shape).ok =>
             DecodeText(NumericOut(num, extra), shape) = got

TypesAgree(oid, typmod) ==
  LET data == ArrowType(oid, typmod)
      tag == TypeTag(oid, typmod)
  IN  /\ data.name = None <=> tag = None
      /\ \A collation \in {"none", "default", "C"} :
           ValueTypeSupported(oid, collation) /\ oid # "numeric" => tag # None
      /\ tag # None =>
           /\ TagForArrow(data) = tag
           /\ NormalizeField(data) = data
           /\ ColumnCompatible(data, tag)
           /\ TagForArrow(ArrowForTag(tag)) = tag
           /\ TypeTag(OidForArrow(data), typmod) = tag
           /\ KeyType(data) # None
           /\ Projector(oid, typmod, data) # None
           /\ data.name = "Decimal128" =>
                0 <= data.scale /\ data.scale <= data.precision /\ data.precision <= MaxPrecision

\* A datum for an attribute, another one for another position.
Sample(oid, pos) ==
  CASE oid = "numeric" -> [special |-> FALSE, neg |-> FALSE, weight |-> 0, digits |-> <<pos, 2500>>]
    [] oid = "text" -> [chars |-> pos, blanks |-> 1]
    [] OTHER -> Word(-pos)

Stored(oid, v) == IF oid = "numeric" THEN NumericVarlena(v) ELSE v

SameDatum(oid, v, back) ==
  IF oid = "numeric" THEN SameNumber(back, NumericOut(v, 0)) ELSE back = v

\* A row of a slot with descriptor `actual`, through an encoder made for
\* `desc`: every datum arrives in the column its projection put it in.
RowSurvives(desc, actual, projection, nullable, utf8) ==
  LET width == Len(IF projection = Straight THEN desc ELSE projection)
      source == [i \in 1 .. width |-> SourceOf(projection, i)]
      tags == [i \in 1 .. width |-> IF source[i] \in DOMAIN desc
                                   THEN TypeTag(desc[source[i]].oid, desc[source[i]].typmod) ELSE "Int32"]
      schema == [i \in 1 .. width |-> ArrowType(desc[source[i]].oid, desc[source[i]].typmod)]
      target == [i \in 1 .. width |-> actual[source[i]]]
      slot == [a \in DOMAIN actual |->
                 [null |-> a = 2 /\ nullable, datum |-> Stored(actual[a].oid, Sample(actual[a].oid, a))]]
      out == ProjectSlot(schema, target, ReadSlot(desc, projection, tags, nullable, slot))
  IN  /\ EncoderAccepts(desc, projection, tags, utf8) /\ SlotDescAccepted(desc, actual, projection, tags) =>
           /\ NeededAttrs(projection, tags) <= Len(actual)
           /\ ProjectorAccepts(schema, target, utf8)
           /\ \A i \in 1 .. width :
                /\ out[i].null = slot[source[i]].null
                /\ ~out[i].null =>
                     /\ out[i].datum.ok
                     /\ SameDatum(target[i].oid, Sample(target[i].oid, source[i]), out[i].datum.v)
      /\ EncoderAccepts(desc, projection, tags, utf8) => SlotDescAccepted(desc, desc, projection, tags)

(***************************************************************************)
(* A value that crosses to Arrow and back is the same value, and the ones  *)
(* refused are the ones Arrow cannot hold: infinite dates and intervals,   *)
(* days and microseconds that overflow, numerics with digits outside the   *)
(* column's precision and scale.  The on-disk decoding of a numeric agrees *)
(* with its text, as a constant has it; every type a scan admits has one   *)
(* Arrow type, page tag, filter key type and projector, and they agree.    *)
(***************************************************************************)
ValuesSurvive ==
  CASE in.kind = "type" -> TypesAgree(in.oid, in.typmod)
    [] in.kind = "date" ->
         /\ Date32(in.v).ok <=> ~IsDateInfinity(in.v) /\ in.v + EpochDays \in DateMin .. DateMax
         /\ Date32(in.v).ok => PgDate(Date32(in.v).v) = [ok |-> TRUE, v |-> in.v]
         /\ PgDate(in.v).ok => Date32(PgDate(in.v).v) = [ok |-> TRUE, v |-> in.v]
    [] in.kind = "interval" ->
         LET there == ReadInterval(in.iv)
         IN  there.ok => IntervalDatum(there) = [ok |-> TRUE, month |-> in.iv.month,
                                                day |-> in.iv.day, time |-> in.iv.time]
    [] in.kind = "numeric" -> NumericSurvives(in.num, in.typmod)
    [] in.kind = "word" ->
         LET cell == ReadCell(in.oid, -1, in.word)
             word == IF in.oid \in ShortTypes THEN Word(ReadInt(in.word)) ELSE in.word
         IN  cell.ok => ProjectCell(in.oid, -1, ArrowType(in.oid, -1), cell.v)
                          = Cell(IF in.oid = "bool" /\ in.word # 0 THEN 1 ELSE word)
    [] in.kind = "row" -> RowSurvives(in.desc, in.actual, in.projection, in.nullable, in.utf8)
    [] in.kind = "varlena" ->
         \A h \in PackedHeaders(in.len) : ReadPackedVarlena(h[1], h[2]) = [ok |-> TRUE, v |-> in.len]
    [] in.kind = "text" ->
         LET stored == TextDatum(in.oid, in.text, in.typmod)
         IN  stored.ok => TextDatum(in.oid, stored.text, in.typmod) = stored
    [] OTHER -> TRUE

\* Equality of the join: bits, except for floats
SameKey(type, a, b) ==
  \/ a = b
  \/ type \in {"Float32", "Float64"} /\ {a, b} \subseteq NaNs
  \/ type \in {"Float32", "Float64"} /\ {a, b} \subseteq {0, NegativeZero}

(***************************************************************************)
(* A runtime filter never changes the result of the join it was installed  *)
(* for: the planner installs it only where rows without a partner on the   *)
(* build side produce nothing (`maybe_wrap_hash_join`), and the key a scan *)
(* computes from a slot is the key the build side inserted for an equal    *)
(* value, decimals of another scale included (`hash_decimal128_key`).      *)
(***************************************************************************)
FiltersKeepTheJoin ==
  CASE in.kind = "join" /\ (in.join.left_partitions = 2 \/ \A i \in DOMAIN in.left : in.left[i].part = 1) ->
         WrapsJoin(in.join) =>
           \A contents \in FilterContents(in.join, in.left) :
             JoinRows(in.join, in.left, in.right, FilteredRows(in.right, contents))
               = JoinRows(in.join, in.left, in.right, DOMAIN in.right)
    [] in.kind = "numeric" ->
         \A t \in {-1, Typmod(2, 1), Typmod(5, 2), Typmod(8, 5)} :
           LET d == DecodeNumeric(NumericVarlena(in.num), NumericShape(t))
               type == KeyTypeForPair(ArrowType("numeric", t), ArrowType("numeric", in.typmod))
               key == SlotKey(type, [oid |-> "numeric", typmod |-> in.typmod], NumericVarlena(in.num))
           IN  key.ok /\ d.ok => key.hash = BuildKey(type, ArrowType("numeric", t), d.v)
    [] in.kind = "interval" ->
         LET key == SlotKey("IntervalMonthDayNano", [oid |-> "interval", typmod |-> -1], in.iv)
         IN  key.ok => key.hash = BuildKey("IntervalMonthDayNano", Arrow("MonthDayNano"), ReadInterval(in.iv))
    [] in.kind = "word" ->
         LET type == KeyType(ArrowType(in.oid, -1))
             attr == [oid |-> in.oid, typmod |-> -1]
             cell == ReadCell(in.oid, -1, in.word)
         IN  cell.ok => \A other \in {Word(NegativeZero), Word(DateMax), Word(-1), in.word} :
               LET there == ReadCell(in.oid, -1, other)
               IN  there.ok /\ SameKey(type, cell.v, there.v) =>
                     SlotKey(type, attr, in.word).hash = BuildKey(type, ArrowType(in.oid, -1), there.v)
    [] OTHER -> TRUE

(***************************************************************************)
(* The functions computed in the worker give what PostgreSQL gives: exact  *)
(* integers or an error, never a wrapped one, in a batch as in a constant; *)
(* round and trunc to the nearest unit; char(n) and varchar(n) cut and     *)
(* padded so that equality of char(n) is equality of the stored texts; a   *)
(* quoted text that reads back as itself; format as its directives say; an *)
(* interval's text that reads back as the interval.                        *)
(***************************************************************************)
FunctionsAreExact == [][\A i \in {in'} : i.kind \in Fn!FunctionKinds => Fn!FunctionIsExact(i)]_in

(***************************************************************************)
(* Reordering joins keeps the query: the search returns a cheapest tree of *)
(* those the conflict rules allow, in which every predicate is applied     *)
(* exactly once and where its relations are joined, and the rebuilt plan   *)
(* has the columns of the old one; a selectivity is a fraction.            *)
(***************************************************************************)
JoinsKeepTheQuery == [][\A i \in {in'} : i.kind \in {"order", "reorder", "selectivity", "estimate"} => Joining!JoinHolds(i)]_in

(***************************************************************************)
(* The SQL of a scan, with the residual filters applied above it, returns  *)
(* the rows the scan node stands for, LIMIT included; the block ranges of  *)
(* the producers partition the table; and a literal reads back as itself,  *)
(* except for bytea and the time 24:00:00.                                 *)
(***************************************************************************)
ScansReturnTheirRows == [][\A i \in {in'} : Scanning!ScanSqlHolds(i)]_in

(***************************************************************************)
(* A plan the backend accepts can be executed by the worker: each scan has *)
(* an id of its own and is opened once, CTE inputs are shared, and no      *)
(* operator retains the shared pages of its input.                         *)
(***************************************************************************)
PlansAreExecutable == [][\A i \in {in'} : Scanning!ScanPlanHolds(i)]_in

(***************************************************************************)
(* A query the frontend accepts returns what PostgreSQL returns: outer     *)
(* joins with pushed-down filters, subqueries of every kind, NULLs in NOT  *)
(* IN, grouping sets, DISTINCT, set operations, ORDER BY and LIMIT.        *)
(***************************************************************************)
QueriesKeepTheirMeaning == [][\A i \in {in'} : i.kind = "query" => Frontend!FrontendHolds(i.query)]_in

(***************************************************************************)
(* A control frame is read as what was written, by the receiver it is for  *)
(* and by no other: no message is taken for a page header or for one of    *)
(* another family, a frame cut short or followed by another is refused,    *)
(* the channel and producer sets a reader accepts are the ones a writer    *)
(* may send, the longest failure still fits the smallest ring, and the     *)
(* incremental decoders give the same frames however their bytes arrive.   *)
(***************************************************************************)
MessagesSurvive == [][\A i \in {in'} : Control!MessageHolds(i)]_in

(***************************************************************************)
(* "Anything that compiles is expected to run with PostgreSQL semantics"   *)
(* (src/pg/scan_sql/src/compile.rs): a bytea literal reads back as itself. *)
(***************************************************************************)
ByteaLiteralsKeepTheirValue == in.kind = "literal" => Scanning!ByteaIsRead(in)

(***************************************************************************)
(* "PostgreSQL analyzed `Query` trees are the source of truth for SQL      *)
(* semantics" (docs/roadmap.md): also of a correlated EXISTS or IN whose   *)
(* subquery aggregates, skips rows or compares padded texts.               *)
(***************************************************************************)
SemiJoinsKeepTheSubquery == [][\A i \in {in'} : i.kind = "query" => Frontend!FrontendHolds(i.query)]_in
=============================================================================
