------------------------------ MODULE PgValues ------------------------------
(***************************************************************************)
(* How a PostgreSQL value becomes an Arrow value and comes back: the type  *)
(* mappings of `pg_type`, the datum readers of `slot_encoder` on the way   *)
(* in, and the projectors of `slot_import` on the way out.  Types are      *)
(* tables, a numeric is PostgreSQL's base-10000 digits, a text is the      *)
(* number of its characters and of its trailing blanks.                    *)
(*                                                                         *)
(* The widths are parameters, so that TLC can reach the boundaries: an     *)
(* unscaled decimal stands for an i128 of which 10^MaxPrecision fits and   *)
(* ten times that does not.                                                *)
(***************************************************************************)
EXTENDS Integers, Sequences, FiniteSets, SequencesExt, Functions

CONSTANTS
  MaxPrecision,     \* 38 in the code, the last entry of POW10_I128
  FallbackScale,    \* 16: NUMERIC_FALLBACK_SCALE, of a column without typmod
  DateMin, DateMax, \* i32
  TimeMin, TimeMax, \* i64
  NameMax           \* NAMEDATALEN - 1

ASSUME WidthAssumption ==
  /\ MaxPrecision \in 1 .. 8 /\ FallbackScale \in 0 .. MaxPrecision
  /\ {DateMin, DateMax, TimeMin, TimeMax, NameMax} \subseteq Int
  /\ DateMin < 0 /\ DateMax > 0 /\ TimeMin < 0 /\ TimeMax > 0

Pow10[n \in 0 .. MaxPrecision + 4] == IF n = 0 THEN 1 ELSE 10 * Pow10[n - 1]

I128Max == 17 * Pow10[MaxPrecision - 1]   \* 1.7 * 10^38

None == "none"

-----------------------------------------------------------------------------
(* Types                                                                   *)

TextOids == {"text", "varchar", "bpchar", "name"}

\* PostgreSQL type, page tag and Arrow type, where the three are one to one.
PlainTypes ==
  {<<"bool", "Boolean", "Boolean">>, <<"int2", "Int16", "Int16">>, <<"int4", "Int32", "Int32">>,
   <<"int8", "Int64", "Int64">>, <<"float4", "Float32", "Float32">>,
   <<"float8", "Float64", "Float64">>, <<"bytea", "BinaryView", "BinaryView">>,
   <<"uuid", "Uuid", "FixedSizeBinary16">>, <<"date", "Date32", "Date32">>,
   <<"time", "Time64Microsecond", "Time64">>,
   <<"timestamp", "TimestampMicrosecond", "Timestamp">>,
   <<"interval", "IntervalMonthDayNano", "MonthDayNano">>}

Arrow(name) == [name |-> name, precision |-> 0, scale |-> 0]
Decimal(shape) == [name |-> "Decimal128", precision |-> shape.precision, scale |-> shape.scale]

SupportedOids == {t[1] : t \in PlainTypes} \cup TextOids \cup {"timestamptz", "numeric"}

\* is_supported_value_type and validate_supported_collation
ValueTypeSupported(oid, collation) ==
  /\ oid \in SupportedOids
  /\ collation \in {"none", "default"} \/ (oid = "name" /\ collation = "C")

\* numeric_shape_from_typmod: sixteen bits of precision, eleven of signed scale.
NumericShape(typmod) ==
  LET t == typmod - 4
      precision == (t \div 65536) % 65536
      scale == IF t % 2048 < 1024 THEN t % 2048 ELSE (t % 2048) - 2048
  IN  IF typmod < 0 THEN [precision |-> MaxPrecision, scale |-> FallbackScale]
      ELSE IF precision \notin 1 .. MaxPrecision \/ scale \notin 0 .. precision
      THEN [precision |-> 0, scale |-> 0]
      ELSE [precision |-> precision, scale |-> scale]

HasShape(typmod) == NumericShape(typmod).precision # 0

\* arrow_type_for_pg_type
ArrowType(oid, typmod) ==
  CASE oid \in TextOids -> Arrow("Utf8View")
    [] oid = "timestamptz" -> Arrow("Timestamp")
    [] oid = "numeric" -> IF HasShape(typmod) THEN Decimal(NumericShape(typmod)) ELSE Arrow(None)
    [] OTHER -> IF \E t \in PlainTypes : t[1] = oid
                THEN Arrow((CHOOSE t \in PlainTypes : t[1] = oid)[3]) ELSE Arrow(None)

\* type_tag_for_pg_type
TypeTag(oid, typmod) ==
  CASE oid \in TextOids -> "Utf8View"
    [] oid = "timestamptz" -> "TimestampMicrosecond"
    [] oid = "numeric" -> IF HasShape(typmod) THEN "Decimal128" ELSE None
    [] OTHER -> IF \E t \in PlainTypes : t[1] = oid
                THEN (CHOOSE t \in PlainTypes : t[1] = oid)[2] ELSE None

\* pg_oid_for_arrow_type
OidForArrow(data) ==
  CASE data.name \in {"Utf8", "Utf8View"} -> "text"
    [] data.name = "Binary" -> "bytea"
    [] data.name = "Decimal128" -> "numeric"
    [] OTHER -> IF \E t \in PlainTypes : t[3] = data.name
                THEN (CHOOSE t \in PlainTypes : t[3] = data.name)[1] ELSE None

\* TypeTag::from_arrow_data_type
TagForArrow(data) ==
  CASE data.name \in {"Utf8View", "Decimal128"} -> data.name
    [] OTHER -> IF \E t \in PlainTypes : t[3] = data.name
                THEN (CHOOSE t \in PlainTypes : t[3] = data.name)[2] ELSE None

\* arrow_data_type_for_type_tag
ArrowForTag(tag) ==
  CASE tag = "Utf8View" -> Arrow("Utf8View")
    [] tag = "Decimal128" -> Decimal([precision |-> MaxPrecision, scale |-> FallbackScale])
    [] OTHER -> Arrow((CHOOSE t \in PlainTypes : t[2] = tag)[3])

\* normalize_arrow_transport_field
NormalizeField(data) ==
  CASE data.name \in {"Utf8", "Utf8View"} -> Arrow("Utf8View")
    [] data.name \in {"Binary", "BinaryView"} -> Arrow("BinaryView")
    [] data.name = "Decimal128" -> data
    [] OTHER -> IF \E t \in PlainTypes : t[3] = data.name THEN data ELSE Arrow(None)

\* batch_encoder's validate_schema_column: the input's type against the page's tag
ColumnCompatible(data, tag) ==
  CASE data.name = "Utf8" -> tag = "Utf8View"
    [] data.name = "Binary" -> tag = "BinaryView"
    [] OTHER -> TagForArrow(data) # None /\ TagForArrow(data) = tag

\* projector_for_attr: the projector of an attribute that receives this field
Projector(oid, typmod, data) ==
  CASE TypeTag(oid, typmod) # TagForArrow(data) \/ TagForArrow(data) = None -> None
    [] oid \in TextOids -> oid
    [] oid = "timestamptz" -> "timestamp"
    [] OTHER -> oid

-----------------------------------------------------------------------------
(* Dates and intervals                                                     *)

EpochDays == 10957

IsDateInfinity(v) == v = DateMin \/ v = DateMax

\* date32_from_pg_date; None where it fails
Date32(v) ==
  IF IsDateInfinity(v) \/ v + EpochDays > DateMax THEN [ok |-> FALSE, v |-> 0]
  ELSE [ok |-> TRUE, v |-> v + EpochDays]

\* pg_date_from_date32
PgDate(v) ==
  IF v - EpochDays < DateMin \/ IsDateInfinity(v - EpochDays) THEN [ok |-> FALSE, v |-> 0]
  ELSE [ok |-> TRUE, v |-> v - EpochDays]

IntervalIsInfinite(iv) ==
  \/ iv.month = DateMin /\ iv.day = DateMin /\ iv.time = TimeMin
  \/ iv.month = DateMax /\ iv.day = DateMax /\ iv.time = TimeMax

Nowhere == [ok |-> FALSE, month |-> 0, day |-> 0, time |-> 0]

\* read_interval_month_day_nano: microseconds to nanoseconds
ReadInterval(iv) ==
  IF IntervalIsInfinite(iv) \/ iv.time * 1000 \notin TimeMin .. TimeMax THEN Nowhere
  ELSE [ok |-> TRUE, month |-> iv.month, day |-> iv.day, time |-> iv.time * 1000]

\* interval_datum: nanoseconds to microseconds
IntervalDatum(iv) ==
  LET whole == IF iv.time < 0 THEN -((-iv.time) \div 1000) ELSE iv.time \div 1000
      back == [month |-> iv.month, day |-> iv.day, time |-> whole]
  IN  IF whole * 1000 # iv.time \/ IntervalIsInfinite(back) THEN Nowhere
      ELSE [ok |-> TRUE, month |-> iv.month, day |-> iv.day, time |-> whole]

-----------------------------------------------------------------------------
(* Numerics: sign * Sum(digits[i] * 10000^(weight - i))                    *)

Overflow == [ok |-> FALSE, v |-> 0]

\* PostgreSQL's on-disk header: a short one for small weights, with six bits
\* of weight and its sign, and a long one.
NumericVarlena(num) ==
  [special |-> num.special, neg |-> num.neg, digits |-> num.digits,
   short |-> num.weight \in -64 .. 63,
   wbits |-> IF num.weight \in -64 .. 63 THEN num.weight % 64 ELSE num.weight,
   wsign |-> num.weight < 0]

Weight(varlena) ==
  IF ~varlena.short THEN varlena.wbits
  ELSE IF varlena.wsign THEN varlena.wbits - 64 ELSE varlena.wbits

\* one digit into the sum, as numeric_to_decimal128's loop does
AddDigit(acc, digit, exp) ==
  CASE ~acc.ok -> acc
    [] digit = 0 -> acc
    [] digit # 0 /\ exp >= 0 ->
         IF exp > MaxPrecision THEN Overflow
         ELSE IF digit > I128Max \div Pow10[exp] THEN Overflow
         ELSE IF acc.v + digit * Pow10[exp] > I128Max THEN Overflow
         ELSE [acc EXCEPT !.v = @ + digit * Pow10[exp]]
    [] digit # 0 /\ exp <= -4 -> Overflow
    [] digit # 0 /\ exp \in -3 .. -1 ->
         IF digit % Pow10[-exp] # 0 THEN Overflow
         ELSE [acc EXCEPT !.v = @ + digit \div Pow10[-exp]]

\* numeric_to_decimal128
DecodeNumeric(varlena, shape) ==
  LET Step(acc, i) == AddDigit(acc, varlena.digits[i],
                               4 * (Weight(varlena) - (i - 1)) + shape.scale)
      sum == FoldLeft(Step, [ok |-> TRUE, v |-> 0], [i \in DOMAIN varlena.digits |-> i])
  IN  IF varlena.special \/ ~sum.ok THEN Overflow
      ELSE IF sum.v >= Pow10[shape.precision] THEN Overflow
      ELSE [ok |-> TRUE, v |-> IF varlena.neg THEN -sum.v ELSE sum.v]

\* The digits of a text, without the zeros it starts with.
TrimStart(s) == SubSeq(s, Min({i \in 1 .. Len(s) + 1 : i = Len(s) + 1 \/ s[i] # 0}), Len(s))
TrimEnd(s) == SubSeq(s, 1, Max({i \in 0 .. Len(s) : i = 0 \/ s[i] # 0}))

NumberOf(s) == FoldLeft(LAMBDA n, d : 10 * n + d, 0, s)

Zeros(n) == [i \in 1 .. n |-> 0]

\* decimal128_for_numeric_text: a constant's text is its sign and digits.
DecodeText(text, shape) ==
  LET whole == TrimStart(text.whole)
  IN  IF \/ text.special
         \/ text.whole = <<>> /\ text.frac = <<>>
         \/ Len(text.frac) > shape.scale
         \/ Len(whole) + shape.scale > shape.precision
      THEN Overflow
      ELSE LET n == NumberOf(whole \o text.frac \o Zeros(shape.scale - Len(text.frac)))
           IN  [ok |-> TRUE, v |-> IF text.neg THEN -n ELSE n]

Digits(n) ==
  LET width == Max({1} \cup {k \in 1 .. MaxPrecision + 1 : n >= Pow10[k - 1]})
  IN  [i \in 1 .. width |-> (n \div Pow10[width - i]) % 10]

\* trim_integer_decimal_fraction, on the part after the point
TrimFraction(text) == [text EXCEPT !.frac = TrimEnd(@)]

\* format_decimal128, rendered for numeric_in
FormatDecimal(v, scale, trim) ==
  LET neg == v < 0
      digits == Digits(IF neg THEN -v ELSE v)
      Text(whole, frac) == [special |-> FALSE, neg |-> neg, whole |-> whole, frac |-> frac]
      Trimmed(text) == IF trim THEN TrimFraction(text) ELSE text
      split == Len(digits) - scale
  IN  IF scale = 0 THEN Text(digits, <<>>)
      ELSE IF scale < 0 THEN Text(digits \o Zeros(-scale), <<>>)
      ELSE IF Len(digits) <= scale
      THEN Trimmed(Text(<<0>>, Zeros(scale - Len(digits)) \o digits))
      ELSE Trimmed(Text(SubSeq(digits, 1, split), SubSeq(digits, split + 1, Len(digits))))

-----------------------------------------------------------------------------
(* Texts                                                                   *)

\* A packed varlena by its header: the low bit of the first byte marks a
\* one-byte header, and a zero length behind it a toast pointer.
ReadPackedVarlena(b0, header) ==
  IF b0 % 2 = 1
  THEN IF b0 = 1 \/ b0 \div 2 = 0 THEN [ok |-> FALSE, v |-> 0]
       ELSE [ok |-> TRUE, v |-> b0 \div 2 - 1]
  ELSE IF (header \div 2) % 2 = 1 \/ header \div 4 < 4 THEN [ok |-> FALSE, v |-> 0]
       ELSE [ok |-> TRUE, v |-> header \div 4 - 4]

\* pg_detoast_datum_packed leaves a value inline and uncompressed; PostgreSQL
\* uses the short header up to 126 bytes, where the column's storage allows it.
PackedHeaders(len) ==
  LET long == 4 * (len + 4)
  IN  {<<long % 256, long>>}
        \cup IF len + 1 <= 127 THEN {<<2 * (len + 1) + 1, 0>>} ELSE {}

TypmodLength(typmod) == IF typmod > 4 THEN typmod - 4 ELSE 0

\* varchar and bpchar, implicit casts: blanks are cut, anything else is an
\* error, and bpchar pads.
ApplyTypmod(oid, text, typmod) ==
  LET max == TypmodLength(typmod)
  IN  IF max = 0 \/ oid \notin {"varchar", "bpchar"} THEN [ok |-> TRUE, text |-> text]
      ELSE IF text.chars > max THEN [ok |-> FALSE, text |-> text]
      ELSE IF oid = "bpchar" THEN [ok |-> TRUE, text |-> [text EXCEPT !.blanks = max - text.chars]]
      ELSE [ok |-> TRUE, text |-> [text EXCEPT !.blanks = Min({@, max - text.chars})]]

\* text_datum
TextDatum(oid, text, typmod) ==
  IF oid = "name" THEN [ok |-> text.chars + text.blanks <= NameMax, text |-> text]
  ELSE ApplyTypmod(oid, text, typmod)

-----------------------------------------------------------------------------
(***************************************************************************)
(* A row between a PostgreSQL slot and Arrow: `slot_encoder` checks a      *)
(* tuple descriptor against the page's columns once, accepts slots with a  *)
(* descriptor like it, and reads one cell per column; `slot_import` checks *)
(* the result schema against the target descriptor and writes datums.      *)
(*                                                                         *)
(* A by-value datum is a machine word; `WordSpan` of them, of which an int *)
(* or a date uses the low `IntSpan`.                                       *)
(***************************************************************************)

IntSpan == DateMax - DateMin + 1
WordSpan == TimeMax - TimeMin + 1

\* a signed value into a word: the cast sign-extends
Word(v) == v % WordSpan

\* read_i16, read_i32, read_f32 and read_i64, read_f64: the cast truncates
ReadInt(word) == DateMin + ((word - DateMin) % IntSpan)
ReadLong(word) == TimeMin + ((word - TimeMin) % WordSpan)

ShortTypes == {"int2", "int4", "float4", "date"}
LongTypes == {"int8", "float8", "time", "timestamp", "timestamptz"}

Cell(v) == [ok |-> TRUE, v |-> v]
NoCell == [ok |-> FALSE]

\* PgSlotRow::with_cell, for a value that is not null
ReadCell(oid, typmod, datum) ==
  CASE oid = "bool" -> Cell(datum # 0)
    [] oid = "date" -> IF Date32(ReadInt(datum)).ok THEN Cell(Date32(ReadInt(datum)).v) ELSE NoCell
    [] oid \in ShortTypes \ {"date"} -> Cell(ReadInt(datum))
    [] oid \in LongTypes -> Cell(ReadLong(datum))
    [] oid = "interval" -> IF ReadInterval(datum).ok THEN Cell(ReadInterval(datum)) ELSE NoCell
    [] oid = "numeric" ->
         LET d == DecodeNumeric(datum, NumericShape(typmod))
         IN  IF HasShape(typmod) /\ d.ok THEN Cell(d.v) ELSE NoCell
    [] oid \in TextOids \cup {"bytea", "uuid"} -> Cell(datum)
    [] OTHER -> NoCell

\* PgSlotRow::fixed_width_cell, chosen by the page's tag
FixedWidthCell(tag, datum) ==
  CASE tag = "Date32" -> IF Date32(ReadInt(datum)).ok THEN Cell(Date32(ReadInt(datum)).v) ELSE NoCell
    [] tag \in {"Int16", "Int32", "Float32"} -> Cell(ReadInt(datum))
    [] tag \in {"Int64", "Float64", "Time64Microsecond", "TimestampMicrosecond"} -> Cell(ReadLong(datum))
    [] tag = "IntervalMonthDayNano" -> IF ReadInterval(datum).ok THEN Cell(ReadInterval(datum)) ELSE NoCell
    [] OTHER -> NoCell

FixedTags == {"Int16", "Int32", "Int64", "Float32", "Float64", "IntervalMonthDayNano", "Date32",
              "Time64Microsecond", "TimestampMicrosecond"}

\* numeric_in of a text, as far as the readers look: sign and digits
NumericIn(text) == [special |-> FALSE, neg |-> text.neg, whole |-> TrimStart(text.whole), frac |-> text.frac]

\* project_row, for a cell that is not null: the datum of the target attribute
ProjectCell(oid, typmod, data, cell) ==
  CASE oid = "bool" -> Cell(IF cell THEN 1 ELSE 0)
    [] oid = "date" -> IF PgDate(cell).ok THEN Cell(Word(PgDate(cell).v)) ELSE NoCell
    [] oid \in (ShortTypes \ {"date"}) \cup LongTypes -> Cell(Word(cell))
    [] oid = "interval" ->
         LET iv == IntervalDatum(cell)
         IN  IF iv.ok THEN Cell([month |-> iv.month, day |-> iv.day, time |-> iv.time]) ELSE NoCell
    [] oid = "numeric" -> Cell(NumericIn(FormatDecimal(cell, data.scale, typmod < 0)))
    [] oid \in TextOids ->
         IF TextDatum(oid, cell, typmod).ok THEN Cell(TextDatum(oid, cell, typmod).text) ELSE NoCell
    [] oid \in {"bytea", "uuid"} -> Cell(cell)

-----------------------------------------------------------------------------
(* Descriptors: sequences of [oid, typmod, dropped].  A projection names   *)
(* the source attribute of each column; without one it is `Straight`.      *)

Straight == <<>>

SourceOf(projection, i) == IF projection = Straight THEN i ELSE projection[i]

\* new_inner, for columns with these tags
EncoderAccepts(desc, projection, tags, utf8) ==
  /\ Len(tags) = Len(IF projection = Straight THEN desc ELSE projection)
  /\ \A i \in DOMAIN tags :
       LET source == SourceOf(projection, i)
       IN  /\ source \in DOMAIN desc
           /\ ~desc[source].dropped
           /\ TypeTag(desc[source].oid, desc[source].typmod) = tags[i]
  /\ "Utf8View" \in Range(tags) => utf8

\* needed_attrs: how far a slot is deformed
NeededAttrs(projection, tags) == Max({0} \cup {SourceOf(projection, i) : i \in DOMAIN tags})

\* a descriptor of as many columns as the page's
SlotDescCounted(desc, actual, projection, tags) ==
  projection = Straight => Len(actual) = Len(tags)

\* validate_slot_tuple_desc, for a descriptor other than the encoder's own.  One
\* that was accepted before is accepted again by its address, unread: while the
\* encoder lives, the address of a slot's descriptor names one descriptor.
SlotDescAccepted(desc, actual, projection, tags) ==
  /\ projection = Straight => Len(actual) = Len(tags)
  /\ \A i \in DOMAIN tags :
       LET source == SourceOf(projection, i)
       IN  /\ source \in DOMAIN actual
           /\ ~actual[source].dropped
           /\ actual[source] = desc[source]

\* append_slot, the way to the encoder: null cells are written as nulls, and
\* the fast path is taken when no column can hold one.
ReadSlot(desc, projection, tags, nullable, slot) ==
  LET fast == tags # <<>> /\ ~nullable /\ Range(tags) \subseteq FixedTags
  IN  [i \in DOMAIN tags |->
         LET source == SourceOf(projection, i)
             attr == desc[source]
         IN  IF slot[source].null
             THEN IF nullable THEN [null |-> TRUE, cell |-> NoCell] ELSE [null |-> FALSE, cell |-> NoCell]
             ELSE [null |-> FALSE,
                   cell |-> IF fast THEN FixedWidthCell(tags[i], slot[source].datum)
                            ELSE ReadCell(attr.oid, attr.typmod, slot[source].datum)]]

\* ArrowSlotProjector::new
ProjectorAccepts(schema, desc, utf8) ==
  /\ Len(schema) = Len(desc)
  /\ \A i \in DOMAIN desc :
       /\ ~desc[i].dropped
       /\ Projector(desc[i].oid, desc[i].typmod, schema[i]) # None
       /\ desc[i].oid \in TextOids => utf8

\* project_row
ProjectSlot(schema, desc, row) ==
  [i \in DOMAIN desc |->
     IF row[i].null THEN [null |-> TRUE, datum |-> NoCell]
     ELSE [null |-> FALSE, datum |-> ProjectCell(desc[i].oid, desc[i].typmod, schema[i], row[i].cell.v)]]
=============================================================================
