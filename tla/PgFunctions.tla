----------------------------- MODULE PgFunctions -----------------------------
(* The scalar functions pg_fusion adds to DataFusion so that expressions    *)
(* computed in the worker give what PostgreSQL gives: checked integer       *)
(* arithmetic, round and trunc of decimals, casts to varchar(n) and         *)
(* char(n), format, quote_literal, and the text of booleans and intervals.  *)
(* A text is a sequence of characters.  The width of integers, the number   *)
(* of digits of an i128 and of a second's fraction are parameters.          *)
EXTENDS Integers, Sequences, FiniteSets, SequencesExt

CONSTANTS
  FnNull,
  IntMax,        \* for each integer type, its largest value
  MaxDigits,     \* 38: an i128 holds up to 1.7 times 10 ^ MaxDigits
  FracDigits,    \* 6: the decimal digits of a microsecond
  NanosInMicro   \* 1000

FnOk(v) == [ok |-> TRUE, v |-> v]
FnError == [ok |-> FALSE]
Magnitude(n) == IF n < 0 THEN -n ELSE n
Signum(n) == IF n < 0 THEN -1 ELSE IF n > 0 THEN 1 ELSE 0
Quotient(n, d) == Signum(n) * (Magnitude(n) \div d)

-----------------------------------------------------------------------------
(* Integers                                                                 *)

IntOp(op, l, r) == CASE op = "+" -> l + r [] op = "-" -> l - r [] op = "*" -> l * r

\* checked_option
CheckedOption(type, op, l, r) ==
  IF l = FnNull \/ r = FnNull THEN FnOk(FnNull)
  ELSE IF IntOp(op, l, r) \in -IntMax[type] - 1 .. IntMax[type] THEN FnOk(IntOp(op, l, r))
  ELSE FnError

\* The array kernel: an overflow in any row fails the batch.
CheckedIntArray(type, op, ls, rs) ==
  LET cells == [i \in DOMAIN ls |-> CheckedOption(type, op, ls[i], rs[i])]
  IN  IF \E i \in DOMAIN cells : ~cells[i].ok THEN FnError
      ELSE FnOk([i \in DOMAIN cells |-> cells[i].v])

-----------------------------------------------------------------------------
(* Decimals: an unscaled value and a scale                                  *)

MaxI128Digits == 17 * 10 ^ (MaxDigits - 1)

\* round_trunc_decimal128
RoundTruncDecimal(op, value, scale, places) ==
  LET exponent == scale - places
      factor == 10 ^ exponent
      quotient == Quotient(value, factor)
      remainder == Magnitude(value - quotient * factor)
      adjusted == IF op = "round" /\ 2 * remainder >= factor THEN quotient + Signum(value) ELSE quotient
  IN  IF exponent <= 0 THEN FnOk(value)
      ELSE IF exponent > MaxDigits THEN FnOk(0)
      ELSE IF op = "round" /\ 2 * remainder > MaxI128Digits THEN FnError
      ELSE IF Magnitude(adjusted * factor) > MaxI128Digits THEN FnError
      ELSE FnOk(adjusted * factor)

\* scalar_round_trunc, and a row of the array path
RoundTrunc(op, value, scale, places) ==
  IF value = FnNull \/ places = FnNull THEN FnOk(FnNull) ELSE RoundTruncDecimal(op, value, scale, places)

-----------------------------------------------------------------------------
(* varchar(n) and char(n)                                                   *)

Blanks(n) == [i \in 1 .. n |-> " "]

TruncateChars(value, length) == IF Len(value) > length THEN SubSeq(value, 1, length) ELSE value

BpcharChars(value, length) ==
  IF Len(value) >= length THEN SubSeq(value, 1, length) ELSE value \o Blanks(length - Len(value))

\* A length of 4 is the header alone.
ApplyTextTypmod(type, value, typmod) ==
  IF typmod <= 4 THEN value
  ELSE IF type = "varchar" THEN TruncateChars(value, typmod - 4)
  ELSE BpcharChars(value, typmod - 4)

TextTypmod(type, value, typmod) ==
  IF value = FnNull THEN FnOk(FnNull)
  ELSE IF typmod = FnNull THEN FnError
  ELSE FnOk(ApplyTextTypmod(type, value, typmod))

\* trim_end_matches(' ')
BpcharCmpKey(value) ==
  LET solid == {i \in DOMAIN value : value[i] # " "}
  IN  SubSeq(value, 1, IF solid = {} THEN 0 ELSE CHOOSE i \in solid : \A j \in solid : j <= i)

BpcharLength(value) == Len(BpcharCmpKey(value))

-----------------------------------------------------------------------------
(* Quoting                                                                  *)

\* Forgets that a backslash is an escape in an E'' literal.
QuoteLiteralPlain(value) ==
  <<"'">> \o FlattenSeq([i \in DOMAIN value |-> IF value[i] = "'" THEN <<"'", "'">> ELSE <<value[i]>>])
    \o <<"'">>

QuoteLiteral(value) ==
  (IF \E i \in DOMAIN value : value[i] = "\\" THEN <<"E">> ELSE <<>>)
    \o <<"'">>
    \o FlattenSeq([i \in DOMAIN value |->
                     IF value[i] \in {"'", "\\"} THEN <<value[i], value[i]>> ELSE <<value[i]>>])
    \o <<"'">>

Lower == {"_", "a", "n"}
Digit == [d \in {"0", "1", "2", "3"} |-> CASE d = "0" -> 0 [] d = "1" -> 1 [] d = "2" -> 2 [] d = "3" -> 3]

IsSafeIdentifier(value) ==
  /\ value # <<>> /\ value[1] \in Lower
  /\ \A i \in 2 .. Len(value) : value[i] \in Lower \cup DOMAIN Digit

QuoteIdentifier(value) ==
  IF IsSafeIdentifier(value) THEN value
  ELSE <<"\"">>
         \o FlattenSeq([i \in DOMAIN value |-> IF value[i] = "\"" THEN <<"\"", "\"">> ELSE <<value[i]>>])
         \o <<"\"">>

-----------------------------------------------------------------------------
(* format(template, args...)                                                *)

\* scalar_value_text and array_text: a boolean is t or f.
ArgText(arg) == IF arg.type = "text" \/ arg.v = FnNull THEN arg.v ELSE IF arg.v = <<"true">> THEN <<"t">> ELSE <<"f">>

\* parse_digits: the number read at i and where it ends.
ParseDigits(chars, i) ==
  LET ends == {j \in i .. Len(chars) + 1 : \A k \in i .. j - 1 : chars[k] \in DOMAIN Digit}
      stop == CHOOSE j \in ends : \A k \in ends : k <= j
      value[k \in i - 1 .. stop - 1] == IF k = i - 1 THEN 0 ELSE 10 * value[k - 1] + Digit[chars[k]]
  IN  [n |-> value[stop - 1], next |-> stop, some |-> stop > i]

CharAt(chars, i) == IF i <= Len(chars) THEN chars[i] ELSE "end"

\* The width of a specifier, which may be an argument at a position.
NoWidth == [by |-> "none", n |-> 0]
NextWidth == [by |-> "next", n |-> 0]

\* The width that a '*' at i - 1 stands for.
ParseStar(chars, i) ==
  LET d == ParseDigits(chars, i)
  IN  IF ~d.some THEN [ok |-> TRUE, width |-> NextWidth, next |-> i]
      ELSE IF CharAt(chars, d.next) # "$" \/ d.n = 0 THEN [ok |-> FALSE, width |-> NoWidth, next |-> i]
      ELSE [ok |-> TRUE, width |-> [by |-> "argument", n |-> d.n], next |-> d.next + 1]

\* parse_spec
ParseSpec(chars, start) ==
  LET first == ParseDigits(chars, start)
      positioned == first.some /\ CharAt(chars, first.next) = "$"
      early == IF first.some /\ ~positioned THEN [by |-> "literal", n |-> first.n] ELSE NoWidth
      flags == IF positioned THEN first.next + 1 ELSE first.next
      dashes == {j \in flags .. Len(chars) + 1 : \A k \in flags .. j - 1 : chars[k] = "-"}
      after == CHOOSE j \in dashes : \A k \in dashes : k <= j
      late == ParseDigits(chars, after)
      width == IF early # NoWidth THEN [ok |-> TRUE, width |-> early, next |-> after]
               ELSE IF CharAt(chars, after) = "*" THEN ParseStar(chars, after + 1)
               ELSE IF late.some THEN [ok |-> TRUE, width |-> [by |-> "literal", n |-> late.n], next |-> late.next]
               ELSE [ok |-> TRUE, width |-> NoWidth, next |-> after]
      conversion == CharAt(chars, width.next)
  IN  IF (positioned /\ first.n = 0) \/ ~width.ok \/ conversion \notin {"s", "I", "L"} THEN FnError
      ELSE FnOk([position |-> IF positioned THEN first.n ELSE 0, left |-> after > flags,
                 width |-> width.width, conversion |-> conversion, next |-> width.next + 1])

\* convert_value
ConvertValue(conversion, value) ==
  CASE conversion = "s" -> FnOk(IF value = FnNull THEN <<>> ELSE value)
    [] conversion = "L" -> FnOk(IF value = FnNull THEN <<"N", "U", "L", "L">> ELSE QuoteLiteral(value))
    [] conversion = "I" -> IF value = FnNull THEN FnError ELSE FnOk(QuoteIdentifier(value))

\* append_with_width
WithWidth(value, width, left) ==
  IF width <= Len(value) THEN value
  ELSE IF left THEN value \o Blanks(width - Len(value)) ELSE Blanks(width - Len(value)) \o value

\* value.parse::<i32>(): digits after an optional minus.
ParseInt(text) ==
  LET neg == text # <<>> /\ text[1] = "-"
      d == ParseDigits(text, IF neg THEN 2 ELSE 1)
  IN  IF ~d.some \/ d.next # Len(text) + 1 THEN FnError ELSE FnOk(IF neg THEN -d.n ELSE d.n)

\* parse_width_arg, for the argument after `index` others
WidthArg(args, index) ==
  IF index >= Len(args) THEN FnError
  ELSE IF args[index + 1].v = FnNull THEN FnOk(0) ELSE ParseInt(ArgText(args[index + 1]))

\* The argument a specifier takes is the one it names or else the one after
\* the last that was taken, by a width too.
TakeArg(position, next) == IF position # 0 THEN [index |-> position - 1, next |-> position]
                           ELSE [index |-> next, next |-> next + 1]

\* One specifier of format_row.
ApplySpec(spec, args, next, out) ==
  LET w == IF spec.width.by \in {"next", "argument"} THEN TakeArg(spec.width.n, next)
           ELSE [index |-> 0, next |-> next]
      width == IF spec.width.by \in {"next", "argument"} THEN WidthArg(args, w.index) ELSE FnOk(spec.width.n)
      v == TakeArg(spec.position, w.next)
      value == IF v.index < Len(args) THEN ConvertValue(spec.conversion, ArgText(args[v.index + 1])) ELSE FnError
  IN  IF ~width.ok \/ ~value.ok THEN FnError
      ELSE FnOk([out |-> out \o WithWidth(value.v, Magnitude(width.v), spec.left \/ width.v < 0), next |-> v.next])

RECURSIVE FormatFrom(_, _, _, _, _)
FormatFrom(chars, i, args, next, out) ==
  IF i > Len(chars) THEN FnOk(out)
  ELSE IF chars[i] # "%" THEN FormatFrom(chars, i + 1, args, next, Append(out, chars[i]))
  ELSE IF i = Len(chars) THEN FnError
  ELSE IF chars[i + 1] = "%" THEN FormatFrom(chars, i + 2, args, next, Append(out, "%"))
  ELSE LET spec == ParseSpec(chars, i + 1)
           step == ApplySpec(spec.v, args, next, out)
       IN  IF ~spec.ok THEN FnError
           ELSE IF ~step.ok THEN FnError
           ELSE FormatFrom(chars, spec.v.next, args, step.v.next, step.v.out)

FormatRow(template, args) ==
  IF template = FnNull THEN FnOk(FnNull) ELSE FormatFrom(template, 1, args, 0, <<>>)

-----------------------------------------------------------------------------
(* The text of booleans and intervals.  An interval's text is the sequence  *)
(* of its parts; a fraction of a second is its digits without the last      *)
(* zeros.                                                                   *)

MicrosInSecond == 10 ^ FracDigits
MicrosInMinute == 60 * MicrosInSecond
MicrosInHour == 60 * MicrosInMinute

\* format_unit: an absolute value of one is singular.
FormatUnit(value, unit) ==
  IF value = 0 THEN <<>> ELSE <<[n |-> value, unit |-> unit, plural |-> Magnitude(value) # 1, plus |-> FALSE]>>

FractionDigits(fraction) ==
  LET digits == [i \in 1 .. FracDigits |-> (fraction \div 10 ^ (FracDigits - i)) % 10]
      solid == {i \in 1 .. FracDigits : digits[i] # 0}
  IN  SubSeq(digits, 1, IF solid = {} THEN 0 ELSE CHOOSE i \in solid : \A j \in solid : j <= i)

\* format_time
FormatTime(micros) ==
  LET abs == Magnitude(micros)
  IN  [neg |-> micros < 0, plus |-> FALSE, hours |-> abs \div MicrosInHour,
       minutes |-> (abs % MicrosInHour) \div MicrosInMinute,
       seconds |-> (abs % MicrosInMinute) \div MicrosInSecond,
       fraction |-> FractionDigits(abs % MicrosInSecond)]

\* format_interval_parts
FormatIntervalParts(months, days, micros) ==
  LET units == FormatUnit(Quotient(months, 12), "year")
                 \o FormatUnit(months - 12 * Quotient(months, 12), "mon")
                 \o FormatUnit(days, "day")
  IN  [units |-> units, time |-> IF micros # 0 \/ units = <<>> THEN <<FormatTime(micros)>> ELSE <<>>]

\* format_interval
FormatInterval(months, days, nanos) ==
  IF Magnitude(nanos) % NanosInMicro # 0 THEN FnError
  ELSE FnOk(FormatIntervalParts(months, days, Quotient(nanos, NanosInMicro)))

-----------------------------------------------------------------------------
(* What PostgreSQL's documentation and lexer say of the functions of        *)
(* PgFunctions, and inputs at their boundaries.                             *)

Null2(S) == S \cup {FnNull}

Ints(type) == {-IntMax[type] - 1, -2, 0, 1, 3, IntMax[type] - 1, IntMax[type]}

Chars == {"a", " ", "'", "\"", "\\", "A", "1"}
FnTexts == UNION {[1 .. n -> Chars] : n \in 0 .. 3}
PlainTexts == UNION {[1 .. n -> {"a", " "}] : n \in 0 .. 4}

Text(v) == [type |-> "text", v |-> v]
FnArgs == {<<>>, <<Text(<<"a">>)>>,
           <<Text(<<"-", "3">>), Text(<<"a">>)>>,
           <<Text(<<"2">>), Text(FnNull), Text(<<"A", "'">>)>>,
           <<[type |-> "bool", v |-> <<"true">>], Text(<<"1">>), Text(<<"2">>)>>}

Directive ==
  [d : {"char"}] \cup [d : {"percent"}]
    \cup [d : {"spec"}, position : {0, 1, 3}, left : BOOLEAN,
          width : {NoWidth, NextWidth, [by |-> "literal", n |-> 3], [by |-> "argument", n |-> 1]},
          conversion : {"s", "I", "L"}]

NumberText(n) == CASE n = 1 -> <<"1">> [] n = 2 -> <<"2">> [] n = 3 -> <<"3">>

\* A directive as it is written in a template.
Render(x) ==
  CASE x.d = "char" -> <<"n">>
    [] x.d = "percent" -> <<"%", "%">>
    [] x.d = "spec" ->
         <<"%">> \o (IF x.position = 0 THEN <<>> ELSE NumberText(x.position) \o <<"$">>)
           \o (IF x.left THEN <<"-">> ELSE <<>>)
           \o (CASE x.width.by = "none" -> <<>>
                 [] x.width.by = "literal" -> NumberText(x.width.n)
                 [] x.width.by = "next" -> <<"*">>
                 [] x.width.by = "argument" -> <<"*">> \o NumberText(x.width.n) \o <<"$">>)
           \o <<x.conversion>>

FunctionInputs ==
  UNION {[kind : {"fn_int"}, type : {t}, op : {"+", "-", "*"},
          l : Null2(Ints(t)), r : Null2(Ints(t)), l2 : {1, IntMax[t]}] : t \in DOMAIN IntMax}
    \cup [kind : {"fn_round"}, op : {"round", "trunc"}, value : Null2({-1249, -1250, -51, -49, 0, 5, 50, 995, 8400, 8600}),
          scale : 0 .. 4, places : Null2(-3 .. 4)]
    \cup [kind : {"fn_typmod"}, type : {"varchar", "bpchar"}, text : PlainTexts, other : PlainTexts, typmod : {-1, 4, 5, 7}]
    \cup [kind : {"fn_quote"}, text : FnTexts]
    \cup [kind : {"fn_format"}, template : {<<x>> : x \in Directive} \cup {<<x, y>> : x \in Directive,
            y \in {z \in Directive : z.d = "spec" => z.conversion = "s"}}, args : FnArgs]
    \cup [kind : {"fn_interval"}, months : {-25, -12, -1, 0, 1, 13}, days : {-1, 0, 1, 40},
          nanos : {-1, 0, NanosInMicro} \cup {NanosInMicro * n : n \in {-MicrosInHour - 5, MicrosInMinute + 70, 2 * MicrosInHour}}]

-----------------------------------------------------------------------------
(* PostgreSQL's lexer: a plain literal doubles its quotes; an E literal     *)
(* also escapes its backslashes.                                            *)

RECURSIVE ReadQuoted(_, _, _)
ReadQuoted(chars, quote, escapes) ==
  IF chars = <<>> THEN <<>>
  ELSE IF Len(chars) > 1 /\ (chars[1] = quote \/ (escapes /\ chars[1] = "\\"))
       THEN <<chars[2]>> \o ReadQuoted(SubSeq(chars, 3, Len(chars)), quote, escapes)
  ELSE <<chars[1]>> \o ReadQuoted(Tail(chars), quote, escapes)

\* Whether the quoted body has no quote standing alone, which would end it.
RECURSIVE Closed(_, _, _)
Closed(chars, quote, escapes) ==
  \/ chars = <<>>
  \/ /\ chars[1] # quote /\ ~(escapes /\ chars[1] = "\\") /\ Closed(Tail(chars), quote, escapes)
  \/ /\ Len(chars) > 1
     /\ \/ chars[1] = quote /\ chars[2] = quote
        \/ escapes /\ chars[1] = "\\" /\ chars[2] \in {quote, "\\"}
     /\ Closed(SubSeq(chars, 3, Len(chars)), quote, escapes)

Inner(chars, skip) == SubSeq(chars, skip + 1, Len(chars) - 1)

\* standard_conforming_strings may be on or off: a literal with a backslash
\* must be an E literal to read the same under both.
ReadsAs(chars, text) ==
  IF chars[1] = "E" THEN Closed(Inner(chars, 2), "'", TRUE) /\ ReadQuoted(Inner(chars, 2), "'", TRUE) = text
  ELSE \A escapes \in BOOLEAN :
         Closed(Inner(chars, 1), "'", escapes) /\ ReadQuoted(Inner(chars, 1), "'", escapes) = text

IdentifierReadsAs(chars, text) ==
  IF chars # <<>> /\ chars[1] = "\""
  THEN Closed(Inner(chars, 1), "\"", FALSE) /\ ReadQuoted(Inner(chars, 1), "\"", FALSE) = text
  ELSE chars = text /\ text # <<>> /\ \A i \in DOMAIN text : text[i] \notin {"A", " ", "'", "\"", "\\"}

-----------------------------------------------------------------------------
(* format over the directives themselves                                    *)

PadTo(value, width, left) ==
  LET n == IF width > Len(value) THEN width - Len(value) ELSE 0
  IN  IF left THEN value \o Blanks(n) ELSE Blanks(n) \o value

\* `last` is the number of the last argument taken.
RECURSIVE Formatted(_, _, _, _)
Formatted(directives, args, last, out) ==
  IF directives = <<>> THEN FnOk(out)
  ELSE LET x == Head(directives)
           rest == Tail(directives)
       IN  IF x.d = "char" THEN Formatted(rest, args, last, out \o <<"n">>)
           ELSE IF x.d = "percent" THEN Formatted(rest, args, last, out \o <<"%">>)
           ELSE LET widthArg == IF x.width.by = "next" THEN last + 1 ELSE IF x.width.by = "argument" THEN x.width.n ELSE 0
                    valueArg == IF x.position # 0 THEN x.position
                                ELSE IF widthArg # 0 THEN widthArg + 1 ELSE last + 1
                    width == IF widthArg = 0 THEN FnOk(x.width.n)
                             ELSE IF widthArg > Len(args) THEN FnError
                             ELSE IF args[widthArg].v = FnNull THEN FnOk(0) ELSE ParseInt(ArgText(args[widthArg]))
                    text == ConvertValue(x.conversion, ArgText(args[valueArg]))
                IN  IF ~width.ok \/ valueArg > Len(args) THEN FnError
                    ELSE IF ~text.ok THEN FnError
                    ELSE Formatted(rest, args, valueArg,
                                   out \o PadTo(text.v, Magnitude(width.v), x.left \/ width.v < 0))

-----------------------------------------------------------------------------

IntsExact(in) ==
  LET one == CheckedOption(in.type, in.op, in.l, in.r)
      two == CheckedIntArray(in.type, in.op, <<in.l2, in.l>>, <<1, in.r>>)
      inRange(l, r) == l = FnNull \/ r = FnNull \/ IntOp(in.op, l, r) \in -IntMax[in.type] - 1 .. IntMax[in.type]
  IN  /\ one.ok <=> inRange(in.l, in.r)
      /\ two.ok <=> inRange(in.l, in.r) /\ inRange(in.l2, 1)
      /\ two.ok => two.v[2] = one.v

RoundsToPlaces(in) ==
  LET r == RoundTrunc(in.op, in.value, in.scale, in.places)
      unit == 10 ^ (in.scale - in.places)
      off == Magnitude(r.v - in.value)
      toWhole == in.scale - in.places = MaxDigits
  IN  IF in.value = FnNull \/ in.places = FnNull THEN r = FnOk(FnNull)
      ELSE IF in.places >= in.scale THEN r = FnOk(in.value)
      ELSE IF in.op = "round" /\ toWhole /\ 2 * Magnitude(in.value) > MaxI128Digits THEN ~r.ok
      ELSE /\ r.ok /\ r.v % unit = 0
           /\ IF in.op = "round"
              THEN 2 * off < unit \/ (2 * off = unit /\ Magnitude(r.v) > Magnitude(in.value))
              ELSE off < unit /\ Magnitude(r.v) <= Magnitude(in.value)

IsPrefixOf(s, t) == Len(s) <= Len(t) /\ SubSeq(t, 1, Len(s)) = s

TextCast(in) ==
  LET r == TextTypmod(in.type, in.text, in.typmod)
      s == TextTypmod(in.type, in.other, in.typmod)
  IN  /\ r.ok
      /\ in.typmod > 4 =>
           /\ IF in.type = "varchar" THEN IsPrefixOf(r.v, in.text) /\ Len(r.v) <= in.typmod - 4
              ELSE Len(r.v) = in.typmod - 4
           /\ TextTypmod(in.type, r.v, in.typmod) = r
           /\ in.type = "bpchar" =>
                /\ BpcharCmpKey(r.v) = BpcharCmpKey(s.v) <=> r.v = s.v
                /\ BpcharLength(r.v) = BpcharLength(SubSeq(in.text, 1, IF Len(in.text) < Len(r.v) THEN Len(in.text) ELSE Len(r.v)))
      /\ in.typmod <= 4 => r.v = in.text

\* The interval its text stands for.
UnitMonths == [year |-> 12, mon |-> 1, day |-> 0]
UnitDays == [year |-> 0, mon |-> 0, day |-> 1]

SumUnits(units, weight) ==
  LET total[i \in 0 .. Len(units)] == IF i = 0 THEN 0 ELSE total[i - 1] + units[i].n * weight[units[i].unit]
  IN  total[Len(units)]

TimeMicros(t) ==
  LET digits[i \in 0 .. FracDigits] ==
        IF i = 0 THEN 0 ELSE 10 * digits[i - 1] + (IF i <= Len(t.fraction) THEN t.fraction[i] ELSE 0)
  IN  (IF t.neg THEN -1 ELSE 1) * (t.hours * MicrosInHour + t.minutes * MicrosInMinute
                                     + t.seconds * MicrosInSecond + digits[FracDigits])

IntervalReadsBack(in) ==
  LET r == FormatInterval(in.months, in.days, in.nanos)
  IN  /\ r.ok <=> in.nanos % NanosInMicro = 0
      /\ r.ok => /\ SumUnits(r.v.units, UnitMonths) = in.months
                 /\ SumUnits(r.v.units, UnitDays) = in.days
                 /\ r.v.units # <<>> \/ r.v.time # <<>>
                 /\ (IF r.v.time = <<>> THEN 0 ELSE TimeMicros(r.v.time[1])) * NanosInMicro = in.nanos
                 /\ \A i \in DOMAIN r.v.time : r.v.time[i].minutes < 60 /\ r.v.time[i].seconds < 60

FunctionKinds == {"fn_int", "fn_round", "fn_typmod", "fn_quote", "fn_format", "fn_interval"}

FunctionIsExact(in) ==
  CASE in.kind = "fn_int" -> IntsExact(in)
    [] in.kind = "fn_round" -> RoundsToPlaces(in)
    [] in.kind = "fn_typmod" -> TextCast(in)
    [] in.kind = "fn_quote" -> ReadsAs(QuoteLiteral(in.text), in.text) /\ IdentifierReadsAs(QuoteIdentifier(in.text), in.text)
    [] in.kind = "fn_format" ->
         FormatRow(FlattenSeq([i \in DOMAIN in.template |-> Render(in.template[i])]), in.args)
           = Formatted(in.template, in.args, 0, <<>>)
    [] in.kind = "fn_interval" -> IntervalReadsBack(in)
=============================================================================
