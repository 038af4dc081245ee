---------------------------- MODULE PgAggregates ----------------------------
(* The aggregates pg_fusion adds to DataFusion: PostgreSQL's avg over       *)
(* integers, decimals, floats and intervals (plain and DISTINCT), and the   *)
(* aggregate that turns a subquery into a scalar.                           *)
(*                                                                          *)
(* DataFusion owns the accumulators.  It feeds each one batches, slides a   *)
(* window over it by retracting what it fed first, or splits a group over   *)
(* partitions and merges their states; it may ask for the result after any  *)
(* of these.  A batch that fails fails the query.                           *)
(*                                                                          *)
(* Numbers are exact: a float is an integer up to MaxFloat, and rounding of *)
(* its last bit is not modelled.  The scale of the result, the width of an  *)
(* i128 and the calendar are parameters.  The errors of a count past u64    *)
(* and of an intermediate past i256 are left out: the first takes 2^64      *)
(* rows, and that many i128 values, brought to scale 16, fit the second.    *)
EXTENDS Integers, Sequences, FiniteSets, SequencesExt

CONSTANTS
  Accs,            \* the accumulators of one group or window
  Values,          \* for each kind, the values of a row
  Null,
  Scales,          \* the scales of a decimal column
  MaxRows,         \* bound on the rows fed in one behaviour
  AvgScale,        \* NUMERIC_AVG_SCALE
  MaxI128,         \* the largest unscaled decimal
  MaxFloat,        \* the largest finite float
  PartMax,         \* i32::MAX, the largest month or day field
  TimeMax,         \* i64::MAX microseconds
  NanosPerMicro, DaysPerMonth, SecsPerDay, UsecsPerSec, TsPrecInv

Kinds == {"int", "decimal", "float", "interval", "subquery"}

VARIABLES
  kind, scale, distinct,
  acc,       \* each accumulator's state
  rows,      \* history: the rows each accumulator stands for, in order
  merged,    \* accumulators that took another one's state
  spent,     \* accumulators whose state was taken
  failed     \* the query failed

vars == <<kind, scale, distinct, acc, rows, merged, spent, failed>>

-----------------------------------------------------------------------------
(* Arithmetic                                                               *)

Abs(n) == IF n < 0 THEN -n ELSE n
Sign(n) == IF n < 0 THEN -1 ELSE IF n > 0 THEN 1 ELSE 0
TruncDiv(n, d) == Sign(n) * (Abs(n) \div d)
Pow(b, e) == b ^ e

\* n / d for d > 0, to the nearest integer and to the even one between two.
RoundTiesEven(n, d) ==
  LET q == n \div d
      r == 2 * (n % d)
  IN  IF r > d \/ (r = d /\ q % 2 = 1) THEN q + 1 ELSE q

Ok(s) == [ok |-> TRUE, s |-> s]
Error == [ok |-> FALSE]

\* Takes the items in turn and stops at the first that fails; nulls are
\* skipped.
Each(Step(_, _), s, items) ==
  LET upto[i \in 0 .. Len(items)] ==
        IF i = 0 THEN Ok(s)
        ELSE LET before == upto[i - 1]
             IN  IF ~before.ok \/ items[i] = Null THEN before ELSE Step(before.s, items[i])
  IN  upto[Len(items)]

-----------------------------------------------------------------------------
(* Integers                                                                 *)

AddInteger(s, v) == Ok([sum |-> s.sum + v, count |-> s.count + 1])

RetractInteger(s, v) == IF s.count = 0 THEN Error ELSE Ok([sum |-> s.sum - v, count |-> s.count - 1])

MergeInteger(s, t) == Ok([sum |-> s.sum + t.sum, count |-> s.count + t.count])

UpdateIntegers(s, batch) == Each(AddInteger, s, batch)
RetractIntegers(s, batch) == Each(RetractInteger, s, batch)
MergeIntegers(s, states) == Each(MergeInteger, s, states)

ScaledAverage(sum, count, sumScale) ==
  IF count = 0 THEN Ok(Null)
  ELSE LET up == IF AvgScale >= sumScale THEN AvgScale - sumScale ELSE 0
           down == IF AvgScale >= sumScale THEN 0 ELSE sumScale - AvgScale
           scaled == sum * Pow(10, up)
           divisor == count * Pow(10, down)
           quotient == TruncDiv(scaled, divisor)
           remainder == scaled - quotient * divisor
           rounded == IF 2 * Abs(remainder) >= divisor THEN quotient + (IF scaled < 0 THEN -1 ELSE 1)
                      ELSE quotient
       IN  IF Abs(rounded) > MaxI128 THEN Error ELSE Ok(rounded)

EvaluateInteger(s) == ScaledAverage(s.sum, s.count, 0)

-----------------------------------------------------------------------------
(* Decimals                                                                 *)

\* decimal_avg_state_scale
StateScale(sc) == IF sc > AvgScale THEN sc ELSE AvgScale

AddDecimal(sc, s, v) == Ok([sum |-> s.sum + v * Pow(10, StateScale(sc) - sc), count |-> s.count + 1])

RetractDecimal(sc, s, v) ==
  IF s.count = 0 THEN Error
  ELSE Ok([sum |-> s.sum - v * Pow(10, StateScale(sc) - sc), count |-> s.count - 1])

MergeDecimal(s, t) == Ok([sum |-> s.sum + t.sum, count |-> s.count + t.count])

UpdateDecimals(sc, s, batch) == Each(LAMBDA t, v : AddDecimal(sc, t, v), s, batch)
RetractDecimals(sc, s, batch) == Each(LAMBDA t, v : RetractDecimal(sc, t, v), s, batch)
MergeDecimals(s, states) == Each(MergeDecimal, s, states)

EvaluateDecimal(sc, s) == ScaledAverage(s.sum, s.count, StateScale(sc))

-----------------------------------------------------------------------------
(* Floats: [c |-> class, v |-> value, bits |-> one of several encodings].   *)
(* A state keeps n * Sxx, an integer, for n finite rows.                    *)

FiniteCount(s) == s.count - s.nan - s.pinf - s.ninf

SpecialCount == [nan |-> "nan", pinf |-> "pinf", ninf |-> "ninf"]

FloatState(s, sum, sxx, n) ==
  IF Abs(sum) > MaxFloat \/ (n > 0 /\ sxx > MaxFloat * n) THEN Error
  ELSE Ok([s EXCEPT !.sum = sum, !.sxx = sxx])

\* checked_float_transition_sxx
AddFloat(s, v) ==
  LET t == [s EXCEPT !.count = @ + 1]
      n == FiniteCount(s) + 1
      sum == s.sum + v.v
      tmp == v.v * n - sum
  IN  IF v.c \in DOMAIN SpecialCount THEN Ok([t EXCEPT ![v.c] = @ + 1])
      ELSE FloatState(t, sum, IF n = 1 THEN 0 ELSE (n * s.sxx + tmp * tmp) \div (n - 1), n)

\* checked_float_retract_sxx
RetractFloat(s, v) ==
  LET t == [s EXCEPT !.count = @ - 1]
      n == FiniteCount(s)
      tmp == v.v * n - s.sum
  IN  IF s.count = 0 THEN Error
      ELSE IF v.c \in DOMAIN SpecialCount
           THEN IF s[v.c] = 0 THEN Error ELSE Ok([t EXCEPT ![v.c] = @ - 1])
      ELSE IF n = 0 THEN Error
      ELSE FloatState(t, s.sum - v.v,
                      IF n = 1 THEN 0 ELSE ((n - 1) * s.sxx - tmp * tmp) \div n, n - 1)

\* checked_float_combine_state
MergeFloat(s, t) ==
  LET l == FiniteCount(s)
      r == FiniteCount(t)
      tmp == s.sum * r - t.sum * l
      counts == [s EXCEPT !.count = @ + t.count, !.nan = @ + t.nan,
                          !.pinf = @ + t.pinf, !.ninf = @ + t.ninf]
  IN  IF l = 0 THEN Ok([counts EXCEPT !.sum = t.sum, !.sxx = t.sxx])
      ELSE IF r = 0 THEN Ok(counts)
      ELSE FloatState(counts, s.sum + t.sum,
                      ((l + r) * (s.sxx * r + t.sxx * l) + tmp * tmp) \div (l * r), l + r)

UpdateFloats(s, batch) == Each(AddFloat, s, batch)
RetractFloats(s, batch) == Each(RetractFloat, s, batch)
MergeFloats(s, states) == Each(MergeFloat, s, states)

\* An average is the fraction num / den.
EvaluateFloat(s) ==
  IF s.count = 0 THEN Ok(Null)
  ELSE Ok(IF s.nan > 0 \/ (s.pinf > 0 /\ s.ninf > 0) THEN [c |-> "nan"]
          ELSE IF s.pinf > 0 THEN [c |-> "pinf"]
          ELSE IF s.ninf > 0 THEN [c |-> "ninf"]
          ELSE [c |-> "fin", num |-> s.sum, den |-> s.count])

-----------------------------------------------------------------------------
(* Intervals: an Arrow value holds nanoseconds, a state microseconds.       *)

IntervalIsInfinite(m, d, t) ==
  \/ m = -PartMax - 1 /\ d = -PartMax - 1 /\ t = -TimeMax - 1
  \/ m = PartMax /\ d = PartMax /\ t = TimeMax

FiniteInterval(m, d, t) ==
  /\ ~IntervalIsInfinite(m, d, t)
  /\ m \in -PartMax - 1 .. PartMax /\ d \in -PartMax - 1 .. PartMax

TimeFits(t) == t \in -TimeMax - 1 .. TimeMax

\* interval_parts_to_pg_micros
IntervalReadable(v) ==
  /\ Abs(v.time) % NanosPerMicro = 0
  /\ ~IntervalIsInfinite(v.months, v.days, TruncDiv(v.time, NanosPerMicro))

Micros(v) == TruncDiv(v.time, NanosPerMicro)

IntervalState(m, d, t, n) ==
  IF TimeFits(t) /\ FiniteInterval(m, d, t)
  THEN Ok([months |-> m, days |-> d, time |-> t, count |-> n])
  ELSE Error

AddInterval(s, v) ==
  IF ~IntervalReadable(v) THEN Error
  ELSE IntervalState(s.months + v.months, s.days + v.days, s.time + Micros(v), s.count + 1)

RetractInterval(s, v) ==
  IF ~IntervalReadable(v) \/ s.count = 0 THEN Error
  ELSE IF s.count = 1 THEN Ok([months |-> 0, days |-> 0, time |-> 0, count |-> 0])
  ELSE IntervalState(s.months - v.months, s.days - v.days, s.time - Micros(v), s.count - 1)

MergeInterval(s, t) ==
  IF ~FiniteInterval(t.months, t.days, t.time) THEN Error
  ELSE IntervalState(s.months + t.months, s.days + t.days, s.time + t.time, s.count + t.count)

\* The fraction of a month becomes days, the fraction of a day seconds, both
\* rounded to 1 / TsPrecInv, and the rest is rounded to a microsecond.
IntervalDiv(m, d, t, n) ==
  LET month == TruncDiv(m, n)
      wholeDay == TruncDiv(d, n)
      monthDays == RoundTiesEven((m - month * n) * DaysPerMonth * TsPrecInv, n)
      wholeMonthDays == TruncDiv(monthDays, TsPrecInv)
      secs == RoundTiesEven(((d - wholeDay * n) * TsPrecInv
                               + (monthDays - wholeMonthDays * TsPrecInv) * n) * SecsPerDay, n)
      carry == TruncDiv(secs, SecsPerDay * TsPrecInv)
      rest == secs - carry * SecsPerDay * TsPrecInv
      day == wholeDay + carry + wholeMonthDays
      time == RoundTiesEven(t * TsPrecInv + rest * UsecsPerSec * n, n * TsPrecInv)
  IN  IF /\ wholeDay + carry \in -PartMax - 1 .. PartMax
         /\ TimeFits(time) /\ FiniteInterval(month, day, time)
         /\ TimeFits(time * NanosPerMicro)
      THEN Ok([months |-> month, days |-> day, time |-> time * NanosPerMicro])
      ELSE Error

UpdateIntervals(s, batch) == Each(AddInterval, s, batch)
RetractIntervals(s, batch) == Each(RetractInterval, s, batch)
MergeIntervals(s, states) == Each(MergeInterval, s, states)

EvaluateInterval(s) == IF s.count = 0 THEN Ok(Null) ELSE IntervalDiv(s.months, s.days, s.time, s.count)

-----------------------------------------------------------------------------
(* The value of a scalar subquery                                           *)

UpdateSubquery(s, batch) ==
  IF batch = <<>> THEN Ok(s)
  ELSE IF s.count + Len(batch) > 1 THEN Error
  ELSE Ok([count |-> 1, first |-> batch[1]])

\* A merge that forgets that an empty partition has a state too.
MergeSubqueryAny(s, t) ==
  IF t.count > 1 \/ s.count + t.count > 1 THEN Error ELSE Ok([count |-> s.count + t.count, first |-> t.first])

MergeSubquery(s, t) ==
  IF t.count = 0 THEN Ok(s)
  ELSE IF t.count > 1 \/ s.count + t.count > 1 THEN Error
  ELSE Ok([count |-> s.count + t.count, first |-> t.first])

MergeSubqueries(s, states) == Each(MergeSubquery, s, states)

EvaluateSubquery(s) == IF s.count > 1 THEN Error ELSE Ok(s.first)

-----------------------------------------------------------------------------
(* All kinds                                                                *)

NewState(k) ==
  CASE k \in {"int", "decimal"} -> [sum |-> 0, count |-> 0]
    [] k = "float" -> [sum |-> 0, sxx |-> 0, count |-> 0, nan |-> 0, pinf |-> 0, ninf |-> 0]
    [] k = "interval" -> [months |-> 0, days |-> 0, time |-> 0, count |-> 0]
    [] k = "subquery" -> [count |-> 0, first |-> Null]

UpdateState(k, sc, s, batch) ==
  CASE k = "int" -> UpdateIntegers(s, batch)
    [] k = "decimal" -> UpdateDecimals(sc, s, batch)
    [] k = "float" -> UpdateFloats(s, batch)
    [] k = "interval" -> UpdateIntervals(s, batch)
    [] k = "subquery" -> UpdateSubquery(s, batch)

RetractState(k, sc, s, batch) ==
  CASE k = "int" -> RetractIntegers(s, batch)
    [] k = "decimal" -> RetractDecimals(sc, s, batch)
    [] k = "float" -> RetractFloats(s, batch)
    [] k = "interval" -> RetractIntervals(s, batch)

MergeStates(k, s, states) ==
  CASE k = "int" -> MergeIntegers(s, states)
    [] k = "decimal" -> MergeDecimals(s, states)
    [] k = "float" -> MergeFloats(s, states)
    [] k = "interval" -> MergeIntervals(s, states)
    [] k = "subquery" -> MergeSubqueries(s, states)

EvaluateState(k, sc, s) ==
  CASE k = "int" -> EvaluateInteger(s)
    [] k = "decimal" -> EvaluateDecimal(sc, s)
    [] k = "float" -> EvaluateFloat(s)
    [] k = "interval" -> EvaluateInterval(s)
    [] k = "subquery" -> EvaluateSubquery(s)

-----------------------------------------------------------------------------
(* DISTINCT: the set of the values' keys                                    *)

\* One NaN, one zero; an interval keeps its three fields.
DistinctKey(k, v) ==
  CASE k = "float" -> IF v.c = "nan" \/ v.v = 0 THEN [v EXCEPT !.bits = 0] ELSE v
    [] k = "interval" -> [v EXCEPT !.time = Micros(v)]
    [] OTHER -> v

DistinctValue(k, key) == IF k = "interval" THEN [key EXCEPT !.time = @ * NanosPerMicro] ELSE key

\* The values of a state are sorted, which an exact sum does not tell from
\* any other order.
StateValues(k, seen) == SetToSeq({DistinctValue(k, key) : key \in seen})

\* insert_batch
InsertAll(k, seen, batch) ==
  LET present == {i \in DOMAIN batch : batch[i] # Null}
  IN  IF k = "interval" /\ \E i \in present : ~IntervalReadable(batch[i]) THEN Error
      ELSE Ok(seen \cup {DistinctKey(k, batch[i]) : i \in present})

EvaluateDistinct(k, sc, seen) ==
  LET total == UpdateState(k, sc, NewState(k), StateValues(k, seen))
  IN  IF total.ok THEN EvaluateState(k, sc, total.s) ELSE Error

MergeDistinct(k, seen, states) ==
  Each(LAMBDA s, t : InsertAll(k, s, StateValues(k, t)), seen, states)

-----------------------------------------------------------------------------
(* The accumulators                                                         *)

UpdateBatch(s, batch) ==
  IF distinct THEN InsertAll(kind, s, batch) ELSE UpdateState(kind, scale, s, batch)

SupportsRetract == ~distinct /\ kind # "subquery"

MergeBatch(s, states) ==
  IF distinct THEN MergeDistinct(kind, s, states) ELSE MergeStates(kind, s, states)

Evaluate(s) == IF distinct THEN EvaluateDistinct(kind, scale, s) ELSE EvaluateState(kind, scale, s)

Init ==
  /\ kind \in Kinds
  /\ scale \in IF kind = "decimal" THEN Scales ELSE {0}
  /\ distinct \in IF kind = "subquery" THEN {FALSE} ELSE BOOLEAN
  /\ acc = [a \in Accs |-> IF distinct THEN {} ELSE NewState(kind)]
  /\ rows = [a \in Accs |-> <<>>]
  /\ merged = {} /\ spent = {} /\ failed = FALSE

Fed == LET total[S \in SUBSET Accs] ==
             IF S = {} THEN 0 ELSE LET a == CHOOSE x \in S : TRUE IN Len(rows[a]) + total[S \ {a}]
       IN  total[Accs \ spent]

InputBatches(k) ==
  LET vs == Values[k] \cup {Null}
  IN  {<<>>} \cup {<<v>> : v \in vs} \cup {<<v, w>> : v \in vs, w \in vs}

Apply(a, result) ==
  /\ failed' = ~result.ok
  /\ acc' = IF result.ok THEN [acc EXCEPT ![a] = result.s] ELSE acc

Update(a) ==
  /\ ~failed /\ a \notin merged \cup spent
  /\ \E batch \in InputBatches(kind) :
       /\ Fed + Len(batch) <= MaxRows
       /\ Apply(a, UpdateBatch(acc[a], batch))
       /\ rows' = [rows EXCEPT ![a] = @ \o batch]
  /\ UNCHANGED <<kind, scale, distinct, merged, spent>>

\* The window moves past its oldest row.
Retract(a) ==
  /\ ~failed /\ SupportsRetract /\ a \notin merged \cup spent
  /\ rows[a] # <<>>
  /\ Apply(a, RetractState(kind, scale, acc[a], <<Head(rows[a])>>))
  /\ rows' = [rows EXCEPT ![a] = Tail(@)]
  /\ UNCHANGED <<kind, scale, distinct, merged, spent>>

\* A final accumulator takes a partition's state, beside a null one.
Merge(a, b) ==
  /\ ~failed /\ a # b /\ {a, b} \cap spent = {}
  /\ Apply(a, MergeBatch(acc[a], <<Null, acc[b]>>))
  /\ rows' = [rows EXCEPT ![a] = @ \o rows[b]]
  /\ merged' = merged \cup {a} /\ spent' = spent \cup {b}
  /\ UNCHANGED <<kind, scale, distinct>>

Next ==
  \E a \in Accs :
    \/ Update(a)
    \/ Retract(a)
    \/ \E b \in Accs : Merge(a, b)

Spec == Init /\ [][Next]_vars

-----------------------------------------------------------------------------
(* What an aggregate promises, from the rows alone                          *)

SumOf(S, f(_)) ==
  LET total[T \in SUBSET S] ==
        IF T = {} THEN 0 ELSE LET x == CHOOSE y \in T : TRUE IN f(x) + total[T \ {x}]
  IN  total[S]

\* PostgreSQL's equality of two values of a kind, but for intervals, whose
\* fields are compared one by one.
SameValue(v, w) ==
  CASE kind = "float" -> (v.c = "nan" /\ w.c = "nan") \/ (v.c = w.c /\ v.v = w.v)
    [] OTHER -> v = w

\* The positions whose values count: not null and, under DISTINCT, the first
\* of their kind.
Counted(r) ==
  {i \in DOMAIN r : /\ r[i] # Null
                    /\ distinct => \A j \in 1 .. i - 1 : r[j] = Null \/ ~SameValue(r[j], r[i])}

\* q is sum / n at AvgScale, ties away from zero.
IsRounded(q, num, den) ==
  /\ 2 * Abs(q * den - num) <= den
  /\ 2 * Abs(q * den - num) = den => Abs(q * den) > Abs(num)

DecimalIs(r, result) ==
  LET n == Cardinality(Counted(r))
      sum == SumOf(Counted(r), LAMBDA i : r[i])
  IN  IF n = 0 THEN result = Ok(Null)
      ELSE IF result.ok THEN IsRounded(result.s, sum * Pow(10, AvgScale), n * Pow(10, scale))
      ELSE Abs(sum) * Pow(10, AvgScale) >= MaxI128 * n * Pow(10, scale)

FloatIs(r, result) ==
  LET classes == {r[i].c : i \in Counted(r)}
      finite == {i \in Counted(r) : r[i].c = "fin"}
      c == IF "nan" \in classes \/ {"pinf", "ninf"} \subseteq classes THEN "nan"
           ELSE IF "pinf" \in classes THEN "pinf" ELSE IF "ninf" \in classes THEN "ninf" ELSE "fin"
  IN  IF Counted(r) = {} THEN result = Ok(Null)
      ELSE IF result.ok
           THEN /\ result.s.c = c
                /\ c = "fin" =>
                     result.s.num * Cardinality(finite) = result.s.den * SumOf(finite, LAMBDA i : r[i].v)
           ELSE SumOf(finite, LAMBDA i : r[i].v * r[i].v) > MaxFloat

\* The spread kept beside a sum is the one of the finite rows.
SpreadIs(r, s) ==
  LET finite == {i \in Counted(r) : r[i].c = "fin"}
      sum == SumOf(finite, LAMBDA i : r[i].v)
  IN  s.sxx = Cardinality(finite) * SumOf(finite, LAMBDA i : r[i].v * r[i].v) - sum * sum

\* An interval's length in microseconds.
Length(m, d, t) == (m * DaysPerMonth + d) * SecsPerDay * UsecsPerSec + t

IntervalIs(r, result) ==
  LET n == Cardinality(Counted(r))
      months == SumOf(Counted(r), LAMBDA i : r[i].months)
      sum == Length(months, SumOf(Counted(r), LAMBDA i : r[i].days), SumOf(Counted(r), LAMBDA i : Micros(r[i])))
      avg == Length(result.s.months, result.s.days, Micros(result.s))
  IN  IF n = 0 THEN result = Ok(Null)
      ELSE IF result.ok
           THEN /\ result.s.months = TruncDiv(months, n)
                /\ 2 * TsPrecInv * Abs(n * avg - sum) <= n * (SecsPerDay * UsecsPerSec + UsecsPerSec + TsPrecInv)
           ELSE \/ SumOf(Counted(r), LAMBDA i : Abs(r[i].months) * DaysPerMonth + Abs(r[i].days)) >= PartMax
                \/ SumOf(Counted(r), LAMBDA i : Abs(r[i].time)) >= TimeMax

SubqueryIs(r, result) == IF Len(r) > 1 THEN ~result.ok ELSE result = Ok(IF r = <<>> THEN Null ELSE r[1])

ResultIs(r, result) ==
  CASE kind \in {"int", "decimal"} -> DecimalIs(r, result)
    [] kind = "float" -> FloatIs(r, result)
    [] kind = "interval" -> IntervalIs(r, result)
    [] kind = "subquery" -> SubqueryIs(r, result)

\* Why a batch, a retraction or a merge may fail.
FailureCause(r) ==
  \/ kind = "subquery" /\ Len(r) > 1
  \/ kind \in {"float", "interval"} /\ ResultIs(r, Error)
  \/ kind = "interval" /\ \E i \in Counted(r) : ~IntervalReadable(r[i])

\* However DataFusion feeds, slides, splits and merges the accumulators, each
\* evaluates to what PostgreSQL's aggregate gives for the rows it stands for:
\* the average of the non-null (under DISTINCT, different) rows, NaN and the
\* infinities included, rounded half away from zero or cascaded from months
\* to days to time, null over no rows; the one row of a subquery.  An error
\* is reported only for values out of range or a second row.
AggregatesAreExact ==
  IF failed THEN \E a \in Accs : FailureCause(rows[a])
  ELSE \A a \in Accs \ spent :
         /\ ResultIs(rows[a], Evaluate(acc[a]))
         /\ kind = "float" /\ ~distinct => SpreadIs(rows[a], acc[a])

=============================================================================
