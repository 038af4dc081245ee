----------------------------- MODULE FilterKeys -----------------------------
(***************************************************************************)
(* Which joins get a runtime filter and which keys go into it: the         *)
(* planner's `maybe_wrap_hash_join`, the keys the build side hashes out of *)
(* its Arrow batches (`insert_batch`) and the ones a scan hashes out of    *)
(* PostgreSQL slots (`with_filter_key`).  RuntimeFilter is about the       *)
(* filter's life; this module is about its contents.  A hash is modelled   *)
(* by the canonical form the code feeds to it.                             *)
(***************************************************************************)
EXTENDS PgValues

NullKey == 0

-----------------------------------------------------------------------------
(* Keys                                                                    *)

\* key_type_for
KeyType(data) ==
  IF data.name = "Decimal128" /\ data.scale < 0 THEN None ELSE TagForArrow(data)

\* key_type_for_pair: decimals of any two scales, otherwise the same type
KeyTypeForPair(left, right) ==
  IF left.name = "Decimal128" \/ right.name = "Decimal128"
  THEN IF left.name = right.name /\ left.scale >= 0 /\ right.scale >= 0 THEN "Decimal128" ELSE None
  ELSE IF KeyType(left) = KeyType(right) THEN KeyType(left) ELSE None

\* hash_decimal128_key strips the zeros the scale allows.
HashDecimal(v, scale) ==
  LET strip == Max({k \in 0 .. scale : v % Pow10[k] = 0})
  IN  <<v \div Pow10[strip], scale - strip>>

\* The bits of a float, by their signed value: two zeros and several NaNs.
NegativeZero == DateMin
NaNs == {DateMax - 1, DateMax, -1}

\* canonical_f32_bits, canonical_f64_bits
HashFloat(bits) ==
  CASE bits = NegativeZero -> 0
    [] bits \in NaNs -> DateMax
    [] OTHER -> bits

\* hash_slot_filter_key: integers, dates and times by value, texts and bytes by
\* their bytes
HashKey(type, cell, scale) ==
  CASE type = "Decimal128" -> HashDecimal(cell, scale)
    [] type \in {"Float32", "Float64"} -> HashFloat(cell)
    [] type = "IntervalMonthDayNano" -> <<cell.month, cell.day, cell.time>>
    [] OTHER -> cell

\* with_filter_key: the key of a slot's attribute.  An attribute of another
\* type, or a value without a cell, ends the scan with an error.
SlotKey(type, attr, datum) ==
  LET cell == ReadCell(attr.oid, attr.typmod, datum)
  IN  IF TypeTag(attr.oid, attr.typmod) # type \/ ~cell.ok THEN [ok |-> FALSE]
      ELSE [ok |-> TRUE, hash |-> HashKey(type, cell.v, NumericShape(attr.typmod).scale)]

\* insert_batch: the key of an Arrow value of the build side, whose array must
\* have the key's type
BuildKey(type, data, v) == HashKey(type, v, data.scale)

-----------------------------------------------------------------------------
(* Joins: the build side is the left input, the probe side the right one.  *)

JoinTypes == {"Inner", "Left", "Right", "Full", "LeftSemi", "RightSemi", "LeftAnti", "RightAnti"}

\* any join that compares keys by equality
WrapsAnyType(join) ==
  /\ join.null_equality = "NullEqualsNothing" /\ ~join.null_aware
  /\ join.left_partitions = 1
  /\ join.on = 1
  /\ join.columns /\ join.right_is_scan

\* maybe_wrap_hash_join, up to the pair's key type and the pool
WrapsJoin(join) ==
  /\ join.type = "Inner"
  /\ join.null_equality = "NullEqualsNothing" /\ ~join.null_aware
  /\ join.left_partitions = 1
  /\ join.on = 1
  /\ join.columns /\ join.right_is_scan

\* publish_ready is called by the first of the build's streams that ends: its
\* keys are in, of the others' any.  insert_hashes skips nulls.
FilterContents(join, left) ==
  LET keys == {i \in DOMAIN left : left[i].key # NullKey}
  IN  {{left[i].key : i \in keys \cap S} :
         S \in {T \in SUBSET DOMAIN left :
                  \E p \in 1 .. join.left_partitions : {i \in DOMAIN left : left[i].part = p} \subseteq T}}

\* runtime_filter_rejects_slot with a ready filter
Passes(contents, key) == key # NullKey /\ key \in contents

Matches(join, l, r) ==
  \/ l # NullKey /\ l = r
  \/ l = NullKey /\ r = NullKey /\ join.null_equality = "NullEqualsNull"

\* DataFusion's hash join of the left rows with the right rows `R`
JoinRows(join, left, right, R) ==
  LET pairs == {<<i, j>> \in (DOMAIN left) \X R : Matches(join, left[i].key, right[j])}
      lefts == {p[1] : p \in pairs}
      rights == {p[2] : p \in pairs}
      aloneL == {<<i, 0>> : i \in (DOMAIN left) \ lefts}
      aloneR == {<<0, j>> : j \in R \ rights}
      anti == IF join.null_aware /\ \E j \in R : right[j] = NullKey THEN {} ELSE aloneL
  IN  CASE join.type = "Inner" -> pairs
        [] join.type = "Left" -> pairs \cup aloneL
        [] join.type = "Right" -> pairs \cup aloneR
        [] join.type = "Full" -> pairs \cup aloneL \cup aloneR
        [] join.type = "LeftSemi" -> {<<i, 0>> : i \in lefts}
        [] join.type = "RightSemi" -> {<<0, j>> : j \in rights}
        [] join.type = "LeftAnti" -> anti
        [] join.type = "RightAnti" -> aloneR

FilteredRows(right, contents) == {j \in DOMAIN right : Passes(contents, right[j])}
=============================================================================
