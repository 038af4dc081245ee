------------------------------ MODULE PlanCodec ------------------------------
(***************************************************************************)
(* The wire form of a logical plan (src/page/plan_codec).  The backend     *)
(* writes an envelope: a magic, a version, the table of the scan           *)
(* specifications the plan refers to, and the plan itself, in which a scan *)
(* is only the number of its specification.  Both ends are incremental:    *)
(* the encoder fills whatever output it is given and the decoder takes     *)
(* whatever input has come, so that the place where a page ends may fall   *)
(* anywhere in the stream.                                                 *)
(*                                                                         *)
(* A byte is a pair: a MessagePack marker with its length or value, or     *)
(* <<"raw", n>> for a byte of a body.  Integers have a one-byte body here. *)
(* A plan is the sequence of its nodes, children first.                    *)
(***************************************************************************)
EXTENDS Naturals, Sequences, SequencesExt, FiniteSets, FiniteSetsExt, TLC

-----------------------------------------------------------------------------
(* Writers. *)

Raw(s) == [i \in DOMAIN s |-> <<"raw", s[i]>>]
WriteArrayLen(n) == <<<<"array", n>>>>
WriteInt(width, n) == <<<<width, 0>>, <<"raw", n>>>>
WriteBool(b) == <<<<"bool", IF b THEN 1 ELSE 0>>>>
WriteString(s) == <<<<"str", Len(s)>>>> \o Raw(s)
WriteBin(payload) == <<<<"bin", Len(payload)>>>> \o payload
WriteVec(s, Writer(_)) ==
    WriteArrayLen(Len(s)) \o FlattenSeq([i \in DOMAIN s |-> Writer(s[i])])

\* An optional value is a sequence of at most one.
WriteOptional(o, Writer(_)) ==
    WriteBool(o # <<>>) \o (IF o = <<>> THEN <<>> ELSE Writer(o[1]))

WritePushedFilter(f) ==
    WriteArrayLen(2) \o WriteInt("u64", f.original_index) \o WriteString(f.sql)

\* One field.  Schemas and expressions are protobuf messages of DataFusion: a
\* body without structure here.
WriteField(k, v) ==
    CASE k \in {"u8", "u32", "u64"} -> WriteInt(k, v)
      [] k = "bool"    -> WriteBool(v)
      [] k = "str"     -> WriteString(v)
      [] k = "opt_str" -> WriteOptional(v, WriteString)
      [] k = "opt_u64" -> WriteOptional(v, LAMBDA n : WriteInt("u64", n))
      [] k = "vec"     -> WriteVec(v, LAMBDA n : WriteInt("u64", n))
      [] k = "opt_vec" -> WriteOptional(v, LAMBDA s :
                              WriteVec(s, LAMBDA n : WriteInt("u64", n)))
      [] k = "pushed"  -> WriteVec(v, WritePushedFilter)
      [] k = "exprs"   -> WriteVec(v, LAMBDA e : WriteBin(Raw(e)))
      [] k = "schema"  -> WriteBin(Raw(v))

Field(k, name) == [k |-> k, f |-> name]

WriteFields(fields, rec) ==
    FlattenSeq([i \in DOMAIN fields |->
        WriteField(fields[i].k, rec[fields[i].f])])

-----------------------------------------------------------------------------
(* Readers.  The outcome of a read at position `at` of buf: "ok" with the  *)
(* value and the next position, or an error, of which the words that are   *)
(* looked for later are kept.  "no marker" and "no data" stand for rmp's   *)
(* "failed to read MessagePack marker" and "... data".                     *)

Error(wording) == [st |-> wording, at |-> 0, v |-> 0]
Bad == Error("mismatch")
Read(v, at) == [st |-> "ok", at |-> at, v |-> v]

\* Body of the value x, which is evaluated once.
With(x, Body(_)) == CHOOSE y \in {Body(v) : v \in {x}} : TRUE

\* What follows a read, if it succeeds.
Then(r, Next(_)) == With(r, LAMBDA q : IF q.st = "ok" THEN Next(q) ELSE q)

ReadMarker(buf, at, marker) ==
    CASE at > Len(buf) -> Error("no marker")
      [] at <= Len(buf) /\ buf[at][1] # marker -> Bad
      [] OTHER -> Read(buf[at][2], at + 1)

ReadBody(buf, at, n) ==
    IF at + n - 1 > Len(buf) THEN Error("truncated")
    ELSE Read([i \in 1..n |-> buf[at + i - 1][2]], at + n)

ReadInteger(buf, at, width) ==
    Then(ReadMarker(buf, at, width), LAMBDA r :
        IF r.at > Len(buf) THEN Error("no data")
        ELSE Read(buf[r.at][2], r.at + 1))
ReadBool(buf, at) ==
    Then(ReadMarker(buf, at, "bool"), LAMBDA r : Read(r.v = 1, r.at))
ReadString(buf, at) ==
    Then(ReadMarker(buf, at, "str"), LAMBDA r : ReadBody(buf, r.at, r.v))
ReadBin(buf, at) ==
    Then(ReadMarker(buf, at, "bin"), LAMBDA r : ReadBody(buf, r.at, r.v))
ExpectArrayLen(buf, at, n) ==
    Then(ReadMarker(buf, at, "array"),
         LAMBDA r : IF r.v = n THEN r ELSE Bad)
ReadVec(buf, at, Reader(_, _)) ==
    Then(ReadMarker(buf, at, "array"), LAMBDA n :
        LET read[i \in 0..n.v] ==
                IF i = 0 THEN Read(<<>>, n.at)
                ELSE Then(read[i - 1], LAMBDA q :
                         Then(Reader(buf, q.at), LAMBDA e :
                             Read(Append(q.v, e.v), e.at)))
        IN  read[n.v])
ReadOptional(buf, at, Reader(_, _)) ==
    Then(ReadBool(buf, at), LAMBDA r :
        IF r.v THEN Then(Reader(buf, r.at), LAMBDA e : Read(<<e.v>>, e.at))
        ELSE Read(<<>>, r.at))

ReadPushedFilter(buf, at) ==
    Then(ExpectArrayLen(buf, at, 2), LAMBDA a :
        Then(ReadInteger(buf, a.at, "u64"), LAMBDA n :
            Then(ReadString(buf, n.at), LAMBDA s :
                Read([original_index |-> n.v, sql |-> s.v], s.at))))

ReadU64(buf, at) == ReadInteger(buf, at, "u64")

ReadField(k, buf, at) ==
    CASE k \in {"u8", "u32", "u64"} -> ReadInteger(buf, at, k)
      [] k = "bool"    -> ReadBool(buf, at)
      [] k = "str"     -> ReadString(buf, at)
      [] k = "opt_str" -> ReadOptional(buf, at, ReadString)
      [] k = "opt_u64" -> ReadOptional(buf, at, ReadU64)
      [] k = "vec"     -> ReadVec(buf, at, ReadU64)
      [] k = "opt_vec" -> ReadOptional(buf, at, LAMBDA b, p :
                              ReadVec(b, p, ReadU64))
      [] k = "pushed"  -> ReadVec(buf, at, ReadPushedFilter)
      [] k = "exprs"   -> ReadVec(buf, at, ReadBin)
      [] k = "schema"  -> ReadBin(buf, at)

\* The fields one after the other, into the record rec.
ReadFields(fields, rec, buf, at) ==
    LET read[i \in 0..Len(fields)] ==
            IF i = 0 THEN Read(rec, at)
            ELSE Then(read[i - 1], LAMBDA q :
                     Then(ReadField(fields[i].k, buf, q.at), LAMBDA e :
                         Read((fields[i].f :> e.v) @@ q.v, e.at)))
    IN  read[Len(fields)]

-----------------------------------------------------------------------------
(* Scan specifications.  The order of the fields is written down twice, as *)
(* it is in the code: once in the writers and once in the readers.         *)

SpecVersion == 1

NoFields == [x \in {} |-> 0]

RelationWritten == <<Field("opt_str", "schema_name"), Field("str", "table")>>

CompiledScanWritten ==
    <<Field("str", "sql"), Field("opt_u64", "requested_limit"),
      Field("opt_u64", "sql_limit"), Field("vec", "selected_columns"),
      Field("vec", "output_columns"), Field("vec", "filter_only_columns"),
      Field("vec", "residual_filter_columns"),
      Field("pushed", "pushed_filters"), Field("exprs", "residual_filters"),
      Field("bool", "all_filters_compiled"),
      Field("bool", "uses_dummy_projection")>>

FetchHintsWritten ==
    <<Field("opt_u64", "planner_fetch_hint"),
      Field("opt_u64", "local_row_cap")>>

\* Seven values follow a length of six; the reader expects the same.
EncodeScanSpec(spec) ==
    WriteArrayLen(6) \o WriteInt("u8", SpecVersion)
    \o WriteInt("u64", spec.scan_id) \o WriteInt("u32", spec.table_oid)
    \o WriteArrayLen(2) \o WriteFields(RelationWritten, spec)
    \o WriteArrayLen(11) \o WriteFields(CompiledScanWritten, spec)
    \o WriteArrayLen(2) \o WriteFields(FetchHintsWritten, spec)
    \o WriteField("schema", spec.schema)

RelationRead == <<Field("opt_str", "schema_name"), Field("str", "table")>>

CompiledScanRead ==
    <<Field("str", "sql"), Field("opt_u64", "requested_limit"),
      Field("opt_u64", "sql_limit"), Field("vec", "selected_columns"),
      Field("vec", "output_columns"), Field("vec", "filter_only_columns"),
      Field("vec", "residual_filter_columns"),
      Field("pushed", "pushed_filters"), Field("exprs", "residual_filters"),
      Field("bool", "all_filters_compiled"),
      Field("bool", "uses_dummy_projection")>>

FetchHintsRead ==
    <<Field("opt_u64", "planner_fetch_hint"),
      Field("opt_u64", "local_row_cap")>>

\* try_new_with_schema: a schema of one field per output column.
SpecFromParts(r) ==
    IF Len(r.v.schema) = Len(r.v.output_columns) THEN r ELSE Bad

DecodeScanSpec(bytes, at) == With(bytes, LAMBDA buf :
    Then(ExpectArrayLen(buf, at, 6), LAMBDA a :
    Then(ReadInteger(buf, a.at, "u8"), LAMBDA ver :
    IF ver.v # SpecVersion THEN Bad ELSE
    Then(ReadFields(<<Field("u64", "scan_id"), Field("u32", "table_oid")>>,
                    NoFields, buf, ver.at), LAMBDA ids :
    Then(ExpectArrayLen(buf, ids.at, 2), LAMBDA b :
    Then(ReadFields(RelationRead, ids.v, buf, b.at), LAMBDA rel :
    Then(ExpectArrayLen(buf, rel.at, 11), LAMBDA c :
    Then(ReadFields(CompiledScanRead, rel.v, buf, c.at), LAMBDA scan :
    Then(ExpectArrayLen(buf, scan.at, 2), LAMBDA d :
    Then(ReadFields(FetchHintsRead, scan.v, buf, d.at), LAMBDA hints :
    Then(ReadFields(<<Field("schema", "schema")>>, hints.v, buf, hints.at),
         SpecFromParts)))))))))))

-----------------------------------------------------------------------------
(* The functions a plan calls, by name.                                    *)

\* What the frontend puts into a plan: compile_scalar_function and the helpers
\* of the compiler that call a function of their own.
CompiledScalarFunctions ==
    {"abs", "acosh", "asinh", "atanh", "ceil", "concat", "concat_ws", "floor",
     "format", "length", "cosh", "exp", "ln", "nullif", "power",
     "quote_literal", "random", "reverse", "round", "sinh", "sqrt", "tanh",
     "trunc"}
CompiledHelperFunctions ==
    {"pg_fusion_boolout", "pg_fusion_interval_out", "pg_fusion_varchar_typmod",
     "pg_fusion_bpchar_typmod", "pg_fusion_bpchar_cmp_key",
     "pg_fusion_bpchar_length", "pg_fusion_int_add_checked",
     "pg_fusion_int_sub_checked", "pg_fusion_int_mul_checked",
     "pg_fusion_numeric_round_scale", "pg_fusion_numeric_trunc_scale",
     "make_array", "array_element"}

\* What the worker can turn into a function again: by the codec's tables, and
\* for the rest by the registry, which holds DataFusion's own functions and
\* those the decoder registers.
DecodedScalarUdfs ==
    {"abs", "acosh", "asinh", "atanh", "ceil", "concat", "concat_ws", "cosh",
     "exp", "floor", "character_length", "length", "make_array",
     "array_element", "ln", "format", "pg_fusion_boolout",
     "pg_fusion_int_add_checked", "pg_fusion_int_sub_checked",
     "pg_fusion_int_mul_checked", "nullif", "power", "pg_fusion_interval_out",
     "pg_fusion_numeric_round_scale", "pg_fusion_numeric_trunc_scale",
     "pg_fusion_varchar_typmod", "pg_fusion_bpchar_typmod",
     "pg_fusion_bpchar_cmp_key", "pg_fusion_bpchar_length", "random",
     "reverse", "round", "quote_literal", "sinh", "sqrt", "tanh", "trunc"}
DecodedUdafs == {"avg", "pg_scalar_subquery_value", "first_value", "grouping"}
DecodedUdwfs ==
    {"cume_dist", "dense_rank", "first_value", "lag", "last_value", "lead",
     "nth_value", "ntile", "percent_rank", "rank", "row_number"}
DataFusionUdafs == {"count", "sum", "min", "max", "stddev", "var", "string_agg"}

Resolves(kind, name) ==
    CASE kind = "udf"  -> name \in DecodedScalarUdfs
      [] kind = "udaf" -> name \in DecodedUdafs \cup DataFusionUdafs
      [] kind = "udwf" -> name \in DecodedUdwfs

-----------------------------------------------------------------------------
(* Plan nodes.  A scan carries its specification, a reference to a         *)
(* materialized CTE has one input; a call and a plain node stand for the   *)
(* rest, which DataFusion's protobuf carries.                              *)

CteFieldsWritten ==
    <<Field("u64", "cte_id"), Field("str", "name"),
      Field("opt_vec", "projection"), Field("opt_u64", "fetch"),
      Field("schema", "schema")>>
CteFieldsRead ==
    <<Field("u64", "cte_id"), Field("str", "name"),
      Field("opt_vec", "projection"), Field("opt_u64", "fetch"),
      Field("schema", "schema")>>

CtePayloadVersion == 2
ScanIdPayloadVersion == 1

\* encode_scan_id_payload, encode_cte_ref_payload
TryEncode(node) ==
    IF node.op = "scan"
    THEN Raw(<<ScanIdPayloadVersion, node.spec.scan_id>>)
    ELSE WriteArrayLen(6) \o WriteInt("u8", CtePayloadVersion)
         \o WriteFields(CteFieldsWritten, node.cte)

DecodeCteRef(payload, inputs) ==
    IF inputs # 1 THEN Bad ELSE
    Then(ExpectArrayLen(payload, 1, 6), LAMBDA a :
    Then(ReadInteger(payload, a.at, "u8"), LAMBDA ver :
    IF ver.v # CtePayloadVersion THEN Bad ELSE
    Then(ReadFields(CteFieldsRead, NoFields, payload, ver.at), LAMBDA c :
    IF c.at <= Len(payload) THEN Bad
    ELSE Read([op |-> "cte", inputs |-> 1, cte |-> c.v], c.at))))

\* A payload as long as a scan number and of its version is one; every other
\* payload is a CTE reference.
IsScanIdPayload(payload) ==
    Len(payload) = 2 /\ payload[1] = <<"raw", ScanIdPayloadVersion>>

TryDecode(payload, inputs, specs) ==
    IF IsScanIdPayload(payload)
    THEN IF inputs = 0 /\ payload[2][2] \in DOMAIN specs
         THEN Read([op |-> "scan", inputs |-> 0,
                    spec |-> specs[payload[2][2]]], 3)
         ELSE Bad
    ELSE DecodeCteRef(payload, inputs)

\* The protobuf message of one node, and of the plan (prost, datafusion_proto).
NodeMessage(node) ==
    CASE node.op \in {"scan", "cte"} ->
             [class |-> "ext", inputs |-> node.inputs,
              body |-> TryEncode(node)]
      [] OTHER -> [class |-> node.op, inputs |-> node.inputs,
                   body |-> Raw(node.what)]
WriteMessage(m) ==
    <<<<m.class, m.inputs>>>> \o WriteBin(m.body)
WritePlan(plan) ==
    FlattenSeq([i \in DOMAIN plan |-> WriteMessage(NodeMessage(plan[i]))])

ReadMessage(buf, at) ==
    Then(ReadMarker(buf, at + 1, "bin"), LAMBDA r :
        IF r.at + r.v - 1 > Len(buf) THEN Bad
        ELSE Read([class |-> buf[at][1], inputs |-> buf[at][2],
                   body |-> SubSeq(buf, r.at, r.at + r.v - 1)], r.at + r.v))

\* try_into_logical_plan
NodeFromMessage(m, specs) ==
    CASE m.class = "ext"  -> TryDecode(m.body, m.inputs, specs)
      [] m.class = "call" ->
             IF Resolves(m.body[1][2], m.body[2][2])
             THEN Read([op |-> "call", inputs |-> m.inputs,
                        what |-> [i \in DOMAIN m.body |-> m.body[i][2]]], 1)
             ELSE Bad
      [] OTHER ->
             Read([op |-> m.class, inputs |-> m.inputs,
                   what |-> [i \in DOMAIN m.body |-> m.body[i][2]]], 1)

RECURSIVE ReadPlan(_, _, _, _)
ReadPlan(buf, at, specs, nodes) ==
    IF at > Len(buf) THEN Read(nodes, at)
    ELSE Then(ReadMessage(buf, at), LAMBDA m :
             Then(NodeFromMessage(m.v, specs), LAMBDA n :
                 With(Append(nodes, n.v), LAMBDA ns :
                     ReadPlan(buf, m.at, specs, ns))))

ScansOf(plan) == SelectSeq(plan, LAMBDA n : n.op = "scan")

\* The first specification met of each number, in the order of the numbers.
CollectScanSpecs(plan) ==
    LET scans == ScansOf(plan)
        ids == {scans[i].spec.scan_id : i \in DOMAIN scans}
        first(id) == Min({i \in DOMAIN scans : scans[i].spec.scan_id = id})
    IN  [k \in 1..Cardinality(ids) |->
            scans[first(SetToSortSeq(ids, <)[k])].spec]

\* validate_scan_spec_usage
ScanSpecsAreUsed(plan, specs) ==
    DOMAIN specs \subseteq
        {ScansOf(plan)[i].spec.scan_id : i \in DOMAIN ScansOf(plan)}

-----------------------------------------------------------------------------
(* PlanEncodeSession.  The items of the envelope are encoded again for     *)
(* each piece of output, and the window that is due is kept.               *)

Magic == <<"P", "F", "P", "L">>
CodecVersion == 1

Items(plan) ==
    LET specs == CollectScanSpecs(plan)
    IN  <<WriteArrayLen(4), WriteString(Magic), WriteInt("u8", CodecVersion),
          WriteArrayLen(Len(specs))>>
        \o [k \in DOMAIN specs |-> EncodeScanSpec(specs[k])]
        \o <<<<<<"bin", Len(WritePlan(plan))>>>>, WritePlan(plan)>>

\* item: the one that is active; emitted: how much of it is out.
NewEncoder == [item |-> 1, emitted |-> 0, finished |-> FALSE]

\* OverlapBufMut: what an item's writer leaves in a window of the output.
Overlap(item, skip, room) ==
    SubSeq(item, skip + 1, Min({skip + room, Len(item)}))
WriteWindow(items, e, room) == Overlap(items[e.item], e.emitted, room)

AfterWindow(items, e, n) ==
    CASE e.emitted + n < Len(items[e.item]) ->
             [e EXCEPT !.emitted = e.emitted + n]
      [] e.item < Len(items) ->
             [e EXCEPT !.item = e.item + 1, !.emitted = 0]
      [] OTHER -> [e EXCEPT !.emitted = 0, !.finished = TRUE]

\* write_chunk_inner: fills room bytes of output or ends the stream.
RECURSIVE WriteChunk(_, _, _, _)
WriteChunk(items, encoder, room, out) == With(encoder, LAMBDA e :
    IF e.finished \/ (out # <<>> /\ room = 0) THEN [e |-> e, out |-> out]
    ELSE With(WriteWindow(items, e, room), LAMBDA w :
             With(out \o w, LAMBDA o :
                 With(room - Len(w), LAMBDA n :
                     WriteChunk(items, AfterWindow(items, e, Len(w)), n, o)))))

-----------------------------------------------------------------------------
(* PlanDecodeSession.                                                      *)

\* control: bytes not understood yet; need: the length of the plan's body;
\* body: what came of it; failed: the session gives nothing but errors.
NewDecoder ==
    [st |-> "EnvelopeArrayLen", control |-> <<>>, remaining |-> 0,
     specs |-> NoFields, need |-> 0, body |-> <<>>, plan |-> <<>>,
     failed |-> FALSE, finished |-> FALSE]

\* progress: "more", "done" or the error that was returned.
Progress(d, progress) == [d |-> d, progress |-> progress]
PoisonDecode(d, error) ==
    Progress([d EXCEPT !.st = "Failed", !.failed = TRUE], error)

\* decode_need_more
NeedMore(d, eof) ==
    IF eof THEN PoisonDecode(d, "UnexpectedEof") ELSE Progress(d, "more")

\* The control bytes from position at on, in state st.
Consume(d, at, st) ==
    [d EXCEPT !.control = SubSeq(d.control, at, Len(d.control)), !.st = st]

\* is_incomplete_decode_error: only the wording tells a value that is cut off
\* from one that is not the expected.
IncompleteUnlessNoMarker(r) == r.st \in {"truncated", "unexpected eof", "no data", "io error"}
IsIncompleteDecodeError(r) ==
    r.st \in {"truncated", "unexpected eof", "no data", "no marker", "io error"}

\* try_parse_prefix on the bytes that are there, and what follows.
Parse(d, eof, r, Good(_)) ==
    With(r, LAMBDA q :
        CASE q.st = "ok" -> Good(q)
          [] q.st # "ok" /\ IsIncompleteDecodeError(q) -> NeedMore(d, eof)
          [] OTHER -> PoisonDecode(d, "Invalid"))

\* drain_control_into_logical_plan_segments
DrainControl(d) ==
    LET take == Min({d.need - Len(d.body), Len(d.control)})
    IN  [d EXCEPT !.body = d.body \o SubSeq(d.control, 1, take),
                  !.control = SubSeq(d.control, take + 1, Len(d.control))]

\* buffer_decode_chunk.  The bytes of a chunk go to the plan's body as far as
\* it needs them, and wait as control bytes otherwise.
BufferChunk(d, chunk) ==
    IF d.st = "LogicalPlanBin"
    THEN LET c == DrainControl(d)
             take == Min({c.need - Len(c.body), Len(chunk)})
         IN  [c EXCEPT !.body = c.body \o SubSeq(chunk, 1, take),
                       !.control = c.control
                           \o SubSeq(chunk, take + 1, Len(chunk))]
    ELSE [d EXCEPT !.control = d.control \o chunk]

\* build_decoded_plan, and the check that nothing follows the plan.
BuildPlan(d) ==
    With(ReadPlan(d.body, 1, d.specs, <<>>), LAMBDA r :
        CASE r.st # "ok" -> PoisonDecode(d, "Invalid")
          [] r.st = "ok" /\ ~ScanSpecsAreUsed(r.v, d.specs) ->
                 PoisonDecode(d, "Invalid")
          [] r.st = "ok" /\ ScanSpecsAreUsed(r.v, d.specs)
             /\ d.control # <<>> -> PoisonDecode(d, "TrailingBytes")
          [] OTHER -> Progress([d EXCEPT !.plan = r.v, !.body = <<>>,
                                         !.st = "AwaitEof"], "more"))

\* The plan is handed out when the input ends and nothing follows it.
AwaitEof(d, eof) ==
    CASE d.control # <<>> -> PoisonDecode(d, "TrailingBytes")
      [] d.control = <<>> /\ eof ->
             Progress([d EXCEPT !.st = "Done", !.finished = TRUE], "done")
      [] OTHER -> Progress(d, "more")

\* The body is complete or not; a complete one is decoded and built at once.
DecodeBody(decoder, eof) == With(DrainControl(decoder), LAMBDA d :
    IF Len(d.body) < d.need THEN NeedMore(d, eof)
    ELSE With(BuildPlan(d), LAMBDA b :
             IF b.d.failed THEN b ELSE AwaitEof(b.d, eof)))

\* drive_decode: from state to state as far as the bytes go.
RECURSIVE DriveDecode(_, _)
DriveDecode(decoder, eof) == With(decoder, LAMBDA d :
    CASE d.st = "EnvelopeArrayLen" ->
             Parse(d, eof, ExpectArrayLen(d.control, 1, 4), LAMBDA r :
                 DriveDecode(Consume(d, r.at, "Magic"), eof))
      [] d.st = "Magic" ->
             Parse(d, eof, ReadString(d.control, 1), LAMBDA r :
                 IF r.v # Magic THEN PoisonDecode(d, "Invalid")
                 ELSE DriveDecode(Consume(d, r.at, "Version"), eof))
      [] d.st = "Version" ->
             Parse(d, eof, ReadInteger(d.control, 1, "u8"), LAMBDA r :
                 IF r.v # CodecVersion THEN PoisonDecode(d, "Invalid")
                 ELSE DriveDecode(Consume(d, r.at, "ScanSpecsArrayLen"), eof))
      [] d.st = "ScanSpecsArrayLen" ->
             Parse(d, eof, ReadMarker(d.control, 1, "array"), LAMBDA r :
                 DriveDecode(
                     [Consume(d, r.at, IF r.v = 0 THEN "LogicalPlanBinLen"
                                       ELSE "ScanSpecs")
                      EXCEPT !.remaining = r.v], eof))
      [] d.st = "ScanSpecs" ->
             Parse(d, eof, DecodeScanSpec(d.control, 1), LAMBDA r :
                 IF r.v.scan_id \in DOMAIN d.specs
                 THEN PoisonDecode(d, "Invalid")
                 ELSE DriveDecode(
                     [Consume(d, r.at, IF d.remaining = 1
                                       THEN "LogicalPlanBinLen"
                                       ELSE "ScanSpecs")
                      EXCEPT !.remaining = d.remaining - 1,
                             !.specs = (r.v.scan_id :> r.v) @@ d.specs], eof))
      [] d.st = "LogicalPlanBinLen" ->
             Parse(d, eof, ReadMarker(d.control, 1, "bin"), LAMBDA r :
                 DriveDecode([Consume(d, r.at, "LogicalPlanBin")
                              EXCEPT !.need = r.v], eof))
      [] d.st = "LogicalPlanBin" -> DecodeBody(d, eof)
      [] d.st = "AwaitEof" -> AwaitEof(d, eof))

PushChunk(d, chunk) ==
    CASE d.failed   -> Progress(d, "SessionFailed")
      [] d.finished -> Progress(d, "AlreadyFinished")
      [] OTHER      -> DriveDecode(BufferChunk(d, chunk), FALSE)

FinishInput(d) ==
    CASE d.failed   -> Progress(d, "SessionFailed")
      [] d.finished -> Progress(d, "AlreadyFinished")
      [] OTHER      -> DriveDecode(d, TRUE)
=============================================================================
