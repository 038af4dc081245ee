-------------------------- MODULE ControlMessages --------------------------
(* The frames of the control rings: the runtime messages of four families   *)
(* behind an eight-byte envelope, the fixed-size headers of pages in        *)
(* transit, and the receivers that have to tell one from the other.         *)
(*                                                                          *)
(* A frame is the sequence of the values written to it, each a pair of its  *)
(* MessagePack type and its value; what matters of a value's bytes is how   *)
(* many they are.  An encoder that refuses a message gives no frame.        *)
EXTENDS Integers, SequencesExt

RUNTIME_ENVELOPE_HEADER_LEN == 8
RUNTIME_PROTOCOL_VERSION == 4
CONTROL_TRANSPORT_PAYLOAD_OVERHEAD == 5
MIN_SCAN_RING_CAPACITY == 256
MAX_SCAN_FAILURE_MESSAGE_LEN == 220
MAX_EXECUTION_FAILURE_DETAIL_LEN == 2048
ISSUED_HEADER_LEN == 59
TRANSPORT_HEADER_LEN == 45
PAGE_HEADER_LEN == 20

Refused == <<>>

BackendExecutionToWorker == 1
WorkerExecutionToBackend == 2
WorkerScanToBackend == 3
BackendScanToWorker == 4

Leader == 1
Worker == 2

-----------------------------------------------------------------------------
(* Texts: `narrow` characters of one byte, `wide` ones of `width` bytes, and *)
(* a tail of one-byte characters put there by a truncation.                  *)

TextLen(t) == t.narrow + t.wide * t.width + t.tail

\* The longest prefix of whole characters that has at most `max` bytes.
WholeChars(t, max) ==
  IF max <= t.narrow THEN [t EXCEPT !.narrow = max, !.wide = 0]
                     ELSE [t EXCEPT !.wide = Min({@, (max - t.narrow) \div t.width})]

SuffixLen == 15

truncate_utf8(t, max) ==
  IF TextLen(t) <= max THEN t
  ELSE IF max <= SuffixLen THEN WholeChars(t, max)
  ELSE [WholeChars(t, max - SuffixLen) EXCEPT !.tail = SuffixLen]

\* <<>> when not a byte is left for the text
worker_execution_failure_detail(t, capacity) ==
  LET max == Min({Max({capacity - (RUNTIME_ENVELOPE_HEADER_LEN + 32), 0}), MAX_EXECUTION_FAILURE_DETAIL_LEN})
  IN  IF max = 0 THEN <<>> ELSE <<truncate_utf8(t, max)>>

truncate_scan_failure_message(t) ==
  IF TextLen(t) <= MAX_SCAN_FAILURE_MESSAGE_LEN THEN t ELSE WholeChars(t, MAX_SCAN_FAILURE_MESSAGE_LEN)

-----------------------------------------------------------------------------
(* MessagePack                                                               *)

U8(v) == <<"u8", v>>
U16(v) == <<"u16", v>>
U32(v) == <<"u32", v>>
U64(v) == <<"u64", v>>
Str(t) == <<"str", t>>
Array(n) == <<"array", n>>
Nil == <<"nil", 0>>

\* Integers are written with the marker of their width, lengths with the
\* shortest one; what is left of a value that was cut has the type "cut".
Width(x) ==
  LET type == x[1] IN
  CASE type = "envelope" -> RUNTIME_ENVELOPE_HEADER_LEN
    [] type \in {"nil", "fixpos"} -> 1
    [] type = "u8" -> 2
    [] type = "u16" -> 3
    [] type = "u32" -> 5
    [] type = "u64" -> 9
    [] type = "array" -> IF x[2] < 16 THEN 1 ELSE 3
    [] type = "str" ->
         TextLen(x[2]) + (IF TextLen(x[2]) < 32 THEN 1 ELSE IF TextLen(x[2]) < 256 THEN 2 ELSE 3)
    [] type = "cut" -> x[2]

FrameLen(frame) == FoldLeft(LAMBDA sum, x : sum + Width(x), 0, frame)

encode_into_with_len(frame, room) == IF room < FrameLen(frame) THEN Refused ELSE frame

write_optional_u64(detail) == IF detail = <<>> THEN <<Nil>> ELSE <<U64(detail[1])>>
write_optional_str(text) == IF text = <<>> THEN <<Nil>> ELSE <<Str(text[1])>>

Unread == [ok |-> FALSE, v |-> 0, rest |-> <<>>]
Got(v, src) == [ok |-> TRUE, v |-> v, rest |-> Tail(src)]

\* A read asks for exactly the marker it expects.
ReadValue(type, src) ==
  IF src # <<>> /\ Head(src)[1] = type THEN Got(Head(src)[2], src) ELSE Unread

read_optional_u64(src) ==
  CASE src = <<>> -> Unread
    [] Head(src)[1] = "nil" -> Got(<<>>, src)
    [] Head(src)[1] \in {"fixpos", "u8", "u16", "u32", "u64"} -> Got(<<Head(src)[2]>>, src)
    [] OTHER -> Unread

read_optional_str(src) ==
  CASE src = <<>> -> Unread
    [] Head(src)[1] = "nil" -> Got(<<>>, src)
    [] Head(src)[1] = "str" -> Got(<<Head(src)[2]>>, src)
    [] OTHER -> Unread

Only(codes, read) == IF read.ok /\ read.v \in codes THEN read ELSE Unread

ExecutionFailureCode(src) == Only(1 .. 4, ReadValue("u8", src))
ProducerRole(src) == Only(1 .. 2, ReadValue("u8", src))

ReadField(type, src) ==
  CASE type = "bool" -> LET read == ReadValue("u8", src) IN [read EXCEPT !.v = @ # 0]
    [] type = "code" -> ExecutionFailureCode(src)
    [] type = "role" -> ProducerRole(src)
    [] type = "optional u64" -> read_optional_u64(src)
    [] type = "optional str" -> read_optional_str(src)
    [] OTHER -> ReadValue(type, src)

\* The fields of `layout`, pairs of a name and a type, read one after another.
ReadFields(layout, src) ==
  LET Step(acc, field) ==
        LET read == ReadField(field[2], acc.rest)
        IN  IF acc.ok /\ read.ok
            THEN [ok |-> TRUE, v |-> acc.v @@ (field[1] :> read.v), rest |-> read.rest]
            ELSE [acc EXCEPT !.ok = FALSE]
  IN  FoldLeft(Step, [ok |-> TRUE, v |-> <<>>, rest |-> src], layout)

ReadArray(len, layout, src) ==
  LET array == Only({len}, ReadValue("array", src))
  IN  IF array.ok THEN ReadFields(layout, array.rest) ELSE Unread

-----------------------------------------------------------------------------
(* The sets of producers and of scan channels, with the rules a reader and a *)
(* writer each check while they go over them.                                *)

write_producer_slice(producers) ==
  <<Array(Len(producers))>>
    \o FlattenSeq([i \in DOMAIN producers |-> <<Array(2), U16(producers[i].producer_id), U8(producers[i].role)>>])

ProducerLayout == <<<<"producer_id", "u16">>, <<"role", "role">>>>

NoProducers == [ok |-> TRUE, leader_seen |-> FALSE, seen_ids |-> {}]

observe_producer(state, producer) ==
  [ok |-> /\ state.ok
          /\ producer.role = Leader => ~state.leader_seen
          /\ producer.producer_id \notin state.seen_ids,
   leader_seen |-> state.leader_seen \/ producer.role = Leader,
   seen_ids |-> state.seen_ids \cup {producer.producer_id}]

validate_encode_producer_slice(producers) ==
  producers # <<>> /\ FoldLeft(observe_producer, NoProducers, producers).ok

write_scan_channel_slice(channels) ==
  <<Array(Len(channels))>>
    \o FlattenSeq([i \in DOMAIN channels |->
         <<Array(6), U64(channels[i].scan_id), U16(channels[i].producer_id), U8(channels[i].role),
           U32(channels[i].slot_id), U64(channels[i].generation), U64(channels[i].lease_epoch)>>])

ScanChannelLayout ==
  <<<<"scan_id", "u64">>, <<"producer_id", "u16">>, <<"role", "role">>,
    <<"slot_id", "u32">>, <<"generation", "u64">>, <<"lease_epoch", "u64">>>>

NoChannels == [ok |-> TRUE, previous |-> <<>>, current_scan_id |-> <<>>, leader_seen |-> FALSE]

\* The scan that ends here has had its leader.
finish_scan_channel_validation(state) == state.current_scan_id # <<>> => state.leader_seen

Below(p, q) == p[1] < q[1] \/ (p[1] = q[1] /\ p[2] < q[2])

\* A channel that is neither the one before it nor ordered before that one;
\* the first channel of a scan closes the scan before.
observe_decode_scan_channel(state, current) ==
  LET id == <<current.scan_id, current.producer_id>>
      other == state.current_scan_id # <<current.scan_id>>
      seen == ~other /\ state.leader_seen
  IN  [ok |-> /\ state.ok
              /\ state.previous # <<>> => state.previous # id /\ ~Below(id, state.previous)
              /\ other => finish_scan_channel_validation(state)
              /\ current.role = Leader => ~seen,
       previous |-> id,
       current_scan_id |-> <<current.scan_id>>,
       leader_seen |-> seen \/ current.role = Leader]

\* The writer's copy of the rules
observe_encode_scan_channel(state, current) == observe_decode_scan_channel(state, current)

validate_scan_channel_slice(channels) ==
  LET end == FoldLeft(observe_encode_scan_channel, NoChannels, channels)
  IN  end.ok /\ finish_scan_channel_validation(end)

\* An array of descriptors, observed one by one as they are read.
ReadSet(len, layout, Observe(_, _), start, src) ==
  LET count == ReadValue("array", src)
      Step(acc, i) ==
        LET read == ReadArray(len, layout, acc.rest)
        IN  IF acc.state.ok /\ read.ok
            THEN [state |-> Observe(acc.state, read.v), v |-> Append(acc.v, read.v), rest |-> read.rest]
            ELSE [acc EXCEPT !.state.ok = FALSE]
      first == [state |-> [start EXCEPT !.ok = count.ok], v |-> <<>>, rest |-> count.rest]
  IN  FoldLeft(Step, first, [i \in 1 .. (IF count.ok THEN count.v ELSE 0) |-> i])

decode_producer_set(src) ==
  LET read == ReadSet(2, ProducerLayout, observe_producer, NoProducers, src)
  IN  [ok |-> read.state.ok /\ read.v # <<>>, v |-> read.v, rest |-> read.rest]

decode_scan_channel_set(src) ==
  LET read == ReadSet(6, ScanChannelLayout, observe_decode_scan_channel, NoChannels, src)
  IN  [ok |-> read.state.ok /\ finish_scan_channel_validation(read.state), v |-> read.v, rest |-> read.rest]

-----------------------------------------------------------------------------
(* The runtime messages                                                      *)

write_runtime_header(family, tag) ==
  <<<<"envelope", [version |-> RUNTIME_PROTOCOL_VERSION, family |-> family, tag |-> tag]>>>>

encode_backend_execution(m) ==
  CASE m.message = "StartExecution" ->
         IF ~validate_scan_channel_slice(m.scans) THEN Refused
         ELSE write_runtime_header(BackendExecutionToWorker, 1)
                \o <<U64(m.session_epoch), U64(m.plan_id), U16(m.page_kind), U16(m.page_flags),
                     U32(m.channel_capacity), U32(m.idle_poll_us), U8(IF m.runtime_filter THEN 1 ELSE 0)>>
                \o write_scan_channel_slice(m.scans)
    [] m.message = "CancelExecution" ->
         write_runtime_header(BackendExecutionToWorker, 2) \o <<U64(m.session_epoch)>>
    [] m.message = "FailExecution" ->
         write_runtime_header(BackendExecutionToWorker, 3)
           \o <<U64(m.session_epoch), U8(m.code)>> \o write_optional_u64(m.detail)

encode_worker_execution(m) ==
  CASE m.message = "CompleteExecution" ->
         write_runtime_header(WorkerExecutionToBackend, 1) \o <<U64(m.session_epoch)>>
    [] m.message = "FailExecution" ->
         IF m.text # <<>> /\ TextLen(m.text[1]) > MAX_EXECUTION_FAILURE_DETAIL_LEN THEN Refused
         ELSE write_runtime_header(WorkerExecutionToBackend, 2)
                \o <<U64(m.session_epoch), U8(m.code)>> \o write_optional_str(m.text)

\* An OpenScan has a ScanFlowDescriptor, which checks its producers when it is made.
encode_worker_scan(m) ==
  CASE m.message = "OpenScan" ->
         IF ~validate_encode_producer_slice(m.producers) THEN Refused
         ELSE write_runtime_header(WorkerScanToBackend, 1)
                \o <<U64(m.session_epoch), U64(m.scan_id), U16(m.page_kind), U16(m.page_flags)>>
                \o write_producer_slice(m.producers)
    [] m.message = "CancelScan" ->
         write_runtime_header(WorkerScanToBackend, 2) \o <<U64(m.session_epoch), U64(m.scan_id)>>

encode_backend_scan(m) ==
  CASE m.message = "ScanFinished" ->
         write_runtime_header(BackendScanToWorker, 1)
           \o <<U64(m.session_epoch), U64(m.scan_id), U16(m.producer_id)>>
    [] m.message = "ScanFailed" ->
         IF TextLen(m.text) > MAX_SCAN_FAILURE_MESSAGE_LEN THEN Refused
         ELSE write_runtime_header(BackendScanToWorker, 2)
                \o <<U64(m.session_epoch), U64(m.scan_id), U16(m.producer_id), Str(m.text)>>

Encode(m) ==
  CASE m.family = BackendExecutionToWorker -> encode_backend_execution(m)
    [] m.family = WorkerExecutionToBackend -> encode_worker_execution(m)
    [] m.family = WorkerScanToBackend -> encode_worker_scan(m)
    [] m.family = BackendScanToWorker -> encode_backend_scan(m)

\* No other value starts with the bytes of the magic number.
decode_runtime_header(frame) ==
  IF FrameLen(frame) < RUNTIME_ENVELOPE_HEADER_LEN THEN [error |-> "TruncatedEnvelope"]
  ELSE IF Head(frame)[1] # "envelope" THEN [error |-> "InvalidMagic"]
  ELSE LET header == Head(frame)[2] IN
       CASE header.version # RUNTIME_PROTOCOL_VERSION -> [error |-> "UnsupportedVersion"]
         [] header.family \notin 1 .. 4 -> [error |-> "UnexpectedMessageFamily"]
         [] OTHER -> [error |-> "none", family |-> header.family, tag |-> header.tag]

Shape(message, fields, set) == [message |-> message, fields |-> fields, set |-> set]
UnexpectedTag == Shape("none", <<>>, "none")

BackendExecutionShape(tag) ==
  CASE tag = 1 -> Shape("StartExecution",
                        <<<<"session_epoch", "u64">>, <<"plan_id", "u64">>, <<"page_kind", "u16">>,
                          <<"page_flags", "u16">>, <<"channel_capacity", "u32">>,
                          <<"idle_poll_us", "u32">>, <<"runtime_filter", "bool">>>>, "scans")
    [] tag = 2 -> Shape("CancelExecution", <<<<"session_epoch", "u64">>>>, "none")
    [] tag = 3 -> Shape("FailExecution",
                        <<<<"session_epoch", "u64">>, <<"code", "code">>, <<"detail", "optional u64">>>>, "none")
    [] OTHER -> UnexpectedTag

WorkerExecutionShape(tag) ==
  CASE tag = 1 -> Shape("CompleteExecution", <<<<"session_epoch", "u64">>>>, "none")
    [] tag = 2 -> Shape("FailExecution",
                        <<<<"session_epoch", "u64">>, <<"code", "code">>, <<"text", "optional str">>>>, "none")
    [] OTHER -> UnexpectedTag

WorkerScanShape(tag) ==
  CASE tag = 1 -> Shape("OpenScan",
                        <<<<"session_epoch", "u64">>, <<"scan_id", "u64">>, <<"page_kind", "u16">>,
                          <<"page_flags", "u16">>>>, "producers")
    [] tag = 2 -> Shape("CancelScan", <<<<"session_epoch", "u64">>, <<"scan_id", "u64">>>>, "none")
    [] OTHER -> UnexpectedTag

BackendScanShape(tag) ==
  LET ids == <<<<"session_epoch", "u64">>, <<"scan_id", "u64">>, <<"producer_id", "u16">>>> IN
  CASE tag = 1 -> Shape("ScanFinished", ids, "none")
    [] tag = 2 -> Shape("ScanFailed", Append(ids, <<"text", "str">>), "none")
    [] OTHER -> UnexpectedTag

NotDecoded == [ok |-> FALSE, as |-> "nothing", v |-> 0]
Decoded(as, v) == [ok |-> TRUE, as |-> as, v |-> v]

\* A message of `family` and nothing behind it.
DecodeAs(family, ShapeOf(_), frame) ==
  LET header == decode_runtime_header(frame) IN
  IF header.error # "none" \/ header.family # family THEN NotDecoded
  ELSE
    LET shape == ShapeOf(header.tag)
        fields == ReadFields(shape.fields, Tail(frame))
        set == CASE shape.set = "scans" -> decode_scan_channel_set(fields.rest)
                 [] shape.set = "producers" -> decode_producer_set(fields.rest)
                 [] shape.set = "none" -> [ok |-> TRUE, v |-> <<>>, rest |-> fields.rest]
        message == fields.v @@ [family |-> family, message |-> shape.message]
    IN  IF shape # UnexpectedTag /\ fields.ok /\ set.ok /\ set.rest = <<>>
        THEN Decoded("control", IF shape.set = "none" THEN message ELSE message @@ (shape.set :> set.v))
        ELSE NotDecoded

decode_worker_scan(frame) == DecodeAs(WorkerScanToBackend, WorkerScanShape, frame)

-----------------------------------------------------------------------------
(* The headers of pages in transit: an array with a magic number, a version, *)
(* a kind, flags and the ids.  A Close has zeros for the page it has not.    *)

IssuedMagic == 1
TransportMagic == 2
PageMagic == 3
FrameVersion == 1

PageKind == 1
CloseKind == 2

encode_issued_owned_frame(frame) ==
  LET page == frame.kind = PageKind
      Id(v) == IF page THEN v ELSE 0
  IN  <<Array(10), U32(IssuedMagic), U16(FrameVersion), U8(frame.kind), U8(0), U64(frame.transfer_id),
        U64(Id(frame.pool_instance_id)), U32(Id(frame.permit_id)),
        U64(Id(frame.pool_id)), U32(Id(frame.page_id)), U64(Id(frame.generation))>>

encode_owned_frame(frame) ==
  LET Id(v) == IF frame.kind = PageKind THEN v ELSE 0
  IN  <<Array(8), U32(TransportMagic), U16(FrameVersion), U8(frame.kind), U8(0), U64(frame.transfer_id),
        U64(Id(frame.pool_id)), U32(Id(frame.page_id)), U64(Id(frame.generation))>>

FrameStart == <<<<"magic", "u32">>, <<"version", "u16">>, <<"kind", "u8">>, <<"flags", "u8">>, <<"transfer_id", "u64">>>>
Descriptor == <<<<"pool_id", "u64">>, <<"page_id", "u32">>, <<"generation", "u64">>>>

decode_issued_owned_frame(frame) ==
  LET read == ReadArray(10, FrameStart \o <<<<"pool_instance_id", "u64">>, <<"permit_id", "u32">>>> \o Descriptor, frame)
      got == read.v
  IN  IF /\ read.ok /\ read.rest = <<>>
         /\ got.magic = IssuedMagic /\ got.version = FrameVersion /\ got.kind \in {PageKind, CloseKind} /\ got.flags = 0
         /\ got.kind = CloseKind =>
              \A id \in {"pool_instance_id", "permit_id", "pool_id", "page_id", "generation"} : got[id] = 0
      THEN Decoded("issued", got) ELSE NotDecoded

decode_owned_frame(frame) ==
  LET read == ReadArray(8, FrameStart \o Descriptor, frame)
      got == read.v
  IN  IF /\ read.ok /\ read.rest = <<>>
         /\ got.magic = TransportMagic /\ got.version = FrameVersion /\ got.kind \in {PageKind, CloseKind} /\ got.flags = 0
         /\ got.kind = CloseKind => \A id \in {"pool_id", "page_id", "generation"} : got[id] = 0
      THEN Decoded("transfer", got) ELSE NotDecoded

decode_issued_frame(frame) ==
  IF FrameLen(frame) # ISSUED_HEADER_LEN THEN NotDecoded ELSE decode_issued_owned_frame(frame)

encode_page_header(header) ==
  <<Array(5), U32(PageMagic), U16(FrameVersion), U16(header.kind), U16(header.flags), U32(header.payload_len)>>

decode_page_header(bytes) ==
  LET read == ReadArray(5, <<<<"magic", "u32">>, <<"version", "u16">>, <<"kind", "u16">>, <<"flags", "u16">>,
                            <<"payload_len", "u32">>>>, bytes)
  IN  IF read.ok /\ read.rest = <<>> /\ read.v.magic = PageMagic /\ read.v.version = FrameVersion
      THEN Decoded("page", read.v) ELSE NotDecoded

\* finish_with_payload_len: no header for more than the page can hold
FinishHeader(header, page_size) ==
  IF header.payload_len > page_size - PAGE_HEADER_LEN THEN Refused ELSE encode_page_header(header)

\* ReceivedPage::new
ReceivePage(bytes, page_size) ==
  LET read == decode_page_header(bytes)
  IN  IF read.ok /\ read.v.payload_len <= page_size - PAGE_HEADER_LEN THEN read ELSE NotDecoded

-----------------------------------------------------------------------------
(* The receivers of rings that carry both: the envelope decides, and what    *)
(* has none may still be the header of a page.                               *)

NoEnvelope == {"InvalidMagic", "UnsupportedVersion", "TruncatedEnvelope"}

decode_inbound_by_length(frame) ==
  IF FrameLen(frame) >= ISSUED_HEADER_LEN THEN decode_issued_frame(frame)
  ELSE DecodeAs(BackendExecutionToWorker, BackendExecutionShape, frame)

\* The worker, on a primary slot
decode_inbound(frame) ==
  IF decode_runtime_header(frame).error \in NoEnvelope THEN decode_issued_frame(frame)
  ELSE DecodeAs(BackendExecutionToWorker, BackendExecutionShape, frame)

\* The worker, on a scan slot
decode_scan_inbound(frame) ==
  IF decode_runtime_header(frame).error \in NoEnvelope THEN decode_issued_frame(frame)
  ELSE DecodeAs(BackendScanToWorker, BackendScanShape, frame)

\* The backend, on its primary slot
decode_primary_inbound(frame) ==
  IF decode_runtime_header(frame).error \in NoEnvelope THEN decode_issued_frame(frame)
  ELSE DecodeAs(WorkerExecutionToBackend, WorkerExecutionShape, frame)

-----------------------------------------------------------------------------
(* The incremental decoders, for carriers that do not keep the frames apart: *)
(* at most one partial header of `len` bytes is buffered.                    *)

FreshDecoder(len) == [header |-> [i \in 1 .. len |-> 0], filled |-> 0]

decode_next(len, decoder, input) ==
  LET copied == Min({len - decoder.filled, Len(input)})
      header == [i \in 1 .. len |-> IF i \in decoder.filled + 1 .. decoder.filled + copied
                                    THEN input[i - decoder.filled] ELSE decoder.header[i]]
      filled == decoder.filled + copied
  IN  CASE decoder.filled = 0 /\ Len(input) >= len ->
             [decoder |-> decoder, input |-> SubSeq(input, len + 1, Len(input)), frame |-> <<SubSeq(input, 1, len)>>]
        [] input = <<>> -> [decoder |-> decoder, input |-> input, frame |-> <<>>]
        [] OTHER ->
             [decoder |-> [header |-> header, filled |-> IF filled < len THEN filled ELSE 0],
              input |-> SubSeq(input, copied + 1, Len(input)),
              frame |-> IF filled < len THEN <<>> ELSE <<header>>]

\* What stands for a byte that no header has at its place
BadByte == 0
Err == <<>>

HeaderDecodes(header) == \A i \in DOMAIN header : header[i] # BadByte

\* push: the frames of one chunk, until the decoder has none to give or a
\* header does not decode; the rest of the chunk is then dropped.
push(len, decoder, chunk) ==
  LET Step(acc, i) ==
        LET next == decode_next(len, acc.decoder, acc.input)
        IN  IF acc.done THEN acc
            ELSE IF next.frame = <<>> \/ HeaderDecodes(next.frame[1])
            THEN [decoder |-> next.decoder, input |-> next.input,
                  frames |-> acc.frames \o next.frame, done |-> next.frame = <<>>]
            ELSE [decoder |-> next.decoder, input |-> <<>>, frames |-> Append(acc.frames, Err), done |-> TRUE]
  IN  FoldLeft(Step, [decoder |-> decoder, input |-> chunk, frames |-> <<>>, done |-> FALSE],
               [i \in 1 .. Len(chunk) + 1 |-> i])

-----------------------------------------------------------------------------
(* What the frames of ControlMessages have to do: arrive as they were sent,  *)
(* at the receiver they were sent to, in the smallest ring they may meet.    *)

Channels ==
  [scan_id : {1, 2}, producer_id : {0, 1}, role : {Leader, Worker}, slot_id : {3}, generation : {4}, lease_epoch : {5}]
Producers == [producer_id : {0, 1, 64}, role : {Leader, Worker}]

UpTo(n, S) == UNION {[1 .. k -> S] : k \in 0 .. n}

AsciiText(n) == [narrow |-> n, wide |-> 0, width |-> 2, tail |-> 0]

ControlInputs ==
  [kind : {"control"}, family : {BackendExecutionToWorker}, message : {"StartExecution"}, session_epoch : {1},
   plan_id : {2}, page_kind : {3}, page_flags : {0, 4}, channel_capacity : {5}, idle_poll_us : {6},
   runtime_filter : BOOLEAN, scans : UpTo(3, Channels)]
    \cup [kind : {"control"}, family : {BackendExecutionToWorker}, message : {"CancelExecution"}, session_epoch : {0, 1}]
    \cup [kind : {"control"}, family : {BackendExecutionToWorker}, message : {"FailExecution"}, session_epoch : {1},
          code : 1 .. 4, detail : {<<>>, <<0>>, <<7>>}]
    \cup [kind : {"control"}, family : {WorkerExecutionToBackend}, message : {"CompleteExecution"}, session_epoch : {0, 1}]
    \cup [kind : {"control"}, family : {WorkerExecutionToBackend}, message : {"FailExecution"}, session_epoch : {1},
          code : 1 .. 4, text : {<<>>} \cup {<<AsciiText(n)>> : n \in {0, 31, 32, 37, 255, 256, 2048, 2049}}]
    \cup [kind : {"control"}, family : {WorkerScanToBackend}, message : {"OpenScan"}, session_epoch : {1}, scan_id : {2},
          page_kind : {3}, page_flags : {0, 4}, producers : UpTo(3, Producers)]
    \cup [kind : {"control"}, family : {WorkerScanToBackend}, message : {"CancelScan"}, session_epoch : {1}, scan_id : {2}]
    \cup [kind : {"control"}, family : {BackendScanToWorker}, message : {"ScanFinished"}, session_epoch : {1},
          scan_id : {2}, producer_id : {0, 3}]
    \cup [kind : {"control"}, family : {BackendScanToWorker}, message : {"ScanFailed"}, session_epoch : {1},
          scan_id : {2}, producer_id : {3}, text : {AsciiText(n) : n \in {0, 27, 28, 31, 32, 220, 221}}]

HeaderInputs ==
  [kind : {"header"}, transfer_id : {1}, close : {FALSE}, pool_instance_id : {0, 2}, permit_id : {0, 3},
   pool_id : {0, 4}, page_id : {0, 5}, generation : {0, 6}]
    \cup [kind : {"header"}, transfer_id : {0, 1}, close : {TRUE}, pool_instance_id : {0}, permit_id : {0},
          pool_id : {0}, page_id : {0}, generation : {0}]

FailureInputs ==
  [kind : {"failure"}, narrow : {0, 1, 2, 3, 40, 214, 217, 218, 219, 220, 221, 2030, 2048, 2049},
   wide : {0, 1, 2, 60}, width : 2 .. 4, capacity : {1, 40, 41, 48, 55, 56, 57, 100, 2088, 4096}]

ChunkInputs == [kind : {"chunks"}, len : 1 .. 3, cuts : UpTo(3, 0 .. 7), bad : {0, 2, 4}]

MessageInputs ==
  ControlInputs \cup HeaderInputs \cup FailureInputs \cup ChunkInputs
    \cup [kind : {"open"}, workers : {0, 14, 15, 31, 32}]
    \cup [kind : {"page"}, payload_len : {0, 1, 43, 44, 45}, page_kind : {1, 2}, page_flags : {0, 3}]

-----------------------------------------------------------------------------
(* References                                                               *)

PairOf(c) == <<c.scan_id, c.producer_id>>

\* "strictly increasing (scan_id, producer_id) order", one leader per scan
ChannelsAreValid(channels) ==
  /\ \A i, j \in DOMAIN channels : i < j => Below(PairOf(channels[i]), PairOf(channels[j]))
  /\ \A i \in DOMAIN channels :
       \E l \in DOMAIN channels :
         {k \in DOMAIN channels : channels[k].scan_id = channels[i].scan_id /\ channels[k].role = Leader} = {l}

ProducersAreValid(producers) ==
  /\ producers # <<>>
  /\ \A i, j \in DOMAIN producers : i # j => /\ producers[i].producer_id # producers[j].producer_id
                                            /\ ~(producers[i].role = Leader /\ producers[j].role = Leader)

IsValid(m) ==
  CASE m.message = "StartExecution" -> ChannelsAreValid(m.scans)
    [] m.message = "OpenScan" -> ProducersAreValid(m.producers)
    [] m.message = "ScanFailed" -> TextLen(m.text) <= MAX_SCAN_FAILURE_MESSAGE_LEN
    [] m.message = "FailExecution" /\ m.family = WorkerExecutionToBackend ->
         m.text = <<>> \/ TextLen(m.text[1]) <= MAX_EXECUTION_FAILURE_DETAIL_LEN
    [] OTHER -> TRUE

\* The receiver of each ring
Receive(family, frame) ==
  CASE family = BackendExecutionToWorker -> decode_inbound(frame)
    [] family = WorkerExecutionToBackend -> decode_primary_inbound(frame)
    [] family = WorkerScanToBackend -> decode_worker_scan(frame)
    [] family = BackendScanToWorker -> decode_scan_inbound(frame)

\* The first n bytes of a frame
FirstBytes(frame, n) ==
  LET Step(acc, x) ==
        IF acc.left >= Width(x) THEN [frame |-> Append(acc.frame, x), left |-> acc.left - Width(x)]
        ELSE [frame |-> IF acc.left > 0 THEN Append(acc.frame, <<"cut", acc.left>>) ELSE acc.frame, left |-> 0]
  IN  FoldLeft(Step, [frame |-> <<>>, left |-> n], frame).frame

\* The frame as a build with another protocol version writes it
OtherVersion(frame) == <<<<"envelope", [frame[1][2] EXCEPT !.version = @ - 1]>>>> \o Tail(frame)

Fits(frame, capacity) == FrameLen(frame) <= capacity - CONTROL_TRANSPORT_PAYLOAD_OVERHEAD

WithoutKind(m) == [f \in DOMAIN m \ {"kind"} |-> m[f]]

\* A broken frame is refused: cut short, followed by another, or of another version
OnlyWhole(family, frame) ==
  /\ \A n \in 0 .. Min({FrameLen(frame) - 1, 80}) : ~Receive(family, FirstBytes(frame, n)).ok
  /\ ~Receive(family, frame \o frame).ok

ControlHolds(m) ==
  LET frame == encode_into_with_len(Encode(m), 8192)
  IN  /\ frame # Refused <=> IsValid(m)
      /\ frame # Refused =>
           /\ LET got == Receive(m.family, frame)
              IN  got.ok /\ got.as = "control" /\ got.v = WithoutKind(m)
           /\ \A family \in 1 .. 4 \ {m.family} : ~Receive(family, frame).ok
           /\ OnlyWhole(m.family, frame)
           /\ ~Receive(m.family, OtherVersion(frame)).ok
           /\ encode_into_with_len(frame, FrameLen(frame) - 1) = Refused
      \* what a writer would refuse is refused by the reader too
      /\ m.message = "StartExecution" =>
           (decode_scan_channel_set(write_scan_channel_slice(m.scans)).ok <=> IsValid(m))
      /\ m.message = "OpenScan" => (decode_producer_set(write_producer_slice(m.producers)).ok <=> IsValid(m))
      /\ m.family = BackendScanToWorker /\ frame # Refused => Fits(frame, MIN_SCAN_RING_CAPACITY)

HeaderHolds(in) ==
  LET frame == [f \in DOMAIN in \ {"kind"} |-> in[f]] @@ [kind |-> IF in.close THEN CloseKind ELSE PageKind]
      issued == encode_issued_owned_frame(frame)
      plain == encode_owned_frame(frame)
      Same(got, ids) == \A id \in ids \cup {"kind", "transfer_id"} : got[id] = frame[id]
      ids == {"pool_id", "page_id", "generation"}
  IN  /\ FrameLen(issued) = ISSUED_HEADER_LEN /\ FrameLen(plain) = TRANSPORT_HEADER_LEN
      /\ \A family \in 1 .. 4 \ {WorkerScanToBackend} :
           /\ Receive(family, issued).as = "issued"
           /\ Same(Receive(family, issued).v, ids \cup {"pool_instance_id", "permit_id"})
           /\ OnlyWhole(family, issued)
           /\ ~Receive(family, plain).ok
      /\ ~Receive(WorkerScanToBackend, issued).ok
      /\ decode_owned_frame(plain).ok /\ Same(decode_owned_frame(plain).v, ids)
      /\ ~decode_owned_frame(issued).ok /\ ~decode_page_header(issued).ok
      /\ Fits(issued, MIN_SCAN_RING_CAPACITY)
      \* a Close is never read for a page, nor the other way round
      /\ ~in.close /\ (\E id \in ids : in[id] # 0) =>
           ~decode_issued_frame([issued EXCEPT ![4] = U8(CloseKind)]).ok

FailureHolds(in) ==
  LET text == [narrow |-> in.narrow, wide |-> in.wide, width |-> in.width, tail |-> 0]
      scan == truncate_scan_failure_message(text)
      failed == encode_backend_scan([message |-> "ScanFailed", session_epoch |-> 1, scan_id |-> 2, producer_id |-> 3,
                                     text |-> scan])
      detail == worker_execution_failure_detail(text, in.capacity)
      fail == encode_worker_execution([message |-> "FailExecution", session_epoch |-> 1, code |-> 4, text |-> detail])
      \* no whole character more would have fitted
      Longest(cut, max) == TextLen(cut) < TextLen(text) => TextLen(cut) + text.width > max
  IN  /\ failed # Refused /\ Fits(failed, MIN_SCAN_RING_CAPACITY)
      /\ Longest(scan, MAX_SCAN_FAILURE_MESSAGE_LEN)
      /\ fail # Refused
      /\ in.capacity > RUNTIME_ENVELOPE_HEADER_LEN + 32 => detail # <<>> /\ Fits(fail, in.capacity)
      /\ detail # <<>> /\ detail[1].tail = 0 => Longest(detail[1], in.capacity - (RUNTIME_ENVELOPE_HEADER_LEN + 32))

\* However the bytes are cut into chunks, the same frames come out of them.
\* A header that does not decode costs the chunk it ends in and nothing after.
ChunksHold(in) ==
  LET Before(i) == FoldLeft(LAMBDA a, b : a + b, 0, SubSeq(in.cuts, 1, i - 1))
      chunks == [i \in DOMAIN in.cuts |->
                   [k \in 1 .. in.cuts[i] |-> IF Before(i) + k = in.bad THEN BadByte ELSE Before(i) + k]]
      bytes == FlattenSeq(chunks)
      Step(acc, chunk) ==
        LET got == push(in.len, acc.decoder, chunk)
        IN  [decoder |-> got.decoder, frames |-> acc.frames \o got.frames, left |-> acc.left + Len(got.input)]
      end == FoldLeft(Step, [decoder |-> FreshDecoder(in.len), frames |-> <<>>, left |-> 0], chunks)
      Headers(b) == [f \in 1 .. Len(b) \div in.len |-> SubSeq(b, (f - 1) * in.len + 1, f * in.len)]
      \* where the bad header starts and ends, and the bytes of the chunks after it
      from == ((in.bad - 1) \div in.len) * in.len
      to == from + in.len
      spoiled == in.bad > 0 /\ to <= Len(bytes)
      after == FlattenSeq([i \in DOMAIN chunks |-> IF Before(i) >= to THEN chunks[i] ELSE <<>>])
      whole == IF spoiled THEN after ELSE bytes
  IN  /\ end.frames = (IF spoiled THEN Append(Headers(SubSeq(bytes, 1, from)), Err) ELSE <<>>) \o Headers(whole)
      /\ end.decoder.filled = Len(whole) % in.len
      /\ end.left = 0

\* One leader and as many workers as the settings allow fit the smallest ring.
OpenHolds(in) ==
  LET producers == [i \in 1 .. in.workers + 1 |-> [producer_id |-> i - 1, role |-> IF i = 1 THEN Leader ELSE Worker]]
      frame == encode_worker_scan([message |-> "OpenScan", session_epoch |-> 1, scan_id |-> 2, page_kind |-> 3,
                                   page_flags |-> 0, producers |-> producers])
  IN  /\ frame # Refused /\ Fits(frame, MIN_SCAN_RING_CAPACITY)
      /\ decode_worker_scan(frame).v.producers = producers

PageHolds(in) ==
  LET header == [kind |-> in.page_kind, flags |-> in.page_flags, payload_len |-> in.payload_len]
      page_size == 64
      bytes == FinishHeader(header, page_size)
      got == ReceivePage(bytes, page_size)
  IN  /\ bytes = Refused <=> in.payload_len + PAGE_HEADER_LEN > page_size
      /\ bytes # Refused => /\ FrameLen(bytes) = PAGE_HEADER_LEN
                            /\ got.ok /\ \A f \in DOMAIN header : got.v[f] = header[f]
                            /\ ~decode_owned_frame(bytes).ok
      /\ ~ReceivePage(encode_page_header(header), PAGE_HEADER_LEN + in.payload_len - 1).ok

MessageHolds(in) ==
  CASE in.kind = "control" -> ControlHolds(in)
    [] in.kind = "header" -> HeaderHolds(in)
    [] in.kind = "failure" -> FailureHolds(in)
    [] in.kind = "chunks" -> ChunksHold(in)
    [] in.kind = "open" -> OpenHolds(in)
    [] in.kind = "page" -> PageHolds(in)
    [] OTHER -> TRUE
=============================================================================
