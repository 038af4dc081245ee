------------------------------- MODULE MCPages -------------------------------
(***************************************************************************)
(* The two halves of a page's way: what is written into it (ScanPages) and *)
(* how it changes hands (PageStream).  They share nothing but the page, so *)
(* a behaviour is one of either, as `mode` says, and the other stands      *)
(* still in one of its initial states.                                     *)
(*                                                                         *)
(* Streams: one stream whose sender is shared by two threads, with more    *)
(* permits than pages.  Contents: tables of up to four rows over five      *)
(* schemas, in pages of 512 bytes; two view columns reserve 32 bytes of    *)
(* slots a row after a front of 124, so a page holds twelve short rows and *)
(* one or two long ones.                                                   *)
(***************************************************************************)
EXTENDS PageStream, TLC

CONSTANTS a, t1, t2, r1,
          Jobs, BlockSize, Priors, FetchBatchRows

VARIABLES mode, job, est, block, next, overflow, batch, place, why, inbox, cursor, out

ClonedSender == (t1 :> a) @@ (t2 :> a)
OneReceiver == (r1 :> a)

Col(tag, nullable) == [tag |-> tag, nullable |-> nullable]

Row(cells) == [cells |-> cells, rejected |-> FALSE]

LongRows == {Row(<<-1, 200>>), Row(<<100, -1>>), Row(<<200, 100>>), Row(<<200, 200>>)}
TextRows == LongRows \cup {Row(<<5, 5>>), Row(<<300, 20>>), Row(<<-1, 340>>),
                          [cells |-> <<5, 100>>, rejected |-> TRUE]}
MixedRows == {Row(<<0, 300>>), Row(<<-1, 20>>), Row(<<0, 400>>)}
IntRows == {Row(<<0, 0>>), [cells |-> <<0, 0>>, rejected |-> TRUE]}
FlagRows == {Row(<<0, -1>>), Row(<<0, 0>>)}

Tables(rows, n) == UNION {[1 .. k -> rows] : k \in 0 .. n}

JobsOf(sides, specs, tables, caps) ==
  {[side |-> s, specs |-> specs, table |-> t, cap |-> c] : s \in sides, t \in tables, c \in caps}

NoCap == 1000

MCJobs ==
  LET text == <<Col("Utf8View", TRUE), Col("BinaryView", TRUE)>>
      mixed == <<Col("Int32", TRUE), Col("Utf8View", FALSE)>>
      ints == <<Col("Int64", FALSE), Col("Float32", FALSE)>>
      flags == <<Col("Boolean", FALSE), Col("Decimal128", TRUE)>>
  IN  JobsOf({"scan"}, text, Tables(TextRows, 2) \cup Tables(LongRows, 3), {NoCap})
        \cup JobsOf({"result"}, text, Tables(LongRows, 3), {NoCap})
        \cup JobsOf({"scan"}, mixed, Tables(MixedRows, 3), {2, NoCap})
        \cup JobsOf({"result"}, mixed, Tables(MixedRows, 3), {NoCap})
        \cup JobsOf({"scan"}, ints, Tables(IntRows, 4), {3, NoCap})
        \cup JobsOf({"scan", "result"}, flags, Tables(FlagRows, 3), {NoCap})
        \cup JobsOf({"scan"}, <<Col("Decimal128", TRUE)>>, Tables({Row(<<0>>), Row(<<-1>>)}, 3), {NoCap})
        \cup JobsOf({"scan", "result"}, <<>>, Tables({Row(<<>>)}, 4), {3, NoCap})

MCPriors == {8, 150}

-----------------------------------------------------------------------------
Contents == INSTANCE ScanPages WITH pc <- place

contents == <<job, est, block, next, overflow, batch, place, why, inbox, cursor, out>>
all == <<mode, vars, contents>>

MCInit ==
  /\ mode \in {"stream", "contents"}
  /\ Init
  /\ Contents!Init
  /\ mode = "stream" => /\ job = CHOOSE j \in Jobs : TRUE
                        /\ est = Contents!NewEstimator(job.specs, BlockSize, CHOOSE p \in Priors : TRUE)

MCNext ==
  /\ UNCHANGED mode
  /\ \/ mode = "stream" /\ Next /\ UNCHANGED contents
     \/ mode = "contents" /\ Contents!Next /\ UNCHANGED vars

MCSpec ==
  /\ MCInit /\ [][MCNext]_all
  /\ (mode = "stream" /\ Fairness) \/ (mode = "contents" /\ Contents!Fairness)

(* The rows a reader projects are the rows the source gave, in their       *)
(* order, and a producer fails only on a row no page holds.                *)
RowsArriveInOrder == Contents!RowsArriveInOrder /\ Contents!FailsOnlyOnOversizedRow

(* A stream settles with every page and permit home, and every scan and    *)
(* every result comes to its last page or to an error.                     *)
PagesComeHome ==
  <>[]((mode = "stream" => Settled) /\ (mode = "contents" => Contents!Ended))
=============================================================================
