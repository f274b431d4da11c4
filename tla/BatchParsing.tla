---------------------------- MODULE BatchParsing ----------------------------
(***************************************************************************)
(* parse_batch (src/rollups/nitro/batch_parsing.rs): the message stream of *)
(* a sequencer batch, as verify_batch_messages compares it with the queue. *)
(*                                                                         *)
(* A batch is [header, items]: the kind of its first byte and the RLP      *)
(* items of what the rest decompresses to.  An item is [form, kind, data]  *)
(* with the form                                                           *)
(*   "segment"  a byte string, a segment kind and its data                 *)
(*   "empty"    an empty byte string                                       *)
(*   "list"     an item that is no byte string                             *)
(*   "short"    an item that the data ends in the middle of                *)
(* Data of a compressed message is the message it decompresses to, or      *)
(* "undecodable" (not brotli, or above MAX_L2_MESSAGE_SIZE).               *)
(***************************************************************************)
EXTENDS NitroVerify, SequencesExt

CONSTANT MAX_SEGMENTS

ASSUME BatchParsingAssumption == MAX_SEGMENTS \in Nat

BATCH_SEGMENT_KIND_L2_MESSAGE == 0
BATCH_SEGMENT_KIND_L2_MESSAGE_BROTLI == 1
BATCH_SEGMENT_KIND_DELAYED_MESSAGES == 2
BATCH_SEGMENT_KIND_ADVANCE_TIMESTAMP == 3
BATCH_SEGMENT_KIND_ADVANCE_L1_BLOCK_NUMBER == 4
SegmentKinds == 0 .. 4

ParseError == [ok |-> FALSE, messages |-> <<>>]
Parsed(messages) == [ok |-> TRUE, messages |-> messages]

-----------------------------------------------------------------------------
\* The items before the first one that is cut off: the decoding loop ends
\* there without an error.
Complete(items) ==
  LET cut == {i \in DOMAIN items : items[i].form = "short"}
  IN  IF cut = {} THEN items ELSE SubSeq(items, 1, Min(cut) - 1)

\* The decoding loop fails: at an item that is no byte string, or when there
\* is still data after MAX_SEGMENTS segments.
DecodingFails(items) ==
  \/ \E i \in DOMAIN Complete(items) : items[i].form = "list"
  \/ Len(items) > MAX_SEGMENTS

\* Mutant: a segment that would be a placeholder is left out.
NeverRefused(segment) == FALSE

\* A segment that parse_batch refuses the batch for.
Refused(segment) ==
  /\ segment.form = "segment"
  /\ \/ segment.kind \notin SegmentKinds
     \/ /\ segment.kind = BATCH_SEGMENT_KIND_L2_MESSAGE_BROTLI
        /\ segment.data = "undecodable"

\* The messages of a segment: one or none.
SegmentMessages(segment) ==
  CASE segment.form = "empty" -> <<>>
    [] segment.kind \in {BATCH_SEGMENT_KIND_L2_MESSAGE, BATCH_SEGMENT_KIND_L2_MESSAGE_BROTLI} ->
         <<L2Msg(segment.data)>>
    [] segment.kind = BATCH_SEGMENT_KIND_DELAYED_MESSAGES -> <<DelayedMsg>>
    [] OTHER -> <<>>

ParseBatch(batch) ==
  IF \/ batch.header # "brotli"
     \/ DecodingFails(batch.items)
     \/ \E i \in DOMAIN Complete(batch.items) : Refused(batch.items[i])
  THEN ParseError
  ELSE Parsed(FlattenSeq([i \in DOMAIN Complete(batch.items) |->
                            SegmentMessages(batch.items[i])]))

-----------------------------------------------------------------------------
(* The replayer on L1 (external), as the comments of batch_parsing.rs and  *)
(* of verify_batch_messages describe it: a segment that it cannot          *)
(* interpret, or a delayed message past the count the batch was posted     *)
(* with, is a placeholder; when the segments are used up, it emits delayed *)
(* messages until it reaches that count.                                   *)

\* A segment that it cannot interpret.
Unreadable(segment) ==
  segment.form = "segment" /\ (segment.data = "undecodable" \/ segment.kind > 4)

Placeholder == [kind |-> "InvalidL1Message"]
Delayed(n) == [kind |-> "Delayed", number |-> n]

\* The delayed messages that the first i items asked for.
DelayedUpTo(items, i) ==
  Cardinality({j \in 1 .. i : SegmentMessages(items[j]) = <<DelayedMsg>>})

Executed(items, i, before, after) ==
  LET segment == items[i]
      number == before + DelayedUpTo(items, i)
  IN  CASE Unreadable(segment) -> <<Placeholder>>
        [] SegmentMessages(segment) = <<DelayedMsg>> ->
             <<IF number <= after THEN Delayed(number) ELSE Placeholder>>
        [] OTHER -> SegmentMessages(segment)

\* The replay of the segments, after `before' delayed messages, of a batch
\* posted with the count `after'.
Replay(items, before, after) ==
  LET segments == Complete(items)
      asked == before + DelayedUpTo(segments, Len(segments))
  IN  FlattenSeq([i \in DOMAIN segments |-> Executed(segments, i, before, after)])
        \o (IF asked < after THEN [i \in 1 .. after - asked |-> Delayed(asked + i)] ELSE <<>>)
=============================================================================
