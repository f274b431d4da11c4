----------------------------- MODULE MessageRlp -----------------------------
(***************************************************************************)
(* The hand-written RLP encoding and decoding of                           *)
(* src/rollups/nitro/types.rs, which mirrors that of Go: nil pointers are  *)
(* empty lists or empty strings, optional fields at the end are left out.  *)
(*                                                                         *)
(* A message is [header, l2msg, legacy_batch_gas_cost, batch_data_stats],  *)
(* a header [kind, poster, block_number, timestamp, request_id,            *)
(* l1_base_fee].  An optional field is None == <<>> or Some(v) == <<v>>.   *)
(***************************************************************************)
EXTENDS Bytes, SequencesExt

None == <<>>
Some(v) == <<v>>

-----------------------------------------------------------------------------
(* RLP itself (external, alloy_rlp).                                       *)

MinimalBe(n) == IF n = 0 THEN <<>> ELSE IF n < 256 THEN <<n>> ELSE <<n \div 256, n % 256>>

\* The header of a string (offset 128) or a list (offset 192) of n bytes.
RlpHeader(offset, n) ==
  IF n <= 55 THEN <<offset + n>>
  ELSE <<offset + 55 + Len(MinimalBe(n))>> \o MinimalBe(n)

RlpString(b) == IF Len(b) = 1 /\ b[1] < 128 THEN b ELSE RlpHeader(128, Len(b)) \o b
RlpUint(n) == RlpString(MinimalBe(n))
EmptyList == RlpHeader(192, 0)
EmptyString == <<128>>

\* The first item of b: is it a list, and where its content starts and ends.
RlpItem(b) ==
  LET first == b[1]
      offset == IF first >= 192 THEN 192 ELSE 128
      long == first - offset > 55
      lengthSize == IF long THEN first - offset - 55 ELSE 0
      length == IF long THEN FromBe(Fill(0, 2) \o Slice(b, 1, lengthSize)) ELSE first - offset
      item == [ok |-> TRUE, list |-> offset = 192,
               from |-> 1 + lengthSize, to |-> 1 + lengthSize + length]
  IN  IF b = <<>> THEN Failed
      ELSE IF first < 128 THEN [ok |-> TRUE, list |-> FALSE, from |-> 0, to |-> 1]
      ELSE IF Len(b) < 1 + lengthSize THEN Failed
      ELSE IF long /\ length <= 55 THEN Failed
      ELSE IF Len(b) < item.to THEN Failed
      ELSE IF first = 129 /\ b[2] < 128 THEN Failed
      ELSE item

Content(b) == Slice(b, RlpItem(b).from, RlpItem(b).to - RlpItem(b).from)

\* Header::decode_raw on exactly one item: the raw items of a list.
RECURSIVE RawItems(_)
RawItems(b) ==
  IF b = <<>> THEN [ok |-> TRUE, items |-> <<>>]
  ELSE IF ~ RlpItem(b).ok THEN Failed
  ELSE LET tail == RawItems(Rest(b, RlpItem(b).to))
       IN  IF ~ tail.ok THEN Failed
           ELSE [ok |-> TRUE, items |-> <<Slice(b, 0, RlpItem(b).to)>> \o tail.items]

\* One item that is all of b.
Exact(b) == IF RlpItem(b).ok THEN RlpItem(b).to = Len(b) ELSE FALSE

Fields(b) ==
  IF ~ Exact(b) THEN Failed
  ELSE IF ~ RlpItem(b).list THEN Failed ELSE RawItems(Content(b))

Value(v) == [ok |-> TRUE, value |-> v]

DecodeString(b) ==
  IF ~ Exact(b) THEN Failed ELSE IF RlpItem(b).list THEN Failed ELSE Value(Content(b))

DecodeUint(b) ==
  LET bytes == DecodeString(b)
  IN  IF ~ bytes.ok THEN Failed
      ELSE IF bytes.value # <<>> /\ bytes.value[1] = 0 THEN Failed
      ELSE Value(FromBe(Fill(0, 2) \o bytes.value))

\* A u8, and an Address.
DecodeU8(b) ==
  LET n == DecodeUint(b)
  IN  IF ~ n.ok THEN Failed ELSE IF n.value > 255 THEN Failed ELSE n

DecodeAddress(b) ==
  LET bytes == DecodeString(b)
  IN  IF ~ bytes.ok THEN Failed ELSE IF Len(bytes.value) # 20 THEN Failed ELSE bytes

-----------------------------------------------------------------------------
(* Encoding.                                                               *)

HeaderFields(h) ==
  <<RlpUint(h.kind), RlpString(h.poster), RlpUint(h.block_number), RlpUint(h.timestamp),
    IF h.request_id = None THEN EmptyList ELSE RlpString(h.request_id[1]),
    IF h.l1_base_fee = None THEN EmptyString ELSE RlpUint(h.l1_base_fee[1])>>

\* L1IncomingMessageHeader::rlp_payload_length.
HeaderPayloadLength(h) ==
  Len(RlpUint(h.kind)) + Len(RlpString(h.poster)) + Len(RlpUint(h.block_number))
    + Len(RlpUint(h.timestamp))
    + (IF h.request_id = None THEN 1 ELSE Len(RlpString(h.request_id[1])))
    + (IF h.l1_base_fee = None THEN 1 ELSE Len(RlpUint(h.l1_base_fee[1])))

EncodeHeader(h) == RlpHeader(192, HeaderPayloadLength(h)) \o FlattenSeq(HeaderFields(h))

\* length(): the length of the length, and the payload.
HeaderLength(h) == Len(RlpHeader(192, HeaderPayloadLength(h))) + HeaderPayloadLength(h)

EncodeStats(s) ==
  LET payload == RlpUint(s.length) \o RlpUint(s.non_zeros)
  IN  RlpHeader(192, Len(payload)) \o payload

\* Mutant: the gas cost is written only if it is there.
HasTailOfSome(m) == m.legacy_batch_gas_cost # None

\* The optional fields at the end are there.
HasTail(m) == m.legacy_batch_gas_cost # None \/ m.batch_data_stats # None

MessageFields(m) ==
  <<IF m.header = None THEN EmptyList ELSE EncodeHeader(m.header[1]),
    RlpString(m.l2msg),
    IF ~ HasTail(m) THEN <<>>
    ELSE IF m.legacy_batch_gas_cost = None THEN EmptyString
    ELSE RlpUint(m.legacy_batch_gas_cost[1]),
    IF m.batch_data_stats = None THEN <<>> ELSE EncodeStats(m.batch_data_stats[1])>>

\* L1IncomingMessage::rlp_payload_length.
MessagePayloadLength(m) ==
  (IF m.header = None THEN 1 ELSE HeaderLength(m.header[1]))
    + Len(RlpString(m.l2msg))
    + (IF ~ HasTail(m) THEN 0
       ELSE IF m.legacy_batch_gas_cost = None THEN 1
       ELSE Len(RlpUint(m.legacy_batch_gas_cost[1])))
    + (IF m.batch_data_stats = None THEN 0 ELSE Len(EncodeStats(m.batch_data_stats[1])))

EncodeMessage(m) == RlpHeader(192, MessagePayloadLength(m)) \o FlattenSeq(MessageFields(m))

-----------------------------------------------------------------------------
(* Decoding.                                                               *)

\* decode_optional_field, for a field whose nil is the empty list (or string);
\* v: the field decoded as one that is there.
DecodeOptional(b, nilList, v) ==
  IF ~ RlpItem(b).ok THEN Failed
  ELSE IF RlpItem(b).list # nilList THEN Failed
  ELSE IF Content(b) = <<>> THEN Value(None)
  ELSE IF v.ok THEN Value(Some(v.value)) ELSE Failed

\* decode_optional_b256_allow_nil_list.
DecodeRequestId(b) ==
  IF ~ RlpItem(b).ok THEN Failed
  ELSE IF Content(b) = <<>> THEN Value(None)
  ELSE IF RlpItem(b).list \/ Len(Content(b)) # 32 THEN Failed
  ELSE Value(Some(Content(b)))

\* The decoded field i, or the default if the list ends before it.
FieldOr(items, i, default, v) == IF Len(items) < i THEN Value(default) ELSE v

\* The record with these fields, if all of them could be decoded.
Record(names, results) ==
  IF \E i \in DOMAIN results : ~ results[i].ok THEN Failed
  ELSE Value([f \in ToSet(names) |-> results[CHOOSE i \in DOMAIN names : names[i] = f].value])

\* What is decoded from the items of a list, if it has at least that many.
DecodeList(fields, least, v) ==
  IF ~ fields.ok THEN Failed ELSE IF Len(fields.items) < least THEN Failed ELSE v

DecodeOptionalUint(b) == DecodeOptional(b, FALSE, DecodeUint(b))

HeaderOf(items) ==
  Record(<<"kind", "poster", "block_number", "timestamp", "request_id", "l1_base_fee">>,
         <<DecodeU8(items[1]), DecodeAddress(items[2]), DecodeUint(items[3]),
           DecodeUint(items[4]), FieldOr(items, 5, None, DecodeRequestId(items[5])),
           FieldOr(items, 6, None, DecodeOptionalUint(items[6]))>>)

DecodeHeader(b) == DecodeList(Fields(b), 4, HeaderOf(Fields(b).items))

StatsOf(items) ==
  IF Len(items) > 2 THEN Failed
  ELSE Record(<<"length", "non_zeros">>, <<DecodeUint(items[1]), DecodeUint(items[2])>>)

DecodeStats(b) == DecodeList(Fields(b), 2, StatsOf(Fields(b).items))

MessageOf(items) ==
  Record(<<"header", "l2msg", "legacy_batch_gas_cost", "batch_data_stats">>,
         <<DecodeOptional(items[1], TRUE, DecodeHeader(items[1])),
           DecodeString(items[2]),
           FieldOr(items, 3, None, DecodeOptionalUint(items[3])),
           FieldOr(items, 4, None, DecodeOptional(items[4], TRUE, DecodeStats(items[4])))>>)

DecodeMessage(b) == DecodeList(Fields(b), 2, MessageOf(Fields(b).items))

MessageWithMetadataOf(items) ==
  Record(<<"message", "delayed_messages_read">>,
         <<DecodeOptional(items[1], TRUE, DecodeMessage(items[1])),
           FieldOr(items, 2, 0, DecodeUint(items[2]))>>)

\* MessageWithMetadata.
DecodeMessageWithMetadata(b) ==
  DecodeList(Fields(b), 1, MessageWithMetadataOf(Fields(b).items))
=============================================================================
