------------------------------- MODULE Codecs -------------------------------
(***************************************************************************)
(* The formats that the parts of the system exchange, read back by the     *)
(* part at the other end: sequencer batches (BatchParsing), Espresso       *)
(* transactions (HotshotPayload), legacy messages in RLP (MessageRlp) and  *)
(* certificates (CasCertificate).                                          *)
(*                                                                         *)
(* The state is one input.  It grows step by step, so that TLC visits      *)
(* every input within the bounds and every way in which it is cut short.   *)
(***************************************************************************)
EXTENDS BatchParsing, HotshotPayload, MessageRlp, CasCertificate

CONSTANTS
  Items, MaxItems,       \* RLP items of a batch, and how many it has at most
  QueueMsgs,             \* messages of the queue that a batch is compared with
  Chunks, MaxChunks,     \* parts of an Espresso transaction
  Cuts,                  \* numbers of bytes that are cut off a transaction
  MaxMsgs, MaxBlocks,    \* bounds: messages submitted, Espresso blocks
  Messages,              \* messages with metadata that are encoded in RLP
  Verdicts               \* verdicts and downstream certificates

ASSUME CodecsAssumption ==
  {MaxItems, MaxChunks, MaxMsgs, MaxBlocks} \subseteq Nat /\ Cuts \subseteq Nat \ {0}

VARIABLE input

-----------------------------------------------------------------------------
(* Batches: a header, segments, and the queue it is verified against.      *)

AddSegment(item) ==
  /\ input.is = "batch" /\ input.header = "brotli"
  /\ Len(input.items) < MaxItems
  /\ input.items # <<>> => Last(input.items).form # "short"
  /\ input' = [input EXCEPT !.items = Append(@, item)]

\* The streamer parses the batch and verifies it.
VerifyAgainst(queue) ==
  /\ input.is = "batch" /\ ParseBatch(input).ok
  /\ input' = [is |-> "verification", batch |-> input, queue |-> queue]

Queues == {[s \in 1 .. 3 |-> [msg |-> f[s], height |-> s]] : f \in [1 .. 3 -> QueueMsgs]}

-----------------------------------------------------------------------------
(* Espresso transactions, from parts that may not belong together.         *)

AddChunk(chunk) ==
  /\ input.is = "tx" /\ input.cut = 0
  /\ Len(input.chunks) < MaxChunks
  /\ chunk.is \in {"signature", "empty"} => input.chunks = <<>>
  /\ input' = [input EXCEPT !.chunks = Append(@, chunk)]

ChunkBytes(chunk) ==
  CASE chunk.is = "header" -> Field(HeaderBytes)
    [] chunk.is = "json" -> Field(chunk.bytes)
    [] chunk.is = "legacy" -> Be(chunk.index, INDEX_SIZE) \o Field(chunk.bytes)
    [] chunk.is = "empty" -> Field(<<>>)
    [] chunk.is = "signature" -> <<>>

\* The end of the last part is missing.
CutTx(n) ==
  /\ input.is = "tx" /\ input.cut = 0 /\ input.chunks # <<>>
  /\ n < Len(ChunkBytes(Last(input.chunks)))
  /\ input' = [input EXCEPT !.cut = n]

\* The bytes of a transaction: a signature at its start is one of the rest.
TxBytes(chunks, cut) ==
  LET data == FlattenSeq([i \in DOMAIN chunks |-> ChunkBytes(chunks[i])])
      kept == Slice(data, 0, Len(data) - cut)
  IN  IF chunks # <<>> /\ chunks[1].is = "signature"
      THEN Field(<<chunks[1].by, Checksum(kept)>> \o Fill(0, 30)
                   \o Fill(chunks[1].s, 32) \o <<chunks[1].v>>) \o kept
      ELSE kept

-----------------------------------------------------------------------------
(* The messages that the submitter puts into the blocks of Espresso.       *)

\* The feed client passes on what a trusted sequencer signed.
FeedMessages == {m \in DOMAIN Size : VerifyBroadcastFeedMessageSignature(m)}

SubmitMessage(m) ==
  /\ input.is = "blocks"
  /\ Len(FlattenSeq(input.blocks)) < MaxMsgs
  /\ input' = [input EXCEPT !.blocks[Len(input.blocks)] = Append(@, m)]

\* External: somebody else's transaction, which cannot be read: the first message
\* of one of the submitter's, and a length that is cut off.
ForeignTx == [is |-> "foreign"]
ForeignPayload ==
  Field(HeaderBytes) \o Field(Json[CHOOSE m \in FeedMessages : m \in Encodable]) \o <<0>>

SubmitForeignTx ==
  /\ input.is = "blocks"
  /\ \A i \in DOMAIN input.blocks : ForeignTx \notin ToSet(input.blocks[i])
  /\ input' = [input EXCEPT !.blocks[Len(input.blocks)] = Append(@, ForeignTx)]

NextBlock ==
  /\ input.is = "blocks"
  /\ Len(input.blocks) < MaxBlocks
  /\ input' = [input EXCEPT !.blocks = Append(@, <<>>)]

\* The payloads that are built until no message is left.
RECURSIVE Built(_)
Built(ms) == IF ms = <<>> THEN <<>> ELSE <<BuildEspressoTxPayload(ms)>> \o Built(Drained(ms))

\* The transactions of a block.
Txs(block) ==
  LET at == SelectInSeq(block, LAMBDA m : m = ForeignTx)
  IN  IF at = 0 THEN Built(block)
      ELSE Built(SubSeq(block, 1, at - 1)) \o <<ForeignPayload>>
             \o Built(SubSeq(block, at + 1, Len(block)))

-----------------------------------------------------------------------------
(* Messages in RLP, and certificates.                                      *)

EncodeRlp(m) == input.is = "start" /\ input' = [is |-> "rlp", message |-> m]

Issue(verdict) ==
  /\ input.is = "start"
  /\ input' = [is |-> "certificate", verdict |-> verdict, cut |-> 0]

\* The sequencer's header, and the certificate that is returned to the poster.
SequencerHeader == Fill(9, SEQUENCER_HEADER_LEN)
Signer == 1
Issued(verdict) == BuildEspressoCertificate(verdict, Signer)
SequencerMsg(verdict) == SequencerHeader \o ToBytes(Issued(verdict).cert).bytes

CutCertificate ==
  /\ input.is = "certificate" /\ input.cut = 0
  /\ Issued(input.verdict).ok
  /\ \E n \in DOMAIN SequencerMsg(input.verdict) : input' = [input EXCEPT !.cut = n]

-----------------------------------------------------------------------------
Init ==
  \/ \E header \in {"empty", "other", "undecompressable", "brotli"} :
       input = [is |-> "batch", header |-> header, items |-> <<>>]
  \/ input = [is |-> "tx", chunks |-> <<>>, cut |-> 0]
  \/ input = [is |-> "blocks", blocks |-> <<<<>>>>]
  \/ input = [is |-> "start"]

Next ==
  \/ \E item \in Items : AddSegment(item)
  \/ \E queue \in Queues : VerifyAgainst(queue)
  \/ \E chunk \in Chunks : AddChunk(chunk)
  \/ \E n \in Cuts : CutTx(n)
  \/ \E m \in FeedMessages : SubmitMessage(m)
  \/ SubmitForeignTx
  \/ NextBlock
  \/ \E m \in Messages : EncodeRlp(m)
  \/ \E verdict \in Verdicts : Issue(verdict)
  \/ CutCertificate

Spec == Init /\ [][Next]_input

-----------------------------------------------------------------------------
(* Properties.                                                             *)

\* What the chain replays from a batch that parses and verifies is, slot by
\* slot, what the queue has from the cursor on: nothing is left out, put in or
\* replaced by a placeholder, and the delayed messages read after every slot
\* are those that Espresso ordered ("the message stream it returns must be
\* exactly the stream the canonical Nitro replayer produces").
ReplayFollowsQueue ==
  input.is = "verification" =>
    LET cursor == [next_batch_start_pos |-> 1, last_batch_delayed_messages_read |-> 1]
        result == VerifyBatchMessages(ParseBatch(input.batch).messages, input.queue, cursor)
        replay == Replay(input.batch.items, 1, result.after_delayed_messages_read)
        delayed(i) == Cardinality({j \in 1 .. i : replay[j].kind = "Delayed"})
    IN  result.success =>
          /\ Len(replay) = result.end_message_position
          /\ \A i \in DOMAIN replay :
               LET msg == input.queue[i].msg
               IN  /\ replay[i] \in {L2Msg(msg.l2msg), Delayed(msg.delayed_messages_read)}
                   /\ msg.delayed_messages_read = 1 + delayed(i)

\* The entries of a transaction that is framed as one of the two formats.
FramedEntries(chunks, height) ==
  LET frames == Tail(chunks)
      framed(kind) == \A i \in DOMAIN frames : frames[i].is = kind
      message(i) == CHOOSE m \in FromJson(frames[i].bytes) : TRUE
      json(i) == IF \/ message(i).signer \notin trusted_sequencer_addresses
                    \/ "header" \notin message(i).has
                 THEN <<>>
                 ELSE <<Entry(message(i).sequence_number, message(i).message, height)>>
      legacy(i) == {Entry(frames[i].index, m, height) : m \in FromRlp(frames[i].bytes)}
  IN  IF /\ chunks[1].is = "header" /\ framed("json")
         /\ \A i \in DOMAIN frames : FromJson(frames[i].bytes) # {}
      THEN FlattenSeq([i \in DOMAIN frames |-> json(i)])
      ELSE IF /\ chunks[1].is = "signature" /\ framed("legacy")
              /\ chunks[1].by \in legacy_signer_addresses
              /\ chunks[1].s = 1 /\ chunks[1].v % 27 \in {0, 1}
      THEN FlattenSeq([i \in DOMAIN frames |-> SetToSeq(legacy(i))])
      ELSE <<>>

\* A transaction is read as what it was framed as, with only the messages left
\* out that have a bad signature (V1) or cannot be decoded (legacy); any other
\* one, cut off anywhere or of parts that do not belong together, yields
\* nothing, and so does one whose header has length 0: the parsing loops never
\* read a length, an index or a message at the wrong place.
ReadsWhatWasFramed ==
  input.is = "tx" =>
    TxEntries(TxBytes(input.chunks, input.cut), 7) =
      IF input.cut > 0 \/ input.chunks = <<>> THEN <<>> ELSE FramedEntries(input.chunks, 7)

\* The streamer reads from Espresso what the submitter put there: all messages
\* that can be encoded, in their order, however they were split into
\* transactions, at the height of their block.  Somebody else's transaction that
\* cannot be read adds nothing, not even the messages in front of the place where
\* it is cut off, and neither hides nor moves those around it.
BuiltIsReadBack ==
  input.is = "blocks" =>
    LET blocks == input.blocks
        entries(i) == [k \in DOMAIN Encoded(blocks[i]) |->
          Entry(Encoded(blocks[i])[k].sequence_number, Encoded(blocks[i])[k].message, 6 + i)]
    IN  ParseHotshotTransactions([i \in DOMAIN blocks |-> Txs(blocks[i])], 7) =
          FlattenSeq([i \in DOMAIN blocks |-> entries(i)])

\* Go's encoding of a message with metadata (external).
EncodeMessageWithMetadata(m) ==
  LET message == IF m.message = None THEN EmptyList ELSE EncodeMessage(m.message[1])
      payload == message \o RlpUint(m.delayed_messages_read)
  IN  RlpHeader(192, Len(payload)) \o payload

\* A number whose zero is encoded as nil is.
ZeroIsNil(field) == IF field = Some(0) THEN None ELSE field

Normalised(m) ==
  [m EXCEPT !.legacy_batch_gas_cost = ZeroIsNil(@),
            !.header = IF @ = None THEN None
                       ELSE <<[@[1] EXCEPT !.l1_base_fee = ZeroIsNil(@)]>>]

\* A message survives its encoding, with every combination of missing fields
\* and on both sides of the lengths where the form of a header changes: the
\* lengths written in front are those of what follows.  Zero and None are one
\* encoding ("roundtrip normalizes to None").
RlpRoundTrip ==
  input.is = "rlp" =>
    DecodeMessageWithMetadata(EncodeMessageWithMetadata(input.message)) =
      Value([input.message EXCEPT !.message =
               IF @ = None THEN None ELSE <<Normalised(@[1])>>])

\* The verdicts that differ from v in one number.
Changed(v) ==
  {w \in [start_message_pos : {v.start_message_pos, 77}, end_message_pos : {v.end_message_pos, 77},
          start_hotshot_block : {v.start_hotshot_block, 77},
          after_delayed_messages_read : {v.after_delayed_messages_read, 77},
          min_hotshot_block_still_in_streamer_queue :
            {v.min_hotshot_block_still_in_streamer_queue, 77},
          downstream_certificate : {v.downstream_certificate}] :
     Cardinality({i \in 1 .. 5 : ContextFields(w)[i] # ContextFields(v)[i]}) = 1}

\* A recover call takes exactly the certificate off a sequencer message, and
\* leaves the header and the downstream certificate as they were.  One that is
\* cut off anywhere, was issued by another signer, or whose numbers are not
\* the signed ones is refused, never read with its fields shifted.
TakesOffWhatWasPutOn ==
  input.is = "certificate" /\ Issued(input.verdict).ok =>
    LET msg == SequencerMsg(input.verdict)
        kept == Slice(msg, 0, Len(msg) - input.cut)
        other(v) == SequencerHeader
                      \o ToBytes(v @@ Issued(input.verdict).cert).bytes
    IN  /\ Extract(kept, Signer) =
             IF input.cut > 0 THEN Failed
             ELSE [ok |-> TRUE,
                   bytes |-> SequencerHeader \o input.verdict.downstream_certificate]
        /\ ~ Extract(kept, Signer + 1).ok
        /\ input.cut = 0 => \A v \in Changed(input.verdict) : ~ Extract(other(v), Signer).ok
=============================================================================
