--------------------------- MODULE HotshotPayload ---------------------------
(***************************************************************************)
(* The bytes of an Espresso transaction, written by the submitter          *)
(* (build_espresso_tx_payload) and read by the streamer                    *)
(* (parse_hotshot_transactions), both in src/rollups/nitro/nitro.rs.       *)
(*                                                                         *)
(* A feed message is [sequence_number, message, has, signer]: `has' names  *)
(* the parts of the message that are there, "message" and "header", and    *)
(* `signer' is what its signature recovers to, NoSigner if it is malformed.*)
(* The JSON and RLP encodings of messages are given as functions.          *)
(***************************************************************************)
EXTENDS TxPacking, Bytes, FiniteSets

CONSTANTS
  INDEX_SIZE,
  HeaderBytes,                  \* NitroHeader::V1 in JSON
  Json,                         \* feed message -> its JSON encoding
  Rlp,                          \* message with metadata -> its RLP encoding
  NoSigner,
  SignedParts,                  \* what signature_hash needs, by the Nitro version
  trusted_sequencer_addresses, legacy_signer_addresses

ASSUME HotshotPayloadAssumption ==
  /\ HeaderSize = LEN_SIZE + Len(HeaderBytes)
  /\ \A m \in DOMAIN Json : Size[m] = Len(Json[m])
  /\ \A m, n \in DOMAIN Json : Json[m] = Json[n] => m = n
  /\ \A m, n \in DOMAIN Rlp : Rlp[m] = Rlp[n] => m = n
  /\ NoSigner \notin trusted_sequencer_addresses \cup legacy_signer_addresses

-----------------------------------------------------------------------------
(* Writing.                                                                *)

Field(bytes) == Be(Len(bytes), LEN_SIZE) \o bytes

BuildEspressoTxPayload(ms) ==
  Field(HeaderBytes)
    \o FlattenSeq([i \in DOMAIN Payload(ms) |-> Field(Json[Payload(ms)[i]])])

-----------------------------------------------------------------------------
(* Reading.                                                                *)

\* A length and as many bytes, after the first `pos' bytes.
ReadField(p, pos) ==
  LET size == FromBe(Slice(p, pos, LEN_SIZE))
  IN  IF Len(p) - pos < LEN_SIZE \/ Len(p) - pos - LEN_SIZE < size THEN Failed
      ELSE [ok |-> TRUE, bytes |-> Slice(p, pos + LEN_SIZE, size), next |-> pos + LEN_SIZE + size]

FromJson(bytes) == {m \in DOMAIN Json : Json[m] = bytes}
FromRlp(bytes) == {m \in DOMAIN Rlp : Rlp[m] = bytes}

VerifyBroadcastFeedMessageSignature(m) ==
  SignedParts \subseteq m.has /\ m.signer \in trusted_sequencer_addresses

\* The loop of parse_nitro_hotshot_payload: a message with a bad signature is
\* skipped, one that cannot be read fails the payload.
RECURSIVE V1Messages(_, _, _)
V1Messages(p, pos, messages) ==
  LET field == ReadField(p, pos)
  IN  IF pos >= Len(p) THEN [ok |-> TRUE, messages |-> messages]
      ELSE IF ~ field.ok THEN Failed
      ELSE IF FromJson(field.bytes) = {} THEN Failed
      ELSE LET m == CHOOSE m \in FromJson(field.bytes) : TRUE
           IN  V1Messages(p, field.next,
                 IF VerifyBroadcastFeedMessageSignature(m) THEN Append(messages, m)
                 ELSE messages)

ParseNitroHotshotPayload(p) ==
  LET header == ReadField(p, 0)
  IN  IF ~ header.ok THEN Failed
      ELSE IF header.bytes # HeaderBytes THEN Failed
      ELSE V1Messages(p, header.next, <<>>)

\* Mutant: the index of an empty message is kept.
LegacyPushIndexFirst(parsed, index, message) ==
  [indices |-> Append(parsed.indices, index),
   messages |-> IF message = <<>> THEN parsed.messages ELSE Append(parsed.messages, message)]

LegacyPush(parsed, index, message) ==
  IF message = <<>> THEN parsed
  ELSE [indices |-> Append(parsed.indices, index),
        messages |-> Append(parsed.messages, message)]

\* The loop of parse_legacy_payload_bytes.
RECURSIVE LegacyMessages(_, _, _)
LegacyMessages(p, pos, parsed) ==
  LET field == ReadField(p, pos + INDEX_SIZE)
  IN  IF pos >= Len(p) THEN [ok |-> TRUE, parsed |-> parsed]
      ELSE IF Len(p) - pos < LEN_SIZE + INDEX_SIZE THEN Failed
      ELSE IF ~ field.ok THEN Failed
      ELSE LegacyMessages(p, field.next,
             LegacyPush(parsed, FromBe(Slice(p, pos, INDEX_SIZE)), field.bytes))

\* Keccak and ECDSA (external): r is the signer and a checksum of the data.
Checksum(data) == MapThenSumSet(LAMBDA i : i * data[i], DOMAIN data) % 251
RecoverAddressFromPrehash(data, r) == IF r[2] = Checksum(data) THEN r[1] ELSE NoSigner

\* recover_signer_address: r, s and the parity; s in the upper half is refused.
RecoverSignerAddress(data, signature) ==
  IF Len(signature) # 65 THEN NoSigner
  ELSE LET r == Slice(signature, 0, 32)
           s == Slice(signature, 32, 32)
       IN  IF \/ signature[65] \notin {0, 27, 1, 28}
              \/ Fill(0, 32) \in {r, s}
              \/ s[1] >= 128
           THEN NoSigner ELSE RecoverAddressFromPrehash(data, r)

Entry(sequence_number, message, height) ==
  [sequence_number |-> sequence_number, message |-> message, hotshot_height |-> height]

\* legacy_parse_nitro_hotshot_payload: all entries that can be decoded, or
\* none.
LegacyEntries(p, height) ==
  LET signature == ReadField(p, 0)
      loop == LegacyMessages(p, signature.next, [indices |-> <<>>, messages |-> <<>>])
      parsed == loop.parsed
      trusted == RecoverSignerAddress(Rest(p, signature.next), signature.bytes)
                   \in legacy_signer_addresses
      entry(i) == LET decoded == FromRlp(parsed.messages[i])
                  IN  IF decoded = {} THEN <<>>
                      ELSE <<Entry(parsed.indices[i], CHOOSE m \in decoded : TRUE, height)>>
  IN  IF ~ signature.ok THEN <<>>
      ELSE IF ~ loop.ok \/ ~ trusted THEN <<>>
      ELSE IF Len(parsed.indices) # Len(parsed.messages) THEN <<>>
      ELSE FlattenSeq([i \in DOMAIN parsed.messages |-> entry(i)])

\* V1 first, the legacy format if that fails.
TxEntries(p, height) ==
  LET v1 == ParseNitroHotshotPayload(p)
  IN  IF v1.ok
      THEN [i \in DOMAIN v1.messages |->
              Entry(v1.messages[i].sequence_number, v1.messages[i].message, height)]
      ELSE LegacyEntries(p, height)

\* Mutant: the height moves on only after a block with transactions.
BlockHeightOfBusy(blocks, i, starting_hotshot_height) ==
  starting_hotshot_height + Cardinality({j \in 1 .. i - 1 : blocks[j] # <<>>})

BlockHeight(blocks, i, starting_hotshot_height) == starting_hotshot_height + i - 1

ParseHotshotTransactions(blocks, starting_hotshot_height) ==
  LET height(i) == BlockHeight(blocks, i, starting_hotshot_height)
  IN  FlattenSeq([i \in DOMAIN blocks |->
        FlattenSeq([j \in DOMAIN blocks[i] |-> TxEntries(blocks[i][j], height(i))])])
=============================================================================
