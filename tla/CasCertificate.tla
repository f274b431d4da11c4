--------------------------- MODULE CasCertificate ---------------------------
(***************************************************************************)
(* The certificate that the DA API puts in front of a downstream           *)
(* certificate (src/da_api/nitro/certificate), and how a recover call      *)
(* takes it off again (src/da_api/nitro/utils.rs), byte by byte.           *)
(***************************************************************************)
EXTENDS Bytes, FiniteSetsExt, SequencesExt

CONSTANTS CERT_HEADER_SIZE_V0, CAS_SIG_SIZE, SEQUENCER_HEADER_LEN

ASSUME CasCertificateAssumption ==
  /\ CERT_HEADER_SIZE_V0 \in Nat \ {0}
  /\ CAS_SIG_SIZE \in Nat \ {0, 1}
  /\ SEQUENCER_HEADER_LEN \in Nat

V0 == 112
U64_SIZE == 8
HOTSHOT_BLOCK_SIZE == U64_SIZE

\* The number fields, in the order in which they are written.
ContextFields(c) ==
  <<c.start_message_pos, c.end_message_pos, c.start_hotshot_block,
    c.after_delayed_messages_read, c.min_hotshot_block_still_in_streamer_queue>>

U64Bytes(numbers) == FlattenSeq([i \in DOMAIN numbers |-> Be(numbers[i], U64_SIZE)])

CertificateMinimumSize == CERT_HEADER_SIZE_V0 + HOTSHOT_BLOCK_SIZE + CAS_SIG_SIZE

-----------------------------------------------------------------------------
(* Signing.                                                                *)

\* Mutant: the height that a restart may need is left out.
BuildPayloadPartly(c) ==
  U64Bytes(<<c.start_message_pos, c.end_message_pos + 1, c.start_hotshot_block,
             c.after_delayed_messages_read>>)
    \o c.downstream_certificate

\* What is signed: the counts of messages before and after the batch.
BuildPayload(c) ==
  U64Bytes(<<c.start_message_pos, c.end_message_pos + 1, c.start_hotshot_block,
             c.after_delayed_messages_read, c.min_hotshot_block_still_in_streamer_queue>>)
    \o c.downstream_certificate

\* KeyManager::sign_message, with ECDSA and the hash abstracted: the signer, a
\* checksum of the signed bytes, and zeros; and the recovery of the signer.
SigningHash(payload) ==
  MapThenSumSet(LAMBDA i : (i * i + 1) * payload[i], DOMAIN payload) % 251
SignMessage(payload, signer) ==
  <<signer, SigningHash(payload)>> \o Fill(0, CAS_SIG_SIZE - 2)
Recovered(payload, signature) ==
  IF signature[2] = SigningHash(payload) THEN signature[1] ELSE 0

\* build_espresso_certificate; `verdict' has the numbers and the downstream
\* certificate.
BuildEspressoCertificate(verdict, signer) ==
  IF Len(verdict.downstream_certificate) < 2 THEN Failed
  ELSE [ok |-> TRUE,
        cert |-> verdict @@ [header |-> <<V0>> \o Fill(0, CERT_HEADER_SIZE_V0 - 1),
                             cas_signature |-> SignMessage(BuildPayload(verdict), signer)]]

-----------------------------------------------------------------------------
(* The wire format.                                                        *)

HeaderValid(header) ==
  header # <<>> /\ header[1] = V0 /\ Len(header) = CERT_HEADER_SIZE_V0

ToBytes(c) ==
  IF ~ HeaderValid(c.header) THEN Failed
  ELSE [ok |-> TRUE,
        bytes |-> c.header \o U64Bytes(ContextFields(c)) \o c.cas_signature
                    \o c.downstream_certificate]

\* Number i of the certificate.
ReadU64(data, i) == FromBe(Slice(data, CERT_HEADER_SIZE_V0 + (i - 1) * U64_SIZE, U64_SIZE))

SignatureStart == CERT_HEADER_SIZE_V0 + 5 * U64_SIZE

\* The decoder runs out of data before the rest, which may be empty.
DecoderFails(data) == Len(data) < SignatureStart + CAS_SIG_SIZE

FromBytes(data) ==
  IF data = <<>> THEN Failed
  ELSE IF data[1] # V0 THEN Failed
  ELSE IF Len(data) < CertificateMinimumSize \/ DecoderFails(data) THEN Failed
  ELSE [ok |-> TRUE,
        cert |-> [header |-> Slice(data, 0, CERT_HEADER_SIZE_V0),
                  start_message_pos |-> ReadU64(data, 1),
                  end_message_pos |-> ReadU64(data, 2),
                  start_hotshot_block |-> ReadU64(data, 3),
                  after_delayed_messages_read |-> ReadU64(data, 4),
                  min_hotshot_block_still_in_streamer_queue |-> ReadU64(data, 5),
                  cas_signature |-> Slice(data, SignatureStart, CAS_SIG_SIZE),
                  downstream_certificate |-> Rest(data, SignatureStart + CAS_SIG_SIZE)]]

\* CasCertificate::validate.
Validate(c, expected_signer) ==
  /\ HeaderValid(c.header)
  /\ Len(c.downstream_certificate) >= 2
  /\ Recovered(BuildPayload(c), c.cas_signature) = expected_signer

\* try_extract_da_sequencer_msg_from_espresso_da_cert.
Extract(msg, expected_signer) ==
  IF Len(msg) <= SEQUENCER_HEADER_LEN THEN Failed
  ELSE LET parsed == FromBytes(Rest(msg, SEQUENCER_HEADER_LEN))
       IN  IF ~ parsed.ok THEN Failed
           ELSE IF ~ Validate(parsed.cert, expected_signer) THEN Failed
           ELSE [ok |-> TRUE,
                 bytes |-> Slice(msg, 0, SEQUENCER_HEADER_LEN)
                             \o parsed.cert.downstream_certificate]
=============================================================================
