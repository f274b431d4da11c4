----------------------------- MODULE TxPacking -----------------------------
(***************************************************************************)
(* How feed messages become the payload of an Espresso transaction:        *)
(* build_espresso_tx_payload (nitro.rs), as operators on the messages that *)
(* are left.  Its header is a constant whose encoding does not fail, so it *)
(* never returns an empty payload.                                         *)
(***************************************************************************)
EXTENDS Integers, Sequences, SequencesExt, FiniteSetsExt

CONSTANTS
  Size,           \* message -> length of its encoding
  Encodable,      \* the messages whose encoding does not fail
  HeaderSize,     \* length of the payload before the first message
  LEN_SIZE,       \* length of a length prefix
  HOTSHOT_TX_PAYLOAD_MAX_SIZE

ASSUME SizesAssumption ==
  /\ Size \in [DOMAIN Size -> Nat]
  /\ HeaderSize \in Nat \ {0}
  /\ LEN_SIZE \in Nat
  /\ HOTSHOT_TX_PAYLOAD_MAX_SIZE \in Nat

Encoded(ms) == SelectSeq(ms, LAMBDA m : m \in Encodable)

PayloadSize(ms) ==
  HeaderSize + MapThenSumSet(LAMBDA i : LEN_SIZE + Size[Encoded(ms)[i]], DOMAIN Encoded(ms))

\* How many messages the loop of build_espresso_tx_payload consumes: it stops
\* at the first one that does not fit and passes over those that it cannot
\* encode.  The payload holds the header from the start, so the branch for a
\* single message that is too large is never taken.
Count(ms) ==
  Max({n \in 0 .. Len(ms) :
         n = 0 \/ PayloadSize(SubSeq(ms, 1, n)) <= HOTSHOT_TX_PAYLOAD_MAX_SIZE})

\* The messages in the payload.
Payload(ms) == Encoded(SubSeq(ms, 1, Count(ms)))

\* Mutant: one message too many is drained.
DrainedPast(ms) == SubSeq(ms, Count(ms) + 2, Len(ms))

Drained(ms) == SubSeq(ms, Count(ms) + 1, Len(ms))
=============================================================================
