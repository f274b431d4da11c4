---------------------------- MODULE NitroVerify ----------------------------
(***************************************************************************)
(* Nitro's verify_batch_messages (src/rollups/nitro/nitro.rs): does a      *)
(* batch agree with the streamer's queue from the batch cursor on?         *)
(*                                                                         *)
(* A batch message is [kind |-> "L2Msg", content] or [kind |->             *)
(* "DelayedMsg"]; the msg of a queue entry is [l2msg, delayed_messages_    *)
(* read], where l2msg is "none" when the entry carries no message.         *)
(***************************************************************************)
EXTENDS Integers, Sequences, FiniteSets, FiniteSetsExt

L2Msg(c) == [kind |-> "L2Msg", content |-> c]
DelayedMsg == [kind |-> "DelayedMsg"]

\* VerificationResult::failure
Failure ==
  [success |-> FALSE, start_message_position |-> 0, end_message_position |-> 0,
   start_espresso_block |-> 0, after_delayed_messages_read |-> 0,
   min_espresso_block_still_in_queue |-> 0]

\* The i-th smallest element of S.
Nth(S, i) == CHOOSE s \in S : Cardinality({t \in S : t < s}) = i - 1

\* Mutant: a delayed message does not advance the count.
DelayedNotCounted(batch, cursor, i) == cursor.last_batch_delayed_messages_read

\* expected_delayed_messages_read after the first i messages.
ExpectedDelayed(batch, cursor, i) ==
  cursor.last_batch_delayed_messages_read
    + Cardinality({k \in 1 .. i : batch[k].kind = "DelayedMsg"})

ContentAgrees(m, msg) ==
  m.kind = "L2Msg" => msg.l2msg # "none" /\ m.content = msg.l2msg

\* The numbers in the queue from the cursor on, and those of them that the
\* batch is compared with: the next n entries, whatever their numbers.
QueueFrom(q, pos) == {s \in DOMAIN q : s >= pos}

Compared(q, pos, n) == {Nth(QueueFrom(q, pos), i) : i \in 1 .. n}

\* Mutant: the position is where the cursor would be inserted.
CursorAnywhere(q, pos) == TRUE

\* binary_search_by_key finds the cursor's position.
CursorFound(q, pos) == pos \in DOMAIN q

MinHeight(q, S) == IF S = {} THEN 0 ELSE Min({q[s].height : s \in S})

\* Mutant: one past the end.
EndPositionPast(pos, n) == pos + n

EndPosition(pos, n) == pos + n - 1

VerifyBatchMessages(batch, q, cursor) ==
  LET pos == cursor.next_batch_start_pos
      from == QueueFrom(q, pos)
      n == Len(batch)
      agrees == /\ CursorFound(q, pos)
                /\ n <= Cardinality(from)
                /\ \A i \in 1 .. n :
                     LET msg == q[Nth(from, i)].msg
                     IN  /\ ContentAgrees(batch[i], msg)
                         /\ msg.delayed_messages_read = ExpectedDelayed(batch, cursor, i)
                /\ n > 0
  IN  IF ~ agrees THEN Failure
      ELSE [success |-> TRUE,
            start_message_position |-> pos,
            end_message_position |-> EndPosition(pos, n),
            start_espresso_block |-> MinHeight(q, Compared(q, pos, n)),
            after_delayed_messages_read |-> ExpectedDelayed(batch, cursor, n),
            min_espresso_block_still_in_queue |-> MinHeight(q, from \ Compared(q, pos, n))]
=============================================================================
