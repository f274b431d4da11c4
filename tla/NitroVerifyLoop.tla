-------------------------- MODULE NitroVerifyLoop --------------------------
(***************************************************************************)
(* verify_batch_messages as the loop over the sorted queue that the code   *)
(* writes, and what verification means for batches that follow each other, *)
(* for every request that the streamer verifies in Pipeline.               *)
(***************************************************************************)
EXTENDS Pipeline, SequencesExt

\* The loop over the batch, for entries vec of the queue from the cursor on:
\* the running delayed count, or a failure.
VerifyStep(batch, q, vec, st, i) ==
  LET m == batch[i]
      entry == q[vec[i]].msg
      expected == IF m.kind = "DelayedMsg" THEN st.expected + 1 ELSE st.expected
      failed == \/ m.kind = "L2Msg" /\ (entry.l2msg = "none" \/ m.content # entry.l2msg)
                \/ entry.delayed_messages_read # expected
  IN  IF st.failed THEN st ELSE [failed |-> failed, expected |-> expected]

VerifyLoop(batch, q, cursor) ==
  LET sorted == SetToSortSeq(DOMAIN q, <)
      pos == cursor.next_batch_start_pos
      vec == SelectSeq(sorted, LAMBDA s : s >= pos)
      round(st, i) == VerifyStep(batch, q, vec, st, i)
      end == FoldLeft(round, [failed |-> FALSE, expected |-> cursor.last_batch_delayed_messages_read],
                      [i \in 1 .. Len(batch) |-> i])
      heights(from, to) == {q[vec[i]].height : i \in from .. to}
      least(S) == IF S = {} THEN 0 ELSE Min(S)
  IN  IF \/ ~ Contains(sorted, pos)
         \/ Len(batch) > Len(vec)
         \/ end.failed
         \/ batch = <<>>
      THEN Failure
      ELSE [success |-> TRUE,
            start_message_position |-> pos,
            end_message_position |-> pos + Len(batch) - 1,
            start_espresso_block |-> least(heights(1, Len(batch))),
            after_delayed_messages_read |-> end.expected,
            min_espresso_block_still_in_queue |-> least(heights(Len(batch) + 1, Len(vec)))]

\* The cursors the request at hand may be verified with.
CursorsAtHand == {DefaultCursor} \cup (IF CursorRead THEN {Cursor} ELSE {})

\* The closed form returns what the loop returns, field by field.
VerifyLoopAgrees ==
  ~ StreamerFree => \A cursor \in CursorsAtHand :
    VerifyBatchMessages(request.batch, queue, cursor) = VerifyLoop(request.batch, queue, cursor)

\* Over a queue without a gap from the cursor on, verifying a batch is the same
\* as verifying it in two parts, the second from the cursor that the first one
\* leaves on L1: how the poster splits the messages into batches changes
\* neither the verdict nor the delayed count that is signed.
SplittingIsNeutral ==
  ~ StreamerFree => \A cursor \in CursorsAtHand :
    LET batch == request.batch
        pos == cursor.next_batch_start_pos
        whole == VerifyBatchMessages(batch, queue, cursor)
        noGap == \A s \in QueueFrom(queue, pos) : pos .. s \subseteq DOMAIN queue
    IN  noGap => \A k \in 1 .. Len(batch) - 1 :
          LET first == VerifyBatchMessages(SubSeq(batch, 1, k), queue, cursor)
              next == [next_batch_start_pos |-> first.end_message_position + 1,
                       last_batch_delayed_messages_read |-> first.after_delayed_messages_read]
              second == VerifyBatchMessages(SubSeq(batch, k + 1, Len(batch)), queue, next)
          IN  /\ whole.success <=> first.success /\ second.success
              /\ whole.success =>
                   /\ second.end_message_position = whole.end_message_position
                   /\ second.after_delayed_messages_read = whole.after_delayed_messages_read
                   /\ second.min_espresso_block_still_in_queue = whole.min_espresso_block_still_in_queue
=============================================================================
