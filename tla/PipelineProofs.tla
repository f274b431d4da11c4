--------------------------- MODULE PipelineProofs ---------------------------
(***************************************************************************)
(* The streamer keeps its invariant next to the verification arm, the      *)
(* batch poster and an L1 that reorganises, and it holds what L1 may still *)
(* need, for every rollup, bound and capacity.                             *)
(***************************************************************************)
EXTENDS Pipeline, StreamerProofs

RollupMsg == {DelayedMsg} \cup {L2Msg(m.l2msg) : m \in Msg}

\* A range of positions that is not empty.
RangeOK(result) ==
  /\ result.start_message_position \in Nat
  /\ result.end_message_position \in Nat
  /\ result.start_message_position <= result.end_message_position

\* The counts that the batches on L1 report only grow, finality is within them,
\* the index that the monitor publishes is final, and a certificate ends at or
\* after the message it starts with.
PIInv ==
  /\ IInv
  /\ request.batch \in Seq(RollupMsg)
  /\ \E B : l1_batches \in Seq(B)
  /\ \A n \in 0 .. Latest : MessageCount(n) \in Nat \ {0}
  /\ \A i, j \in 0 .. Latest : i <= j => MessageCount(i) <= MessageCount(j)
  /\ final \in Nat /\ l1_idx <= final /\ final < MessageCount(Latest)
  /\ \A c \in certificates : RangeOK(c.result)

-----------------------------------------------------------------------------
\* verify_batch_messages certifies such a range.
LEMMA CertifiedRange ==
  ASSUME IInv, NEW batch \in Seq(RollupMsg), NEW cursor,
         NEW result, result = VerifyBatchMessages(batch, queue, cursor), result.success
  PROVE  RangeOK(result)
<1> DEFINE pos == cursor.next_batch_start_pos
           n == Len(batch)
<1>1. /\ pos \in DOMAIN queue /\ n > 0
      /\ result.start_message_position = pos
      /\ result.end_message_position = EndPosition(pos, n)
  BY DEF VerifyBatchMessages, Failure, CursorFound
<1>2. pos \in Nat /\ n \in Nat
  BY <1>1, LenProperties DEF IInv, TypeOK
<1> HIDE DEF pos, n
<1> QED
  BY <1>1, <1>2 DEF EndPosition, RangeOK

LEMMA InitPIInv ==
  ASSUME PInit
  PROVE  PIInv
<1>1. IInv
  BY InitIInv DEF PInit
<1>2. l1_batches \in Seq({}) /\ Latest = 0 /\ MessageCount(0) = 1 /\ certificates = {}
  BY EmptySeq DEF PInit, Latest, MessageCount
<1>3. l1_idx = 0 /\ final = 0
  BY DEF PInit, Init
<1>4. request.batch \in Seq(RollupMsg)
  BY EmptySeq DEF PInit, NoRequest
<1> QED
  BY <1>1, <1>2, <1>3, <1>4 DEF PIInv

\* What the streamer and its tasks do is no business of L1.
LEMMA StreamerStep ==
  ASSUME PIInv, IInv', UNCHANGED <<l1_batches, request, certificates, l1_idx, final>>
  PROVE  PIInv'
  BY DEF PIInv, Latest, MessageCount

LEMMA ArmsPIInv ==
  ASSUME PIInv, StreamerArm \/ (\E fetched \in BOOLEAN : FinalizationArm(fetched)) \/ OtherTask
  PROVE  PIInv'
<1>0. IInv
  BY DEF PIInv
<1>1. IInv'
  <2>1. CASE StreamerArm \/ OtherTask
    <3>1. [Next]_vars
      BY <2>1 DEF StreamerArm, OtherTask, Next
    <3> QED
      BY <1>0, <3>1, NextIInv
  <2>2. ASSUME NEW fetched \in BOOLEAN, FinalizationArm(fetched)
        PROVE  IInv'
    BY <1>0, <2>2, HandleFinalizationIInv DEF FinalizationArm
  <2> QED
    BY <2>1, <2>2
<1>2. UNCHANGED l1_idx
  BY Zenon DEF StreamerArm, FinalizationArm, OtherTask, HandleHotshotTransactions,
    HandleQuietBlocks, HandleRetry, HandleFinalization, EspressoBlock, Poll, RetryTimer,
    RelayRecv, l1Vars
<1>3. UNCHANGED <<l1_batches, request, certificates, final>>
  BY DEF StreamerArm, FinalizationArm, OtherTask, pipelineVars, historyVars
<1> QED
  BY <1>1, <1>2, <1>3, StreamerStep

\* The verification arm: a request, its reads, and the reply.
LEMMA VarsFrame ==
  ASSUME PIInv, UNCHANGED <<vars, l1_batches, final>>, request'.batch \in Seq(RollupMsg),
         \A c \in certificates' \ certificates : RangeOK(c.result)
  PROVE  PIInv'
<1>1. IInv'
  BY EnvironmentIInv DEF PIInv
<1>2. UNCHANGED l1_idx
  BY DEF vars
<1> QED
  BY <1>1, <1>2 DEF PIInv, Latest, MessageCount

LEMMA RequestPIInv ==
  ASSUME PIInv,
         \/ \E e \in 1 .. Len(Sequenced) + 1 : StoreRequest(e)
         \/ \E what \in {"count", "delayed"} : ReadCursor(what)
  PROVE  PIInv'
<1>1. ASSUME NEW e \in 1 .. Len(Sequenced) + 1, StoreRequest(e)
      PROVE  PIInv'
  <2>1. Sequenced \in Seq(RollupMsg) /\ Len(Sequenced) \in Nat
    BY PipelineAssumption, LenProperties DEF RollupMsg
  <2>2. MessageCount(Latest) \in Nat \ {0}
    BY LenProperties DEF PIInv, Latest
  <2>3. request'.batch = SubSeq(Sequenced, MessageCount(Latest), e - 1)
    BY <1>1 DEF StoreRequest
  <2>4. request'.batch \in Seq(RollupMsg)
    BY <2>1, <2>2, <2>3, SubSeqProperties
  <2> QED
    BY <1>1, <2>4, VarsFrame DEF StoreRequest, historyVars
<1>2. ASSUME NEW what \in {"count", "delayed"}, ReadCursor(what)
      PROVE  PIInv'
  <2>1. request'.batch = request.batch
    BY <1>2 DEF ReadCursor
  <2> QED
    BY <1>2, <2>1, VarsFrame DEF ReadCursor, historyVars, PIInv
<1> QED
  BY <1>1, <1>2

LEMMA ReplyPIInv ==
  ASSUME PIInv, ReplyAfterReads \/ ReplyAfterError
  PROVE  PIInv'
<1>1. PICK cursor : Reply(cursor)
  BY DEF ReplyAfterReads, ReplyAfterError
<1> DEFINE result == VerifyBatchMessages(request.batch, queue, cursor)
<1>2. ASSUME NEW c \in certificates' \ certificates
      PROVE  c.result = result /\ result.success
  BY <1>1 DEF Reply
<1>3. result.success => RangeOK(result)
  BY CertifiedRange DEF PIInv
<1>4. request'.batch \in Seq(RollupMsg) /\ UNCHANGED <<vars, l1_batches, final>>
  BY <1>1, EmptySeq DEF Reply, NoRequest, historyVars
<1> HIDE DEF result
<1> QED
  BY <1>2, <1>3, <1>4, VarsFrame

-----------------------------------------------------------------------------
\* A batch is accepted where the last one ends: the counts go on growing.
LEMMA PostBatchPIInv ==
  ASSUME PIInv, NEW c \in certificates, PostBatch(c)
  PROVE  PIInv'
<1>0. PICK n \in Nat : n = Latest
  BY LenProperties DEF PIInv, Latest
<1> DEFINE end == c.result.end_message_position
<1>1. PICK x : l1_batches' = Append(l1_batches, x) /\ x.end_message_position = end
  BY DEF PostBatch
<1>2. PICK B : l1_batches \in Seq(B)
  BY DEF PIInv
<1>3. l1_batches \in Seq(B \cup {x})
  <2>1. DOMAIN l1_batches = 1 .. n /\ \A i \in 1 .. n : l1_batches[i] \in B
    BY <1>0, <1>2, LenProperties, ElementOfSeq DEF Latest
  <2> QED
    BY <1>2, <2>1
<1>4. /\ l1_batches' \in Seq(B \cup {x}) /\ Latest' = n + 1
      /\ \A i \in 1 .. n : l1_batches'[i] = l1_batches[i]
      /\ l1_batches'[n + 1] = x
  BY <1>0, <1>1, <1>3, AppendProperties DEF Latest
<1>5. UNCHANGED <<vars, request, certificates, final>>
  BY DEF PostBatch, historyVars
<1>6. \A i \in 0 .. n : MessageCount(i)' = MessageCount(i)
  BY <1>3, <1>4 DEF MessageCount
<1>7. MessageCount(n + 1)' = end + 1
  BY <1>1, <1>3, <1>4 DEF MessageCount
<1>8. end \in Nat /\ MessageCount(n) \in Nat \ {0} /\ MessageCount(n) <= end
  BY <1>0 DEF PIInv, PostBatch, RangeOK
<1>9. \A i \in 0 .. n : MessageCount(i) \in Nat \ {0} /\ MessageCount(i) <= MessageCount(n)
  BY <1>0 DEF PIInv
<1>10. \A i \in 0 .. n + 1 : MessageCount(i)' \in Nat \ {0}
  BY <1>3, <1>6, <1>7, <1>8, <1>9
<1>11. \A i, j \in 0 .. n + 1 : i <= j => MessageCount(i)' <= MessageCount(j)'
  <2> SUFFICES ASSUME NEW i \in 0 .. n + 1, NEW j \in 0 .. n + 1, i <= j
               PROVE  MessageCount(i)' <= MessageCount(j)'
    OBVIOUS
  <2>1. CASE j \in 0 .. n
    <3>1. i \in 0 .. n
      BY <1>3, <2>1
    <3> QED
      BY <1>0, <1>6, <2>1, <3>1 DEF PIInv
  <2>2. CASE j = n + 1 /\ i \in 0 .. n
    BY <1>6, <1>7, <1>8, <1>9, <2>2
  <2>3. CASE j = n + 1 /\ i = n + 1
    BY <1>7, <1>8, <2>3
  <2> QED
    BY <1>3, <2>1, <2>2, <2>3
<1>12. final' \in Nat /\ l1_idx' <= final' /\ final' < MessageCount(n + 1)'
  <2>1. l1_idx' = l1_idx /\ final' = final /\ final \in Nat /\ l1_idx <= final /\ final < MessageCount(n)
    BY <1>0, <1>5 DEF vars, PIInv
  <2> QED
    BY <1>7, <1>8, <2>1
<1>13. IInv'
  BY <1>5, EnvironmentIInv DEF PIInv
<1>14. MessageCount(Latest)' = MessageCount(n + 1)'
  BY <1>4 DEF MessageCount
<1> QED
  BY <1>14, <1>4, <1>5, <1>10, <1>11, <1>12, <1>13 DEF PIInv

\* Finality comes from a batch on L1.
LEMMA L1FinalizedPIInv ==
  ASSUME PIInv, NEW n \in 0 .. Latest, L1Finalized(n)
  PROVE  PIInv'
<1>1. Latest \in Nat
  BY LenProperties DEF PIInv, Latest
<1>2. /\ MessageCount(n) \in Nat \ {0} /\ MessageCount(Latest) \in Nat
      /\ MessageCount(n) <= MessageCount(Latest)
  BY <1>1 DEF PIInv
<1>3. l1_idx \in Nat /\ l1_idx' = MessageCount(n) - 1 /\ l1_idx <= l1_idx' /\ l1_changed' \in BOOLEAN
  BY <1>2 DEF L1Finalized, PIInv, IInv, TypeOK
<1>4. UNCHANGED <<chain, config, from_block, hotshot_rx, queue, stubs, finalized_idx,
                  last_broadcast_position, scheduled, retry_task, feed, unread, l1_batches, request,
                  certificates>>
  BY DEF L1Finalized, espressoVars, pollerVars, queueVars, feedVars
<1>5. retry_task \in {"none", "sleeping", "sent"} /\ unread \in 0 .. FeedCapacity
  BY DEF PIInv, IInv, TypeOK
<1>6. IInv'
  BY <1>2, <1>3, <1>4, <1>5, FrameIInv DEF PIInv
<1>7. final' \in Nat /\ l1_idx' <= final' /\ final' < MessageCount(Latest)
  <2>1. final \in Nat /\ final < MessageCount(Latest)
    BY DEF PIInv
  <2> QED
    BY <1>2, <1>3, <2>1 DEF L1Finalized, BecomeFinal
<1> QED
  BY <1>4, <1>6, <1>7 DEF PIInv, Latest, MessageCount

\* A reorganisation drops batches that are not final, and only those.
LEMMA L1ReorgPIInv ==
  ASSUME PIInv, NEW n \in 0 .. Latest, L1Reorg(n)
  PROVE  PIInv'
<1>1. PICK B : l1_batches \in Seq(B)
  BY DEF PIInv
<1>2. Latest \in Nat /\ n < Latest /\ \A i \in 1 .. n : l1_batches[i] \in B
  BY <1>1, LenProperties, ElementOfSeq DEF Latest, L1Reorg
<1>3. /\ l1_batches' \in Seq(B) /\ Latest' = n
      /\ \A i \in 1 .. n : l1_batches'[i] = l1_batches[i]
  BY <1>2, SubSeqProperties DEF L1Reorg, Latest
<1>4. UNCHANGED <<vars, request, certificates, final>>
  BY DEF L1Reorg
<1>5. \A i \in 0 .. n : MessageCount(i)' = MessageCount(i)
  BY <1>2, <1>3 DEF MessageCount
<1>6. IInv'
  BY <1>4, EnvironmentIInv DEF PIInv
<1>7. final' \in Nat /\ l1_idx' <= final' /\ final' < MessageCount(n)
  <2>1. /\ l1_idx' = l1_idx /\ final' = final /\ final \in Nat /\ l1_idx <= final
        /\ MessageCount(n) \in Nat
    BY <1>2, <1>4 DEF vars, PIInv
  <2> QED
    BY <2>1 DEF L1Reorg
<1>8. /\ \A i \in 0 .. n : MessageCount(i)' \in Nat \ {0}
      /\ \A i, j \in 0 .. n : i <= j => MessageCount(i)' <= MessageCount(j)'
  <2>1. \A i \in 0 .. n : i \in 0 .. Latest
    BY <1>2
  <2> QED
    BY <1>5, <2>1 DEF PIInv
<1>9. MessageCount(Latest)' = MessageCount(n)
  BY <1>2, <1>3, <1>5 DEF MessageCount
<1>10. /\ (\A i \in 0 .. Latest : MessageCount(i) \in Nat \ {0})'
       /\ (\A i, j \in 0 .. Latest : i <= j => MessageCount(i) <= MessageCount(j))'
  BY <1>3, <1>8
<1>11. (final \in Nat /\ l1_idx <= final /\ final < MessageCount(Latest))'
  BY <1>7, <1>9
<1>12. (\E B2 : l1_batches \in Seq(B2))'
  BY <1>3
<1>13. (request.batch \in Seq(RollupMsg))' /\ (\A c \in certificates : RangeOK(c.result))'
  BY <1>4 DEF PIInv, RangeOK
<1> QED
  BY <1>6, <1>10, <1>11, <1>12, <1>13 DEF PIInv

-----------------------------------------------------------------------------
LEMMA PNextPIInv ==
  ASSUME PIInv, [PNext]_pvars
  PROVE  PIInv'
<1>1. CASE UNCHANGED pvars
  <2>1. UNCHANGED <<vars, l1_batches, request, certificates, final>>
    BY <1>1 DEF pvars, pipelineVars, historyVars
  <2> QED
    BY <2>1, VarsFrame DEF PIInv
<1> QED
  BY <1>1, ArmsPIInv, RequestPIInv, ReplyPIInv, PostBatchPIInv, L1FinalizedPIInv, L1ReorgPIInv
  DEF PNext

\* The streamer's invariant holds in the whole pipeline, and L1's counts and
\* finality stay in order, however requests, batches and reorganisations
\* interleave.
THEOREM PipelineInvariance == PSpec => []PIInv
<1>1. PInit => PIInv
  BY InitPIInv
<1>2. PIInv /\ [PNext]_pvars => PIInv'
  BY PNextPIInv
<1> QED
  BY <1>1, <1>2, PTL DEF PSpec

\* handle_finalization never drops a message that a reorganisation of L1 could
\* make necessary again: what is handled, and not on L1, is a queue entry or a
\* stub, for every rollup, queue capacity and number of reorganisations.
THEOREM KeepsWhatL1MayNeed == PSpec => []HoldsWhatL1MayNeed
<1>1. PIInv => HoldsWhatL1MayNeed
  <2> SUFFICES ASSUME PIInv, NEW h \in Handled, NEW s \in SeqsAt(h),
                      s >= config.starting_pos, s >= MessageCount(Latest)
               PROVE  s \in Known
    BY DEF HoldsWhatL1MayNeed
  <2>1. h \in 0 .. Len(chain) - 1
    BY HandledFacts DEF PIInv
  <2>2. s \in Nat
    BY <2>1, BlockType DEF PIInv, IInv, SeqsAt
  <2>3. MessageCount(Latest) \in Nat /\ final \in Nat /\ l1_idx <= final /\ final < MessageCount(Latest)
    BY LenProperties DEF PIInv, Latest
  <2>4. finalized_idx \in Nat /\ l1_idx \in Nat /\ finalized_idx <= l1_idx
    BY DEF PIInv, IInv, TypeOK
  <2>5. s > finalized_idx
    BY <2>2, <2>3, <2>4
  <2> QED
    BY <2>5 DEF PIInv, IInv, NoMessageLost
<1> QED
  BY <1>1, PipelineInvariance, PTL
=============================================================================
