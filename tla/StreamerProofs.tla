--------------------------- MODULE StreamerProofs ---------------------------
(***************************************************************************)
(* The invariants of Streamer hold for every bound, capacity and content   *)
(* of Espresso's blocks.                                                   *)
(***************************************************************************)
EXTENDS StreamerSteps

\* Every step of the streamer, of its poller, timer and relay, of Espresso and
\* of L1 keeps the invariant.
LEMMA NextIInv ==
  ASSUME IInv, [Next]_vars
  PROVE  IInv' /\ (UNCHANGED vars \/ KeepsWhatIsNotFinal)
<1>0. ASSUME UNCHANGED <<queue, stubs, finalized_idx, last_broadcast_position>>
      PROVE  KeepsWhatIsNotFinal
  BY <1>0 DEF KeepsWhatIsNotFinal, Known, IInv, TypeOK
<1>1. CASE EspressoBlock
  BY <1>0, <1>1, EspressoBlockIInv DEF EspressoBlock, queueVars, feedVars
<1>2. CASE Poll
  BY Zenon, <1>0, <1>2, PollIInv DEF Poll, queueVars, feedVars
<1>3. CASE HandleHotshotTransactions
  BY <1>3, HandleHotshotTransactionsIInv
<1>4. CASE HandleQuietBlocks
  <2>1. scheduled \in BOOLEAN /\ retry_task \in {"none", "sleeping", "sent"}
    BY DEF IInv, TypeOK
  <2> QED
    BY <1>4, <2>1, BroadcastOnlyIInv DEF HandleQuietBlocks
<1>5. CASE \E fetched \in BOOLEAN : HandleFinalization(fetched)
  BY <1>5, HandleFinalizationIInv
<1>6. CASE HandleRetry
  <2>1. FALSE \in BOOLEAN /\ "none" \in {"none", "sleeping", "sent"}
    OBVIOUS
  <2> QED
    BY Zenon, <1>6, <2>1, BroadcastOnlyIInv DEF HandleRetry
<1>7. CASE RetryTimer \/ RelayRecv \/ L1Update \/ UNCHANGED vars
  BY Zenon, <1>0, <1>7, EnvironmentIInv DEF RetryTimer, RelayRecv, L1Update, queueVars, feedVars
<1> QED
  BY <1>1, <1>2, <1>3, <1>4, <1>5, <1>6, <1>7 DEF Next

\* The inductive invariant holds in every state the streamer reaches, for every
\* queue capacity, range limit, channel size and set of block contents.
THEOREM Invariance == Spec => []IInv
<1>1. Init => IInv
  BY InitIInv
<1>2. IInv /\ [Next]_vars => IInv'
  BY NextIInv
<1> QED
  BY <1>1, <1>2, PTL DEF Spec

\* Type correctness, with the bounds of the two channels.
THEOREM TypeCorrect == Spec => []TypeOK
<1>1. IInv => TypeOK
  BY DEF IInv
<1> QED
  BY <1>1, Invariance, PTL

\* The cap on full entries, and that no number is both an entry and a stub
\* (filter_messages, promote_stubs).
THEOREM CapHolds == Spec => []QueueWithinCap
<1>1. IInv => QueueWithinCap
  BY DEF IInv
<1> QED
  BY <1>1, Invariance, PTL

\* No message read from Espresso is lost before L1 finalizes it
\* (filter_messages, promote_stubs, handle_finalization).
THEOREM NothingLost == Spec => []NoMessageLost
<1>1. IInv => NoMessageLost
  BY DEF IInv
<1> QED
  BY <1>1, Invariance, PTL

\* The first inclusion on Espresso decides what is held for a number, and what
\* is held is on Espresso (filter_messages, promote_stubs).
THEOREM EspressoDecides == Spec => [](FirstInclusionWins /\ HeldIsOnEspresso)
<1>1. IInv => FirstInclusionWins /\ HeldIsOnEspresso
  BY DEF IInv
<1> QED
  BY <1>1, Invariance, PTL

\* The feed is strictly increasing and skips only what L1 has finalized
\* (try_broadcast_feed_message, handle_finalization).
THEOREM FeedOrdered == Spec => []FeedInOrderWithoutGaps
<1>1. IInv => FeedInOrderWithoutGaps
  BY DEF IInv
<1> QED
  BY <1>1, Invariance, PTL

\* Every message of the feed is the one of the first Espresso block with its
\* number (the whole path from poll_hotshot_blocks to the feed).
THEOREM FeedFaithful == Spec => []FeedFollowsEspresso
<1>1. IInv => FeedFollowsEspresso
  BY DEF IInv
<1> QED
  BY <1>1, Invariance, PTL

\* No height is skipped or handed over twice (poll_hotshot_blocks).
THEOREM PollerCovers == Spec => []PollerCoversEveryHeight
<1>1. IInv => PollerCoversEveryHeight
  BY DEF IInv
<1> QED
  BY <1>1, Invariance, PTL

\* No step forgets a message that L1 has not finalized, or moves a position
\* back (filter_messages, promote_stubs, handle_finalization).
THEOREM Forgets == Spec => ForgetsOnlyFinal
<1>1. IInv /\ [Next]_vars => [KeepsWhatIsNotFinal]_vars
  BY NextIInv
<1> QED
  BY <1>1, Invariance, PTL DEF Spec, ForgetsOnlyFinal

\* try_broadcast_feed_message leaves the flag and the task in step.
LEMMA BroadcastKeepsRetry ==
  ASSUME NEW q, NEW wasScheduled \in BOOLEAN, NEW task,
         wasScheduled <=> task # "none",
         TryBroadcast(q, wasScheduled, task)
  PROVE  RetryNotForgotten'
<1>1. PICK last \in last_broadcast_position .. last_broadcast_position + (FeedCapacity - unread) :
        /\ scheduled' = (wasScheduled \/ last + 1 \in DOMAIN q)
        /\ retry_task' = IF last + 1 \in DOMAIN q /\ ~ wasScheduled THEN "sleeping" ELSE task
  BY Zenon DEF TryBroadcast
<1>2. CASE last + 1 \in DOMAIN q /\ ~ wasScheduled
  <2>1. scheduled' /\ retry_task' = "sleeping"
    BY Zenon, <1>1, <1>2
  <2> QED
    BY <2>1 DEF RetryNotForgotten
<1>3. CASE ~ (last + 1 \in DOMAIN q /\ ~ wasScheduled)
  <2>1. (scheduled' <=> wasScheduled) /\ retry_task' = task
    BY Zenon, <1>1, <1>3
  <2> QED
    BY Zenon, <2>1 DEF RetryNotForgotten
<1> QED
  BY Zenon, <1>2, <1>3

\* A broadcast that found the feed channel full is taken up again: the flag of
\* BroadcastRetry stands for a task that is under way (schedule, the retry arm
\* of run).
THEOREM RetryKept == Spec => []RetryNotForgotten
<1>1. Init => RetryNotForgotten
  BY DEF Init, RetryNotForgotten
<1>2. RetryNotForgotten /\ TypeOK /\ [Next]_vars => RetryNotForgotten'
  <2> SUFFICES ASSUME RetryNotForgotten, TypeOK, [Next]_vars
               PROVE  RetryNotForgotten'
    OBVIOUS
  <2>t. scheduled \in BOOLEAN
    BY DEF TypeOK
  <2>1. CASE HandleHotshotTransactions
    <3>1. TryBroadcast(FilteredQueue(Head(hotshot_rx).from, Head(hotshot_rx).to), scheduled, retry_task)
      BY <2>1 DEF HandleHotshotTransactions
    <3> QED
      BY <3>1, <2>t, BroadcastKeepsRetry DEF RetryNotForgotten
  <2>2. CASE HandleQuietBlocks
    BY <2>2, <2>t, BroadcastKeepsRetry DEF HandleQuietBlocks, RetryNotForgotten
  <2>3. CASE HandleRetry
    BY Zenon, <2>3, BroadcastKeepsRetry DEF HandleRetry
  <2>4. CASE RetryTimer
    BY <2>4 DEF RetryTimer, RetryNotForgotten
  <2>5. ASSUME NEW fetched \in BOOLEAN, HandleFinalization(fetched)
        PROVE  RetryNotForgotten'
    BY <2>5 DEF HandleFinalization, RetryNotForgotten
  <2>6. CASE EspressoBlock \/ Poll \/ RelayRecv \/ L1Update \/ UNCHANGED vars
    BY <2>6 DEF EspressoBlock, Poll, RelayRecv, L1Update, vars, feedVars, RetryNotForgotten
  <2> QED
    BY <2>1, <2>2, <2>3, <2>4, <2>5, <2>6 DEF Next
<1> QED
  BY <1>1, <1>2, TypeCorrect, PTL DEF Spec
=============================================================================
