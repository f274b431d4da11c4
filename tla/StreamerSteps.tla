--------------------------- MODULE StreamerSteps ----------------------------
(***************************************************************************)
(* Every action of Streamer preserves its inductive invariant IInv: the    *)
(* initial states, then one lemma per action.                              *)
(***************************************************************************)
EXTENDS StreamerLemmas

\* The streamer starts with nothing held, sent or handled.
LEMMA InitIInv ==
  ASSUME Init
  PROVE  IInv
<1>1. DOMAIN queue = {} /\ DOMAIN stubs = {} /\ DOMAIN feed = {} /\ DOMAIN hotshot_rx = {}
  BY DEF Init
<1>2. config.starting_hotshot_height \in Nat
  BY StartAssumption DEF Init
<1>3. TypeOK
  <2>1. queue \in [DOMAIN queue -> Entry] /\ stubs \in [DOMAIN stubs -> Nat]
    BY <1>1 DEF Init
  <2>2. /\ chain \in Seq(BlockContents)
        /\ hotshot_rx \in Seq([from : Nat, to : Nat]) /\ Len(hotshot_rx) <= HotshotChannelCapacity
        /\ feed \in Seq(Message)
    BY EmptySeq, BoundsAssumption DEF Init
  <2>3. unread \in 0 .. FeedCapacity
    BY BoundsAssumption DEF Init
  <2>4. scheduled \in BOOLEAN /\ retry_task \in {"none", "sleeping", "sent"} /\ l1_changed \in BOOLEAN
    BY Zenon DEF Init
  <2>5. from_block \in Nat /\ finalized_idx \in Nat /\ last_broadcast_position \in Nat /\ l1_idx \in Nat
    BY <1>2 DEF Init
  <2>6. config \in [starting_pos : StartingPositions, starting_hotshot_height : StartingHeights]
    BY DEF Init
  <2> QED
    BY <1>1, <2>1, <2>2, <2>3, <2>4, <2>5, <2>6 DEF TypeOK
<1>4. PollerCoversEveryHeight
  BY <1>1, <1>2 DEF Init, PollerCoversEveryHeight
<1>5. IsFiniteSet(DOMAIN queue) /\ IsFiniteSet(DOMAIN stubs) /\ Cardinality(DOMAIN queue) = 0
  BY <1>1, FS_EmptySet
<1>6. QueueWithinCap
  BY <1>1, <1>5, QueueAssumption DEF QueueWithinCap
<1>7. Known = {} /\ Handled = {}
  BY <1>1, <1>2 DEF Known, Handled, HandledTo, Init
<1>8. NoMessageLost /\ FirstInclusionWins /\ HeldIsOnEspresso
  BY <1>7 DEF NoMessageLost, FirstInclusionWins, HeldIsOnEspresso
<1>9. FeedInOrderWithoutGaps /\ FeedFollowsEspresso
  BY <1>1 DEF Init, FeedInOrderWithoutGaps, FeedFollowsEspresso
<1> QED
  BY <1>1, <1>3, <1>4, <1>5, <1>6, <1>8, <1>9 DEF IInv, Init

\* A new block is above everything handled, so it changes no handled one.
LEMMA EspressoBlockIInv ==
  ASSUME IInv, EspressoBlock
  PROVE  IInv'
<1>1. PICK b \in BlockContents : chain' = Append(chain, b)
  BY DEF EspressoBlock
<1>2. UNCHANGED <<config, pollerVars, queueVars, feedVars, l1Vars>>
  BY DEF EspressoBlock
<1>3. UNCHANGED <<config, from_block, hotshot_rx, queue, stubs, finalized_idx,
                  last_broadcast_position, scheduled, retry_task, feed, unread,
                  l1_idx, l1_changed>>
  BY <1>2 DEF pollerVars, queueVars, feedVars, l1Vars
<1>4. chain \in Seq(BlockContents) /\ Len(chain) \in Nat
  BY LenProperties DEF IInv, TypeOK
<1>5. /\ chain' \in Seq(BlockContents) /\ Len(chain') = Len(chain) + 1
      /\ \A i \in 1 .. Len(chain) : chain'[i] = chain[i]
  BY <1>1, <1>4, AppendProperties
<1>6. Handled' = Handled
  BY <1>3 DEF Handled, HandledTo
<1>7. ASSUME NEW h \in Handled PROVE Block(h)' = Block(h)
  <2>1. h + 1 \in 1 .. Len(chain)
    BY <1>4, HandledFacts
  <2> QED
    BY <1>5, <2>1 DEF Block
<1>8. TypeOK'
  BY <1>3, <1>5 DEF IInv, TypeOK
<1>9. PollerCoversEveryHeight'
  <2>1. from_block \in Nat
    BY DEF IInv, TypeOK
  <2> QED
    BY <1>3, <1>4, <1>5, <2>1 DEF IInv, PollerCoversEveryHeight
<1>10. FeedInOrderWithoutGaps'
  BY <1>3 DEF IInv, FeedInOrderWithoutGaps
<1> QED
  BY <1>3, <1>6, <1>7, <1>8, <1>9, <1>10, HeldFrame DEF IInv

\* The poller appends a range that starts where the last one ended.
LEMMA PollIInv ==
  ASSUME IInv, Poll
  PROVE  IInv'
<1> DEFINE Range2 == [from : Nat, to : Nat]
           n == Len(hotshot_rx)
           start == config.starting_hotshot_height
<1>1. PICK latest \in from_block + 1 .. Len(chain) :
        LET to == Min({from_block + HOTSHOT_RANGE_LIMIT, latest})
        IN  /\ hotshot_rx' = Append(hotshot_rx, [from |-> from_block, to |-> to])
            /\ from_block' = to
  BY Zenon DEF Poll
<1>2. UNCHANGED <<chain, config, queue, stubs, finalized_idx,
                  last_broadcast_position, scheduled, retry_task, feed, unread,
                  l1_idx, l1_changed>>
  BY DEF Poll, espressoVars, queueVars, feedVars, l1Vars
<1>3. /\ from_block \in Nat /\ hotshot_rx \in Seq(Range2) /\ n \in Nat
      /\ DOMAIN hotshot_rx = 1 .. n /\ Len(chain) \in Nat /\ start \in Nat
      /\ n < HotshotChannelCapacity
  BY LenProperties, HandledFacts DEF IInv, TypeOK, Poll
<1> DEFINE to == Min({from_block + HOTSHOT_RANGE_LIMIT, latest})
           r == [from |-> from_block, to |-> to]
<1>4. to \in Nat /\ from_block < to /\ to <= Len(chain)
  <2>1. {from_block + HOTSHOT_RANGE_LIMIT, latest} \in SUBSET Nat
    BY <1>3, BoundsAssumption
  <2>2. to = from_block + HOTSHOT_RANGE_LIMIT \/ to = latest
    BY Zenon, <2>1, MinOfNats
  <2>3. to <= latest
    BY <2>1, MinOfNats
  <2> HIDE DEF to
  <2> QED
    BY <1>3, <2>2, <2>3, BoundsAssumption
<1> HIDE DEF to
<1>5. r \in Range2
  BY <1>3, <1>4
<1> HIDE DEF n, start
<1>6. /\ hotshot_rx' \in Seq(Range2) /\ Len(hotshot_rx') = n + 1
      /\ DOMAIN hotshot_rx' = 1 .. n + 1
      /\ \A i \in 1 .. n : hotshot_rx'[i] = hotshot_rx[i]
      /\ hotshot_rx'[n + 1] = r
      /\ hotshot_rx' # <<>>
      /\ from_block' = to
  BY <1>1, <1>3, <1>5, AppendProperties, LenProperties DEF to, n
<1>7. HandledTo' = HandledTo
  <2>1. HandledTo' = hotshot_rx'[1].from
    BY <1>6 DEF HandledTo
  <2>2. CASE hotshot_rx = <<>>
    BY <1>6, <2>1, <2>2, EmptySeq DEF HandledTo, n
  <2>3. CASE hotshot_rx # <<>>
    <3>1. n \in Nat \ {0}
      BY <1>3, <2>3, EmptySeq DEF n
    <3>2. hotshot_rx'[1] = hotshot_rx[1]
      BY <1>6, <3>1
    <3> QED
      BY <2>1, <2>3, <3>2 DEF HandledTo
  <2> QED
    BY <2>2, <2>3
<1>8. Handled' = Handled /\ \A h \in Handled : Block(h)' = Block(h)
  BY <1>2, <1>7 DEF Handled, Block
<1>9. TypeOK'
  <2>1. hotshot_rx' \in Seq([from : Nat, to : Nat]) /\ Len(hotshot_rx') <= HotshotChannelCapacity
    BY <1>3, <1>6, BoundsAssumption
  <2>2. from_block' \in Nat
    BY <1>4, <1>6
  <2> QED
    BY <1>2, <2>1, <2>2 DEF IInv, TypeOK
<1>10. PollerCoversEveryHeight'
  <2>1. /\ start <= from_block
        /\ \A i \in 1 .. n :
             /\ start <= hotshot_rx[i].from
             /\ hotshot_rx[i].from < hotshot_rx[i].to
             /\ hotshot_rx[i].to <= from_block
             /\ hotshot_rx[i].to = IF i = n THEN from_block ELSE hotshot_rx[i + 1].from
    BY <1>3 DEF IInv, PollerCoversEveryHeight, n, start
  <2>2. ASSUME NEW i \in 1 .. n PROVE hotshot_rx[i].to \in Nat
    <3>1. hotshot_rx[i] \in Range2
      BY Zenon, <1>3, ElementOfSeq DEF n
    <3> QED
      BY <3>1
  <2>3. start <= from_block' /\ from_block' <= Len(chain')
    BY <1>2, <1>3, <1>4, <1>6, <2>1
  <2> HIDE DEF Range2
  <2>4. ASSUME NEW i \in 1 .. n + 1
        PROVE  /\ start <= hotshot_rx'[i].from
               /\ hotshot_rx'[i].from < hotshot_rx'[i].to
               /\ hotshot_rx'[i].to <= from_block'
               /\ hotshot_rx'[i].to = IF i = n + 1 THEN from_block' ELSE hotshot_rx'[i + 1].from
    <3>1. CASE i = n + 1
      BY <1>3, <1>4, <1>6, <2>1, <3>1
    <3>2. CASE i = n /\ n \in 1 .. n
      BY <1>3, <1>4, <1>6, <2>1, <2>2, <3>2
    <3>3. CASE i \in 1 .. n - 1
      <4>1. i \in 1 .. n /\ i + 1 \in 1 .. n /\ i # n /\ i # n + 1
        BY <1>3, <3>3
      <4> QED
        BY <1>3, <1>4, <1>6, <2>1, <2>2, <4>1
    <3> QED
      BY <1>3, <3>1, <3>2, <3>3
  <2> QED
    BY <1>2, <1>6, <2>3, <2>4 DEF PollerCoversEveryHeight, start
<1>11. FeedInOrderWithoutGaps'
  BY <1>2 DEF IInv, FeedInOrderWithoutGaps
<1> QED
  BY <1>2, <1>8, <1>9, <1>10, <1>11, HeldFrame DEF IInv
\* The new messages of a broadcast come from the first block with their number,
\* because the queue they are taken from does; later blocks change nothing for
\* the old ones.
LEMMA FeedFollowsStep ==
  ASSUME IInv, TypeOK', chain' = chain, finalized_idx' = finalized_idx,
         HeldIsOnEspresso', FirstInclusionWins',
         Handled \subseteq Handled',
         \A h \in Handled : \A g \in Handled' : g \in Handled \/ h <= g,
         \A i \in DOMAIN feed' :
           \/ i \in DOMAIN feed /\ feed'[i] = feed[i]
           \/ \E s \in DOMAIN queue' :
                s > last_broadcast_position /\ feed'[i] = FeedMessage(queue', s)
  PROVE  FeedFollowsEspresso'
<1>1. \A h : SeqsAt(h)' = SeqsAt(h) /\ Block(h)' = Block(h)
  BY DEF SeqsAt, Block
<1>2. \A h, s : Occurrences(h, s)' = Occurrences(h, s)
  BY DEF Occurrences, Block
<1> SUFFICES ASSUME NEW i \in DOMAIN feed'
             PROVE  \E h \in Handled' :
                      /\ \E k \in Occurrences(h, feed'[i].seq) : Block(h)[k].msg = feed'[i].msg
                      /\ \A g \in Handled' : feed'[i].seq \in SeqsAt(g) => h <= g
  BY <1>1, <1>2 DEF FeedFollowsEspresso
<1>3. CASE i \in DOMAIN feed /\ feed'[i] = feed[i]
  <2>1. PICK h \in Handled :
          /\ \E k \in Occurrences(h, feed[i].seq) : Block(h)[k].msg = feed[i].msg
          /\ \A g \in Handled : feed[i].seq \in SeqsAt(g) => h <= g
    BY <1>3 DEF IInv, FeedFollowsEspresso
  <2> QED
    BY <1>3, <2>1
<1>4. CASE \E s \in DOMAIN queue' : s > last_broadcast_position /\ feed'[i] = FeedMessage(queue', s)
  <2>1. PICK s \in DOMAIN queue' : s > last_broadcast_position /\ feed'[i] = FeedMessage(queue', s)
    BY <1>4
  <2>2. feed'[i].seq = s /\ feed'[i].msg = queue'[s].msg
    BY <2>1 DEF FeedMessage
  <2>3. s > finalized_idx'
    <3>1. s \in Nat /\ last_broadcast_position \in Nat /\ finalized_idx \in Nat
          /\ finalized_idx <= last_broadcast_position
      BY DEF IInv, TypeOK
    <3> QED
      BY <2>1, <3>1
  <2> DEFINE h == queue'[s].height
  <2>4. s \in Known' /\ HeightOf(s)' = h
    BY DEF Known, HeightOf
  <2>5. /\ h \in Handled'
        /\ \E k \in Occurrences(h, s) : queue'[s].msg = Block(h)[k].msg
    <3>1. /\ HeightOf(s)' \in Handled'
          /\ \E k \in Occurrences(HeightOf(s), s)' : queue'[s].msg = Block(HeightOf(s))'[k].msg
      BY <2>4 DEF HeldIsOnEspresso
    <3>2. Occurrences(HeightOf(s), s)' = Occurrences(h, s) /\ Block(HeightOf(s))' = Block(h)
      BY <2>4 DEF Occurrences, Block
    <3> QED
      BY <2>4, <3>1, <3>2
  <2>6. \A g \in Handled' : s \in SeqsAt(g) => h <= g
    BY <1>1, <2>3, <2>4 DEF FirstInclusionWins
  <2> QED
    BY <2>2, <2>5, <2>6
<1> QED
  BY <1>3, <1>4

\* The handler of a range: what it adds comes from the new heights, each above
\* every height handled before, and nothing held is dropped.
LEMMA HandleHotshotTransactionsIInv ==
  ASSUME IInv, HandleHotshotTransactions
  PROVE  IInv' /\ KeepsWhatIsNotFinal
<1> DEFINE Range2 == [from : Nat, to : Nat]
           r == Head(hotshot_rx)
           from == r.from
           to == r.to
           n == Len(hotshot_rx)
           start == config.starting_hotshot_height
<1>1. /\ hotshot_rx # <<>> /\ hotshot_rx' = Tail(hotshot_rx)
      /\ queue' = FilteredQueue(from, to) /\ stubs' = FilteredStubs(from, to)
      /\ TryBroadcast(queue', scheduled, retry_task)
  BY DEF HandleHotshotTransactions
<1>2. UNCHANGED <<chain, config, from_block, finalized_idx, l1_idx, l1_changed>>
  BY DEF HandleHotshotTransactions, espressoVars, l1Vars
<1>3. /\ hotshot_rx \in Seq(Range2) /\ n \in Nat \ {0} /\ DOMAIN hotshot_rx = 1 .. n
      /\ r = hotshot_rx[1] /\ r \in Range2
      /\ n <= HotshotChannelCapacity
      /\ from_block \in Nat /\ start \in Nat /\ Len(chain) \in Nat
  <2>1. hotshot_rx \in Seq(Range2) /\ n <= HotshotChannelCapacity /\ from_block \in Nat
    BY DEF IInv, TypeOK
  <2>2. n \in Nat \ {0} /\ DOMAIN hotshot_rx = 1 .. n
    BY <1>1, <2>1, EmptySeq, LenProperties
  <2>3. r = hotshot_rx[1]
    BY <1>1, <2>1
  <2>4. hotshot_rx[1] \in Range2
    <3>1. 1 \in 1 .. Len(hotshot_rx)
      BY <2>2
    <3> HIDE DEF Range2
    <3> QED
      BY <2>1, <3>1, ElementOfSeq
  <2> QED
    BY <2>1, <2>2, <2>3, <2>4, HandledFacts
<1>4. /\ start <= from_block
      /\ from_block > start => from_block <= Len(chain)
      /\ \A i \in 1 .. n :
           /\ start <= hotshot_rx[i].from
           /\ hotshot_rx[i].from < hotshot_rx[i].to
           /\ hotshot_rx[i].to <= from_block
           /\ hotshot_rx[i].to = IF i = n THEN from_block ELSE hotshot_rx[i + 1].from
  BY Zenon, <1>3 DEF IInv, PollerCoversEveryHeight
<1>5. /\ from \in Nat /\ to \in Nat /\ start <= from /\ from < to /\ to <= Len(chain)
      /\ from = HandledTo
  <2>1. 1 \in 1 .. n
    BY <1>3
  <2>2. from \in Nat /\ to \in Nat
    BY <1>3
  <2>3. from = hotshot_rx[1].from /\ to = hotshot_rx[1].to
    BY <1>3
  <2>4. from = HandledTo
    BY <1>1, <2>3 DEF HandledTo
  <2> HIDE DEF from, to, start, n, r
  <2>5. start <= from /\ from < to /\ to <= from_block
    BY <1>4, <2>1, <2>3
  <2> QED
    BY <1>3, <1>4, <2>2, <2>4, <2>5
<1>6. /\ hotshot_rx' \in Seq(Range2) /\ Len(hotshot_rx') = n - 1
      /\ DOMAIN hotshot_rx' = 1 .. n - 1
      /\ \A i \in 1 .. n - 1 : hotshot_rx'[i] = hotshot_rx[i + 1]
  BY <1>1, <1>3, HeadTailProperties, LenProperties
<1> HIDE DEF r, from, to, n, start
<1>7. HandledTo' = to
  <2>1. 1 \in 1 .. n /\ hotshot_rx[1].to = to
    BY <1>3 DEF to
  <2>2. CASE n = 1
    <3>1. hotshot_rx' = <<>>
      BY <1>6, <2>2, EmptySeq
    <3> QED
      BY <1>2, <1>4, <2>1, <2>2, <3>1 DEF HandledTo
  <2>3. CASE n # 1
    <3>1. 1 \in 1 .. n - 1 /\ 1 + 1 = 2
      BY <1>3, <2>3
    <3>2. hotshot_rx' # <<>> /\ hotshot_rx'[1] = hotshot_rx[2]
      BY <1>6, <3>1, EmptySeq
    <3> QED
      BY <1>4, <2>1, <2>3, <3>1, <3>2 DEF HandledTo
  <2> QED
    BY <2>2, <2>3
<1>8. Handled = start .. from - 1 /\ Handled' = start .. to - 1
  BY <1>2, <1>5, <1>7 DEF Handled, start
<1>9. \A h : Block(h)' = Block(h) /\ SeqsAt(h)' = SeqsAt(h)
  BY <1>2 DEF Block, SeqsAt
<1>10. \A h, s : Occurrences(h, s)' = Occurrences(h, s)
  BY <1>2 DEF Occurrences, Block
<1> DEFINE F == Fresh(from, to)
           M(s) == Min(HeightsOf(s, from .. to - 1))
<1>11. /\ DOMAIN queue' \subseteq Nat /\ queue' \in [DOMAIN queue' -> Entry]
       /\ DOMAIN stubs' \subseteq Nat /\ stubs' \in [DOMAIN stubs' -> Nat]
       /\ IsFiniteSet(DOMAIN queue') /\ IsFiniteSet(DOMAIN stubs')
       /\ Cardinality(DOMAIN queue') <= max_full_queue_entries
       /\ DOMAIN queue' \cap DOMAIN stubs' = {}
       /\ DOMAIN queue' \cup DOMAIN stubs' = Known \cup F
       /\ \A s \in DOMAIN queue' :
            \/ s \in DOMAIN queue /\ queue'[s] = queue[s]
            \/ s \in F /\ queue'[s].height = M(s) /\ BackedBy(s, queue'[s])
       /\ \A s \in DOMAIN stubs' :
            \/ s \in Known /\ stubs'[s] = HeightOf(s)
            \/ s \in F /\ stubs'[s] = M(s)
  BY <1>1, <1>5, FilterFacts
<1>12. TypeOK
  BY DEF IInv
<1>13. \A s \in F : /\ M(s) \in from .. to - 1 /\ s \in SeqsAt(M(s))
                    /\ \A g \in from .. to - 1 : s \in SeqsAt(g) => M(s) <= g
                    /\ s \notin Known /\ s >= config.starting_pos
  BY <1>5, <1>12, FirstOccurrence DEF Fresh
<1> HIDE DEF F, M
<1>14. Known' = Known \cup F
  BY <1>11 DEF Known
<1>15. \A s \in Known' :
         \/ s \in Known /\ HeightOf(s)' = HeightOf(s)
         \/ s \in F /\ HeightOf(s)' = M(s)
  BY <1>11, <1>14 DEF HeightOf, Known
<1>16. \A s \in Known : HeightOf(s) \in start .. from - 1 /\ s \in SeqsAt(HeightOf(s))
  BY <1>8 DEF IInv, HeldIsOnEspresso
<1>17. finalized_idx \in Nat /\ \A s \in Known : s \in Nat
  BY DEF IInv, TypeOK, Known
<1>18. HeldIsOnEspresso'
  <2> SUFFICES ASSUME NEW s \in Known'
               PROVE  /\ HeightOf(s)' \in start .. to - 1
                      /\ s \in SeqsAt(HeightOf(s)')
                      /\ s \in DOMAIN queue' => BackedBy(s, queue'[s])
    <3>1. \A s \in DOMAIN queue' : HeightOf(s)' = queue'[s].height
      BY DEF HeightOf
    <3> QED
      BY <1>8, <1>2, <3>1 DEF HeldIsOnEspresso, BackedBy, SeqsAt, Occurrences, Block
  <2>1. HeightOf(s)' \in start .. to - 1 /\ s \in SeqsAt(HeightOf(s)')
    <3>1. CASE s \in Known /\ HeightOf(s)' = HeightOf(s)
      BY <1>3, <1>5, <1>16, <3>1 DEF start
    <3>2. CASE s \in F /\ HeightOf(s)' = M(s)
      BY <1>3, <1>5, <1>13, <3>2 DEF start
    <3> QED
      BY <1>15, <3>1, <3>2
  <2>2. s \in DOMAIN queue /\ s \in DOMAIN queue' /\ queue'[s] = queue[s] => BackedBy(s, queue'[s])
    BY DEF IInv, HeldIsOnEspresso, BackedBy, HeightOf, Known
  <2> QED
    BY <1>11, <2>1, <2>2
<1>19. NoMessageLost'
  <2> SUFFICES ASSUME NEW h \in start .. to - 1, NEW s \in SeqsAt(h),
                      s >= config.starting_pos, s > finalized_idx
               PROVE  s \in Known'
    BY <1>2, <1>8, <1>9 DEF NoMessageLost
  <2>1. CASE h \in start .. from - 1
    BY <1>8, <1>14, <2>1 DEF IInv, NoMessageLost
  <2>2. CASE h \in from .. to - 1
    BY <1>14, <2>2 DEF Fresh, F
  <2> QED
    BY <1>3, <1>5, <2>1, <2>2
<1>20. FirstInclusionWins'
  <2> SUFFICES ASSUME NEW s \in Known', s > finalized_idx,
                      NEW h \in start .. to - 1, s \in SeqsAt(h)
               PROVE  HeightOf(s)' <= h
    BY <1>2, <1>8, <1>9 DEF FirstInclusionWins
  <2>1. CASE s \in Known /\ HeightOf(s)' = HeightOf(s)
    <3>1. h \in start .. from - 1 => HeightOf(s) <= h
      BY <1>8, <2>1 DEF IInv, FirstInclusionWins
    <3> QED
      BY <1>3, <1>5, <1>16, <2>1, <3>1 DEF start
  <2>2. CASE s \in F /\ HeightOf(s)' = M(s)
    <3>1. h \notin start .. from - 1
      BY <1>8, <1>13, <2>2 DEF IInv, NoMessageLost
    <3>2. h \in from .. to - 1
      BY <1>3, <1>5, <3>1
    <3> QED
      BY <1>13, <2>2, <3>2
  <2> QED
    BY <1>15, <2>1, <2>2
<1>21. /\ scheduled' \in BOOLEAN
       /\ retry_task' \in {"none", "sleeping", "sent"}
       /\ feed' \in Seq(Message)
       /\ unread' \in 0 .. FeedCapacity
       /\ last_broadcast_position' \in Nat
       /\ last_broadcast_position <= last_broadcast_position'
       /\ \A i \in DOMAIN feed' : feed'[i].seq <= last_broadcast_position'
       /\ FeedInOrderWithoutGaps'
       /\ \A i \in DOMAIN feed' :
            \/ i \in DOMAIN feed /\ feed'[i] = feed[i]
            \/ \E s \in DOMAIN queue' :
                 s > last_broadcast_position /\ feed'[i] = FeedMessage(queue', s)
  <2>1. scheduled \in BOOLEAN /\ retry_task \in {"none", "sleeping", "sent"}
    BY <1>12 DEF TypeOK
  <2> QED
    BY <1>1, <1>2, <1>11, <2>1, BroadcastFacts
<1>22. TypeOK'
  <2>1. hotshot_rx' \in Seq([from : Nat, to : Nat]) /\ Len(hotshot_rx') <= HotshotChannelCapacity
    BY <1>3, <1>6, BoundsAssumption DEF n
  <2> QED
    BY <1>2, <1>11, <1>12, <1>21, <2>1 DEF TypeOK
<1>23. PollerCoversEveryHeight'
  <2>1. \A i \in 1 .. n - 1 :
           /\ i + 1 \in 1 .. n
           /\ (i = n - 1) <=> (i + 1 = n)
           /\ i # n - 1 => i + 1 \in 1 .. n - 1
    <3>1. n \in Nat
      BY <1>3
    <3> QED
      BY <3>1
  <2>2. \A i \in 1 .. n - 1 :
           /\ start <= hotshot_rx'[i].from
           /\ hotshot_rx'[i].from < hotshot_rx'[i].to
           /\ hotshot_rx'[i].to <= from_block
           /\ hotshot_rx'[i].to = IF i = n - 1 THEN from_block ELSE hotshot_rx'[i + 1].from
    BY Zenon, <1>4, <1>6, <2>1
  <2> QED
    BY <1>2, <1>4, <1>6, <2>2 DEF PollerCoversEveryHeight, start
<1>24. FeedFollowsEspresso'
  <2>1. /\ Handled \subseteq Handled'
        /\ \A h \in Handled : \A g \in Handled' : g \in Handled \/ h <= g
    BY <1>3, <1>5, <1>8
  <2> QED
    BY <1>2, <1>18, <1>20, <1>21, <1>22, <2>1, FeedFollowsStep
<1>25. QueueWithinCap'
  BY <1>11 DEF QueueWithinCap
<1>26. finalized_idx' <= last_broadcast_position' /\ finalized_idx' <= l1_idx'
  BY <1>2, <1>17, <1>21 DEF IInv, TypeOK
<1>27. KeepsWhatIsNotFinal
  BY <1>2, <1>14, <1>17, <1>21 DEF KeepsWhatIsNotFinal
<1> QED
  BY <1>11, <1>18, <1>19, <1>20, <1>21, <1>22, <1>23, <1>24, <1>25, <1>26, <1>27 DEF IInv

\* A broadcast from the unchanged queue, by empty blocks or by the retry arm.
LEMMA BroadcastOnlyIInv ==
  ASSUME IInv, NEW w \in BOOLEAN, NEW task \in {"none", "sleeping", "sent"},
         TryBroadcast(queue, w, task),
         UNCHANGED <<espressoVars, pollerVars, queueVars, l1Vars>>
  PROVE  IInv' /\ KeepsWhatIsNotFinal
<1>1. UNCHANGED <<chain, config, from_block, hotshot_rx, queue, stubs, finalized_idx,
                  l1_idx, l1_changed>>
  BY DEF espressoVars, pollerVars, queueVars, l1Vars
<1>2. TypeOK
  BY DEF IInv
<1>3. Handled' = Handled /\ \A h \in Handled : Block(h)' = Block(h)
  BY <1>1 DEF Handled, HandledTo, Block
<1>4. /\ (IsFiniteSet(DOMAIN queue) /\ IsFiniteSet(DOMAIN stubs))'
      /\ QueueWithinCap'
      /\ NoMessageLost'
      /\ FirstInclusionWins'
      /\ HeldIsOnEspresso'
  BY <1>1, <1>3, HeldFrame
<1>5. /\ scheduled' \in BOOLEAN
      /\ retry_task' \in {"none", "sleeping", "sent"}
      /\ feed' \in Seq(Message)
      /\ unread' \in 0 .. FeedCapacity
      /\ last_broadcast_position' \in Nat
      /\ last_broadcast_position <= last_broadcast_position'
      /\ \A i \in DOMAIN feed' : feed'[i].seq <= last_broadcast_position'
      /\ FeedInOrderWithoutGaps'
      /\ \A i \in DOMAIN feed' :
           \/ i \in DOMAIN feed /\ feed'[i] = feed[i]
           \/ \E s \in DOMAIN queue :
                s > last_broadcast_position /\ feed'[i] = FeedMessage(queue, s)
  <2>1. DOMAIN queue \subseteq Nat /\ queue \in [DOMAIN queue -> Entry]
    BY <1>2 DEF TypeOK
  <2> QED
    BY <1>1, <2>1, BroadcastFacts
<1>6. TypeOK'
  BY <1>1, <1>2, <1>5 DEF TypeOK
<1>7. PollerCoversEveryHeight'
  BY <1>1 DEF IInv, PollerCoversEveryHeight
<1>8. FeedFollowsEspresso'
  BY <1>1, <1>3, <1>4, <1>5, <1>6, FeedFollowsStep
<1>9. finalized_idx' <= last_broadcast_position' /\ finalized_idx' <= l1_idx'
  BY <1>1, <1>5 DEF IInv, TypeOK
<1>10. KeepsWhatIsNotFinal
  BY <1>1, <1>2, <1>5 DEF KeepsWhatIsNotFinal, Known, TypeOK
<1> QED
  BY <1>4, <1>5, <1>6, <1>7, <1>8, <1>9, <1>10 DEF IInv

\* Retry timer, relay and L1 index matter little to the invariant: they may move
\* within their types, the index only up.
LEMMA FrameIInv ==
  ASSUME IInv,
         UNCHANGED <<chain, config, from_block, hotshot_rx, queue, stubs, finalized_idx,
                     last_broadcast_position, scheduled, feed>>,
         retry_task' \in {"none", "sleeping", "sent"}, unread' \in 0 .. FeedCapacity,
         l1_idx' \in Nat, l1_idx <= l1_idx', l1_changed' \in BOOLEAN
  PROVE  IInv'
<1>3. Handled' = Handled /\ \A h \in Handled : Block(h)' = Block(h)
  BY DEF Handled, HandledTo, Block
<1>4. /\ (IsFiniteSet(DOMAIN queue) /\ IsFiniteSet(DOMAIN stubs))'
      /\ QueueWithinCap'
      /\ NoMessageLost'
      /\ FirstInclusionWins'
      /\ HeldIsOnEspresso'
      /\ FeedFollowsEspresso'
  BY <1>3, HeldFrame
<1>5. TypeOK'
  BY DEF IInv, TypeOK
<1>6. PollerCoversEveryHeight'
  BY DEF IInv, PollerCoversEveryHeight
<1>7. /\ finalized_idx' <= last_broadcast_position' /\ finalized_idx' <= l1_idx'
      /\ \A i \in DOMAIN feed' : feed'[i].seq <= last_broadcast_position'
      /\ FeedInOrderWithoutGaps'
  <2>1. finalized_idx <= l1_idx /\ finalized_idx \in Nat /\ l1_idx \in Nat
    BY DEF IInv, TypeOK
  <2>2. finalized_idx' <= l1_idx'
    BY <2>1
  <2> QED
    BY <2>2 DEF IInv, FeedInOrderWithoutGaps
<1> QED
  BY <1>4, <1>5, <1>6, <1>7 DEF IInv

\* The steps that only move the retry timer, the relay's backlog of unread
\* messages or the L1 index leave everything the invariant relates alone.
LEMMA EnvironmentIInv ==
  ASSUME IInv, RetryTimer \/ RelayRecv \/ L1Update \/ UNCHANGED vars
  PROVE  IInv'
<1>1. UNCHANGED <<chain, config, from_block, hotshot_rx, queue, stubs, finalized_idx,
                  last_broadcast_position, scheduled, feed>>
  BY DEF RetryTimer, RelayRecv, L1Update, vars, espressoVars, pollerVars, queueVars,
         feedVars, l1Vars
<1>2. /\ retry_task' \in {"none", "sleeping", "sent"} /\ unread' \in 0 .. FeedCapacity
      /\ l1_idx' \in Nat /\ l1_idx <= l1_idx' /\ l1_changed' \in BOOLEAN
  <2>1. /\ retry_task \in {"none", "sleeping", "sent"} /\ unread \in 0 .. FeedCapacity
        /\ l1_idx \in Nat /\ l1_changed \in BOOLEAN
    BY DEF IInv, TypeOK
  <2>2. CASE RetryTimer
    BY <2>1, <2>2 DEF RetryTimer, l1Vars
  <2>3. CASE RelayRecv
    BY <2>1, <2>3, BoundsAssumption DEF RelayRecv, l1Vars
  <2>4. CASE L1Update
    BY <2>1, <2>4, BoundsAssumption DEF L1Update, feedVars
  <2>5. CASE UNCHANGED vars
    BY <2>1, <2>5 DEF vars, feedVars, l1Vars
  <2> QED
    BY <2>2, <2>3, <2>4, <2>5
<1> QED
  BY <1>1, <1>2, FrameIInv

\* Finality drops what is at or below the index, and promotion turns stubs into
\* entries without adding or losing a number.
LEMMA HandleFinalizationIInv ==
  ASSUME IInv, NEW fetched \in BOOLEAN, HandleFinalization(fetched)
  PROVE  IInv' /\ KeepsWhatIsNotFinal
<1>1. UNCHANGED <<chain, config, from_block, hotshot_rx, scheduled, retry_task, feed,
                  unread, l1_idx>>
  BY DEF HandleFinalization, espressoVars, pollerVars
<1>2. TypeOK
  BY DEF IInv
<1>3. /\ finalized_idx \in Nat /\ last_broadcast_position \in Nat /\ l1_idx \in Nat
      /\ finalized_idx <= last_broadcast_position /\ finalized_idx <= l1_idx
      /\ DOMAIN queue \subseteq Nat /\ queue \in [DOMAIN queue -> Entry]
      /\ DOMAIN stubs \subseteq Nat /\ stubs \in [DOMAIN stubs -> Nat]
      /\ IsFiniteSet(DOMAIN queue) /\ IsFiniteSet(DOMAIN stubs)
      /\ Cardinality(DOMAIN queue) <= max_full_queue_entries
      /\ DOMAIN queue \cap DOMAIN stubs = {}
  BY <1>2 DEF IInv, TypeOK, QueueWithinCap
<1>4. /\ last_broadcast_position' \in Nat
      /\ last_broadcast_position <= last_broadcast_position'
      /\ l1_idx <= last_broadcast_position'
      /\ last_broadcast_position' = l1_idx \/ last_broadcast_position' = last_broadcast_position
  <2>1. {l1_idx, last_broadcast_position} \subseteq Nat
    BY <1>3
  <2>2. \A x \in {l1_idx, last_broadcast_position} :
          x <= l1_idx + last_broadcast_position
    BY <1>3
  <2>3. last_broadcast_position' = Max({l1_idx, last_broadcast_position})
    BY DEF HandleFinalization
  <2>4. /\ last_broadcast_position' \in {l1_idx, last_broadcast_position}
        /\ \A y \in {l1_idx, last_broadcast_position} : y <= last_broadcast_position'
    <3> DEFINE X == {l1_idx, last_broadcast_position}
               b == l1_idx + last_broadcast_position
    <3>1. X \in SUBSET Nat /\ X # {} /\ b \in Nat /\ \A x \in X : x <= b
      BY <1>3, <2>1, <2>2
    <3> HIDE DEF X, b
    <3>2. Max(X) \in X /\ \A y \in X : y <= Max(X)
      BY <3>1, MaxOfBounded
    <3> QED
      BY <2>3, <3>2 DEF X
  <2> QED
    BY <1>3, <2>4
<1>5. Handled' = Handled /\ \A h : Block(h)' = Block(h) /\ SeqsAt(h)' = SeqsAt(h)
  BY <1>1 DEF Handled, HandledTo, Block, SeqsAt
<1>6. l1_changed' \in BOOLEAN
  BY Zenon DEF HandleFinalization
<1>7. PollerCoversEveryHeight'
  BY <1>1 DEF IInv, PollerCoversEveryHeight
<1>8. FeedFollowsEspresso'
  BY <1>1, <1>5 DEF IInv, FeedFollowsEspresso, Occurrences, Block
<1>9. \A i \in DOMAIN feed' : feed'[i].seq <= last_broadcast_position'
  <2>1. ASSUME NEW i \in DOMAIN feed PROVE feed[i].seq \in Nat /\ feed[i].seq <= last_broadcast_position
    <3>1. feed \in Seq(Message)
      BY <1>2 DEF TypeOK
    <3>2. feed[i] \in Message
      BY <3>1, LenProperties, ElementOfSeq
    <3> QED
      BY <3>2 DEF Message, IInv
  <2> QED
    BY <1>1, <1>3, <1>4, <2>1
<1>10. finalized_idx' = l1_idx => FeedInOrderWithoutGaps'
  BY <1>1, <1>3, <1>4 DEF IInv, FeedInOrderWithoutGaps
<1>11. CASE l1_idx <= finalized_idx
  <2>1. UNCHANGED <<queue, stubs, finalized_idx>>
    BY <1>11 DEF HandleFinalization, queueVars
  <2>2. finalized_idx' = l1_idx
    BY <1>3, <1>11, <2>1
  <2>3. /\ (IsFiniteSet(DOMAIN queue) /\ IsFiniteSet(DOMAIN stubs))'
        /\ QueueWithinCap'
        /\ NoMessageLost'
        /\ FirstInclusionWins'
        /\ HeldIsOnEspresso'
    BY <1>1, <1>5, <2>1, HeldFrame
  <2>4. TypeOK'
    BY <1>1, <1>2, <1>4, <1>6, <2>1 DEF TypeOK
  <2>5. finalized_idx' <= last_broadcast_position' /\ finalized_idx' <= l1_idx'
    BY <1>1, <1>3, <1>4, <2>2
  <2>6. KeepsWhatIsNotFinal
    BY <1>3, <1>4, <2>1 DEF KeepsWhatIsNotFinal, Known
  <2> QED
    BY <1>7, <1>8, <1>9, <1>10, <2>2, <2>3, <2>4, <2>5, <2>6 DEF IInv
<1>12. CASE ~ (l1_idx <= finalized_idx)
  <2> DEFINE Q == {s \in DOMAIN queue : s > l1_idx}
             S == {s \in DOMAIN stubs : s > l1_idx}
             q == Restrict(queue, Q)
             st == Restrict(stubs, S)
  <2>1. /\ finalized_idx' = l1_idx
        /\ queue' = IF fetched THEN PromotedQueue(q, st) ELSE q
        /\ stubs' = IF fetched THEN PromotedStubs(q, st) ELSE st
    BY <1>12 DEF HandleFinalization
  <2>2. /\ DOMAIN q = Q /\ DOMAIN st = S
        /\ \A s \in Q : q[s] = queue[s]
        /\ \A s \in S : st[s] = stubs[s]
    BY DEF Restrict
  <2>3. /\ q \in [Q -> Entry] /\ st \in [S -> Nat]
        /\ Q \subseteq DOMAIN queue /\ S \subseteq DOMAIN stubs
    BY <1>3, <2>2 DEF Restrict
  <2>4. /\ IsFiniteSet(Q) /\ IsFiniteSet(S) /\ Cardinality(Q) <= max_full_queue_entries
    <3>1. IsFiniteSet(Q) /\ IsFiniteSet(S) /\ Cardinality(Q) <= Cardinality(DOMAIN queue)
      BY <1>3, <2>3, FS_Subset
    <3>2. Cardinality(Q) \in Nat /\ Cardinality(DOMAIN queue) \in Nat
      BY <1>3, <3>1, FS_CardinalityType
    <3> QED
      BY <1>3, <3>1, <3>2, QueueAssumption
  <2>5. \A s \in Known : HeightOf(s) \in Handled /\ s \in SeqsAt(HeightOf(s))
    BY DEF IInv, HeldIsOnEspresso
  <2>6. \A s \in S : st[s] = HeightOf(s) /\ s \in Known
    BY <1>3, <2>2, <2>3 DEF HeightOf, Known
  <2>7. \A s \in S : st[s] \in 0 .. Len(chain) - 1 /\ s \in SeqsAt(st[s])
    BY <2>5, <2>6, HandledFacts
  <2>8. Q \cap S = {}
    BY <1>3, <2>3
  <2> HIDE DEF q, st, Q, S
  <2>9. Q \subseteq Nat /\ S \subseteq Nat
    BY <1>3, <2>3
  <2>10. /\ DOMAIN queue' \subseteq Nat /\ queue' \in [DOMAIN queue' -> Entry]
         /\ DOMAIN stubs' \subseteq Nat /\ stubs' \in [DOMAIN stubs' -> Nat]
         /\ IsFiniteSet(DOMAIN queue') /\ IsFiniteSet(DOMAIN stubs')
         /\ Cardinality(DOMAIN queue') <= max_full_queue_entries
         /\ DOMAIN queue' \cap DOMAIN stubs' = {}
         /\ DOMAIN queue' \cup DOMAIN stubs' = Q \cup S
         /\ \A s \in DOMAIN queue' :
              \/ s \in Q /\ queue'[s] = q[s]
              \/ s \in S /\ queue'[s].height = st[s] /\ BackedBy(s, queue'[s])
         /\ \A s \in DOMAIN stubs' : s \in S /\ stubs'[s] = st[s]
    <3>1. CASE fetched
      <4>1. queue' = PromotedQueue(q, st) /\ stubs' = PromotedStubs(q, st)
        BY <2>1, <3>1
      <4>2. IsFiniteSet(DOMAIN q) /\ IsFiniteSet(DOMAIN st)
            /\ Cardinality(DOMAIN q) <= max_full_queue_entries
        BY <2>2, <2>4, Zenon
      <4>3. /\ DOMAIN q \subseteq Nat /\ q \in [DOMAIN q -> Entry]
            /\ DOMAIN st \subseteq Nat /\ st \in [DOMAIN st -> Nat]
            /\ DOMAIN q \cap DOMAIN st = {}
            /\ \A s \in DOMAIN st : st[s] \in 0 .. Len(chain) - 1 /\ s \in SeqsAt(st[s])
        BY <2>2, <2>3, <2>7, <2>8, <2>9
      <4>4. /\ DOMAIN queue' \subseteq Nat /\ queue' \in [DOMAIN queue' -> Entry]
            /\ DOMAIN stubs' \subseteq Nat /\ stubs' \in [DOMAIN stubs' -> Nat]
            /\ IsFiniteSet(DOMAIN queue') /\ IsFiniteSet(DOMAIN stubs')
            /\ Cardinality(DOMAIN queue') <= max_full_queue_entries
            /\ DOMAIN queue' \cap DOMAIN stubs' = {}
            /\ DOMAIN queue' \cup DOMAIN stubs' = DOMAIN q \cup DOMAIN st
            /\ \A s \in DOMAIN queue' :
                 \/ s \in DOMAIN q /\ queue'[s] = q[s]
                 \/ s \in DOMAIN st /\ queue'[s].height = st[s] /\ BackedBy(s, queue'[s])
            /\ \A s \in DOMAIN stubs' : s \in DOMAIN st /\ stubs'[s] = st[s]
        BY <1>2, <4>1, <4>2, <4>3, PromoteFacts
      <4> QED
        BY <2>2, <4>4, Zenon
    <3>2. CASE ~ fetched
      <4>1. queue' = q /\ stubs' = st
        BY <2>1, <3>2
      <4>2. IsFiniteSet(DOMAIN queue') /\ IsFiniteSet(DOMAIN stubs')
            /\ Cardinality(DOMAIN queue') <= max_full_queue_entries
        BY <2>2, <2>4, <4>1, Zenon
      <4> QED
        BY <2>2, <2>3, <2>8, <2>9, <4>1, <4>2
    <3> QED
      BY <3>1, <3>2
  <2>11. Known' = Q \cup S /\ Known' \subseteq Known
    BY <2>3, <2>10 DEF Known
  <2>12. \A s \in Known' : HeightOf(s)' = HeightOf(s)
    <3>1. \A s \in Q : q[s].height = HeightOf(s)
      BY <2>2, <2>3 DEF HeightOf
    <3> QED
      BY <2>6, <2>10, <2>11, <3>1 DEF HeightOf, Known
  <2>13. HeldIsOnEspresso'
    <3> SUFFICES ASSUME NEW s \in Known'
                 PROVE  /\ HeightOf(s)' \in Handled
                        /\ s \in SeqsAt(HeightOf(s)')
                        /\ s \in DOMAIN queue' => BackedBy(s, queue'[s])
      <4>1. \A s \in DOMAIN queue' : HeightOf(s)' = queue'[s].height
        BY DEF HeightOf
      <4> QED
        BY <1>1, <1>5, <4>1 DEF HeldIsOnEspresso, BackedBy, SeqsAt, Occurrences, Block
    <3>1. HeightOf(s)' \in Handled /\ s \in SeqsAt(HeightOf(s)')
      BY <2>5, <2>11, <2>12
    <3>2. ASSUME s \in Q, queue'[s] = q[s] PROVE BackedBy(s, queue'[s])
      <4>1. s \in DOMAIN queue /\ queue'[s] = queue[s]
        BY <2>2, <2>3, <3>2
      <4>2. HeightOf(s) = queue[s].height /\ s \in Known
        BY <4>1 DEF HeightOf, Known
      <4>3. \E i \in Occurrences(HeightOf(s), s) : queue[s].msg = Block(HeightOf(s))[i].msg
        BY <4>1, <4>2 DEF IInv, HeldIsOnEspresso
      <4> QED
        BY <4>1, <4>2, <4>3 DEF BackedBy
    <3> QED
      BY <2>10, <3>1, <3>2
  <2>14. NoMessageLost'
    <3> SUFFICES ASSUME NEW h \in Handled, NEW s \in SeqsAt(h),
                        s >= config.starting_pos, s > l1_idx
                 PROVE  s \in Known'
      BY <1>1, <1>5, <2>1 DEF NoMessageLost
    <3>1. s \in Nat
      <4>1. UNION {SeqsAt(g) : g \in 0 .. Len(chain) - 1} \subseteq Nat
        <5>1. 0 \in Nat /\ Len(chain) \in Nat /\ Len(chain) <= Len(chain)
          BY HandledFacts
        <5> QED
          BY Zenon, <1>2, <5>1, SeqsFinite
      <4>2. h \in 0 .. Len(chain) - 1
        BY HandledFacts
      <4> QED
        BY <4>1, <4>2
    <3>2. s > finalized_idx
      BY <1>3, <3>1
    <3>3. s \in Known
      BY <3>2 DEF IInv, NoMessageLost
    <3> QED
      BY <2>11, <3>3 DEF Known, Q, S
  <2>15. FirstInclusionWins'
    <3> SUFFICES ASSUME NEW s \in Known', s > l1_idx, NEW h \in Handled, s \in SeqsAt(h)
                 PROVE  HeightOf(s) <= h
      BY <1>5, <2>1, <2>12 DEF FirstInclusionWins
    <3>1. s \in Known /\ s \in Nat
      BY <1>3, <2>11 DEF Known
    <3>2. s > finalized_idx
      BY <1>3, <3>1
    <3> QED
      BY <3>1, <3>2 DEF IInv, FirstInclusionWins
  <2>16. TypeOK'
    BY <1>1, <1>2, <1>3, <1>4, <1>6, <2>1, <2>10 DEF TypeOK
  <2>17. finalized_idx' <= last_broadcast_position' /\ finalized_idx' <= l1_idx'
    BY <1>1, <1>3, <1>4, <2>1
  <2>18. QueueWithinCap'
    BY <2>10 DEF QueueWithinCap
  <2>19. KeepsWhatIsNotFinal
    <3>1. \A s \in Known : s \in Nat /\ (s \in Q \/ s \in S \/ s <= l1_idx)
      BY <1>3 DEF Known, Q, S
    <3> QED
      BY <1>3, <1>4, <2>1, <2>11, <3>1 DEF KeepsWhatIsNotFinal
  <2> QED
    BY <1>7, <1>8, <1>9, <1>10, <2>1, <2>10, <2>13, <2>14, <2>15, <2>16, <2>17, <2>18, <2>19 DEF IInv
<1> QED
  BY <1>11, <1>12
=============================================================================
