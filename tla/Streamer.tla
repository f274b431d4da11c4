------------------------------ MODULE Streamer ------------------------------
(***************************************************************************)
(* The streamer (src/streamer/streamer.rs): it polls finalized Espresso    *)
(* blocks, keeps the rollup messages that L1 has not finalized yet in a    *)
(* bounded queue (overflow goes to stubs), hands contiguous messages to    *)
(* the feed relay, and drops what L1 has finalized.                        *)
(*                                                                         *)
(* The streamer task and the feed relay are futures of one select! in      *)
(* main.rs, so a handler runs without interleaving up to its awaits and    *)
(* nobody else reads the streamer's fields: each handler is one action.    *)
(* The poller and the retry timer are spawned tasks with actions of their  *)
(* own.                                                                    *)
(*                                                                         *)
(* The queue is a Vec sorted by sequence number without repetition; it is  *)
(* modelled as a function from sequence numbers to entries.  StreamerLoops *)
(* checks the closed forms below against the code's loops over the Vec.    *)
(***************************************************************************)
EXTENDS Integers, Sequences, FiniteSets, FiniteSetsExt, Functions

CONSTANTS
  Msg,              \* contents of a feed message
  BlockContents,    \* what the rollup's namespace of one Espresso block may hold
  MaxBlocks,        \* bound: Espresso blocks produced
  MaxIdx,           \* bound: message index L1 may finalize
  StartingPositions,        \* values of config.starting_pos
  StartingHeights,          \* values of config.starting_hotshot_height
  max_full_queue_entries,   \* StreamerConfig::max_full_queue_entries
  HOTSHOT_RANGE_LIMIT,      \* 100 in the code
  HotshotChannelCapacity,   \* hotshot_transaction_channel_capacity
  FeedCapacity              \* espresso_finalized_message_channel_capacity

Message == [seq : Nat, msg : Msg]

ASSUME BlocksAssumption == BlockContents \subseteq Seq(Message)
ASSUME StartAssumption == StartingPositions \subseteq Nat /\ StartingHeights \subseteq Nat
ASSUME QueueAssumption == max_full_queue_entries \in Nat
ASSUME BoundsAssumption ==
  /\ MaxBlocks \in Nat
  /\ MaxIdx \in Nat
  /\ HOTSHOT_RANGE_LIMIT \in Nat \ {0}
  /\ HotshotChannelCapacity \in Nat \ {0}
  /\ FeedCapacity \in Nat \ {0}

VARIABLES
  chain,        \* Espresso (external): the block of height h is chain[h + 1]
  config,       \* starting_pos and starting_hotshot_height, fixed at start
  from_block,   \* poller: next height to fetch
  hotshot_rx,   \* poller -> streamer channel: ranges [from, to) of heights
  queue,        \* sequence number -> [height, msg]
  stubs,        \* sequence number -> height
  finalized_idx,
  last_broadcast_position,
  scheduled,    \* BroadcastRetry::scheduled
  retry_task,   \* the spawned retry: "none", "sleeping", or "sent" its signal
  feed,         \* every message ever sent to the feed relay, in order
  unread,       \* how many of them are still in the channel
  l1_idx,       \* value of the watch channel of the L1 monitor
  l1_changed    \* the streamer has not seen that value yet

espressoVars == <<chain, config>>
pollerVars == <<from_block, hotshot_rx>>
queueVars == <<queue, stubs, finalized_idx>>
feedVars == <<last_broadcast_position, scheduled, retry_task, feed, unread>>
l1Vars == <<l1_idx, l1_changed>>
vars == <<chain, config, from_block, hotshot_rx, queue, stubs, finalized_idx,
          last_broadcast_position, scheduled, retry_task, feed, unread,
          l1_idx, l1_changed>>

-----------------------------------------------------------------------------
(* Espresso blocks and the rollup entries parsed from them.                *)

Block(h) == chain[h + 1]

\* The places in block h that hold a message with number s.
Occurrences(h, s) == {i \in DOMAIN Block(h) : Block(h)[i].seq = s}

SeqsAt(h) == {Block(h)[i].seq : i \in DOMAIN Block(h)}

\* Heights of H at which s occurs.
HeightsOf(s, H) == {h \in H : s \in SeqsAt(h)}

FirstAt(h, s) == [height |-> h, msg |-> Block(h)[Min(Occurrences(h, s))].msg]
LastAt(h, s) == [height |-> h, msg |-> Block(h)[Max(Occurrences(h, s))].msg]

\* The n smallest numbers of S.
Lowest(S, n) == {s \in S : Cardinality({t \in S : t < s}) < n}

Known == DOMAIN queue \cup DOMAIN stubs

-----------------------------------------------------------------------------
(* filter_messages over the entries of blocks [from, to).  Numbers below   *)
(* starting_pos, in the queue or in stubs are skipped; of a new number the *)
(* first occurrence is inserted.  Each insertion past the cap pops the     *)
(* tail into stubs, which leaves the smallest numbers in the queue.        *)

\* Mutant: the test for an existing stub is missing.
FreshIgnoringStubs(from, to) ==
  {s \in UNION {SeqsAt(h) : h \in from .. to - 1} :
     s >= config.starting_pos /\ s \notin DOMAIN queue}

Fresh(from, to) ==
  {s \in UNION {SeqsAt(h) : h \in from .. to - 1} :
     s >= config.starting_pos /\ s \notin Known}

\* Mutant: a message that is included again replaces the queued one.
MergedOverwriting(from, to) ==
  [s \in DOMAIN queue \cup Fresh(from, to) |->
     IF HeightsOf(s, from .. to - 1) = {} THEN queue[s]
     ELSE FirstAt(Min(HeightsOf(s, from .. to - 1)), s)]

Merged(from, to) ==
  [s \in DOMAIN queue \cup Fresh(from, to) |->
     IF s \in DOMAIN queue THEN queue[s]
     ELSE FirstAt(Min(HeightsOf(s, from .. to - 1)), s)]

FilteredQueue(from, to) ==
  LET all == Merged(from, to)
  IN  Restrict(all, Lowest(DOMAIN all, max_full_queue_entries))

\* Mutant: an entry that was queued before is evicted without a stub.
FilteredStubsOfNewOnly(from, to) ==
  LET all == Merged(from, to)
      evicted == Fresh(from, to) \ Lowest(DOMAIN all, max_full_queue_entries)
  IN  [s \in DOMAIN stubs \cup evicted |->
         IF s \in DOMAIN stubs THEN stubs[s] ELSE all[s].height]

FilteredStubs(from, to) ==
  LET all == Merged(from, to)
      evicted == DOMAIN all \ Lowest(DOMAIN all, max_full_queue_entries)
  IN  [s \in DOMAIN stubs \cup evicted |->
         IF s \in DOMAIN stubs THEN stubs[s] ELSE all[s].height]

-----------------------------------------------------------------------------
(* promote_stubs, on the queue q and the stubs st that handle_finalization *)
(* leaves.                                                                 *)

\* Mutant: off by one.
RoomAtCap(q) ==
  IF Cardinality(DOMAIN q) <= max_full_queue_entries
  THEN max_full_queue_entries - Cardinality(DOMAIN q) + 1 ELSE 0

\* Mutant: the room is computed before the finalized entries are drained.
RoomBeforeDraining(q) ==
  IF Cardinality(DOMAIN queue) < max_full_queue_entries
  THEN max_full_queue_entries - Cardinality(DOMAIN queue) ELSE 0

Room(q) ==
  IF Cardinality(DOMAIN q) < max_full_queue_entries
  THEN max_full_queue_entries - Cardinality(DOMAIN q) ELSE 0

ToPromote(q, st) == Lowest(DOMAIN st, Room(q))

\* Heights are fetched in groups: a group starts at a height that no earlier
\* group start reaches, and covers every block up to the last height of H it
\* does reach.
GroupStarts(H) ==
  CHOOSE G \in SUBSET H :
    \A h \in H : h \in G <=> ~ \E g \in G : g < h /\ h - g < HOTSHOT_RANGE_LIMIT

Refetched(H) ==
  UNION {g .. Max({h \in H : g <= h /\ h - g < HOTSHOT_RANGE_LIMIT}) : g \in GroupStarts(H)}

RefetchedFor(q, st) == Refetched({st[s] : s \in ToPromote(q, st)})

Found(s, R) == HeightsOf(s, R) # {}

\* fetched.insert keeps the last occurrence in the re-fetched blocks.
FetchedHeight(s, R) == Max(HeightsOf(s, R))

\* In order of number: a height that differs from the stub's ends the loop,
\* a number that is not found keeps its stub.
Promoted(q, st) ==
  LET R == RefetchedFor(q, st)
      Mismatch(s) == Found(s, R) /\ FetchedHeight(s, R) # st[s]
  IN  {s \in ToPromote(q, st) :
         Found(s, R) /\ \A t \in ToPromote(q, st) : t <= s => ~ Mismatch(t)}

PromotedQueue(q, st) ==
  [s \in DOMAIN q \cup Promoted(q, st) |->
     IF s \in DOMAIN q THEN q[s] ELSE LastAt(st[s], s)]

\* Mutant: the stubs are removed before the entries are compared.
PromotedStubsTakenFirst(q, st) == Restrict(st, DOMAIN st \ ToPromote(q, st))

PromotedStubs(q, st) == Restrict(st, DOMAIN st \ Promoted(q, st))

-----------------------------------------------------------------------------
(* try_broadcast_feed_message: send the entries that follow                *)
(* last_broadcast_position without a gap while the channel has room; if it *)
(* is full, schedule a retry (unless one is).                              *)

FeedMessage(q, s) == [seq |-> s, msg |-> q[s].msg]

\* Mutant: the position advances also for the message that found no room.
TryBroadcastSkipping(q, wasScheduled, task) ==
  \E last \in last_broadcast_position .. last_broadcast_position + (FeedCapacity - unread) :
    LET blocked == last + 1 \in DOMAIN q
    IN  /\ \A s \in last_broadcast_position + 1 .. last : s \in DOMAIN q
        /\ blocked => last = last_broadcast_position + (FeedCapacity - unread)
        /\ scheduled' = (wasScheduled \/ blocked)
        /\ retry_task' = IF blocked /\ ~ wasScheduled THEN "sleeping" ELSE task
        /\ feed' = feed \o [i \in 1 .. last - last_broadcast_position |->
                              FeedMessage(q, last_broadcast_position + i)]
        /\ unread' = unread + (last - last_broadcast_position)
        /\ last_broadcast_position' = IF blocked THEN last + 1 ELSE last

TryBroadcast(q, wasScheduled, task) ==
  \E last \in last_broadcast_position .. last_broadcast_position + (FeedCapacity - unread) :
    LET blocked == last + 1 \in DOMAIN q
    IN  /\ \A s \in last_broadcast_position + 1 .. last : s \in DOMAIN q
        /\ blocked => last = last_broadcast_position + (FeedCapacity - unread)
        /\ scheduled' = (wasScheduled \/ blocked)
        /\ retry_task' = IF blocked /\ ~ wasScheduled THEN "sleeping" ELSE task
        /\ feed' = feed \o [i \in 1 .. last - last_broadcast_position |->
                              FeedMessage(q, last_broadcast_position + i)]
        /\ unread' = unread + (last - last_broadcast_position)
        /\ last_broadcast_position' = last

-----------------------------------------------------------------------------
Init ==
  /\ chain = <<>>
  /\ config \in [starting_pos : StartingPositions, starting_hotshot_height : StartingHeights]
  /\ from_block = config.starting_hotshot_height
  /\ hotshot_rx = <<>>
  /\ queue = <<>>
  /\ stubs = <<>>
  /\ finalized_idx = 0
  /\ last_broadcast_position = 0
  /\ scheduled = FALSE
  /\ retry_task = "none"
  /\ feed = <<>>
  /\ unread = 0
  /\ l1_idx = 0
  /\ l1_changed = FALSE

\* External: Espresso finalizes one more block.
EspressoBlock ==
  /\ Len(chain) < MaxBlocks
  /\ \E b \in BlockContents : chain' = Append(chain, b)
  /\ UNCHANGED <<config, pollerVars, queueVars, feedVars, l1Vars>>

\* Mutant: send does not wait for room in the channel.
PollUnbounded ==
  /\ \E latest \in from_block + 1 .. Len(chain) :
       LET to == Min({from_block + HOTSHOT_RANGE_LIMIT, latest})
       IN  /\ hotshot_rx' = Append(hotshot_rx, [from |-> from_block, to |-> to])
           /\ from_block' = to
  /\ UNCHANGED <<espressoVars, queueVars, feedVars, l1Vars>>

\* Mutant: the next round starts at the latest height, past the range limit.
PollFromLatest ==
  /\ Len(hotshot_rx) < HotshotChannelCapacity
  /\ \E latest \in from_block + 1 .. Len(chain) :
       LET to == Min({from_block + HOTSHOT_RANGE_LIMIT, latest})
       IN  /\ hotshot_rx' = Append(hotshot_rx, [from |-> from_block, to |-> to])
           /\ from_block' = latest
  /\ UNCHANGED <<espressoVars, queueVars, feedVars, l1Vars>>

\* One round of poll_hotshot_blocks that fetches and sends a range; the
\* reported height may lag behind the chain, and a round that meets an error,
\* a 404 or no new block changes nothing.
Poll ==
  /\ Len(hotshot_rx) < HotshotChannelCapacity
  /\ \E latest \in from_block + 1 .. Len(chain) :
       LET to == Min({from_block + HOTSHOT_RANGE_LIMIT, latest})
       IN  /\ hotshot_rx' = Append(hotshot_rx, [from |-> from_block, to |-> to])
           /\ from_block' = to
  /\ UNCHANGED <<espressoVars, queueVars, feedVars, l1Vars>>

HandleHotshotTransactions ==
  /\ hotshot_rx # <<>>
  /\ LET r == Head(hotshot_rx)
     IN  /\ queue' = FilteredQueue(r.from, r.to)
         /\ stubs' = FilteredStubs(r.from, r.to)
         /\ TryBroadcast(FilteredQueue(r.from, r.to), scheduled, retry_task)
  /\ hotshot_rx' = Tail(hotshot_rx)
  /\ UNCHANGED <<espressoVars, from_block, finalized_idx, l1Vars>>

\* Mutant: the handler returns early when a range has no entries.
HandleQuietBlocksReturning ==
  /\ Len(chain) = MaxBlocks
  /\ from_block >= MaxBlocks
  /\ hotshot_rx = <<>>
  /\ UNCHANGED vars

\* The blocks after the last one of the bounded chain hold nothing for the
\* rollup.  Their ranges still arrive, and the handler tries to broadcast.
HandleQuietBlocks ==
  /\ Len(chain) = MaxBlocks
  /\ from_block >= MaxBlocks
  /\ hotshot_rx = <<>>
  /\ TryBroadcast(queue, scheduled, retry_task)
  /\ UNCHANGED <<espressoVars, pollerVars, queueVars, l1Vars>>

\* handle_finalization; fetched is whether promote_stubs could re-fetch.
HandleFinalization(fetched) ==
  /\ l1_changed
  /\ l1_changed' = FALSE
  /\ last_broadcast_position' = Max({l1_idx, last_broadcast_position})
  /\ IF l1_idx <= finalized_idx
     THEN UNCHANGED queueVars
     ELSE LET q == Restrict(queue, {s \in DOMAIN queue : s > l1_idx})
              st == Restrict(stubs, {s \in DOMAIN stubs : s > l1_idx})
          IN  /\ finalized_idx' = l1_idx
              /\ queue' = IF fetched THEN PromotedQueue(q, st) ELSE q
              /\ stubs' = IF fetched THEN PromotedStubs(q, st) ELSE st
  /\ UNCHANGED <<espressoVars, pollerVars, scheduled, retry_task, feed, unread, l1_idx>>

\* The task spawned by schedule() wakes up and signals.
RetryTimer ==
  /\ retry_task = "sleeping"
  /\ retry_task' = "sent"
  /\ UNCHANGED <<espressoVars, pollerVars, queueVars, last_broadcast_position,
                 scheduled, feed, unread, l1Vars>>

\* Mutant: the flag is not cleared.
HandleRetryStillScheduled ==
  /\ retry_task = "sent"
  /\ TryBroadcast(queue, scheduled, "none")
  /\ UNCHANGED <<espressoVars, pollerVars, queueVars, l1Vars>>

\* The retry arm of run: clear the flag, then try_broadcast_feed_message,
\* which may schedule again.
HandleRetry ==
  /\ retry_task = "sent"
  /\ TryBroadcast(queue, FALSE, "none")
  /\ UNCHANGED <<espressoVars, pollerVars, queueVars, l1Vars>>

\* The feed relay empties the channel (FeedRelay::start: recv, then try_recv
\* until empty).
RelayRecv ==
  /\ unread > 0
  /\ unread' = 0
  /\ UNCHANGED <<espressoVars, pollerVars, queueVars, last_broadcast_position,
                 scheduled, retry_task, feed, l1Vars>>

\* The L1 monitor publishes the finalized message index; it never decreases,
\* and a new finalized L1 block may leave it as it was.
L1Update ==
  /\ \E idx \in l1_idx .. MaxIdx : l1_idx' = idx
  /\ l1_changed' = TRUE
  /\ UNCHANGED <<espressoVars, pollerVars, queueVars, feedVars>>

Next ==
  \/ EspressoBlock
  \/ Poll
  \/ HandleHotshotTransactions
  \/ HandleQuietBlocks
  \/ \E fetched \in BOOLEAN : HandleFinalization(fetched)
  \/ RetryTimer
  \/ HandleRetry
  \/ RelayRecv
  \/ L1Update

Spec == Init /\ [][Next]_vars

-----------------------------------------------------------------------------
(* Properties.                                                             *)

Entry == [height : Nat, msg : Msg]

\* Every variable has its type; the two bounded channels respect their
\* capacity, and nothing unread is missing from what was sent.
TypeOK ==
  /\ chain \in Seq(BlockContents)
  /\ config \in [starting_pos : StartingPositions, starting_hotshot_height : StartingHeights]
  /\ from_block \in Nat
  /\ hotshot_rx \in Seq([from : Nat, to : Nat])
  /\ Len(hotshot_rx) <= HotshotChannelCapacity
  /\ DOMAIN queue \subseteq Nat /\ queue \in [DOMAIN queue -> Entry]
  /\ DOMAIN stubs \subseteq Nat /\ stubs \in [DOMAIN stubs -> Nat]
  /\ finalized_idx \in Nat
  /\ last_broadcast_position \in Nat
  /\ scheduled \in BOOLEAN
  /\ retry_task \in {"none", "sleeping", "sent"}
  /\ feed \in Seq(Message)
  /\ unread \in 0 .. FeedCapacity
  /\ l1_idx \in Nat
  /\ l1_changed \in BOOLEAN

\* The first height the streamer has not handled yet.
HandledTo == IF hotshot_rx = <<>> THEN from_block ELSE hotshot_rx[1].from

Handled == config.starting_hotshot_height .. HandledTo - 1

HeightOf(s) == IF s \in DOMAIN queue THEN queue[s].height ELSE stubs[s]

\* The queue never holds more than max_full_queue_entries full entries (the
\* doc of Streamer::queue), across insertion, eviction and promotion, and a
\* number is never both a full entry and a stub: an insertion by promote_stubs
\* cannot put a number twice into the sorted Vec.
QueueWithinCap ==
  /\ Cardinality(DOMAIN queue) <= max_full_queue_entries
  /\ DOMAIN queue \cap DOMAIN stubs = {}

\* Nothing read from Espresso is lost: a message from starting_pos on that was
\* in a handled block is a full entry or a stub until L1 has finalized it,
\* whatever eviction, failed or partial promotion happened in between.
NoMessageLost ==
  \A h \in Handled : \A s \in SeqsAt(h) :
    s >= config.starting_pos /\ s > finalized_idx => s \in Known

\* Espresso's order decides: what the streamer holds for a number that L1 has
\* not finalized is from the first handled block that contains the number
\* (filter_messages: "the HotShot height where we first saw a sequence
\* number"), however often the submitter had it included again.
FirstInclusionWins ==
  \A s \in Known : s > finalized_idx =>
    \A h \in Handled : s \in SeqsAt(h) => HeightOf(s) <= h

\* Whatever is held was read from Espresso: the block of the recorded height
\* was handled and contains the number, and a full entry has a content found
\* there.  So promote_stubs always finds the stub again in the re-fetched
\* blocks (its "should be impossible" branch).
HeldIsOnEspresso ==
  \A s \in Known :
    /\ HeightOf(s) \in Handled
    /\ s \in SeqsAt(HeightOf(s))
    /\ s \in DOMAIN queue =>
         \E i \in Occurrences(HeightOf(s), s) : queue[s].msg = Block(HeightOf(s))[i].msg

\* The feed relay receives numbers in strictly increasing order (ws_server.rs,
\* Backlog relies on it), and every number up to last_broadcast_position was
\* sent or is finalized on L1: neither a full channel, nor a retry, nor a gap
\* in the queue makes the feed skip a message.
FeedInOrderWithoutGaps ==
  /\ \A i, j \in DOMAIN feed : i < j => feed[i].seq < feed[j].seq
  /\ \A s \in 1 .. last_broadcast_position :
       s <= finalized_idx \/ \E i \in DOMAIN feed : feed[i].seq = s

\* What is broadcast for a number is a message of the first handled Espresso
\* block with that number.
FeedFollowsEspresso ==
  \A i \in DOMAIN feed :
    \E h \in Handled :
      /\ \E k \in Occurrences(h, feed[i].seq) : Block(h)[k].msg = feed[i].msg
      /\ \A g \in Handled : feed[i].seq \in SeqsAt(g) => h <= g

\* A full feed channel delays a message but does not strand it: whenever a
\* retry counts as scheduled, its task sleeps or has signalled, across the
\* broadcasts of other handlers in between; and at most one is under way.
RetryNotForgotten == scheduled <=> retry_task # "none"

\* The poller hands over every height from starting_hotshot_height on exactly
\* once and in order: the ranges in the channel are not empty, adjoin, end
\* where the poller goes on, and lie within the chain.
PollerCoversEveryHeight ==
  /\ config.starting_hotshot_height <= from_block
  /\ from_block > config.starting_hotshot_height => from_block <= Len(chain)
  /\ \A i \in DOMAIN hotshot_rx :
       /\ config.starting_hotshot_height <= hotshot_rx[i].from
       /\ hotshot_rx[i].from < hotshot_rx[i].to
       /\ hotshot_rx[i].to <= from_block
       /\ hotshot_rx[i].to = IF i = Len(hotshot_rx) THEN from_block ELSE hotshot_rx[i + 1].from

\* The conjunction that is inductive: the invariants above, that the two maps
\* are finite, and what orders the positions of the feed.
IInv ==
  /\ TypeOK
  /\ PollerCoversEveryHeight
  /\ IsFiniteSet(DOMAIN queue) /\ IsFiniteSet(DOMAIN stubs)
  /\ QueueWithinCap
  /\ NoMessageLost
  /\ FirstInclusionWins
  /\ HeldIsOnEspresso
  /\ finalized_idx <= last_broadcast_position
  /\ finalized_idx <= l1_idx
  /\ \A i \in DOMAIN feed : feed[i].seq <= last_broadcast_position
  /\ FeedInOrderWithoutGaps
  /\ FeedFollowsEspresso

KeepsWhatIsNotFinal ==
  /\ \A s \in Known : s \in Known' \/ s <= finalized_idx'
  /\ finalized_idx <= finalized_idx'
  /\ last_broadcast_position <= last_broadcast_position'

\* A message leaves the streamer only by L1 finality, and the two positions
\* that say what is settled never move back.
ForgetsOnlyFinal == [][KeepsWhatIsNotFinal]_vars

\* A queued message that is next in line is broadcast, finalized by L1, or
\* pushed out to stubs, also when it became next in line by a finality jump or
\* a promotion, after which nothing is broadcast until blocks arrive.
NextInLineIsBroadcast ==
  \A s \in 1 .. MaxIdx :
    (s \in DOMAIN queue /\ s = last_broadcast_position + 1)
      ~> (s <= last_broadcast_position \/ s \notin DOMAIN queue)

=============================================================================
