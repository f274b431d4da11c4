--------------------------- MODULE StreamerLoops ---------------------------
(***************************************************************************)
(* The loops of streamer.rs as the code writes them, over the sorted Vec   *)
(* of entries and the BTreeMap of stubs, and the claim that the closed     *)
(* forms of Streamer compute what the loops compute.                       *)
(***************************************************************************)
EXTENDS Streamer, SequencesExt

\* A queue as the Vec the code keeps, and back.
AsVec(q) ==
  [i \in 1 .. Cardinality(DOMAIN q) |->
     LET s == CHOOSE s \in DOMAIN q : Cardinality({t \in DOMAIN q : t < s}) = i - 1
     IN  [seq |-> s, height |-> q[s].height, msg |-> q[s].msg]]

AsQueue(vec) ==
  [s \in {vec[i].seq : i \in DOMAIN vec} |->
     LET e == vec[CHOOSE i \in DOMAIN vec : vec[i].seq = s]
     IN  [height |-> e.height, msg |-> e.msg]]

StrictlySorted(vec) == \A i, j \in DOMAIN vec : i < j => vec[i].seq < vec[j].seq

\* parse_hotshot_transactions: the entries of blocks [from, to) in order, each
\* with the height of its block.
ParseHotshotTransactions(from, to) ==
  FlattenSeq([k \in 1 .. to - from |->
    [i \in DOMAIN Block(from + k - 1) |->
       [seq |-> Block(from + k - 1)[i].seq, height |-> from + k - 1,
        msg |-> Block(from + k - 1)[i].msg]]])

\* Vec::partition_point for "number below s", as a count of entries.
PartitionPoint(vec, s) == Cardinality({i \in DOMAIN vec : vec[i].seq < s})

\* Mutant: promotion pushes to the end of the Vec.
PushBack(vec, e) == Append(vec, e)

InsertSorted(vec, e) == InsertAt(vec, PartitionPoint(vec, e.seq) + 1, e)

\* One round of the loop of filter_messages; st is [vec, stubs].
FilterStep(st, e) ==
  LET pos == PartitionPoint(st.vec, e.seq)
      exists == pos < Len(st.vec) /\ st.vec[pos + 1].seq = e.seq
      inserted == InsertAt(st.vec, pos + 1, e)
      evicted == Last(inserted)
  IN  IF e.seq < config.starting_pos \/ exists \/ e.seq \in DOMAIN st.stubs
      THEN st
      ELSE IF Len(inserted) > max_full_queue_entries
           THEN [vec |-> Front(inserted), stubs |-> st.stubs @@ (evicted.seq :> evicted.height)]
           ELSE [vec |-> inserted, stubs |-> st.stubs]

FilterMessages(vec, st, entries) == FoldLeft(FilterStep, [vec |-> vec, stubs |-> st], entries)

\* The grouping and re-fetching loop of promote_stubs from heights[i] on:
\* a map from the expected numbers to the entry fetched last.
RECURSIVE FetchGroups(_, _, _, _)
FetchGroups(heights, i, expected, fetched) ==
  IF i > Len(heights) THEN fetched
  ELSE LET j == CHOOSE j \in i + 1 .. Len(heights) + 1 :
                  /\ \A k \in i + 1 .. j - 1 : heights[k] - heights[i] < HOTSHOT_RANGE_LIMIT
                  /\ j <= Len(heights) => heights[j] - heights[i] >= HOTSHOT_RANGE_LIMIT
           entries == ParseHotshotTransactions(heights[i], heights[j - 1] + 1)
           insert(map, e) == IF e.seq \in expected THEN (e.seq :> e) @@ map ELSE map
       IN  FetchGroups(heights, j, expected, FoldLeft(insert, fetched, entries))

\* promote_stubs when no fetch fails.
PromoteStubs(vec, st) ==
  LET room == IF Len(vec) < max_full_queue_entries THEN max_full_queue_entries - Len(vec) ELSE 0
      oldest == SubSeq(SetToSortSeq(DOMAIN st, <), 1, Min({room, Cardinality(DOMAIN st)}))
      heights == SetToSortSeq({st[s] : s \in ToSet(oldest)}, <)
      fetched == FetchGroups(heights, 1, ToSet(oldest), <<>>)
      round(acc, s) ==
        IF acc.returned \/ s \notin DOMAIN fetched THEN acc
        ELSE IF fetched[s].height # st[s] THEN [acc EXCEPT !.returned = TRUE]
             ELSE [acc EXCEPT !.vec = InsertSorted(acc.vec, fetched[s]),
                              !.stubs = Restrict(acc.stubs, DOMAIN acc.stubs \ {s})]
  IN  FoldLeft(round, [vec |-> vec, stubs |-> st, returned |-> FALSE], oldest)

\* find_contiguous_entries_after
FindContiguousEntriesAfter(vec, last_pos) ==
  LET start == Cardinality({i \in DOMAIN vec : vec[i].seq <= last_pos})
      round(acc, i) ==
        IF ~ acc.broke /\ vec[i].seq = last_pos + Len(acc.result) + 1
        THEN [acc EXCEPT !.result = Append(@, vec[i])]
        ELSE [acc EXCEPT !.broke = TRUE]
  IN  FoldLeft(round, [result |-> <<>>, broke |-> FALSE],
               [k \in 1 .. Len(vec) - start |-> start + k]).result

-----------------------------------------------------------------------------
\* filter_messages run entry by entry over the Vec leaves the queue and the
\* stubs that the closed form says, and leaves the Vec sorted and free of
\* repetition (the doc of Streamer::queue), for every range that is handled.
FilterLoopAgrees ==
  hotshot_rx # <<>> =>
    LET r == Head(hotshot_rx)
        out == FilterMessages(AsVec(queue), stubs, ParseHotshotTransactions(r.from, r.to))
    IN  /\ StrictlySorted(out.vec)
        /\ AsQueue(out.vec) = FilteredQueue(r.from, r.to)
        /\ out.stubs = FilteredStubs(r.from, r.to)

\* promote_stubs run group by group and stub by stub leaves what the closed
\* form says, for every index L1 could finalize next.
PromoteLoopAgrees ==
  \A idx \in finalized_idx + 1 .. MaxIdx :
    LET q == Restrict(queue, {s \in DOMAIN queue : s > idx})
        st == Restrict(stubs, {s \in DOMAIN stubs : s > idx})
        out == PromoteStubs(AsVec(q), st)
    IN  /\ StrictlySorted(out.vec)
        /\ AsQueue(out.vec) = PromotedQueue(q, st)
        /\ out.stubs = PromotedStubs(q, st)

\* find_contiguous_entries_after returns the longest run of queued messages
\* that follows the position, whatever stale or later entries surround it.
ContiguousLoopAgrees ==
  \A pos \in 0 .. MaxIdx :
    LET run == FindContiguousEntriesAfter(AsVec(queue), pos)
    IN  /\ \A k \in DOMAIN run : run[k].seq = pos + k /\ pos + k \in DOMAIN queue
        /\ pos + Len(run) + 1 \notin DOMAIN queue

\* The closed forms of Streamer are what the loops of filter_messages,
\* promote_stubs and find_contiguous_entries_after compute.
LoopsAgree == FilterLoopAgrees /\ PromoteLoopAgrees /\ ContiguousLoopAgrees
=============================================================================
