--------------------------- MODULE StreamerLemmas ---------------------------
(***************************************************************************)
(* What the operators of Streamer return, preserve and bound: facts that   *)
(* the proofs about its steps cite.                                        *)
(***************************************************************************)
EXTENDS Streamer, NumberLemmas, SequenceTheorems

-----------------------------------------------------------------------------
(* Facts about numbers and finite sets.                                    *)

\* At most n numbers of a finite set are among its n lowest: each has its own
\* count of smaller elements, and that count is below n.
LEMMA LowestCardinality ==
  ASSUME NEW S \in SUBSET Nat, IsFiniteSet(S), NEW n \in Nat
  PROVE  /\ Lowest(S, n) \subseteq S
         /\ IsFiniteSet(Lowest(S, n))
         /\ Cardinality(Lowest(S, n)) <= n
<1> DEFINE below(s) == {t \in S : t < s}
           count == [s \in S |-> Cardinality(below(s))]
           low == Lowest(S, n)
           f == [s \in low |-> count[s]]
<1>1. low = {s \in S : count[s] < n}
  BY DEF Lowest
<1> \A s \in S : s \in Nat
  OBVIOUS
<1>0. \A s \in S : IsFiniteSet(below(s))
  BY FS_Subset
<1>2. \A s \in S : count[s] \in Nat
  BY <1>0, FS_CardinalityType
<1>3. \A s, t \in S : s < t => count[s] < count[t]
  <2> SUFFICES ASSUME NEW s \in S, NEW t \in S, s < t
               PROVE  count[s] < count[t]
    OBVIOUS
  <2>1. below(s) \in SUBSET below(t) /\ s \in below(t) /\ s \notin below(s)
    <3> HIDE DEF count, low, f
    <3>1. \A x \in below(s) : x \in S /\ x < t
      OBVIOUS
    <3>2. ~ (s < s)
      OBVIOUS
    <3>3. below(s) \subseteq below(t)
      BY Zenon, <3>1
    <3> QED
      BY <3>2, <3>3
  <2>2. count[s] = Cardinality(below(s)) /\ count[t] = Cardinality(below(t))
    OBVIOUS
  <2>3. IsFiniteSet(below(t)) /\ count[s] \in Nat /\ count[t] \in Nat
    BY <1>0, <1>2
  <2> HIDE DEF below, count
  <2>4. count[s] <= count[t] /\ count[s] # count[t]
    BY <2>1, <2>2, <2>3, FS_Subset
  <2> QED
    BY <2>3, <2>4
<1> HIDE DEF count, low
<1>4. low \subseteq S /\ IsFiniteSet(low)
  BY <1>1, FS_Subset
<1>5. f \in [low -> 0 .. n - 1]
  <2>1. ASSUME NEW s \in low PROVE count[s] \in 0 .. n - 1
    BY <1>1, <1>2
  <2> QED
    BY <2>1
<1>6. \A s, t \in low : f[s] = f[t] => s = t
  <2> SUFFICES ASSUME NEW s \in low, NEW t \in low, count[s] = count[t]
               PROVE  s = t
    OBVIOUS
  <2>1. s \in S /\ t \in S /\ s \in Nat /\ t \in Nat
    BY <1>4
  <2>2. ~ (count[s] < count[t]) /\ ~ (count[t] < count[s])
    BY <1>2, <2>1
  <2>3. ~ (s < t) /\ ~ (t < s)
    BY <1>3, <2>1, <2>2
  <2> QED
    BY <2>1, <2>3
<1>7. f \in Injection(low, 0 .. n - 1)
  BY <1>5, <1>6 DEF Injection, IsInjective
<1>8. IsFiniteSet(0 .. n - 1) /\ Cardinality(0 .. n - 1) = n
  BY FS_Interval
<1> HIDE DEF f
<1>9. Cardinality(low) <= Cardinality(0 .. n - 1)
  BY <1>7, <1>8, FS_Injection
<1> QED
  BY <1>4, <1>8, <1>9 DEF low
-----------------------------------------------------------------------------
(* Espresso's blocks and the entries read from them.                       *)

\* A block of the chain is a sequence of messages.
LEMMA BlockType ==
  ASSUME TypeOK, NEW h \in 0 .. Len(chain) - 1
  PROVE  /\ Block(h) \in Seq(Message)
         /\ DOMAIN Block(h) = 1 .. Len(Block(h))
         /\ Len(Block(h)) \in Nat
         /\ \A i \in DOMAIN Block(h) : Block(h)[i].seq \in Nat /\ Block(h)[i].msg \in Msg
<1>1. chain \in Seq(BlockContents) /\ Len(chain) \in Nat
  BY LenProperties DEF TypeOK
<1>2. h + 1 \in 1 .. Len(chain)
  BY <1>1
<1>3. Block(h) \in BlockContents
  BY <1>1, <1>2, ElementOfSeq DEF Block
<1>4. Block(h) \in Seq(Message)
  BY <1>3, BlocksAssumption
<1> HIDE DEF Block
<1>5. DOMAIN Block(h) = 1 .. Len(Block(h)) /\ Len(Block(h)) \in Nat
  BY <1>4, LenProperties
<1>6. \A i \in DOMAIN Block(h) : Block(h)[i] \in Message
  BY <1>4, <1>5, ElementOfSeq
<1> QED
  BY <1>4, <1>5, <1>6 DEF Message

\* The numbers in a range of blocks are finitely many naturals.
LEMMA SeqsFinite ==
  ASSUME TypeOK, NEW from \in Nat, NEW to \in Nat, to <= Len(chain)
  PROVE  /\ UNION {SeqsAt(h) : h \in from .. to - 1} \subseteq Nat
         /\ IsFiniteSet(UNION {SeqsAt(h) : h \in from .. to - 1})
<1> DEFINE H == from .. to - 1
           SS == {SeqsAt(h) : h \in H}
           f == [h \in H |-> SeqsAt(h)]
<1>1. Len(chain) \in Nat
  BY LenProperties DEF TypeOK
<1>2. \A h \in H : h \in 0 .. Len(chain) - 1
  BY <1>1
<1>3. ASSUME NEW h \in H PROVE SeqsAt(h) \subseteq Nat /\ IsFiniteSet(SeqsAt(h))
  <2> DEFINE D == DOMAIN Block(h)
             g == [i \in D |-> Block(h)[i].seq]
  <2>1. g \in Surjection(D, SeqsAt(h))
    BY DEF Surjection, SeqsAt
  <2>2. D = 1 .. Len(Block(h)) /\ Len(Block(h)) \in Nat
    BY <1>2, BlockType
  <2>3. IsFiniteSet(D)
    BY <2>2, FS_Interval
  <2> HIDE DEF g, D
  <2>4. IsFiniteSet(SeqsAt(h))
    BY <2>1, <2>3, FS_Surjection
  <2> QED
    BY <1>2, <2>4, BlockType DEF SeqsAt
<1>4. f \in Surjection(H, SS)
  BY DEF Surjection
<1>5. IsFiniteSet(H)
  BY FS_Interval
<1> HIDE DEF f, H, SS
<1>6. IsFiniteSet(SS)
  BY <1>4, <1>5, FS_Surjection
<1>7. \A T \in SS : T \subseteq Nat /\ IsFiniteSet(T)
  BY <1>3 DEF SS
<1>8. IsFiniteSet(UNION SS)
  BY <1>6, <1>7, FS_UNION
<1> QED
  BY <1>7, <1>8 DEF SS, H

\* The first occurrence of a number in a range: its height is the least in the
\* range with that number, and the entry has a content of that block.
LEMMA FirstOccurrence ==
  ASSUME TypeOK, NEW from \in Nat, NEW to \in Nat, to <= Len(chain),
         NEW s \in UNION {SeqsAt(h) : h \in from .. to - 1}
  PROVE  LET h == Min(HeightsOf(s, from .. to - 1))
         IN  /\ h \in from .. to - 1
             /\ s \in SeqsAt(h)
             /\ \A g \in from .. to - 1 : s \in SeqsAt(g) => h <= g
             /\ FirstAt(h, s) \in Entry
             /\ FirstAt(h, s).height = h
             /\ \E i \in Occurrences(h, s) : FirstAt(h, s).msg = Block(h)[i].msg
<1> DEFINE HS == HeightsOf(s, from .. to - 1)
           h == Min(HS)
           O == Occurrences(h, s)
<1>1. Len(chain) \in Nat
  BY LenProperties DEF TypeOK
<1>2. HS \in SUBSET Nat /\ HS # {}
  BY DEF HeightsOf
<1>3. h \in HS /\ \A g \in HS : h <= g
  BY <1>2, MinOfNats
<1>4. /\ h \in from .. to - 1
      /\ s \in SeqsAt(h)
      /\ \A g \in from .. to - 1 : s \in SeqsAt(g) => h <= g
  BY <1>3 DEF HeightsOf
<1> HIDE DEF h, HS
<1>5. h \in 0 .. Len(chain) - 1
  BY <1>1, <1>4
<1>6. O \in SUBSET Nat /\ O # {}
  BY <1>4, <1>5, BlockType DEF Occurrences, SeqsAt
<1>7. Min(O) \in O
  BY <1>6, MinOfNats
<1>8. Block(h)[Min(O)].msg \in Msg
  BY <1>5, <1>7, BlockType DEF Occurrences
<1>9. FirstAt(h, s) = [height |-> h, msg |-> Block(h)[Min(O)].msg]
  BY DEF FirstAt
<1> HIDE DEF O
<1>10. FirstAt(h, s) \in Entry /\ FirstAt(h, s).height = h
       /\ FirstAt(h, s).msg = Block(h)[Min(O)].msg
  BY <1>5, <1>8, <1>9 DEF Entry
<1> QED
  BY <1>4, <1>7, <1>10 DEF h, HS, O
-----------------------------------------------------------------------------
(* What filter_messages and promote_stubs leave.                           *)

\* An entry for s whose content is in the block of its height.
BackedBy(s, e) == \E i \in Occurrences(e.height, s) : e.msg = Block(e.height)[i].msg

\* filter_messages: the queue stays within its cap, a number is in the queue or
\* in stubs but not in both, every new number of the range is in one of them
\* with its first height, and what was held before is held as it was.
LEMMA FilterFacts ==
  ASSUME IInv, NEW from \in Nat, NEW to \in Nat, to <= Len(chain),
         NEW q, q = FilteredQueue(from, to),
         NEW st, st = FilteredStubs(from, to)
  PROVE  /\ DOMAIN q \subseteq Nat /\ q \in [DOMAIN q -> Entry]
         /\ DOMAIN st \subseteq Nat /\ st \in [DOMAIN st -> Nat]
         /\ IsFiniteSet(DOMAIN q) /\ IsFiniteSet(DOMAIN st)
         /\ Cardinality(DOMAIN q) <= max_full_queue_entries
         /\ DOMAIN q \cap DOMAIN st = {}
         /\ DOMAIN q \cup DOMAIN st = Known \cup Fresh(from, to)
         /\ \A s \in DOMAIN q :
              \/ s \in DOMAIN queue /\ q[s] = queue[s]
              \/ /\ s \in Fresh(from, to)
                 /\ q[s].height = Min(HeightsOf(s, from .. to - 1))
                 /\ BackedBy(s, q[s])
         /\ \A s \in DOMAIN st :
              \/ s \in Known /\ st[s] = HeightOf(s)
              \/ /\ s \in Fresh(from, to)
                 /\ st[s] = Min(HeightsOf(s, from .. to - 1))
<1> DEFINE F == Fresh(from, to)
           A == DOMAIN queue \cup F
           all == Merged(from, to)
           low == Lowest(A, max_full_queue_entries)
<1>1. /\ TypeOK /\ IsFiniteSet(DOMAIN queue) /\ IsFiniteSet(DOMAIN stubs)
      /\ QueueWithinCap
  BY DEF IInv
<1>2. F \subseteq Nat /\ IsFiniteSet(F) /\ F \cap Known = {}
  BY Zenon, <1>1, SeqsFinite, FS_Subset DEF Fresh
<1>3. \A s \in F : LET h == Min(HeightsOf(s, from .. to - 1))
                   IN  FirstAt(h, s) \in Entry /\ FirstAt(h, s).height = h
                       /\ BackedBy(s, FirstAt(h, s))
  BY <1>1, FirstOccurrence DEF Fresh, BackedBy
<1>4. A \in SUBSET Nat /\ IsFiniteSet(A)
  BY Zenon, <1>1, <1>2, FS_Union DEF TypeOK
<1>5. low \subseteq A /\ IsFiniteSet(low) /\ Cardinality(low) <= max_full_queue_entries
  BY <1>4, LowestCardinality, QueueAssumption
<1>6. DOMAIN all = A
  BY DEF Merged
<1>7. /\ \A s \in DOMAIN queue : all[s] = queue[s]
      /\ \A s \in F : all[s] = FirstAt(Min(HeightsOf(s, from .. to - 1)), s)
  BY <1>2 DEF Merged, Known
<1>8. \A s \in A : all[s] \in Entry /\ all[s].height \in Nat
  BY <1>1, <1>3, <1>7 DEF TypeOK, Entry
<1>9. q = [s \in low |-> all[s]]
  BY <1>6 DEF FilteredQueue, Restrict
<1>10. st = [s \in DOMAIN stubs \cup (A \ low) |->
               IF s \in DOMAIN stubs THEN stubs[s] ELSE all[s].height]
  BY <1>6 DEF FilteredStubs
<1>11. DOMAIN q = low /\ DOMAIN st = DOMAIN stubs \cup (A \ low)
  BY <1>9, <1>10
<1>12. DOMAIN queue \cap DOMAIN stubs = {} /\ F \cap DOMAIN stubs = {}
  BY <1>1, <1>2 DEF QueueWithinCap, Known
<1> HIDE DEF all, low, F
<1>13. q \in [DOMAIN q -> Entry]
  BY <1>5, <1>8, <1>9, <1>11
<1>14. st \in [DOMAIN st -> Nat] /\ DOMAIN st \subseteq Nat
  BY <1>1, <1>4, <1>8, <1>10, <1>11 DEF TypeOK
<1>15. IsFiniteSet(DOMAIN st)
  <2> HIDE DEF A
  <2>1. IsFiniteSet(A \ low)
    BY Zenon, <1>4, FS_Difference
  <2>2. IsFiniteSet(DOMAIN stubs \cup (A \ low))
    BY Zenon, <1>1, <2>1, FS_Union
  <2> QED
    BY <1>11, <2>2, Zenon
<1>16. DOMAIN q \cap DOMAIN st = {}
  BY <1>5, <1>11, <1>12
<1>17. DOMAIN q \cup DOMAIN st = Known \cup F
  BY <1>5, <1>11 DEF Known
<1>18. ASSUME NEW s \in DOMAIN q
       PROVE  \/ s \in DOMAIN queue /\ q[s] = queue[s]
              \/ /\ s \in F
                 /\ q[s].height = Min(HeightsOf(s, from .. to - 1))
                 /\ BackedBy(s, q[s])
  BY <1>3, <1>5, <1>7, <1>9, <1>11
<1>19. ASSUME NEW s \in DOMAIN st
       PROVE  \/ s \in Known /\ st[s] = HeightOf(s)
              \/ s \in F /\ st[s] = Min(HeightsOf(s, from .. to - 1))
  <2>1. CASE s \in DOMAIN stubs
    BY <1>10, <1>11, <1>12, <2>1 DEF Known, HeightOf
  <2>2. CASE s \notin DOMAIN stubs /\ s \in DOMAIN queue
    BY <1>7, <1>10, <1>11, <2>2 DEF Known, HeightOf
  <2>3. CASE s \notin DOMAIN stubs /\ s \in F
    BY <1>3, <1>7, <1>10, <1>11, <2>3
  <2> QED
    BY <1>11, <2>1, <2>2, <2>3
<1> QED
  BY <1>4, <1>5, <1>11, <1>13, <1>14, <1>15, <1>16, <1>17, <1>18, <1>19 DEF F
\* promote_stubs: the queue grows by at most the room there is, a promoted
\* number leaves the stubs, and its entry comes from the block of the stub.
LEMMA PromoteFacts ==
  ASSUME TypeOK, NEW q, NEW st,
         DOMAIN q \subseteq Nat, q \in [DOMAIN q -> Entry], IsFiniteSet(DOMAIN q),
         DOMAIN st \subseteq Nat, st \in [DOMAIN st -> Nat], IsFiniteSet(DOMAIN st),
         Cardinality(DOMAIN q) <= max_full_queue_entries,
         DOMAIN q \cap DOMAIN st = {},
         \A s \in DOMAIN st : st[s] \in 0 .. Len(chain) - 1 /\ s \in SeqsAt(st[s]),
         NEW nq, nq = PromotedQueue(q, st),
         NEW nst, nst = PromotedStubs(q, st)
  PROVE  /\ DOMAIN nq \subseteq Nat /\ nq \in [DOMAIN nq -> Entry]
         /\ DOMAIN nst \subseteq Nat /\ nst \in [DOMAIN nst -> Nat]
         /\ IsFiniteSet(DOMAIN nq) /\ IsFiniteSet(DOMAIN nst)
         /\ Cardinality(DOMAIN nq) <= max_full_queue_entries
         /\ DOMAIN nq \cap DOMAIN nst = {}
         /\ DOMAIN nq \cup DOMAIN nst = DOMAIN q \cup DOMAIN st
         /\ \A s \in DOMAIN nq :
              \/ s \in DOMAIN q /\ nq[s] = q[s]
              \/ s \in DOMAIN st /\ nq[s].height = st[s] /\ BackedBy(s, nq[s])
         /\ \A s \in DOMAIN nst : s \in DOMAIN st /\ nst[s] = st[s]
<1> DEFINE P == Promoted(q, st)
           low == Lowest(DOMAIN st, Room(q))
<1>1. Cardinality(DOMAIN q) \in Nat
  BY FS_CardinalityType
<1>2. Room(q) \in Nat /\ Cardinality(DOMAIN q) + Room(q) <= max_full_queue_entries
  BY <1>1, QueueAssumption DEF Room
<1>3. low \subseteq DOMAIN st /\ IsFiniteSet(low) /\ Cardinality(low) <= Room(q)
  BY <1>2, LowestCardinality
<1>4. P \subseteq low
  BY DEF Promoted, ToPromote
<1> HIDE DEF P, low
<1>5. IsFiniteSet(P) /\ Cardinality(P) <= Cardinality(low) /\ P \subseteq DOMAIN st
  BY <1>3, <1>4, FS_Subset
<1>6. Cardinality(P) \in Nat /\ Cardinality(low) \in Nat
  BY <1>3, <1>5, FS_CardinalityType
<1>7. nq = [s \in DOMAIN q \cup P |-> IF s \in DOMAIN q THEN q[s] ELSE LastAt(st[s], s)]
  BY DEF PromotedQueue, P
<1>8. nst = [s \in DOMAIN st \ P |-> st[s]]
  BY DEF PromotedStubs, Restrict, P
<1>9. DOMAIN nq = DOMAIN q \cup P /\ DOMAIN nst = DOMAIN st \ P
  BY <1>7, <1>8
<1>10. ASSUME NEW s \in P
       PROVE  LastAt(st[s], s) \in Entry /\ LastAt(st[s], s).height = st[s]
              /\ BackedBy(s, LastAt(st[s], s))
  <2> DEFINE h == st[s]
             O == Occurrences(h, s)
  <2>1. h \in 0 .. Len(chain) - 1 /\ s \in SeqsAt(h) /\ h \in Nat
    BY <1>5
  <2> HIDE DEF h
  <2>2. O \in SUBSET Nat /\ O # {} /\ \A x \in O : x <= Len(Block(h))
    BY <2>1, BlockType DEF Occurrences, SeqsAt
  <2>3. Max(O) \in O
    BY <2>1, <2>2, BlockType, MaxOfBounded
  <2>4. Block(h)[Max(O)].msg \in Msg
    BY <2>1, <2>3, BlockType DEF Occurrences
  <2>5. LastAt(h, s) = [height |-> h, msg |-> Block(h)[Max(O)].msg]
    BY DEF LastAt
  <2> HIDE DEF O
  <2>6. LastAt(h, s) \in Entry /\ LastAt(h, s).height = h
        /\ LastAt(h, s).msg = Block(h)[Max(O)].msg
    BY <2>1, <2>4, <2>5 DEF Entry
  <2> QED
    BY <2>3, <2>6 DEF BackedBy, O, h
<1>11. nq \in [DOMAIN nq -> Entry] /\ DOMAIN nq \subseteq Nat
  BY <1>5, <1>7, <1>9, <1>10
<1>12. nst \in [DOMAIN nst -> Nat] /\ DOMAIN nst \subseteq Nat
  BY <1>8, <1>9
<1>13. DOMAIN q \cap P = {}
  BY <1>5
<1>14. IsFiniteSet(DOMAIN nq) /\ Cardinality(DOMAIN nq) = Cardinality(DOMAIN q) + Cardinality(P)
  <2>1. /\ IsFiniteSet(DOMAIN q \cup P)
        /\ Cardinality(DOMAIN q \cup P)
             = Cardinality(DOMAIN q) + Cardinality(P) - Cardinality(DOMAIN q \cap P)
    BY <1>5, FS_Union
  <2>2. Cardinality(DOMAIN q \cap P) = 0
    BY Zenon, <1>13, FS_EmptySet
  <2>3. Cardinality(DOMAIN q \cup P) = Cardinality(DOMAIN q) + Cardinality(P)
    BY <1>1, <1>6, <2>1, <2>2
  <2> QED
    BY <1>9, <2>1, <2>3, Zenon
<1>15. IsFiniteSet(DOMAIN nst)
  <2>1. IsFiniteSet(DOMAIN st \ P)
    BY Zenon, FS_Difference
  <2> QED
    BY <1>9, <2>1, Zenon
<1>16. Cardinality(DOMAIN nq) <= max_full_queue_entries
  BY <1>1, <1>2, <1>3, <1>5, <1>6, <1>14, QueueAssumption
<1>17. DOMAIN nq \cap DOMAIN nst = {} /\ DOMAIN nq \cup DOMAIN nst = DOMAIN q \cup DOMAIN st
  BY <1>5, <1>9
<1>18. \A s \in DOMAIN nq :
         \/ s \in DOMAIN q /\ nq[s] = q[s]
         \/ s \in DOMAIN st /\ nq[s].height = st[s] /\ BackedBy(s, nq[s])
  BY <1>5, <1>7, <1>9, <1>10
<1>19. \A s \in DOMAIN nst : s \in DOMAIN st /\ nst[s] = st[s]
  BY <1>8, <1>9
<1> QED
  BY <1>11, <1>12, <1>14, <1>15, <1>16, <1>17, <1>18, <1>19
\* try_broadcast_feed_message: what it sends continues the feed in order and
\* without a gap, and each message sent is an entry of the queue past the last
\* broadcast position.
LEMMA BroadcastFacts ==
  ASSUME IInv, NEW q, DOMAIN q \subseteq Nat, q \in [DOMAIN q -> Entry],
         NEW w \in BOOLEAN, NEW task \in {"none", "sleeping", "sent"},
         TryBroadcast(q, w, task), finalized_idx' = finalized_idx
  PROVE  /\ scheduled' \in BOOLEAN
         /\ retry_task' \in {"none", "sleeping", "sent"}
         /\ feed' \in Seq(Message)
         /\ unread' \in 0 .. FeedCapacity
         /\ last_broadcast_position' \in Nat
         /\ last_broadcast_position <= last_broadcast_position'
         /\ \A i \in DOMAIN feed' : feed'[i].seq <= last_broadcast_position'
         /\ FeedInOrderWithoutGaps'
         /\ \A i \in DOMAIN feed' :
              \/ i \in DOMAIN feed /\ feed'[i] = feed[i]
              \/ \E s \in DOMAIN q : s > last_broadcast_position /\ feed'[i] = FeedMessage(q, s)
<1> DEFINE lbp == last_broadcast_position
<1>1. PICK last \in lbp .. lbp + (FeedCapacity - unread) :
        LET blocked == last + 1 \in DOMAIN q
        IN  /\ \A s \in lbp + 1 .. last : s \in DOMAIN q
            /\ blocked => last = lbp + (FeedCapacity - unread)
            /\ scheduled' = (w \/ blocked)
            /\ retry_task' = IF blocked /\ ~ w THEN "sleeping" ELSE task
            /\ feed' = feed \o [i \in 1 .. last - lbp |-> FeedMessage(q, lbp + i)]
            /\ unread' = unread + (last - lbp)
            /\ lbp' = last
  BY Zenon DEF TryBroadcast
<1> DEFINE k == last - lbp
           new == [i \in 1 .. k |-> FeedMessage(q, lbp + i)]
           n == Len(feed)
<1>2. /\ lbp \in Nat /\ unread \in 0 .. FeedCapacity /\ FeedCapacity \in Nat
      /\ feed \in Seq(Message) /\ n \in Nat /\ DOMAIN feed = 1 .. n
  BY BoundsAssumption, LenProperties DEF IInv, TypeOK
<1>3. /\ last \in Nat /\ k \in Nat /\ lbp <= last /\ lbp' = last
      /\ unread' \in 0 .. FeedCapacity
  BY <1>1, <1>2
<1>4. \A i \in 1 .. k : lbp + i \in lbp + 1 .. last /\ lbp + i \in Nat
  BY <1>2, <1>3
<1>5. \A i \in 1 .. k : lbp + i \in DOMAIN q
  BY <1>1, <1>4
<1>6. \A i \in 1 .. k : FeedMessage(q, lbp + i) \in Message
  BY <1>4, <1>5 DEF FeedMessage, Message, Entry
<1>7. new \in Seq(Message) /\ Len(new) = k /\ \A i \in 1 .. k : new[i] = FeedMessage(q, lbp + i)
  BY <1>3, <1>6
<1>8. feed' = feed \o new
  BY <1>1
<1> HIDE DEF new, k, n
<1>9. /\ feed' \in Seq(Message) /\ DOMAIN feed' = 1 .. n + k
      /\ \A i \in 1 .. n : feed'[i] = feed[i]
      /\ \A i \in 1 .. k : feed'[n + i] = FeedMessage(q, lbp + i)
  <2>1. /\ feed \o new \in Seq(Message)
        /\ Len(feed \o new) = n + k
        /\ \A i \in 1 .. n + k :
             (feed \o new)[i] = IF i <= n THEN feed[i] ELSE new[i - n]
    BY Zenon, <1>2, <1>7, ConcatProperties DEF n
  <2>2. DOMAIN (feed \o new) = 1 .. n + k
    BY <2>1, LenProperties
  <2>3. \A i \in 1 .. n : (feed \o new)[i] = feed[i]
    BY <1>2, <1>3, <2>1
  <2>4. ASSUME NEW i \in 1 .. k PROVE (feed \o new)[n + i] = new[i]
    <3>1. n + i \in 1 .. n + k /\ ~ (n + i <= n) /\ (n + i) - n = i
      BY <1>2, <1>3
    <3> QED
      BY <2>1, <3>1
  <2> QED
    BY Zenon, <1>7, <1>8, <2>1, <2>2, <2>3, <2>4
<1>10. \A i \in 1 .. k : feed'[n + i].seq = lbp + i
  <2>1. \A x : FeedMessage(q, x).seq = x
    BY DEF FeedMessage
  <2> HIDE DEF lbp
  <2> QED
    BY <1>9, <2>1
<1>11. \A i \in 1 .. n : feed[i].seq <= lbp /\ feed[i].seq \in Nat
  <2> SUFFICES ASSUME NEW i \in 1 .. n PROVE feed[i].seq <= lbp /\ feed[i].seq \in Nat
    OBVIOUS
  <2>1. feed[i] \in Message
    BY <1>2, ElementOfSeq DEF n
  <2>2. feed[i].seq <= lbp
    BY <1>2 DEF IInv
  <2> QED
    BY <2>1, <2>2 DEF Message
<1>12. \A i \in 1 .. n + k : i \in 1 .. n \/ \E j \in 1 .. k : i = n + j
  <2> SUFFICES ASSUME NEW i \in 1 .. n + k, i \notin 1 .. n
               PROVE  \E j \in 1 .. k : i = n + j
    OBVIOUS
  <2>1. i - n \in 1 .. k /\ i = n + (i - n)
    BY <1>2, <1>3
  <2> QED
    BY <2>1
<1>13. \A i \in DOMAIN feed' : feed'[i].seq <= lbp'
  <2>1. ASSUME NEW i \in 1 .. n PROVE feed'[i].seq <= last
    BY <1>2, <1>3, <1>9, <1>11
  <2>2. ASSUME NEW j \in 1 .. k PROVE feed'[n + j].seq <= last
    BY <1>2, <1>3, <1>4, <1>10
  <2> QED
    BY <1>3, <1>9, <1>12, <2>1, <2>2
<1>14. \A i, j \in DOMAIN feed' : i < j => feed'[i].seq < feed'[j].seq
  <2> SUFFICES ASSUME NEW i \in 1 .. n + k, NEW j \in 1 .. n + k, i < j
               PROVE  feed'[i].seq < feed'[j].seq
    BY <1>9
  <2>1. CASE j \in 1 .. n
    <3>1. i \in 1 .. n
      BY <1>2, <2>1
    <3> QED
      BY <1>2, <1>9, <2>1, <3>1 DEF IInv, FeedInOrderWithoutGaps
  <2>2. CASE i \in 1 .. n /\ j \notin 1 .. n
    <3>1. PICK b \in 1 .. k : j = n + b
      BY <1>12, <2>2
    <3> QED
      BY <1>2, <1>3, <1>9, <1>10, <1>11, <2>2, <3>1
  <2>3. CASE i \notin 1 .. n /\ j \notin 1 .. n
    <3>1. PICK a \in 1 .. k : i = n + a
      BY <1>12, <2>3
    <3>2. PICK b \in 1 .. k : j = n + b
      BY <1>12, <2>3
    <3> QED
      BY <1>2, <1>3, <1>10, <3>1, <3>2
  <2> QED
    BY <2>1, <2>2, <2>3
<1>15. \A s \in 1 .. lbp' : s <= finalized_idx' \/ \E i \in DOMAIN feed' : feed'[i].seq = s
  <2> SUFFICES ASSUME NEW s \in 1 .. last, ~ (s <= finalized_idx)
               PROVE  \E i \in 1 .. n + k : feed'[i].seq = s
    BY <1>3, <1>9
  <2>1. CASE s <= lbp
    <3>1. s \in 1 .. lbp
      BY <1>2, <1>3, <2>1
    <3>2. PICK i \in DOMAIN feed : feed[i].seq = s
      BY <3>1 DEF IInv, FeedInOrderWithoutGaps
    <3>3. i \in 1 .. n /\ i \in 1 .. n + k
      BY <1>2, <1>3
    <3> QED
      BY <1>9, <3>2, <3>3
  <2>2. CASE ~ (s <= lbp)
    <3>1. s - lbp \in 1 .. k /\ lbp + (s - lbp) = s /\ n + (s - lbp) \in 1 .. n + k
      BY <1>2, <1>3, <2>2 DEF k
    <3> QED
      BY <1>10, <3>1
  <2> QED
    BY <2>1, <2>2
<1>16. \A i \in DOMAIN feed' :
         \/ i \in DOMAIN feed /\ feed'[i] = feed[i]
         \/ \E s \in DOMAIN q : s > lbp /\ feed'[i] = FeedMessage(q, s)
  <2>1. \A j \in 1 .. k : lbp + j \in DOMAIN q /\ lbp + j > lbp
    BY <1>2, <1>5
  <2> QED
    BY <1>2, <1>9, <1>12, <2>1
<1>17. scheduled' \in BOOLEAN /\ retry_task' \in {"none", "sleeping", "sent"}
  BY <1>1
<1> QED
  BY <1>3, <1>9, <1>13, <1>14, <1>15, <1>16, <1>17 DEF FeedInOrderWithoutGaps
-----------------------------------------------------------------------------
(* The handled heights.                                                    *)

\* Handled blocks exist: the poller only passes on ranges within the chain.
LEMMA HandledFacts ==
  ASSUME IInv
  PROVE  /\ config.starting_hotshot_height \in Nat
         /\ HandledTo \in Nat
         /\ config.starting_hotshot_height <= HandledTo
         /\ Len(chain) \in Nat
         /\ \A h \in Handled : h \in 0 .. Len(chain) - 1
<1> DEFINE start == config.starting_hotshot_height
<1>1. /\ start \in Nat /\ from_block \in Nat
      /\ hotshot_rx \in Seq([from : Nat, to : Nat])
  BY StartAssumption DEF IInv, TypeOK
<1>2. Len(chain) \in Nat
  BY LenProperties DEF IInv, TypeOK
<1>3. CASE hotshot_rx = <<>>
  BY <1>1, <1>2, <1>3 DEF IInv, PollerCoversEveryHeight, HandledTo, Handled
<1>4. CASE hotshot_rx # <<>>
  <2>1. 1 \in DOMAIN hotshot_rx /\ hotshot_rx[1] \in [from : Nat, to : Nat]
    <3>1. Len(hotshot_rx) \in Nat \ {0}
      BY <1>1, <1>4, EmptySeq
    <3>2. DOMAIN hotshot_rx = 1 .. Len(hotshot_rx)
      BY <1>1, LenProperties
    <3>3. 1 \in 1 .. Len(hotshot_rx)
      BY <3>1
    <3> QED
      BY Zenon, <1>1, <3>2, <3>3, ElementOfSeq
  <2>2. HandledTo = hotshot_rx[1].from /\ hotshot_rx[1].from \in Nat /\ hotshot_rx[1].to \in Nat
    BY <1>4, <2>1 DEF HandledTo
  <2>3. /\ start <= hotshot_rx[1].from /\ hotshot_rx[1].from < hotshot_rx[1].to
        /\ hotshot_rx[1].to <= from_block
        /\ from_block > start => from_block <= Len(chain)
    BY <2>1 DEF IInv, PollerCoversEveryHeight
  <2>4. start <= HandledTo /\ HandledTo <= Len(chain)
    BY <1>1, <1>2, <2>2, <2>3
  <2> QED
    BY <1>1, <1>2, <2>2, <2>4 DEF Handled
<1> QED
  BY <1>3, <1>4

\* What the streamer holds and what it has sent stays right as long as the
\* handled heights, their blocks and the maps stay the same.
LEMMA HeldFrame ==
  ASSUME IInv, UNCHANGED <<config, queue, stubs, finalized_idx>>,
         Handled' = Handled,
         \A h \in Handled : Block(h)' = Block(h)
  PROVE  /\ (IsFiniteSet(DOMAIN queue) /\ IsFiniteSet(DOMAIN stubs))'
         /\ QueueWithinCap'
         /\ NoMessageLost'
         /\ FirstInclusionWins'
         /\ HeldIsOnEspresso'
         /\ feed' = feed => FeedFollowsEspresso'
<1>1. \A h \in Handled : SeqsAt(h)' = SeqsAt(h)
  BY DEF SeqsAt
<1>2. \A h \in Handled : \A s : Occurrences(h, s)' = Occurrences(h, s)
  BY DEF Occurrences
<1>3. Known' = Known /\ \A s : HeightOf(s)' = HeightOf(s)
  BY DEF Known, HeightOf
<1>4. (IsFiniteSet(DOMAIN queue) /\ IsFiniteSet(DOMAIN stubs))' /\ QueueWithinCap'
  BY DEF IInv, QueueWithinCap
<1>5. NoMessageLost'
  BY <1>1, <1>3 DEF IInv, NoMessageLost
<1>6. FirstInclusionWins'
  BY <1>1, <1>3 DEF IInv, FirstInclusionWins
<1>7. HeldIsOnEspresso'
  BY <1>1, <1>2, <1>3 DEF IInv, HeldIsOnEspresso
<1>8. feed' = feed => FeedFollowsEspresso'
  BY <1>1, <1>2 DEF IInv, FeedFollowsEspresso
<1> QED
  BY <1>4, <1>5, <1>6, <1>7, <1>8
=============================================================================
