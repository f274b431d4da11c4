------------------------------ MODULE Pipeline ------------------------------
(***************************************************************************)
(* The way of a message from Espresso to L1.  The batch poster asks the    *)
(* service to store a batch, the streamer verifies it against its queue    *)
(* and the cursor it reads from L1, the certified batch is posted, L1      *)
(* finalizes it, and finality makes room in the streamer's queue.          *)
(*                                                                         *)
(* The streamer (module Streamer) is composed with the verification arm of *)
(* its run loop, with the store handler of the DA API as far as it waits   *)
(* for the verification, and with the batch poster and the contracts on    *)
(* L1, which are external.  While the verification arm waits for the two   *)
(* reads of the cursor, no other arm of the streamer runs.                 *)
(***************************************************************************)
EXTENDS Streamer, NitroVerify

CONSTANTS
  Sequenced,      \* the batch messages of the rollup; Sequenced[s] is number s
  MaxFailures,    \* bound: RPC requests of the streamer that fail
  MaxReorgs       \* bound: L1 reorganisations

ASSUME PipelineAssumption ==
  /\ Sequenced \in Seq({DelayedMsg} \cup {L2Msg(m.l2msg) : m \in Msg})
  /\ MaxFailures \in Nat
  /\ MaxReorgs \in Nat

VARIABLES
  l1_batches,     \* L1 (external): the accepted batches
  request,        \* the store request that the streamer verifies, or NoRequest
  certificates,   \* the certificates issued
  failures,       \* RPC failures so far
  reorgs,         \* L1 reorganisations so far
  final,          \* L1 (external): its messages up to this number are final
  missed          \* history: messages that restarts have missed, see Restart

historyVars == <<reorgs, final, missed>>
pipelineVars == <<l1_batches, request, certificates, failures, historyVars>>
pvars == <<vars, pipelineVars>>

-----------------------------------------------------------------------------
(* L1 (external).                                                          *)

\* sequencerReportedSubMessageCount and totalDelayedMessagesRead after the
\* first n batches.  Message 0, a delayed one, is there from the start.
MessageCount(n) == IF n = 0 THEN 1 ELSE l1_batches[n].end_message_position + 1
DelayedRead(n) == IF n = 0 THEN 1 ELSE l1_batches[n].after_delayed_messages_read

Latest == Len(l1_batches)
DefaultCursor == [next_batch_start_pos |-> 1, last_batch_delayed_messages_read |-> 1]

-----------------------------------------------------------------------------
(* The verification arm.                                                   *)

NoRequest == [batch |-> <<>>, at |-> 0, reads |-> <<>>]
StreamerFree == request = NoRequest

\* The batch poster has the messages from the count on L1 to e - 1 stored; the
\* streamer takes the request up.
StoreRequest(e) ==
  /\ StreamerFree
  /\ e \in MessageCount(Latest) + 1 .. Len(Sequenced) + 1
  /\ request' = [batch |-> SubSeq(Sequenced, MessageCount(Latest), e - 1),
                 at |-> MessageCount(Latest), reads |-> <<>>]
  /\ UNCHANGED <<vars, l1_batches, certificates, failures, historyVars>>

\* fetch_batch_cursor asks for both numbers at once; the answers come one by
\* one, in either order.
ReadCursor(what) ==
  /\ ~ StreamerFree
  /\ what \notin DOMAIN request.reads
  /\ LET value == IF what = "count" THEN MessageCount(Latest) ELSE DelayedRead(Latest)
     IN  request' = [request EXCEPT !.reads =
           [w \in DOMAIN @ \cup {what} |-> IF w = what THEN value ELSE request.reads[w]]]
  /\ UNCHANGED <<vars, l1_batches, certificates, failures, historyVars>>

CursorRead == DOMAIN request.reads = {"count", "delayed"}

Cursor == [next_batch_start_pos |-> request.reads["count"],
           last_batch_delayed_messages_read |-> request.reads["delayed"]]

\* The lowest height that the two heights of a certificate leave to start from:
\* the contract has no other to report as hotshotBlock of its checkpoint.
HotshotBlock(result) ==
  IF result.min_espresso_block_still_in_queue = 0 THEN result.start_espresso_block
  ELSE Min({result.start_espresso_block, result.min_espresso_block_still_in_queue})

\* Verify and reply; the DA API signs what was verified.  behind (history): the
\* messages after the batch that are stubs below that height.
Reply(cursor) ==
  LET result == VerifyBatchMessages(request.batch, queue, cursor)
      behind == {s \in DOMAIN stubs : /\ s > result.end_message_position
                                     /\ stubs[s] < HotshotBlock(result)}
      certificate == [result |-> result, batch |-> request.batch, at |-> request.at,
                      behind |-> behind]
  IN  /\ certificates' = certificates \cup (IF result.success THEN {certificate} ELSE {})
      /\ request' = NoRequest
      /\ UNCHANGED <<vars, l1_batches, historyVars>>

ReplyAfterReads == ~ StreamerFree /\ CursorRead /\ Reply(Cursor) /\ UNCHANGED failures

\* A read fails: the default cursor is used.
ReplyAfterError ==
  /\ ~ StreamerFree
  /\ ~ CursorRead
  /\ failures < MaxFailures
  /\ failures' = failures + 1
  /\ Reply(DefaultCursor)

-----------------------------------------------------------------------------
(* The batch poster and L1.                                                *)

\* The poster posts a batch where it belongs, and the inbox accepts it if the
\* certificate starts at its message count.
PostBatch(c) ==
  /\ c \in certificates
  /\ c.at = MessageCount(Latest)
  /\ c.result.start_message_position = MessageCount(Latest)
  /\ l1_batches' = Append(l1_batches,
       [start_message_position |-> c.result.start_message_position,
        end_message_position |-> c.result.end_message_position,
        after_delayed_messages_read |-> c.result.after_delayed_messages_read,
        hotshot_block |-> HotshotBlock(c.result),
        messages |-> c.batch, behind |-> c.behind])
  /\ UNCHANGED <<vars, request, certificates, failures, historyVars>>

\* The messages of the first n batches become final.
BecomeFinal(n) == final' = IF MessageCount(n) - 1 > final THEN MessageCount(n) - 1 ELSE final

\* Mutant: the count itself is published.
L1FinalizedCount(n) ==
  /\ n \in 0 .. Latest
  /\ MessageCount(n) >= l1_idx
  /\ l1_idx' = MessageCount(n)
  /\ l1_changed' = TRUE
  /\ BecomeFinal(n)
  /\ UNCHANGED <<espressoVars, pollerVars, queueVars, feedVars, l1_batches, request, certificates,
                 failures, reorgs, missed>>

\* The monitor publishes the count of a finalized block, less one, for every
\* new finalized block.
L1Finalized(n) ==
  /\ n \in 0 .. Latest
  /\ MessageCount(n) - 1 >= l1_idx
  /\ l1_idx' = MessageCount(n) - 1
  /\ l1_changed' = TRUE
  /\ BecomeFinal(n)
  /\ UNCHANGED <<espressoVars, pollerVars, queueVars, feedVars, l1_batches, request, certificates,
                 failures, reorgs, missed>>

\* L1 drops batches that are not finalized.
L1Reorg(n) ==
  /\ reorgs < MaxReorgs
  /\ reorgs' = reorgs + 1
  /\ n \in 0 .. Latest - 1
  /\ MessageCount(n) - 1 >= final
  /\ l1_batches' = SubSeq(l1_batches, 1, n)
  /\ UNCHANGED <<vars, request, certificates, failures, final, missed>>

-----------------------------------------------------------------------------
PInit ==
  /\ Init
  /\ l1_batches = <<>>
  /\ request = NoRequest
  /\ certificates = {}
  /\ failures = 0
  /\ reorgs = 0 /\ final = 0 /\ missed = {}

\* The arms of the streamer's run loop.
StreamerArm ==
  /\ StreamerFree
  /\ HandleHotshotTransactions \/ HandleQuietBlocks \/ HandleRetry
  /\ UNCHANGED pipelineVars

FinalizationArm(fetched) ==
  /\ StreamerFree
  /\ HandleFinalization(fetched)
  /\ fetched \/ failures < MaxFailures
  /\ failures' = IF fetched THEN failures ELSE failures + 1
  /\ UNCHANGED <<l1_batches, request, certificates, historyVars>>

OtherTask ==
  /\ EspressoBlock \/ Poll \/ RetryTimer \/ RelayRecv
  /\ UNCHANGED pipelineVars

PNext ==
  \/ StreamerArm
  \/ \E fetched \in BOOLEAN : FinalizationArm(fetched)
  \/ OtherTask
  \/ \E e \in 1 .. Len(Sequenced) + 1 : StoreRequest(e)
  \/ \E what \in {"count", "delayed"} : ReadCursor(what)
  \/ ReplyAfterReads
  \/ ReplyAfterError
  \/ \E c \in certificates : PostBatch(c)
  \/ \E n \in 0 .. Latest : L1Finalized(n)
  \/ \E n \in 0 .. Latest : L1Reorg(n)

PSpec == PInit /\ [][PNext]_pvars

\* select! takes a random one of its ready arms, so an arm that is ready again
\* and again runs; requests that are not made to fail are answered; the retry
\* timer fires and the relay reads; Espresso goes on producing blocks; the
\* poster keeps trying a batch of one message and posts what was certified; L1
\* goes on finalizing.
PFairness ==
  /\ WF_pvars(EspressoBlock /\ UNCHANGED pipelineVars)
  /\ WF_pvars(RetryTimer /\ UNCHANGED pipelineVars)
  /\ WF_pvars(RelayRecv /\ UNCHANGED pipelineVars)
  /\ SF_pvars(StreamerFree /\ HandleQuietBlocks /\ UNCHANGED pipelineVars)
  /\ SF_pvars(StreamerFree /\ HandleRetry /\ UNCHANGED pipelineVars)
  /\ WF_pvars(Poll /\ UNCHANGED pipelineVars)
  /\ SF_pvars(StreamerFree /\ HandleHotshotTransactions /\ UNCHANGED pipelineVars)
  /\ SF_pvars(FinalizationArm(TRUE))
  /\ SF_pvars(StoreRequest(MessageCount(Latest) + 1))
  /\ WF_pvars(\E what \in {"count", "delayed"} : ReadCursor(what))
  /\ WF_pvars(ReplyAfterReads)
  /\ WF_pvars(\E c \in certificates : PostBatch(c))
  /\ WF_pvars(L1Finalized(Latest))

PFairSpec == PSpec /\ PFairness

-----------------------------------------------------------------------------
(* Properties.                                                             *)

\* Message i of the n-th accepted batch is the one that the first block of H
\* with number s has there, with the delayed count that L1 has reached by then.
AgreesWithEspresso(n, i, s, H) ==
  LET messages == l1_batches[n].messages
      delayed == Cardinality({k \in 1 .. i : messages[k] = DelayedMsg})
  IN  \E h \in HeightsOf(s, H) :
        /\ \A g \in HeightsOf(s, H) : h <= g
        /\ \E k \in Occurrences(h, s) :
             /\ messages[i] \in {DelayedMsg, L2Msg(Block(h)[k].msg.l2msg)}
             /\ Block(h)[k].msg.delayed_messages_read = DelayedRead(n - 1) + delayed

\* Every message of a batch that L1 accepted is, at its own position, the one
\* that Espresso ordered first there ("checks that proposed batches follow the
\* ordering agreed upon by Espresso").
L1FollowsEspresso ==
  \A n \in 1 .. Latest : \A i \in DOMAIN l1_batches[n].messages :
    AgreesWithEspresso(n, i, l1_batches[n].start_message_position + i - 1, Handled)

\* The streamer keeps every message that L1 may still need, so a batch that a
\* reorganisation of L1 drops can be verified and posted again.
HoldsWhatL1MayNeed ==
  \A h \in Handled : \A s \in SeqsAt(h) :
    s >= config.starting_pos /\ s >= MessageCount(Latest) => s \in Known

\* Once a message and all before it are on Espresso, it gets to L1: eviction,
\* promotion, verification and finality never end up waiting for each other.
ReachesL1 ==
  \A s \in 1 .. Len(Sequenced) :
    (\A t \in 1 .. s : \E h \in 0 .. Len(chain) - 1 : t \in SeqsAt(h))
      ~> MessageCount(Latest) > s
=============================================================================
