----------------------------- MODULE FeedClient -----------------------------
(***************************************************************************)
(* The client of the sequencer's feed (src/rollups/nitro/feed/client.rs):  *)
(* it connects asking for the messages from next_seq_num on, passes those  *)
(* with a valid signature to the submitter's channel, and reconnects when  *)
(* the connection ends.                                                    *)
(***************************************************************************)
EXTENDS Integers, Sequences, FiniteSets, SequencesExt

CONSTANTS
  FirstSeq,         \* current_message_count of the configuration
  MaxSeq,           \* bound: the last message of the sequencer
  MaxFrame,         \* bound: messages in a frame
  MaxStream,        \* bound: frames on the wire
  ChannelCapacity,  \* submitter_input_channel_capacity
  MaxDrops,         \* bound: connections that end
  MaxBad,           \* bound: frames or messages that are rejected
  MaxFatal          \* bound: connection attempts that meet a fatal error

ASSUME FeedClientAssumption ==
  /\ FirstSeq \in Nat /\ MaxSeq \in Nat
  /\ MaxFrame \in Nat \ {0} /\ MaxStream \in Nat \ {0} /\ ChannelCapacity \in Nat \ {0}
  /\ MaxDrops \in Nat /\ MaxBad \in Nat /\ MaxFatal \in Nat

VARIABLES
  published,      \* sequencer (external): messages FirstSeq .. published exist
  upstream_next,  \* sequencer (external): next message for this connection
  stream,         \* frames on the wire
  status,         \* "starting", "connected", "reconnecting" or "stopped"
  next_seq_num,
  first_reconnect_attempt,
  sending,        \* verified messages of the frame being processed, yet to be sent
  verified_next_seq_num,  \* what next_seq_num becomes after them
  unsubmitted_msgs,       \* the channel to the submitter
  submitted,      \* every message ever sent to it
  rejected,       \* messages of rejected frames, or rejected themselves
  fatal,          \* a connection attempt met a fatal error
  drops, bad      \* counters for the bounds

upstreamVars == <<published, upstream_next, stream>>
readVars == <<sending, verified_next_seq_num, submitted, rejected>>
vars == <<published, upstream_next, stream, status, next_seq_num,
          first_reconnect_attempt, sending, verified_next_seq_num, unsubmitted_msgs,
          submitted, rejected, fatal, drops, bad>>

-----------------------------------------------------------------------------
Init ==
  /\ published = FirstSeq - 1
  /\ upstream_next = FirstSeq
  /\ stream = <<>>
  /\ status = "starting"
  /\ next_seq_num = FirstSeq
  /\ first_reconnect_attempt = TRUE
  /\ sending = <<>>
  /\ verified_next_seq_num = FirstSeq
  /\ unsubmitted_msgs = <<>>
  /\ submitted = <<>>
  /\ rejected = {}
  /\ fatal = 0
  /\ drops = 0
  /\ bad = 0

-----------------------------------------------------------------------------
(* The sequencer (external): a frame holds the next messages from the      *)
(* requested one on.                                                       *)

Publish ==
  /\ published < MaxSeq
  /\ published' = published + 1
  /\ UNCHANGED <<upstream_next, stream, status, next_seq_num, first_reconnect_attempt,
                 readVars, unsubmitted_msgs, fatal, drops, bad>>

ServerSend ==
  /\ status = "connected"
  /\ Len(stream) < MaxStream
  /\ \E n \in 1 .. MaxFrame :
       /\ upstream_next + n - 1 <= published
       /\ stream' = Append(stream, [i \in 1 .. n |-> upstream_next + i - 1])
       /\ upstream_next' = upstream_next + n
  /\ UNCHANGED <<published, status, next_seq_num, first_reconnect_attempt, readVars,
                 unsubmitted_msgs, fatal, drops, bad>>

-----------------------------------------------------------------------------
(* connect.  An attempt that fails with an error that is not fatal changes *)
(* nothing; the waits between attempts are not modelled.                   *)

\* Mutant: the first sequence number is asked for again.
RequestedFromStart == FirstSeq

\* Mutant: the message after the next one is asked for.
RequestedPast == next_seq_num + 1

\* HEADER_REQUESTED_SEQ_NUM
Requested == next_seq_num

Connect ==
  /\ status \in {"starting", "reconnecting"}
  /\ status' = "connected"
  /\ upstream_next' = Requested
  /\ stream' = <<>>
  /\ first_reconnect_attempt' = TRUE
  /\ UNCHANGED <<published, next_seq_num, readVars, unsubmitted_msgs, fatal, drops, bad>>

\* start returns a fatal error; retry_connect logs it and goes on.
ConnectFatal ==
  /\ status \in {"starting", "reconnecting"}
  /\ fatal < MaxFatal
  /\ fatal' = fatal + 1
  /\ status' = IF status = "starting" THEN "stopped" ELSE status
  /\ UNCHANGED <<upstreamVars, next_seq_num, first_reconnect_attempt, readVars,
                 unsubmitted_msgs, drops, bad>>

-----------------------------------------------------------------------------
(* run_read_loop                                                           *)

Idle == status = "connected" /\ sending = <<>>

\* The signatures of the messages of a frame are checked; those that fail are
\* skipped.
ReadFrame ==
  /\ Idle
  /\ stream # <<>>
  /\ stream' = Tail(stream)
  /\ \E skipped \in SUBSET ToSet(Head(stream)) :
       LET verified == SelectSeq(Head(stream), LAMBDA m : m \notin skipped)
       IN  /\ bad + Cardinality(skipped) <= MaxBad
           /\ bad' = bad + Cardinality(skipped)
           /\ rejected' = rejected \cup skipped
           /\ sending' = verified
           /\ verified_next_seq_num' =
                IF verified = <<>> THEN next_seq_num ELSE Last(verified) + 1
  /\ UNCHANGED <<published, upstream_next, status, next_seq_num, first_reconnect_attempt,
                 unsubmitted_msgs, submitted, fatal, drops>>

\* A frame that cannot be decoded or has another version is dropped.
ReadBadFrame ==
  /\ Idle
  /\ stream # <<>>
  /\ bad < MaxBad
  /\ bad' = bad + 1
  /\ stream' = Tail(stream)
  /\ rejected' = rejected \cup ToSet(Head(stream))
  /\ UNCHANGED <<published, upstream_next, status, next_seq_num, first_reconnect_attempt,
                 sending, verified_next_seq_num, unsubmitted_msgs, submitted, fatal, drops>>

\* The send waits for room in the channel; next_seq_num advances only after the
\* last message of the frame is in.
SendMessage ==
  /\ sending # <<>>
  /\ Len(unsubmitted_msgs) < ChannelCapacity
  /\ unsubmitted_msgs' = Append(unsubmitted_msgs, Head(sending))
  /\ submitted' = Append(submitted, Head(sending))
  /\ sending' = Tail(sending)
  /\ next_seq_num' = IF Len(sending) = 1 THEN verified_next_seq_num ELSE next_seq_num
  /\ UNCHANGED <<upstreamVars, status, first_reconnect_attempt, verified_next_seq_num,
                 rejected, fatal, drops, bad>>

\* Time-out, end of the stream or close frame; what is on the wire is lost.
\* The backoff is skipped for the first attempt to reconnect.
Disconnect ==
  /\ Idle
  /\ drops < MaxDrops
  /\ drops' = drops + 1
  /\ status' = "reconnecting"
  /\ stream' = <<>>
  /\ first_reconnect_attempt' = FALSE
  /\ UNCHANGED <<published, upstream_next, next_seq_num, readVars, unsubmitted_msgs, fatal, bad>>

\* External: the submitter reads the channel.
Consume ==
  /\ unsubmitted_msgs # <<>>
  /\ unsubmitted_msgs' = Tail(unsubmitted_msgs)
  /\ UNCHANGED <<upstreamVars, status, next_seq_num, first_reconnect_attempt, readVars,
                 fatal, drops, bad>>

-----------------------------------------------------------------------------
Upstream == Publish \/ ServerSend

Client ==
  Connect \/ ConnectFatal \/ ReadFrame \/ ReadBadFrame \/ SendMessage \/ Disconnect

Next == Upstream \/ Client \/ Consume

Spec == Init /\ [][Next]_vars

\* The client's task is polled again and again, an attempt to connect succeeds
\* sooner or later, the server sends what it has, and the submitter reads.
Fairness ==
  /\ WF_vars(ServerSend)
  /\ WF_vars(Connect)
  /\ WF_vars(ReadFrame \/ ReadBadFrame)
  /\ WF_vars(SendMessage)
  /\ WF_vars(Consume)

FairSpec == Spec /\ Fairness

-----------------------------------------------------------------------------
(* Properties.                                                             *)

\* Nothing is skipped silently and nothing is passed on twice: every message
\* below next_seq_num was passed on once, in order, or was itself rejected,
\* although the connection may end at any moment between two frames and the
\* server sends from the requested number on.
EachOnceInOrder ==
  /\ \A m \in FirstSeq .. next_seq_num - 1 : m \in ToSet(submitted) \cup rejected
  /\ \A i, j \in DOMAIN submitted : i < j => submitted[i] < submitted[j]

\* What the sequencer published is passed on or rejected, unless the client
\* stopped with a fatal error.
EventuallyPassedOn ==
  \A m \in FirstSeq .. MaxSeq :
    (published >= m) ~> (m \in ToSet(submitted) \cup rejected \/ status = "stopped")

=============================================================================
