----------------------------- MODULE FeedServer -----------------------------
(***************************************************************************)
(* The downstream feed: the relay (src/rollups/nitro/feed/relay.rs) hands  *)
(* what the streamer sends, and what L1 finalizes, to the broadcaster; the *)
(* broadcast server (ws_server.rs) keeps a backlog and a broadcast channel *)
(* and runs a task for every subscriber.                                   *)
(*                                                                         *)
(* The relay is one task, so broadcast runs once at a time, but the tasks  *)
(* of the subscribers run between its two steps.  The cancel token is set  *)
(* only when the process ends and is left out.                             *)
(***************************************************************************)
EXTENDS Integers, Sequences, FiniteSets, FiniteSetsExt, SequencesExt

CONSTANTS
  Clients,
  MaxSeq,                      \* bound: the last sequence number
  broadcast_channel_capacity,
  MaxConnects,                 \* bound: connections of a client
  MaxConfirms                  \* bound: indices that L1 finalizes

ASSUME FeedServerAssumption ==
  /\ MaxSeq \in Nat
  /\ broadcast_channel_capacity \in Nat \ {0}
  /\ MaxConnects \in Nat /\ MaxConfirms \in Nat

VARIABLES
  espresso_rx,     \* messages from the streamer, not yet read by the relay
  last_produced,   \* streamer (external): the last number it sent
  l1_idx,          \* L1 monitor (external): value of the watch channel
  l1_changed,      \* the relay has not seen it
  backlog,
  broadcasting,    \* the message between append and send: <<bm>> or <<>>
  channel,         \* every message ever sent to the broadcast channel
  clients,         \* per client: state of its task, and what it received
  confirms         \* counter for the bound

relayVars == <<espresso_rx, last_produced, l1_idx, l1_changed, confirms>>
vars == <<espresso_rx, last_produced, l1_idx, l1_changed, backlog, broadcasting,
          channel, clients, confirms>>

\* A BroadcastMessage: messages and, or, the confirmed index (-1 for none).
None == -1
BroadcastMessage(messages, confirmed) == [messages |-> messages, confirmed |-> confirmed]

-----------------------------------------------------------------------------
Init ==
  /\ espresso_rx = <<>>
  /\ last_produced = 0
  /\ l1_idx = 0
  /\ l1_changed = FALSE
  /\ backlog = <<>>
  /\ broadcasting = <<>>
  /\ channel = <<>>
  /\ clients = [c \in Clients |->
       [phase |-> "away", rx |-> 0, last_sent_seq |-> None, requested |-> 1,
        received |-> <<>>, before |-> 0, connects |-> 0]]
  /\ confirms = 0

\* External: the streamer sends a message; the numbers increase, with a gap
\* where L1 has finalized what was not broadcast.
StreamerSend ==
  /\ \E s \in last_produced + 1 .. MaxSeq :
       /\ s = last_produced + 1 \/ s = l1_idx + 1
       /\ last_produced' = s
       /\ espresso_rx' = Append(espresso_rx, s)
  /\ UNCHANGED <<l1_idx, l1_changed, backlog, broadcasting, channel, clients, confirms>>

\* External: L1 finalizes.
L1Update ==
  /\ confirms < MaxConfirms
  /\ confirms' = confirms + 1
  /\ \E idx \in l1_idx .. MaxSeq : l1_idx' = idx
  /\ l1_changed' = TRUE
  /\ UNCHANGED <<espresso_rx, last_produced, backlog, broadcasting, channel, clients>>

-----------------------------------------------------------------------------
(* FeedRelay::start and WsBroadcastServer::broadcast.                      *)

Confirmed(b, idx) == SelectSeq(b, LAMBDA s : s > idx)

\* Mutant: only the first message of a batch is kept.
AppendedFirst(b, ms) ==
  FoldLeft(LAMBDA acc, s : IF acc # <<>> /\ s <= Last(acc) THEN acc ELSE Append(acc, s),
           b, SubSeq(ms, 1, 1))

\* Backlog::append skips what is not above the tail.
Appended(b, ms) ==
  FoldLeft(LAMBDA acc, s : IF acc # <<>> /\ s <= Last(acc) THEN acc ELSE Append(acc, s), b, ms)

RelayConfirm ==
  /\ broadcasting = <<>>
  /\ l1_changed
  /\ l1_changed' = FALSE
  /\ backlog' = Confirmed(backlog, l1_idx)
  /\ broadcasting' = <<BroadcastMessage(<<>>, l1_idx)>>
  /\ UNCHANGED <<espresso_rx, last_produced, l1_idx, channel, clients, confirms>>

\* recv, then try_recv until the channel is empty.
RelayMessages ==
  /\ broadcasting = <<>>
  /\ espresso_rx # <<>>
  /\ backlog' = Appended(backlog, espresso_rx)
  /\ broadcasting' = <<BroadcastMessage(espresso_rx, None)>>
  /\ espresso_rx' = <<>>
  /\ UNCHANGED <<last_produced, l1_idx, l1_changed, channel, clients, confirms>>

\* broadcast_tx.send
BroadcastSend ==
  /\ broadcasting # <<>>
  /\ channel' = channel \o broadcasting
  /\ broadcasting' = <<>>
  /\ UNCHANGED <<relayVars, backlog, clients>>

-----------------------------------------------------------------------------
(* The task of a subscriber: handle_connection and run_ws_client.          *)

Disconnected(c) ==
  /\ clients' = [clients EXCEPT ![c].phase = "away"]
  /\ UNCHANGED <<relayVars, backlog, broadcasting, channel>>

\* The upgrade succeeds; the task subscribes.  A client asks for
\* what follows the last message it has.
Connect(c) ==
  /\ clients[c].phase = "away"
  /\ clients[c].connects < MaxConnects
  /\ clients' = [clients EXCEPT
       ![c].phase = "subscribed",
       ![c].rx = Len(channel),
       ![c].last_sent_seq = None,
       ![c].requested = Max({0} \cup ToSet(clients[c].received)) + 1,
       ![c].before = Len(clients[c].received),
       ![c].connects = @ + 1]
  /\ UNCHANGED <<relayVars, backlog, broadcasting, channel>>

GetSince(from) == SelectSeq(backlog, LAMBDA s : s >= from)

\* Mutant: the backlog read does not set last_sent_seq.
SendBacklogForgetting(c) ==
  /\ clients[c].phase = "subscribed"
  /\ LET old == GetSince(clients[c].requested)
     IN  clients' = [clients EXCEPT
           ![c].phase = "running",
           ![c].received = @ \o old]
  /\ UNCHANGED <<relayVars, backlog, broadcasting, channel>>

SendBacklog(c) ==
  /\ clients[c].phase = "subscribed"
  /\ LET old == GetSince(clients[c].requested)
     IN  clients' = [clients EXCEPT
           ![c].phase = "running",
           ![c].last_sent_seq = IF old = <<>> THEN None ELSE Last(old),
           ![c].received = @ \o old]
  /\ UNCHANGED <<relayVars, backlog, broadcasting, channel>>

ShouldSend(bm, last) ==
  \/ bm.confirmed # None
  \/ IF last = None THEN bm.messages # <<>> ELSE \E s \in ToSet(bm.messages) : s > last

\* Mutant: off by one.
UpdateLastSentNext(bm, last) == Max({s + 1 : s \in ToSet(bm.messages)} \cup {last})

UpdateLastSent(bm, last) == Max(ToSet(bm.messages) \cup {last})

\* The broadcast channel has overwritten a message that c has not read.
Lagged(c) == Len(channel) - clients[c].rx > broadcast_channel_capacity

\* rx.recv returns a message, which is written out if it is new.
Recv(c) ==
  /\ clients[c].phase = "running"
  /\ clients[c].rx < Len(channel)
  /\ ~ Lagged(c)
  /\ LET bm == channel[clients[c].rx + 1]
         last == clients[c].last_sent_seq
     IN  clients' = [clients EXCEPT
           ![c].rx = @ + 1,
           ![c].last_sent_seq = IF ShouldSend(bm, last) THEN UpdateLastSent(bm, last) ELSE last,
           ![c].received = IF ShouldSend(bm, last) THEN @ \o bm.messages ELSE @]
  /\ UNCHANGED <<relayVars, backlog, broadcasting, channel>>

RecvLagged(c) ==
  /\ clients[c].phase = "running"
  /\ Lagged(c)
  /\ Disconnected(c)

\* A write times out or fails, the client does not answer, closes or vanishes.
Leave(c) ==
  /\ clients[c].phase \in {"subscribed", "running"}
  /\ Disconnected(c)

-----------------------------------------------------------------------------
Relay == RelayConfirm \/ RelayMessages \/ BroadcastSend

Next ==
  \/ StreamerSend
  \/ L1Update
  \/ Relay
  \/ \E c \in Clients : Connect(c) \/ SendBacklog(c) \/ Recv(c) \/ RecvLagged(c) \/ Leave(c)

Spec == Init /\ [][Next]_vars

\* The relay and the tasks of the subscribers are polled again and again.
Fairness ==
  /\ WF_vars(Relay)
  /\ \A c \in Clients : WF_vars(SendBacklog(c)) /\ WF_vars(Recv(c) \/ RecvLagged(c))

FairSpec == Spec /\ Fairness

-----------------------------------------------------------------------------
(* Properties.                                                             *)

Sent == UNION {ToSet(channel[i].messages) : i \in DOMAIN channel}

\* The backlog is in order without repetition ("Messages are stored in order
\* and must be unique by sequence number"), and holds every message that was
\* broadcast or is about to be and that L1 has not finalized.
BacklogIsComplete ==
  /\ \A i, j \in DOMAIN backlog : i < j => backlog[i] < backlog[j]
  /\ \A bm \in ToSet(channel \o broadcasting) :
       \A s \in ToSet(bm.messages) : s > l1_idx => s \in ToSet(backlog)

\* A subscriber misses nothing: what was broadcast below the last message it
\* has was received, or L1 had finalized it; and within a connection it gets
\* every message at most once and in order, whether from the backlog or from the
\* channel.  Subscribing, reading the backlog, lagging and reconnecting leave
\* neither a gap nor a repetition.
NoGapNoRepetition ==
  \A c \in Clients :
    LET r == clients[c].received
    IN  /\ \A s \in Sent : \A t \in ToSet(r) : s < t => s \in ToSet(r) \/ s <= l1_idx
        /\ \A i, j \in DOMAIN r : clients[c].before < i /\ i < j => r[i] < r[j]

\* A message that was broadcast reaches a subscriber that stays.
ReachesSubscriber ==
  \A c \in Clients : \A s \in 1 .. MaxSeq :
    (clients[c].phase = "running" /\ s \in ToSet(espresso_rx))
      ~> (s \in ToSet(clients[c].received) \/ clients[c].phase = "away")
=============================================================================
