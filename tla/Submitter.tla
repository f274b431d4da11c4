----------------------------- MODULE Submitter -----------------------------
(***************************************************************************)
(* The submitter (src/submitter/submitter.rs): it reads feed messages from *)
(* a channel, has tx_ctor make transactions of them, and spawns a task for *)
(* each that submits it to Espresso, waits for it to be finalized, and     *)
(* submits it again if it is not.  A semaphore bounds the tasks.           *)
(***************************************************************************)
EXTENDS TxPacking, FiniteSets, Functions

CONSTANTS
  MaxMsgs,          \* bound: messages that come from the feed
  ChannelCapacity,  \* submitter_input_channel_capacity
  max_in_flight,
  max_finalization_poll_retries,
  MaxFaults         \* bound: lost answers, failed look-ups and dropped transactions

ASSUME SubmitterAssumption ==
  /\ MaxMsgs \in Nat
  /\ ChannelCapacity \in Nat \ {0}
  /\ max_in_flight \in Nat \ {0}
  /\ max_finalization_poll_retries \in Nat \ {0}
  /\ MaxFaults \in Nat

VARIABLES
  produced,           \* feed (external): messages 1 .. produced were sent
  unsubmitted_msgs,   \* the channel
  pending_msgs,       \* read from the channel in this round
  building,           \* tx_ctor is at work on them
  unsubmitted_txs,
  held,               \* the transaction that waits for a permit: <<tx>> or <<>>
  spawned,            \* the transaction of every task ever spawned, in order
  tasks,              \* running task -> [phase, poll_attempts]
  pool,               \* Espresso (external): transactions accepted, not yet in a block
  ledger,             \* Espresso (external): transactions in finalized blocks, in order
  faults              \* faults so far

loopVars == <<unsubmitted_msgs, pending_msgs, building, unsubmitted_txs, held>>
taskVars == <<spawned, tasks>>
espressoVars == <<pool, ledger>>
vars == <<produced, unsubmitted_msgs, pending_msgs, building, unsubmitted_txs, held,
          spawned, tasks, pool, ledger, faults>>

OnEspresso == ToSet(ledger)

-----------------------------------------------------------------------------
Init ==
  /\ produced = 0
  /\ unsubmitted_msgs = <<>>
  /\ pending_msgs = <<>>
  /\ building = FALSE
  /\ unsubmitted_txs = <<>>
  /\ held = <<>>
  /\ spawned = <<>>
  /\ tasks = <<>>
  /\ pool = {}
  /\ ledger = <<>>
  /\ faults = 0

\* External: the feed client sends a message.
Produce ==
  /\ produced < MaxMsgs
  /\ Len(unsubmitted_msgs) < ChannelCapacity
  /\ produced' = produced + 1
  /\ unsubmitted_msgs' = Append(unsubmitted_msgs, produced + 1)
  /\ UNCHANGED <<pending_msgs, building, unsubmitted_txs, held, taskVars, espressoVars, faults>>

-----------------------------------------------------------------------------
(* The loop of submit_transactions.  The feed client runs in a task of its *)
(* own and may send while the loop drains the channel.                     *)

\* recv, when there is nothing else to do, or try_recv.
RecvMsg ==
  /\ held = <<>>
  /\ ~ building
  /\ unsubmitted_msgs # <<>>
  /\ pending_msgs' = Append(pending_msgs, Head(unsubmitted_msgs))
  /\ unsubmitted_msgs' = Tail(unsubmitted_msgs)
  /\ UNCHANGED <<produced, building, unsubmitted_txs, held, taskVars, espressoVars, faults>>

\* Mutant: the messages are not drained when the payload is full.
BuildTxUndrained ==
  /\ pending_msgs # <<>>
  /\ building \/ unsubmitted_msgs = <<>>
  /\ unsubmitted_txs' = Append(unsubmitted_txs, Payload(pending_msgs))
  /\ pending_msgs' = IF Count(pending_msgs) < Len(pending_msgs) THEN pending_msgs ELSE <<>>
  /\ building' = TRUE
  /\ UNCHANGED <<produced, unsubmitted_msgs, held, taskVars, espressoVars, faults>>

\* try_recv finds the channel empty: tx_ctor, the build_tx_fn of main.rs, makes
\* transactions of what was read, one in a round.
BuildTx ==
  /\ pending_msgs # <<>>
  /\ building \/ unsubmitted_msgs = <<>>
  /\ unsubmitted_txs' = Append(unsubmitted_txs, Payload(pending_msgs))
  /\ pending_msgs' = Drained(pending_msgs)
  /\ building' = TRUE
  /\ UNCHANGED <<produced, unsubmitted_msgs, held, taskVars, espressoVars, faults>>

\* No message is left to build from: the first transaction is popped.
Pop ==
  /\ held = <<>>
  /\ pending_msgs = <<>>
  /\ unsubmitted_txs # <<>>
  /\ building \/ unsubmitted_msgs = <<>>
  /\ held' = <<Head(unsubmitted_txs)>>
  /\ unsubmitted_txs' = Tail(unsubmitted_txs)
  /\ building' = FALSE
  /\ UNCHANGED <<produced, unsubmitted_msgs, pending_msgs, taskVars, espressoVars, faults>>

\* A permit is free: the task is spawned with it.
Spawn ==
  /\ held # <<>>
  /\ Cardinality(DOMAIN tasks) < max_in_flight
  /\ spawned' = spawned \o held
  /\ tasks' = [t \in DOMAIN tasks \cup {Len(spawned) + 1} |->
                 IF t \in DOMAIN tasks THEN tasks[t]
                 ELSE [phase |-> "submitting", poll_attempts |-> 0]]
  /\ held' = <<>>
  /\ UNCHANGED <<produced, unsubmitted_msgs, pending_msgs, building, unsubmitted_txs,
                 espressoVars, faults>>

-----------------------------------------------------------------------------
(* A task t.  An attempt to submit that fails without effect changes       *)
(* nothing.                                                                *)

InPhase(t, phase) == t \in DOMAIN tasks /\ tasks[t].phase = phase

Submit(t) ==
  /\ InPhase(t, "submitting")
  /\ pool' = pool \cup {spawned[t]}
  /\ tasks' = [tasks EXCEPT ![t] = [phase |-> "polling", poll_attempts |-> 0]]
  /\ UNCHANGED <<produced, loopVars, spawned, ledger, faults>>

\* Espresso accepts the transaction but the answer is lost: the task retries.
SubmitUnanswered(t) ==
  /\ InPhase(t, "submitting")
  /\ faults < MaxFaults
  /\ faults' = faults + 1
  /\ pool' = pool \cup {spawned[t]}
  /\ UNCHANGED <<produced, loopVars, taskVars, ledger>>

\* Mutant: the task ends without a look-up.
PollAssuming(t) ==
  /\ InPhase(t, "polling")
  /\ tasks' = Restrict(tasks, DOMAIN tasks \ {t})
  /\ UNCHANGED <<produced, loopVars, spawned, espressoVars, faults>>

\* fetch_transaction_by_hash finds it: the task ends and returns its permit.
PollFound(t) ==
  /\ InPhase(t, "polling")
  /\ spawned[t] \in OnEspresso
  /\ tasks' = Restrict(tasks, DOMAIN tasks \ {t})
  /\ UNCHANGED <<produced, loopVars, spawned, espressoVars, faults>>

\* Mutant: the task ends when the retries are used up.
AfterPollEnding(t) ==
  IF tasks[t].poll_attempts + 1 >= max_finalization_poll_retries
  THEN Restrict(tasks, DOMAIN tasks \ {t})
  ELSE [tasks EXCEPT ![t].poll_attempts = @ + 1]

\* The retries are used up: submit again.
AfterPoll(t) ==
  IF tasks[t].poll_attempts + 1 >= max_finalization_poll_retries
  THEN [tasks EXCEPT ![t] = [phase |-> "submitting", poll_attempts |-> 0]]
  ELSE [tasks EXCEPT ![t].poll_attempts = @ + 1]

\* The look-up fails: the transaction is not there yet, or the request does.
PollFailed(t) ==
  /\ InPhase(t, "polling")
  /\ spawned[t] \in OnEspresso => faults < MaxFaults
  /\ faults' = IF spawned[t] \in OnEspresso THEN faults + 1 ELSE faults
  /\ tasks' = AfterPoll(t)
  /\ UNCHANGED <<produced, loopVars, spawned, espressoVars>>

-----------------------------------------------------------------------------
(* Espresso (external).                                                    *)

Include(tx) ==
  /\ tx \in pool
  /\ pool' = pool \ {tx}
  /\ ledger' = Append(ledger, tx)
  /\ UNCHANGED <<produced, loopVars, taskVars, faults>>

Drop(tx) ==
  /\ tx \in pool
  /\ faults < MaxFaults
  /\ faults' = faults + 1
  /\ pool' = pool \ {tx}
  /\ UNCHANGED <<produced, loopVars, taskVars, ledger>>

-----------------------------------------------------------------------------
Loop == RecvMsg \/ BuildTx \/ Pop \/ Spawn

Task(t) == Submit(t) \/ SubmitUnanswered(t) \/ PollFound(t) \/ PollFailed(t)

Next ==
  \/ Produce
  \/ Loop
  \/ \E t \in DOMAIN tasks : Task(t)
  \/ \E tx \in pool : Include(tx) \/ Drop(tx)

Spec == Init /\ [][Next]_vars

\* The loop and every task run again and again; a request is answered sooner
\* or later, and Espresso includes a transaction that it keeps.
Fairness ==
  /\ WF_vars(Loop)
  /\ \A t \in 1 .. MaxMsgs :
       /\ WF_vars(Submit(t))
       /\ WF_vars(PollFound(t) \/ PollFailed(t))
  /\ WF_vars(\E tx \in pool : Include(tx))

FairSpec == Spec /\ Fairness

-----------------------------------------------------------------------------
(* Properties.                                                             *)

\* The transactions are built in the order of the feed, each message in one
\* transaction, whatever the sizes and wherever the rounds are cut; messages
\* that cannot be encoded are passed over.  None exceeds the limit ("under
\* Espresso's 1MB limit").
PackedInFeedOrder ==
  LET txs == spawned \o held \o unsubmitted_txs
  IN  /\ FlattenSeq(txs) \o Encoded(pending_msgs \o unsubmitted_msgs)
           = Encoded([m \in 1 .. produced |-> m])
      /\ \A tx \in Range(txs) : PayloadSize(tx) <= HOTSHOT_TX_PAYLOAD_MAX_SIZE

\* Every round of build_tx_fn consumes a message, so it ends; a message that is
\* too large for any payload is skipped ("exceeds max hotshot tx payload size,
\* skipping message").
RoundConsumesAMessage ==
  [][Len(unsubmitted_txs') > Len(unsubmitted_txs) => Len(pending_msgs') < Len(pending_msgs)]_vars

\* The submitter implements Delivery: the semaphore bounds how far a
\* transaction may get ahead of earlier ones on Espresso, and with that how far
\* the streamer's queue has to look ahead.
InOrderWithinWindow ==
  INSTANCE Delivery WITH
    Tx <- Seq(1 .. MaxMsgs), Window <- max_in_flight,
    order <- spawned \o held \o unsubmitted_txs, delivered <- OnEspresso

ImplementsDelivery == InOrderWithinWindow!Spec

\* Every message that can be encoded gets onto Espresso, although answers are lost,
\* transactions are dropped and look-ups fail.
EventuallyOnEspresso ==
  \A m \in Encodable \cap 1 .. MaxMsgs :
    (produced >= m) ~> \E tx \in OnEspresso : m \in Range(tx)

=============================================================================
