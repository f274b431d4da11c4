----------------------------- MODULE L1Monitor -----------------------------
(***************************************************************************)
(* The L1 monitor of src/rollups/nitro/l1_monitor.rs, as run by main.rs:   *)
(* on start it takes the checkpoint (or, on a fresh deployment, the batch  *)
(* cursor) that the streamer and the feed client start from; then start()  *)
(* polls for finalized blocks and publishes the last finalized message.    *)
(*                                                                         *)
(* L1 is external: a batch posted in a block adds one message and emits    *)
(* one EspressoCertificateVerified event.  The node that answers a read    *)
(* may lag behind, so a read of a head returns one that was a head before. *)
(* Reorganisations of blocks that are not final are left to Restart.       *)
(* Module Startup composes this one with the rest of main.                 *)
(***************************************************************************)
EXTENDS Integers, FiniteSets, FiniteSetsExt

CONSTANTS
  Steps,       \* values of log_scan_step
  Limits,      \* values of max_l1_blocks_to_scan_on_startup
  MaxHead      \* bound: the last L1 block

VARIABLES
  head, finalized,  \* L1 (external): numbers of the last and the last final block
  events,           \* L1 (external): blocks with an EspressoCertificateVerified event
  config,           \* log_scan_step, max_l1_blocks_to_scan_on_startup, is_fresh_deployment
  phase,            \* "start", "scan", "run", "failed", "not_found"
  latest_block, to_block,
  checkpoint,       \* what resolve_config_with_checkpoint is given, or NoCheckpoint
  last_finalized_block,
  finalized_block,  \* read of this tick whose count is not read yet, or None
  watch             \* l1_finalized_msg_idx

l1Vars == <<head, finalized, events>>
startVars == <<config, phase, latest_block, to_block, checkpoint>>
runVars == <<last_finalized_block, finalized_block, watch>>
vars == <<head, finalized, events, config, phase, latest_block, to_block, checkpoint,
          last_finalized_block, finalized_block, watch>>

None == -1
SaturatingSub(a, b) == IF a > b THEN a - b ELSE 0

\* Messages of the bridge after block b: the initial message, and one a batch.
MessageCount(b) == 1 + Cardinality({e \in events : e <= b})

\* A checkpoint: the block of its event (0 for none) and the position that
\* resolve_config_with_checkpoint hands to the streamer and the feed client.
Checkpoint(b, pos) == [event |-> b, starting_pos |-> pos]
NoCheckpoint == Checkpoint(None, None)

Init ==
  /\ head \in 0..MaxHead
  /\ finalized \in 0..head
  /\ events \in SUBSET (1..head)
  /\ config \in [log_scan_step : Steps, max_blocks : Limits, is_fresh_deployment : BOOLEAN]
  /\ phase = "start"
  /\ latest_block = 0 /\ to_block = 0
  /\ checkpoint = NoCheckpoint
  /\ last_finalized_block = 0 /\ finalized_block = None /\ watch = 0

-----------------------------------------------------------------------------
\* L1: a block with or without a batch, and finality.
NewBlock ==
  /\ head < MaxHead
  /\ head' = head + 1
  /\ events' \in {events, events \cup {head + 1}}
  /\ UNCHANGED <<finalized, startVars, runVars>>

Finalize ==
  /\ finalized' \in finalized + 1 .. head
  /\ UNCHANGED <<head, events, startVars, runVars>>

\* A failed read during the start ends the process.
Fail ==
  /\ phase \in {"start", "scan"}
  /\ phase' = "failed"
  /\ UNCHANGED <<l1Vars, config, latest_block, to_block, checkpoint, runVars>>

FreshDeployment ==
  /\ phase = "start" /\ config.is_fresh_deployment
  /\ \E b \in 0..head : checkpoint' = Checkpoint(0, MessageCount(b))
  /\ phase' = "run"
  /\ UNCHANGED <<l1Vars, config, latest_block, to_block, runVars>>

ScanStart ==
  /\ phase = "start" /\ ~config.is_fresh_deployment
  /\ latest_block' \in 0..head
  /\ to_block' = latest_block'
  /\ phase' = "scan"
  /\ UNCHANGED <<l1Vars, config, checkpoint, runVars>>

\* Mutant: one block more than the limit is scanned.
EarliestAllowedOffByOne ==
  IF config.max_blocks > 0 THEN SaturatingSub(latest_block, config.max_blocks) ELSE 0

EarliestAllowed ==
  IF config.max_blocks > 0 THEN SaturatingSub(latest_block, config.max_blocks - 1) ELSE 0

FromBlock == Max({SaturatingSub(to_block, config.log_scan_step), EarliestAllowed})

\* Mutant: the first block of a window is the next window.
NextWindowStuck == FromBlock

NextWindow == SaturatingSub(FromBlock, 1)

\* One window of the loop of scan_for_latest_checkpoint.
ScanWindow ==
  LET logs == {e \in events : FromBlock <= e /\ e <= to_block}
  IN /\ phase = "scan"
     /\ \/ /\ logs # {}
           /\ checkpoint' = Checkpoint(Max(logs), MessageCount(Max(logs)))
           /\ phase' = "run"
           /\ UNCHANGED to_block
        \/ /\ logs = {} /\ FromBlock = EarliestAllowed
           /\ IF config.max_blocks > 0
              THEN phase' = "not_found" /\ UNCHANGED checkpoint
              ELSE phase' = "run" /\ checkpoint' = Checkpoint(0, 1)
           /\ UNCHANGED to_block
        \/ /\ logs = {} /\ FromBlock # EarliestAllowed
           /\ to_block' = NextWindow
           /\ UNCHANGED <<phase, checkpoint>>
     /\ UNCHANGED <<l1Vars, config, latest_block, runVars>>

-----------------------------------------------------------------------------
\* A tick of start(): the finalized block is read.
Tick ==
  /\ phase = "run" /\ finalized_block = None
  /\ finalized_block' \in 0..finalized
  /\ finalized_block' > last_finalized_block
  /\ UNCHANGED <<l1Vars, startVars, last_finalized_block, watch>>

\* Mutant: the message count is read at the head.
CountReadAtHead ==
  /\ finalized_block # None
  /\ watch' = SaturatingSub(MessageCount(head), 1)
  /\ last_finalized_block' = finalized_block
  /\ finalized_block' = None
  /\ UNCHANGED <<l1Vars, startVars>>

\* The message count at that block is read and published.
CountRead ==
  /\ finalized_block # None
  /\ watch' = SaturatingSub(MessageCount(finalized_block), 1)
  /\ last_finalized_block' = finalized_block
  /\ finalized_block' = None
  /\ UNCHANGED <<l1Vars, startVars>>

\* Mutant: the block is remembered although its count was not read.
CountFailedForgetting ==
  /\ finalized_block # None
  /\ finalized_block' = None
  /\ last_finalized_block' = finalized_block
  /\ UNCHANGED <<l1Vars, startVars, watch>>

\* A failed count read: the block is tried again on a later tick.
CountFailed ==
  /\ finalized_block # None
  /\ finalized_block' = None
  /\ UNCHANGED <<l1Vars, startVars, last_finalized_block, watch>>

\* A node that is up to date answers.
TickUpToDate == Tick /\ finalized_block' = finalized
=============================================================================
