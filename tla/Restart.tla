------------------------------ MODULE Restart ------------------------------
(***************************************************************************)
(* The service stops at any moment and starts again from what L1 holds:    *)
(* nothing of the streamer is kept, and the new instance starts from the   *)
(* checkpoint of the latest batch, which may itself be reorganised away    *)
(* later.  Composes Pipeline with the scan of the L1 monitor, as far as it *)
(* decides where to start (module L1Monitor has its steps), and with       *)
(* resolve_config_with_checkpoint.                                         *)
(***************************************************************************)
EXTENDS Pipeline

\* Mutant: starts after the block of the checkpoint.
HotshotHeightPast == IF Latest = 0 THEN 0 ELSE l1_batches[Latest].hotshot_block + 1

\* The height of the latest checkpoint, 0 if the scan finds none on L1.
HotshotHeight == IF Latest = 0 THEN 0 ELSE l1_batches[Latest].hotshot_block

\* The first message that is not on L1, and the height of the checkpoint; a
\* fresh deployment keeps the configured height.
ResolveConfigWithCheckpoint(fresh) ==
  [starting_pos |-> MessageCount(Latest),
   starting_hotshot_height |-> IF fresh THEN Min(StartingHeights) ELSE HotshotHeight]

\* The process ends and is started again.  Counts as a failure.
RestartService(fresh) ==
  /\ failures < MaxFailures
  /\ failures' = failures + 1
  /\ config' = ResolveConfigWithCheckpoint(fresh)
  /\ missed' = IF fresh \/ Latest = 0 THEN missed ELSE missed \cup l1_batches[Latest].behind
  /\ from_block' = config'.starting_hotshot_height
  /\ hotshot_rx' = <<>>
  /\ queue' = <<>> /\ stubs' = <<>> /\ finalized_idx' = 0
  /\ last_broadcast_position' = 0 /\ scheduled' = FALSE /\ retry_task' = "none"
  /\ feed' = <<>> /\ unread' = 0
  /\ l1_idx' = 0 /\ l1_changed' = FALSE
  /\ request' = NoRequest
  /\ UNCHANGED <<chain, l1_batches, certificates, reorgs, final>>

RNext == PNext \/ \E fresh \in BOOLEAN : RestartService(fresh)

RSpec == PInit /\ [][RNext]_pvars

-----------------------------------------------------------------------------
(* Properties.                                                             *)

\* The messages of an accepted batch are on Espresso in their order, the first
\* one at its position; the others at theirs or, across a gap, later.  First
\* means first on Espresso, whichever instance certified the batch, save for a
\* message that a restart has missed: there the new instance may know a later
\* copy only.
L1InEspressoOrder ==
  \A n \in 1 .. Latest :
    LET b == l1_batches[n]
        heights == Min(StartingHeights) .. Len(chain) - 1
    IN  \E at \in [DOMAIN b.messages -> 1 .. Len(Sequenced)] :
          /\ at[1] = b.start_message_position
          /\ \A i, j \in DOMAIN at : i < j => at[i] < at[j]
          /\ \A i \in DOMAIN at :
               \/ AgreesWithEspresso(n, i, at[i], heights)
               \/ at[i] \in missed /\ AgreesWithEspresso(n, i, at[i], Handled)

\* A restart starts low enough: a message that L1 does not have and that is on
\* Espresso below the height started from is one that was only a stub, outside
\* the full queue, when the checkpoint's batch was certified.
OnlyStubsAreMissed ==
  \A h \in Min(StartingHeights) .. config.starting_hotshot_height - 1 :
    \A s \in SeqsAt(h) : s >= config.starting_pos => s \in missed
=============================================================================
