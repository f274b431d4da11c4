------------------------------ MODULE Startup ------------------------------
(***************************************************************************)
(* A start of the service, main and the head of run (src/main.rs): the     *)
(* configuration file, the secrets that override it (src/secrets.rs), the  *)
(* registration of the signing key (module KeyManager), and the checkpoint *)
(* on L1 (module L1Monitor), one after the other; then the L1 monitor goes *)
(* on publishing finality.  Any error ends the process, and so does a      *)
(* task that exits; a supervisor starts it again.                          *)
(*                                                                         *)
(* A value of the configuration is modelled by where it comes from: the    *)
(* "file", the "secret" or the "checkpoint".                               *)
(***************************************************************************)
EXTENDS Integers, FiniteSets, FiniteSetsExt

CONSTANTS
  max_register_attempts,
  MaxStarts,           \* bound: starts of the process
  Steps, Limits,       \* values of log_scan_step, max_l1_blocks_to_scan_on_startup
  MaxHead,             \* bound: the last L1 block
  Deployments          \* the pairs <<environment, log_scan_step, max_blocks>> looked at

\* new_with_attestation_provider refuses 0 and more than 10 attempts.
ASSUME StartupAssumption ==
  /\ max_register_attempts \in 1..10 /\ MaxStarts \in Nat \ {0}
  /\ Steps \subseteq Nat /\ Limits \subseteq Nat /\ MaxHead \in Nat

VARIABLES
  env,      \* what the operator set up: see Environment
  boot,     \* of this start: state, and where starting_hotshot_height comes from
  signer, key_phase, attempt, sent, pending, registered,
  head, finalized, events, config, phase, latest_block, to_block, checkpoint,
  last_finalized_block, finalized_block, watch

keyVars == <<signer, key_phase, attempt, sent, pending, registered>>
monitorVars == <<config, phase, latest_block, to_block, checkpoint,
                 last_finalized_block, finalized_block, watch>>
l1Vars == <<head, finalized, events>>
vars == <<env, boot, keyVars, monitorVars, l1Vars>>

K == INSTANCE KeyManager WITH phase <- key_phase
M == INSTANCE L1Monitor

\* Which of AWS_REGION and AWS_SECRET_ID are set, tee_type, whether the file
\* still has placeholders, and is_fresh_deployment of the file and the secret.
Environment == [aws : {"neither", "one", "both"}, tee_type : {"Nitro", "Test"},
                placeholders : BOOLEAN, file_fresh : BOOLEAN, secret_fresh : BOOLEAN]

ASSUME DeploymentsAssumption == \A d \in Deployments : d[1] \in Environment

NotBooted == [state |-> "no", height |-> "file", placeholders |-> FALSE]

Init ==
  /\ K!Init
  /\ M!Init /\ head = 0
  /\ env \in {d[1] : d \in Deployments}
  /\ <<env, config.log_scan_step, config.max_blocks>> \in Deployments
  /\ config.is_fresh_deployment = env.file_fresh
  /\ boot = NotBooted

-----------------------------------------------------------------------------
(* The configuration.                                                      *)

\* fetch_secret_overrides; readable: the secret is fetched and parsed.
FetchSecretOverrides(readable) ==
  CASE env.aws = "neither" -> IF env.tee_type = "Nitro" THEN "error" ELSE "none"
    [] env.aws = "one" -> "error"
    [] env.aws = "both" -> IF readable THEN "some" ELSE "error"

\* Mutant: only the height is overridden.
ApplyHeightOnly(fetched) ==
  /\ boot' = [state |-> "yes", height |-> IF fetched = "some" THEN "secret" ELSE "file",
              placeholders |-> env.placeholders /\ fetched # "some"]
  /\ UNCHANGED config

\* apply_overrides_nitro, if there are overrides: every placeholder, the
\* starting height and is_fresh_deployment are replaced.
ApplyOverrides(fetched) ==
  /\ boot' = [state |-> "yes", height |-> IF fetched = "some" THEN "secret" ELSE "file",
              placeholders |-> env.placeholders /\ fetched # "some"]
  /\ config' = [config EXCEPT !.is_fresh_deployment =
                  IF fetched = "some" THEN env.secret_fresh ELSE @]

\* assert_no_placeholders_nitro, after the overrides.
AssertNoPlaceholders(genesis) ==
  ~ boot'.placeholders /\ (env.tee_type = "Nitro" => genesis)

\* resolve_operator_private_key
OperatorKeyFound(fetched, in_secret, in_env) == (fetched = "some" /\ in_secret) \/ in_env

\* main up to the creation of the key manager.
Boot ==
  /\ boot.state = "no"
  /\ \E readable, genesis, in_secret, in_env \in BOOLEAN :
       LET fetched == FetchSecretOverrides(readable)
       IN  /\ fetched # "error"
           /\ ApplyOverrides(fetched)
           /\ AssertNoPlaceholders(genesis)
           /\ OperatorKeyFound(fetched, in_secret, in_env)
  /\ UNCHANGED <<env, keyVars, l1Vars, phase, latest_block, to_block, checkpoint,
                 last_finalized_block, finalized_block, watch>>

\* The ? of one of these steps, or get_chain_id fails: the process ends.
BootFailed ==
  /\ boot.state = "no"
  /\ boot' = [boot EXCEPT !.state = "failed"]
  /\ UNCHANGED <<env, keyVars, l1Vars, monitorVars>>

-----------------------------------------------------------------------------
(* The key, the checkpoint, and the running service.                       *)

\* new_for_test: the mock journal takes no attestation, so it cannot fail.
InitializeKeys ==
  /\ boot.state = "yes"
  /\ K!Initialize
  /\ K!PrepareFailed => env.tee_type # "Test"
  /\ UNCHANGED <<env, boot, l1Vars, monitorVars>>

\* initialize().await? has returned Ok.
KeysReady == boot.state = "yes" /\ key_phase = "ready"

FindCheckpoint ==
  /\ KeysReady
  /\ M!FreshDeployment \/ M!ScanStart \/ M!ScanWindow
  /\ UNCHANGED <<env, boot, keyVars>>

\* The ? of one of these reads.
CheckpointFailed == KeysReady /\ M!Fail /\ UNCHANGED <<env, boot, keyVars>>

\* resolve_config_with_checkpoint: what streamer and feed client start from.
ResolveConfigWithCheckpoint ==
  [starting_hotshot_height |-> IF config.is_fresh_deployment THEN boot.height ELSE "checkpoint",
   starting_pos |-> checkpoint.starting_pos, current_message_count |-> checkpoint.starting_pos]

Monitor ==
  /\ KeysReady
  /\ M!Tick \/ M!CountRead \/ M!CountFailed
  /\ UNCHANGED <<env, boot, keyVars>>

\* L1: the contract, and blocks, which matter once they are read.
L1 ==
  \/ K!Mine /\ UNCHANGED <<env, boot, l1Vars, monitorVars>>
  \/ KeysReady /\ (M!NewBlock \/ M!Finalize) /\ UNCHANGED <<env, boot, keyVars>>

\* The process ends, at any moment, and is started again.
Restart ==
  /\ K!Restart
  /\ boot' = NotBooted
  /\ config' = [config EXCEPT !.is_fresh_deployment = env.file_fresh]
  /\ phase' = "start" /\ latest_block' = 0 /\ to_block' = 0 /\ checkpoint' = M!NoCheckpoint
  /\ last_finalized_block' = 0 /\ finalized_block' = M!None /\ watch' = 0
  /\ UNCHANGED <<env, l1Vars>>

Start == Boot \/ BootFailed \/ InitializeKeys \/ FindCheckpoint

Next == Start \/ CheckpointFailed \/ Monitor \/ L1 \/ Restart

\* Every await of the start returns, with a result or an error, so that the next
\* step is taken; no read is bound to fail.  The interval of the monitor keeps
\* ticking, a node that is up to date answers again and again, and reads do not
\* always fail.
Fairness ==
  /\ WF_vars(Start)
  /\ SF_vars(Monitor /\ M!TickUpToDate)
  /\ SF_vars(Monitor /\ M!CountRead)

Spec == Init /\ [][Next]_vars /\ Fairness

Up == phase = "run"
Ended == boot.state = "failed" \/ key_phase = "failed" \/ phase \in {"failed", "not_found"}

-----------------------------------------------------------------------------
(* Properties.                                                             *)

\* Nothing is served or signed, and L1 is not read, before the contract knows
\* the key of this very process: Ok from a registration that was reverted, a
\* registration of an earlier start that is mined late, or an answer that is
\* lost are not enough.
UpOnlyRegistered == phase # "start" => signer \in registered

\* A running service uses the secret wherever there is one ("an operator who
\* forgets the env vars but ships a placeholder-laden config will still fail at
\* startup"): no placeholder is left, the secret decides whether the deployment
\* is fresh, and a fresh one starts at the secret's height and any other at the
\* checkpoint's, at a message that is not ahead of L1.
StartsAsConfigured ==
  LET resolved == ResolveConfigWithCheckpoint
      source == IF env.aws = "both" THEN "secret" ELSE "file"
      fresh == IF env.aws = "both" THEN env.secret_fresh ELSE env.file_fresh
  IN  Up => /\ env.aws # "one"
            /\ env.aws = "neither" => env.tee_type = "Test" /\ ~ env.placeholders
            /\ resolved.starting_hotshot_height = IF fresh THEN source ELSE "checkpoint"
            /\ resolved.starting_pos \in 1 .. M!MessageCount(head)

\* scan_for_latest_checkpoint returns the most recent event at or below the
\* head it read, if it is among the last max_l1_blocks_to_scan_on_startup
\* blocks; the default only if there is no event at all, and the error
\* CheckpointNotFound only if there is none among those blocks.  The windows
\* of the scan leave no block out, whatever the step, and L1 growing meanwhile
\* changes nothing.
ScanFindsLatest ==
  LET below == {e \in events : e <= latest_block}
      inReach == {e \in below : config.max_blocks > 0 => e > latest_block - config.max_blocks}
  IN /\ phase = "not_found" => inReach = {}
     /\ (Up /\ ~config.is_fresh_deployment) =>
          IF below = {} THEN checkpoint = M!Checkpoint(0, 1)
          ELSE /\ inReach # {}
               /\ checkpoint = M!Checkpoint(Max(below), M!MessageCount(Max(below)))

\* The streamer prunes, and the feed confirms, only what is final: message
\* `watch' and all before it are in batches of finalized blocks, though the
\* finalized block moves on between the two reads of a tick.
WatchIsFinal == watch < M!MessageCount(finalized)

\* Every start ends, with the service running or with an error: neither the
\* attempts to register nor the windows of the scan go on for ever, a
\* log_scan_step of 0 included.
StartEnds == <>[](Up \/ Ended)

\* What is final is published in the end, whatever reads failed before, unless
\* the process is started again.
FinalityIsPublished ==
  [](Up => <>(watch = M!MessageCount(finalized) - 1 \/ finalized = 0 \/ ~ Up))
=============================================================================
