----------------------------- MODULE KeyManager -----------------------------
(***************************************************************************)
(* KeyManager::initialize of src/key_manager/key_manager.rs, which main.rs *)
(* awaits before it reads L1: the fresh signing key of this process is     *)
(* registered with the TEE verifier contract, or the process ends.  A      *)
(* supervisor may start it again, with another random key (module Startup  *)
(* composes this one with the rest of main).                               *)
(*                                                                         *)
(* The contract and the node are external (tee_verifier.rs uses them): a   *)
(* registration that was sent may be mined or reverted, before or after    *)
(* watch() gives up on it, and a node may answer with an old state.        *)
(* watch() does not look at the receipt's status, so it also returns Ok    *)
(* for a registration that was reverted.                                   *)
(***************************************************************************)
EXTENDS Integers, FiniteSets

CONSTANTS
  max_register_attempts,
  MaxStarts               \* bound: starts of the process

VARIABLES
  signer,       \* the key of this process: the number of its start
  phase,        \* where initialize is, "ready" or "failed"
  attempt,      \* of the loop that runs
  sent,         \* registrations sent by this process
  pending,      \* contract: registrations not mined yet, a number for each signer
  registered    \* contract: signers that are registered

vars == <<signer, phase, attempt, sent, pending, registered>>
Signers == 1..MaxStarts

Init ==
  /\ signer = 1
  /\ phase = "check" /\ attempt = 1 /\ sent = 0
  /\ pending = [s \in Signers |-> 0]
  /\ registered = {}

-----------------------------------------------------------------------------
\* isSignerValid, as a node answers it: it may lag, but it invents nothing.
IsSignerValid == {FALSE} \cup {r \in {TRUE} : signer \in registered}

\* The first read, before any attempt.
CheckFirst ==
  /\ phase = "check"
  /\ \/ \E has_registered \in IsSignerValid :
          phase' = IF has_registered THEN "ready" ELSE "prepare"
     \/ phase' = "failed"
  /\ UNCHANGED <<signer, attempt, sent, pending, registered>>

\* prepare_register_service gets the attestation and the proof for it.
Prepare ==
  /\ phase = "prepare"
  /\ phase' = "register" /\ attempt' = 1
  /\ UNCHANGED <<signer, sent, pending, registered>>

\* One of them fails or is empty: the first loop tries again.
PrepareFailed ==
  /\ phase = "prepare"
  /\ IF attempt < max_register_attempts
     THEN attempt' = attempt + 1 /\ UNCHANGED phase
     ELSE phase' = "failed" /\ UNCHANGED attempt
  /\ UNCHANGED <<signer, sent, pending, registered>>

\* The end of an attempt of the second loop that did not return.
NextAttempt ==
  IF attempt < max_register_attempts
  THEN phase' = "register" /\ attempt' = attempt + 1
  ELSE phase' = "failed" /\ UNCHANGED attempt

\* register_service fails before the transaction is sent.
SendFailed ==
  /\ phase = "register"
  /\ NextAttempt
  /\ UNCHANGED <<signer, sent, pending, registered>>

\* register_service sends the transaction, then watches it.
Send ==
  /\ phase = "register"
  /\ sent' = sent + 1
  /\ pending' = [pending EXCEPT ![signer] = @ + 1]
  /\ phase' = "watch"
  /\ UNCHANGED <<signer, attempt, registered>>

\* watch() fails: the transaction stays behind.
WatchFailed ==
  /\ phase = "watch"
  /\ NextAttempt
  /\ UNCHANGED <<signer, sent, pending, registered>>

\* watch() sees the transaction of this attempt mined or reverted; all that
\* were sent before it, from the same account, are mined by then.
WatchOk ==
  /\ phase = "watch" /\ pending[signer] = 0
  /\ phase' = "verify"
  /\ UNCHANGED <<signer, attempt, sent, pending, registered>>

\* Mutant: Ok from register_service is enough.
VerifyIgnored ==
  /\ phase = "verify"
  /\ phase' = "ready"
  /\ UNCHANGED <<signer, attempt, sent, pending, registered>>

\* verify_registration_on_chain after Ok; a read that fails ends initialize.
Verify ==
  /\ phase = "verify"
  /\ \/ /\ TRUE \in IsSignerValid
        /\ phase' = "ready" /\ UNCHANGED attempt
     \/ NextAttempt
     \/ phase' = "failed" /\ UNCHANGED attempt
  /\ UNCHANGED <<signer, sent, pending, registered>>

-----------------------------------------------------------------------------
\* The contract executes a pending registration, which may revert.
Mine ==
  \E s \in Signers :
    /\ pending[s] > 0
    /\ pending' = [pending EXCEPT ![s] = @ - 1]
    /\ registered' \in {registered, registered \cup {s}}
    /\ UNCHANGED <<signer, phase, attempt, sent>>

\* The process ends, at any time, and is started again with a random key.
Restart ==
  /\ signer < MaxStarts
  /\ signer' = signer + 1
  /\ phase' = "check" /\ attempt' = 1 /\ sent' = 0
  /\ UNCHANGED <<pending, registered>>

Initialize ==
  CheckFirst \/ Prepare \/ PrepareFailed \/ SendFailed \/ Send \/ WatchFailed \/ WatchOk \/ Verify
=============================================================================
