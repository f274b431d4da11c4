--------------------------- MODULE StartupProofs ---------------------------
(***************************************************************************)
(* Proofs about Startup, for any number of starts and blocks, any          *)
(* allowed number of attempts, and any step and limit of the scan.         *)
(***************************************************************************)
EXTENDS Startup, NumberLemmas

\* The signing key: the service goes past initialize only with a registered key.
KeyInv ==
  /\ phase # "start" => boot.state = "yes" /\ key_phase = "ready"
  /\ key_phase = "ready" => signer \in registered

\* L1, and the numbers that were read from it.
BlocksOK ==
  /\ head \in Nat /\ finalized \in 0 .. head /\ events \subseteq 1 .. head
  /\ config \in [log_scan_step : Nat, max_blocks : Nat, is_fresh_deployment : BOOLEAN]
  /\ latest_block \in 0 .. head /\ to_block \in 0 .. latest_block
  /\ finalized_block = M!None \/ finalized_block \in 0 .. finalized
  /\ watch \in Nat

\* The scan has left out no event that lies at or below the head it read.
ScanOK == phase = "scan" => {e \in events : e <= latest_block} \subseteq 0 .. to_block

\* Which values the configuration has: those of the file before the overrides
\* are applied, and those of the secret after, if there is one.
BootOK ==
  /\ env \in Environment
  /\ boot.state = "no" => config.is_fresh_deployment = env.file_fresh
  /\ boot.state = "yes" =>
       /\ env.aws # "one"
       /\ env.aws = "neither" => env.tee_type = "Test" /\ ~ env.placeholders
       /\ boot.height = IF env.aws = "both" THEN "secret" ELSE "file"
       /\ config.is_fresh_deployment = IF env.aws = "both" THEN env.secret_fresh
                                       ELSE env.file_fresh

\* The position that streamer and feed client start from is one that L1 has.
PositionOK == Up => checkpoint.starting_pos \in 1 .. M!MessageCount(head)

\* The inductive invariant.
IInv ==
  /\ KeyInv
  /\ BootOK
  /\ BlocksOK
  /\ ScanOK
  /\ ScanFindsLatest
  /\ PositionOK
  /\ WatchIsFinal

-----------------------------------------------------------------------------
(* The bridge's message count.                                             *)

\* The numbers of a finite set up to b are more, the larger b is.
LEMMA CountUpTo ==
  ASSUME NEW h \in Nat, NEW E \in SUBSET (1 .. h)
  PROVE  /\ \A b : Cardinality({e \in E : e <= b}) \in Nat
         /\ \A a, b \in Nat : a <= b => Cardinality({e \in E : e <= a})
                                       <= Cardinality({e \in E : e <= b})
<1> DEFINE upTo(b) == {e \in E : e <= b}
<1>1. IsFiniteSet(E)
  <2>1. IsFiniteSet(1 .. h)
    BY FS_Interval
  <2> QED
    BY <2>1, FS_Subset
<1>2. \A b : IsFiniteSet(upTo(b)) /\ Cardinality(upTo(b)) \in Nat
  BY <1>1, FS_Subset, FS_CardinalityType
<1>3. ASSUME NEW a \in Nat, NEW b \in Nat, a <= b
      PROVE  Cardinality(upTo(a)) <= Cardinality(upTo(b))
  <2>0. \A e \in E : e <= a => e <= b
    BY <1>3
  <2>1. upTo(a) \in SUBSET upTo(b)
    BY Zenon, <2>0
  <2> HIDE DEF upTo
  <2> QED
    BY <1>2, <2>1, FS_Subset
<1> QED
  BY <1>2, <1>3

\* The message count grows with the block, before and after a step.
LEMMA Counts ==
  ASSUME BlocksOK
  PROVE  /\ \A b : M!MessageCount(b) \in Nat \ {0}
         /\ \A a, b \in Nat : a <= b => M!MessageCount(a) <= M!MessageCount(b)
<1>1. head \in Nat /\ events \in SUBSET (1 .. head)
  BY DEF BlocksOK
<1> DEFINE upTo(b) == Cardinality({e \in events : e <= b})
<1>2. \A b : M!MessageCount(b) = 1 + upTo(b)
  BY DEF M!MessageCount, M!Cardinality, Cardinality
<1>3. /\ \A b : upTo(b) \in Nat
      /\ \A a, b \in Nat : a <= b => upTo(a) <= upTo(b)
  BY Zenon, <1>1, CountUpTo
<1> HIDE DEF upTo
<1> QED
  BY <1>2, <1>3

LEMMA CountsAfter ==
  ASSUME BlocksOK'
  PROVE  /\ \A b : M!MessageCount(b)' \in Nat \ {0}
         /\ \A a, b \in Nat : a <= b => M!MessageCount(a)' <= M!MessageCount(b)'
<1>1. head' \in Nat /\ events' \in SUBSET (1 .. head')
  BY DEF BlocksOK
<1> DEFINE upTo(b) == Cardinality({e \in events' : e <= b})
<1>2. \A b : M!MessageCount(b)' = 1 + upTo(b)
  BY DEF M!MessageCount, M!Cardinality, Cardinality
<1>3. /\ \A b : upTo(b) \in Nat
      /\ \A a, b \in Nat : a <= b => upTo(a) <= upTo(b)
  BY Zenon, <1>1, CountUpTo
<1> HIDE DEF upTo
<1> QED
  BY <1>2, <1>3

-----------------------------------------------------------------------------
(* The steps, one conjunct of the invariant at a time.                     *)

LEMMA InitIInv ==
  ASSUME Init
  PROVE  IInv
<1>1. KeyInv
  BY DEF Init, K!Init, M!Init, KeyInv
<1>2. BootOK
  BY DeploymentsAssumption DEF Init, BootOK, NotBooted
<1>3. BlocksOK
  BY StartupAssumption DEF Init, M!Init, BlocksOK
<1>4. ScanOK /\ ScanFindsLatest /\ PositionOK
  BY DEF Init, M!Init, ScanOK, ScanFindsLatest, PositionOK, Up
<1>5. WatchIsFinal
  BY <1>3, Counts DEF Init, M!Init, WatchIsFinal
<1> QED
  BY <1>1, <1>2, <1>3, <1>4, <1>5 DEF IInv

\* initialize returns Ok only after isSignerValid said yes; what lies behind it
\* in main needs that Ok; and a new start takes a new key and starts anew.
LEMMA KeyStep ==
  ASSUME KeyInv, [Next]_vars
  PROVE  KeyInv'
<1>1. CASE Boot \/ BootFailed
  BY <1>1 DEF KeyInv, Boot, BootFailed, keyVars, monitorVars
<1>2. CASE InitializeKeys
  <2>1. K!Initialize /\ UNCHANGED <<boot, phase>>
    BY <1>2 DEF InitializeKeys, monitorVars
  <2>2. key_phase # "ready" /\ UNCHANGED <<signer, registered>>
    BY <2>1 DEF K!Initialize, K!CheckFirst, K!Prepare, K!PrepareFailed, K!SendFailed, K!Send,
                K!WatchFailed, K!WatchOk, K!Verify
  <2>3. key_phase' = "ready" => signer \in registered
    BY <2>1 DEF K!Initialize, K!CheckFirst, K!Prepare, K!PrepareFailed, K!SendFailed, K!Send,
                K!WatchFailed, K!WatchOk, K!Verify, K!NextAttempt, K!IsSignerValid
  <2> QED
    BY <2>1, <2>2, <2>3 DEF KeyInv
<1>3. CASE FindCheckpoint \/ CheckpointFailed \/ Monitor
  BY <1>3 DEF KeyInv, FindCheckpoint, CheckpointFailed, Monitor, KeysReady, keyVars
<1>4. CASE L1
  <2>1. CASE K!Mine /\ UNCHANGED <<env, boot, l1Vars, monitorVars>>
    BY <2>1 DEF KeyInv, K!Mine, monitorVars
  <2>2. CASE KeysReady /\ UNCHANGED <<env, boot, keyVars>>
    BY <2>2 DEF KeyInv, KeysReady, keyVars
  <2> QED
    BY <1>4, <2>1, <2>2 DEF L1
<1>5. CASE Restart
  BY <1>5 DEF KeyInv, Restart, K!Restart
<1>6. CASE UNCHANGED vars
  BY <1>6 DEF KeyInv, vars, keyVars, monitorVars
<1> QED
  BY <1>1, <1>2, <1>3, <1>4, <1>5, <1>6 DEF Next, Start

\* What a step does to L1 and to the monitor.
LEMMA MonitorSteps ==
  ASSUME KeyInv, [Next]_vars
  PROVE  \/ UNCHANGED <<monitorVars, l1Vars>>
         \/ Boot /\ phase = "start"
         \/ M!FreshDeployment \/ M!ScanStart \/ M!ScanWindow \/ M!Fail
         \/ M!Tick \/ M!CountRead \/ M!CountFailed
         \/ M!NewBlock \/ M!Finalize
         \/ Restart
<1>1. CASE Boot
  BY <1>1 DEF Boot, KeyInv
<1>2. CASE BootFailed \/ InitializeKeys
  BY <1>2 DEF BootFailed, InitializeKeys
<1>3. CASE FindCheckpoint \/ CheckpointFailed \/ Monitor \/ L1
  BY <1>3 DEF FindCheckpoint, CheckpointFailed, Monitor, L1
<1>4. CASE UNCHANGED vars
  BY <1>4 DEF vars
<1> QED
  BY <1>1, <1>2, <1>3, <1>4 DEF Next, Start

\* fetch_secret_overrides and the assertions after it.
LEMMA BootFacts ==
  ASSUME env \in Environment, Boot
  PROVE  /\ env.aws # "one"
         /\ env.aws = "neither" => env.tee_type = "Test" /\ ~ env.placeholders
         /\ boot'.height = IF env.aws = "both" THEN "secret" ELSE "file"
         /\ env.aws = "both" => config' = [config EXCEPT !.is_fresh_deployment = env.secret_fresh]
         /\ env.aws # "both" => config' = [config EXCEPT !.is_fresh_deployment = @]
<1>1. PICK readable \in BOOLEAN, genesis \in BOOLEAN :
        /\ FetchSecretOverrides(readable) # "error"
        /\ ApplyOverrides(FetchSecretOverrides(readable))
        /\ AssertNoPlaceholders(genesis)
  BY DEF Boot
<1> DEFINE fetched == FetchSecretOverrides(readable)
<1>2. /\ env.aws = "neither" => fetched = IF env.tee_type = "Nitro" THEN "error" ELSE "none"
      /\ env.aws = "one" => fetched = "error"
      /\ env.aws = "both" => fetched = IF readable THEN "some" ELSE "error"
  BY Zenon DEF FetchSecretOverrides
<1>3. env.aws \in {"neither", "one", "both"} /\ env.tee_type \in {"Nitro", "Test"}
  BY DEF Environment
<1> HIDE DEF fetched
<1>4. boot' = [state |-> "yes", height |-> IF fetched = "some" THEN "secret" ELSE "file",
               placeholders |-> env.placeholders /\ fetched # "some"]
  BY <1>1 DEF ApplyOverrides, fetched
<1>5. config' = [config EXCEPT !.is_fresh_deployment =
                   IF fetched = "some" THEN env.secret_fresh ELSE @]
  BY <1>1 DEF ApplyOverrides, fetched
<1>6. fetched # "error" /\ ~ boot'.placeholders
  BY <1>1 DEF AssertNoPlaceholders, fetched
<1>7. boot'.height = IF fetched = "some" THEN "secret" ELSE "file"
  BY <1>4
<1>8. fetched # "some" => ~ env.placeholders
  BY <1>4, <1>6
<1> QED
  BY <1>2, <1>3, <1>5, <1>6, <1>7, <1>8

LEMMA BootStep ==
  ASSUME BootOK, BlocksOK, [Next]_vars
  PROVE  BootOK'
<1>0. env' = env
  BY DEF Next, Start, Boot, BootFailed, InitializeKeys, FindCheckpoint, CheckpointFailed, Monitor,
         L1, Restart, vars
<1>1. config.is_fresh_deployment \in BOOLEAN
  BY DEF BlocksOK
<1>2. CASE Boot
  <2>1. boot.state = "no" /\ boot'.state = "yes"
    BY <1>2 DEF Boot, ApplyOverrides
  <2> QED
    BY <1>0, <1>2, <2>1, BootFacts DEF BootOK, BlocksOK
<1>3. CASE BootFailed
  <2>1. boot'.state = "failed"
    BY <1>3 DEF BootFailed
  <2> QED
    BY <1>0, <2>1 DEF BootOK
<1>4. CASE InitializeKeys \/ FindCheckpoint \/ CheckpointFailed \/ Monitor \/ L1
  <2>1. UNCHANGED <<boot, config>>
    BY <1>4 DEF InitializeKeys, FindCheckpoint, CheckpointFailed, Monitor, L1, monitorVars, M!Fail,
                M!FreshDeployment, M!ScanStart, M!ScanWindow, M!Tick, M!CountRead, M!CountFailed,
                M!NewBlock, M!Finalize, M!startVars
  <2> QED
    BY <1>0, <2>1 DEF BootOK
<1>5. CASE Restart
  BY <1>0, <1>5 DEF Restart, BootOK, BlocksOK, NotBooted
<1>6. CASE UNCHANGED vars
  BY <1>6 DEF BootOK, vars, monitorVars
<1> QED
  BY <1>2, <1>3, <1>4, <1>5, <1>6 DEF Next, Start

\* A window of the scan: where it begins, and where the next one ends.
LEMMA WindowFacts ==
  ASSUME BlocksOK
  PROVE  /\ M!EarliestAllowed \in 0 .. latest_block
         /\ config.max_blocks = 0 => M!EarliestAllowed = 0
         /\ config.max_blocks > 0 => M!EarliestAllowed >= latest_block - config.max_blocks + 1
         /\ \A e \in Nat : e > latest_block - config.max_blocks => e >= M!EarliestAllowed
         /\ M!FromBlock \in Nat /\ M!FromBlock >= M!EarliestAllowed
         /\ M!FromBlock # M!EarliestAllowed =>
              M!FromBlock \in 1 .. to_block /\ M!NextWindow = M!FromBlock - 1
<1> DEFINE E == M!EarliestAllowed
           t == M!SaturatingSub(to_block, config.log_scan_step)
<1>0. /\ latest_block \in Nat /\ to_block \in 0 .. latest_block
      /\ config.log_scan_step \in Nat /\ config.max_blocks \in Nat
  BY DEF BlocksOK
<1>1. /\ E \in 0 .. latest_block
      /\ config.max_blocks = 0 => E = 0
      /\ config.max_blocks > 0 => E >= latest_block - config.max_blocks + 1
      /\ \A e \in Nat : e > latest_block - config.max_blocks => e >= E
  BY <1>0 DEF M!EarliestAllowed, M!SaturatingSub
<1>2. t \in 0 .. to_block
  BY <1>0 DEF M!SaturatingSub
<1>3. M!FromBlock = Max({t, E})
  BY DEF M!FromBlock, M!Max, Max
<1> HIDE DEF E, t
<1>4. Max({t, E}) \in {t, E} /\ \A y \in {t, E} : y <= Max({t, E})
  <2>1. {t, E} \in SUBSET Nat /\ {t, E} # {} /\ \A x \in {t, E} : x <= latest_block
    BY <1>0, <1>1, <1>2
  <2> QED
    BY Zenon, <1>0, <2>1, MaxOfBounded
<1>5. M!FromBlock \in Nat /\ M!FromBlock >= E /\ (M!FromBlock # E => M!FromBlock \in 1 .. to_block)
  BY <1>0, <1>1, <1>2, <1>3, <1>4
<1>6. M!FromBlock # E => M!NextWindow = M!FromBlock - 1
  BY <1>5 DEF M!NextWindow, M!SaturatingSub
<1> QED
  BY <1>1, <1>5, <1>6 DEF E

LEMMA BlocksStep ==
  ASSUME KeyInv, BootOK, BlocksOK, [Next]_vars
  PROVE  BlocksOK'
<1>1. CASE UNCHANGED <<monitorVars, l1Vars>>
  BY <1>1 DEF BlocksOK, monitorVars, l1Vars
<1>2. CASE Boot
  <2>1. config' \in [log_scan_step : Nat, max_blocks : Nat, is_fresh_deployment : BOOLEAN]
    BY <1>2, BootFacts DEF BootOK, BlocksOK, Environment
  <2> QED
    BY <1>2, <2>1 DEF Boot, BlocksOK, l1Vars
<1>3. CASE M!FreshDeployment \/ M!ScanStart \/ M!Fail
  <2>1. /\ UNCHANGED <<head, finalized, events, config, finalized_block, watch>>
        /\ latest_block' \in 0 .. head /\ to_block' \in 0 .. latest_block'
    BY <1>3 DEF BlocksOK, M!FreshDeployment, M!ScanStart, M!Fail, M!l1Vars, M!runVars
  <2> QED
    BY <2>1 DEF BlocksOK
<1>4. CASE M!ScanWindow
  <2>1. to_block' \in 0 .. latest_block
    BY <1>4, WindowFacts DEF BlocksOK, M!ScanWindow
  <2> QED
    BY <1>4, <2>1 DEF BlocksOK, M!ScanWindow, M!l1Vars, M!runVars
<1>5. CASE M!Tick
  BY <1>5 DEF BlocksOK, M!Tick, M!l1Vars, M!startVars
<1>6. CASE M!CountRead \/ M!CountFailed
  <2>1. watch' \in Nat
    BY <1>6, Counts DEF BlocksOK, M!CountRead, M!CountFailed, M!SaturatingSub
  <2> QED
    BY <1>6, <2>1 DEF BlocksOK, M!CountRead, M!CountFailed, M!l1Vars, M!startVars
<1>7. CASE M!NewBlock \/ M!Finalize
  <2>1. /\ UNCHANGED <<config, latest_block, to_block, finalized_block, watch>>
        /\ head' \in Nat /\ head <= head' /\ finalized' \in finalized .. head'
    BY <1>7 DEF BlocksOK, M!NewBlock, M!Finalize, M!startVars, M!runVars
  <2>2. events' \subseteq 1 .. head'
    <3>1. CASE M!NewBlock
      <4>1. \A e \in events' : e \in events \/ e = head + 1
        BY <3>1 DEF M!NewBlock
      <4>2. head \in Nat /\ head' = head + 1 /\ \A e \in events : e \in 1 .. head
        BY <3>1 DEF M!NewBlock, BlocksOK
      <4> QED
        BY <4>1, <4>2
    <3>2. CASE M!Finalize
      BY <3>2 DEF BlocksOK, M!Finalize
    <3> QED
      BY <1>7, <3>1, <3>2
  <2> QED
    BY <2>1, <2>2 DEF BlocksOK
<1>8. CASE Restart
  BY <1>8 DEF BlocksOK, BootOK, Environment, Restart, l1Vars
<1> QED
  BY <1>1, <1>2, <1>3, <1>4, <1>5, <1>6, <1>7, <1>8, MonitorSteps

\* A new block changes nothing at or below the old head.
LEMMA NewBlockBelow ==
  ASSUME BlocksOK, M!NewBlock, NEW b \in 0 .. head
  PROVE  /\ {e \in events' : e <= b} = {e \in events : e <= b}
         /\ M!MessageCount(b)' = M!MessageCount(b)
<1>1. {e \in events' : e <= b} = {e \in events : e <= b}
  BY DEF BlocksOK, M!NewBlock
<1> QED
  BY <1>1 DEF M!MessageCount

\* A window without an event is left behind; what is above the next one has none.
LEMMA ScanStep ==
  ASSUME KeyInv, BlocksOK, ScanOK, [Next]_vars
  PROVE  ScanOK'
<1>1. CASE UNCHANGED <<monitorVars, l1Vars>>
  BY <1>1 DEF ScanOK, monitorVars, l1Vars
<1>2. CASE \/ Boot /\ phase = "start"
           \/ M!FreshDeployment \/ M!Fail \/ Restart
  BY <1>2 DEF ScanOK, Boot, M!FreshDeployment, M!Fail, Restart
<1>3. CASE M!ScanStart
  <2>1. /\ UNCHANGED events /\ to_block' = latest_block' /\ latest_block' \in Nat
        /\ \A e \in events : e \in Nat
    BY <1>3 DEF BlocksOK, M!ScanStart, M!l1Vars
  <2>2. {e \in events : e <= latest_block'} \subseteq 0 .. latest_block'
    BY <2>1
  <2> QED
    BY <2>1, <2>2 DEF ScanOK
<1>4. CASE M!ScanWindow
  <2> SUFFICES ASSUME phase' = "scan", NEW e \in events, e <= latest_block
               PROVE  e \in 0 .. to_block'
    BY <1>4 DEF ScanOK, M!ScanWindow, M!l1Vars
  <2>1. e \in Nat /\ e <= to_block /\ to_block \in Nat
    BY <1>4 DEF ScanOK, BlocksOK, M!ScanWindow
  <2>2. /\ {x \in events : M!FromBlock <= x /\ x <= to_block} = {}
        /\ M!FromBlock # M!EarliestAllowed /\ to_block' = M!NextWindow
    BY <1>4 DEF M!ScanWindow
  <2>3. M!FromBlock \in Nat /\ ~ (M!FromBlock <= e)
    BY <2>1, <2>2, WindowFacts
  <2> QED
    BY <2>1, <2>2, <2>3, WindowFacts
<1>5. CASE M!Tick \/ M!CountRead \/ M!CountFailed \/ M!Finalize
  BY <1>5 DEF ScanOK, M!Tick, M!CountRead, M!CountFailed, M!Finalize, M!l1Vars, M!startVars
<1>6. CASE M!NewBlock
  <2>1. UNCHANGED <<phase, latest_block, to_block>> /\ latest_block \in 0 .. head
    BY <1>6 DEF M!NewBlock, M!startVars, BlocksOK
  <2>2. {e \in events' : e <= latest_block} = {e \in events : e <= latest_block}
    BY <1>6, <2>1, NewBlockBelow
  <2> QED
    BY <2>1, <2>2 DEF ScanOK
<1> QED
  BY <1>1, <1>2, <1>3, <1>4, <1>5, <1>6, MonitorSteps

\* The event that ends the scan is the last one, and if none is found there is
\* none among the blocks that may be looked at.
LEMMA LatestStep ==
  ASSUME KeyInv, BlocksOK, ScanOK, ScanFindsLatest, [Next]_vars
  PROVE  ScanFindsLatest'
<1>1. CASE UNCHANGED <<monitorVars, l1Vars>>
  <2>1. UNCHANGED <<events, latest_block, config, phase, checkpoint>>
    BY <1>1 DEF monitorVars, l1Vars
  <2> QED
    BY <2>1 DEF ScanFindsLatest, Up, M!MessageCount, M!Checkpoint
<1>2. CASE \/ Boot /\ phase = "start"
           \/ M!ScanStart \/ M!Fail \/ Restart
  <2>1. phase' \in {"start", "scan", "failed"}
    BY <1>2 DEF Boot, M!ScanStart, M!Fail, Restart
  <2> QED
    BY <2>1 DEF ScanFindsLatest, Up
<1>3. CASE M!FreshDeployment
  <2>1. phase' = "run" /\ config'.is_fresh_deployment
    BY <1>3 DEF M!FreshDeployment
  <2> QED
    BY <2>1 DEF ScanFindsLatest, Up
<1>4. CASE M!ScanWindow
  <2> DEFINE F == M!FromBlock
             logs == {e \in events : F <= e /\ e <= to_block}
             below == {e \in events : e <= latest_block}
             inReach == {e \in below : config.max_blocks > 0 => e > latest_block - config.max_blocks}
             found == /\ logs # {}
                      /\ checkpoint' = M!Checkpoint(Max(logs), M!MessageCount(Max(logs)))
                      /\ phase' = "run"
             notFound == /\ logs = {} /\ F = M!EarliestAllowed
                         /\ IF config.max_blocks > 0 THEN phase' = "not_found"
                            ELSE phase' = "run" /\ checkpoint' = M!Checkpoint(0, 1)
  <2>1. found \/ notFound \/ phase' = "scan"
    BY <1>4 DEF M!ScanWindow, M!Max, Max
  <2>2. UNCHANGED <<events, latest_block, config>> /\ phase = "scan"
    BY <1>4 DEF M!ScanWindow, M!l1Vars
  <2>3. /\ latest_block \in Nat /\ to_block \in 0 .. latest_block
        /\ config.max_blocks \in Nat /\ F \in Nat
        /\ \A e \in events : e \in Nat
        /\ \A e \in below : e <= to_block
    BY <2>2, WindowFacts DEF BlocksOK, ScanOK
  <2> HIDE DEF F
  <2>4. \A e : e \in logs <=> e \in below /\ F <= e
    BY <2>3
  <2>5. CASE found
    <3>1. logs \in SUBSET Nat /\ logs # {} /\ to_block \in Nat /\ \A e \in logs : e <= to_block
      BY <2>3, <2>5
    <3>2. Max(logs) \in logs /\ \A e \in logs : e <= Max(logs)
      BY Zenon, <3>1, MaxOfBounded
    <3>3. below \in SUBSET Nat /\ below # {} /\ \A e \in below : e <= latest_block
      BY <2>3, <2>4, <3>2
    <3>4. Max(below) \in below /\ \A e \in below : e <= Max(below)
      BY Zenon, <2>3, <3>3, MaxOfBounded
    <3>5. Max(below) = Max(logs)
      BY <2>3, <2>4, <3>1, <3>2, <3>3, <3>4
    <3>6. Max(logs) \in inReach
      BY <2>3, <2>4, <3>1, <3>2, WindowFacts DEF F
    <3>7. M!MessageCount(Max(below))' = M!MessageCount(Max(below))
      BY <2>2 DEF M!MessageCount
    <3> HIDE DEF below, logs, inReach
    <3>8. below # {} /\ inReach # {} /\ phase' = "run"
           /\ checkpoint' = M!Checkpoint(Max(below), M!MessageCount(Max(below)))
      BY <2>5, <3>3, <3>5, <3>6
    <3> QED
      BY <2>2, <3>7, <3>8 DEF ScanFindsLatest, Up, below, inReach, M!MessageCount
  <2>6. CASE notFound
    <3>1. inReach = {}
      <4> SUFFICES ASSUME NEW e \in inReach PROVE e \in logs
        BY <2>6
      <4>1. e \in Nat /\ e \in below
        BY <2>3
      <4>2. M!EarliestAllowed <= e
        BY <2>3, <4>1, WindowFacts
      <4> QED
        BY <2>4, <2>6, <4>1, <4>2
    <3>2. config.max_blocks = 0 => below = {}
      BY <3>1
    <3> HIDE DEF below, inReach, logs
    <3> QED
      BY <2>2, <2>3, <2>6, <3>1, <3>2 DEF ScanFindsLatest, Up, below, inReach, M!Checkpoint
  <2>7. CASE phase' = "scan"
    BY <2>7 DEF ScanFindsLatest, Up
  <2> QED
    BY <2>1, <2>5, <2>6, <2>7
<1>5. CASE M!Tick \/ M!CountRead \/ M!CountFailed \/ M!Finalize
  <2>1. UNCHANGED <<events, latest_block, config, phase, checkpoint>>
    BY <1>5 DEF M!Tick, M!CountRead, M!CountFailed, M!Finalize, M!l1Vars, M!startVars
  <2> QED
    BY <2>1 DEF ScanFindsLatest, Up, M!MessageCount, M!Checkpoint
<1>6. CASE M!NewBlock
  <2> DEFINE below == {e \in events : e <= latest_block}
  <2>1. UNCHANGED <<latest_block, config, phase, checkpoint>> /\ latest_block \in 0 .. head
    BY <1>6 DEF M!NewBlock, M!startVars, BlocksOK
  <2>2. {e \in events' : e <= latest_block} = below
    BY <1>6, <2>1, NewBlockBelow
  <2>3. PICK m : m = Max(below)
    OBVIOUS
  <2>4. ASSUME below # {}
        PROVE  M!MessageCount(m)' = M!MessageCount(m)
    <3>1. latest_block \in Nat /\ head \in Nat /\ \A e \in events : e \in Nat
      BY DEF BlocksOK
    <3>2. below \in SUBSET Nat /\ \A e \in below : e <= latest_block
      BY <3>1
    <3>3. Max(below) \in below
      BY Zenon, <2>4, <3>1, <3>2, MaxOfBounded
    <3>4. m \in 0 .. head
      BY <2>1, <2>3, <3>1, <3>2, <3>3
    <3> QED
      BY <1>6, <3>4, NewBlockBelow
  <2>5. Max({e \in events' : e <= latest_block'}) = m
    BY <2>1, <2>2, <2>3
  <2> QED
    BY <2>1, <2>2, <2>3, <2>4, <2>5 DEF ScanFindsLatest, Up, M!MessageCount, M!Checkpoint
<1> QED
  BY <1>1, <1>2, <1>3, <1>4, <1>5, <1>6, MonitorSteps

\* The count that a start takes is one at or below the head, and the head's
\* count only grows.
LEMMA PositionStep ==
  ASSUME KeyInv, BlocksOK, BlocksOK', PositionOK, [Next]_vars
  PROVE  PositionOK'
<1>0. /\ head \in Nat /\ M!MessageCount(head) \in Nat \ {0}
      /\ \A b \in 0 .. head : M!MessageCount(b) \in 1 .. M!MessageCount(head)
  <2>1. head \in Nat
    BY DEF BlocksOK
  <2> QED
    BY <2>1, Counts
<1>1. CASE UNCHANGED <<monitorVars, l1Vars>>
  BY <1>1 DEF PositionOK, Up, monitorVars, l1Vars, M!MessageCount
<1>2. CASE \/ Boot /\ phase = "start"
           \/ M!ScanStart \/ M!Fail \/ Restart
  BY <1>2 DEF PositionOK, Up, Boot, M!ScanStart, M!Fail, Restart
<1>3. CASE M!FreshDeployment
  <2>1. PICK b \in 0 .. head : checkpoint' = M!Checkpoint(0, M!MessageCount(b))
    BY <1>3 DEF M!FreshDeployment
  <2>2. checkpoint'.starting_pos = M!MessageCount(b)
    BY <2>1 DEF M!Checkpoint
  <2>3. M!MessageCount(head)' = M!MessageCount(head)
    BY <1>3 DEF M!FreshDeployment, M!MessageCount, M!l1Vars
  <2> QED
    BY <1>0, <2>2, <2>3 DEF PositionOK
<1>4. CASE M!ScanWindow
  <2> DEFINE logs == {e \in events : M!FromBlock <= e /\ e <= to_block}
  <2>1. M!MessageCount(head)' = M!MessageCount(head)
    BY <1>4 DEF M!ScanWindow, M!MessageCount, M!l1Vars
  <2>2. CASE phase' # "run"
    BY <2>2 DEF PositionOK, Up
  <2>3. CASE checkpoint' = M!Checkpoint(0, 1)
    BY <1>0, <2>1, <2>3 DEF PositionOK, M!Checkpoint
  <2>4. CASE logs # {} /\ checkpoint' = M!Checkpoint(Max(logs), M!MessageCount(Max(logs)))
    <3>0. to_block \in Nat /\ \A e \in events : e \in 0 .. head
      BY DEF BlocksOK
    <3>1. to_block \in Nat /\ logs \in SUBSET (0 .. head) /\ \A e \in logs : e <= to_block
      BY <3>0
    <3>2. logs \in SUBSET Nat
      BY <1>0, <3>1
    <3>3. Max(logs) \in logs
      BY Zenon, <2>4, <3>1, <3>2, MaxOfBounded
    <3>4. M!MessageCount(Max(logs)) \in 1 .. M!MessageCount(head)
      BY Zenon, <1>0, <3>1, <3>3
    <3>5. checkpoint'.starting_pos = M!MessageCount(Max(logs))
      BY <2>4 DEF M!Checkpoint
    <3> QED
      BY <2>1, <3>4, <3>5 DEF PositionOK
  <2> QED
    BY <1>4, <2>2, <2>3, <2>4 DEF M!ScanWindow, M!Max, Max
<1>5. CASE M!Tick \/ M!CountRead \/ M!CountFailed \/ M!Finalize
  BY <1>5 DEF PositionOK, Up, M!Tick, M!CountRead, M!CountFailed, M!Finalize, M!l1Vars,
              M!startVars, M!MessageCount
<1>6. CASE M!NewBlock
  <2>1. UNCHANGED <<phase, checkpoint>> /\ head' = head + 1
    BY <1>6 DEF M!NewBlock, M!startVars
  <2>2. PICK n : n = head
    OBVIOUS
  <2>3. M!MessageCount(n)' = M!MessageCount(n)
    BY <1>0, <1>6, <2>2, NewBlockBelow
  <2>4. M!MessageCount(n)' <= M!MessageCount(head)' /\ M!MessageCount(head)' \in Nat
    <3>1. n \in Nat /\ head' \in Nat /\ n <= head'
      BY <1>0, <2>1, <2>2
    <3>2. /\ \A b : M!MessageCount(b)' \in Nat \ {0}
          /\ \A a, b \in Nat : a <= b => M!MessageCount(a)' <= M!MessageCount(b)'
      BY CountsAfter
    <3> QED
      BY <3>1, <3>2 DEF M!MessageCount
  <2> QED
    BY <1>0, <2>1, <2>2, <2>3, <2>4 DEF PositionOK, Up
<1> QED
  BY <1>1, <1>2, <1>3, <1>4, <1>5, <1>6, MonitorSteps

\* What a tick publishes is the count at a block that is final, and the count at
\* the finalized block only grows.
LEMMA WatchStep ==
  ASSUME KeyInv, BlocksOK, BlocksOK', WatchIsFinal, [Next]_vars
  PROVE  WatchIsFinal'
<1>0. /\ finalized \in Nat /\ finalized <= head /\ head \in Nat /\ watch \in Nat
      /\ \A b : M!MessageCount(b) \in Nat \ {0}
      /\ \A a, b \in Nat : a <= b => M!MessageCount(a) <= M!MessageCount(b)
  <2>1. finalized \in Nat /\ finalized <= head /\ head \in Nat /\ watch \in Nat
    BY DEF BlocksOK
  <2> QED
    BY <2>1, Counts
<1>1. CASE UNCHANGED <<watch, finalized, events>>
  BY <1>1 DEF WatchIsFinal, M!MessageCount
<1>2. CASE M!CountRead
  <2>1. UNCHANGED <<finalized, events>> /\ finalized_block \in 0 .. finalized
    BY <1>2 DEF M!CountRead, M!l1Vars, BlocksOK
  <2>2. M!MessageCount(finalized_block) <= M!MessageCount(finalized)
    BY <1>0, <2>1
  <2>3. watch' = M!MessageCount(finalized_block) - 1
    BY <1>0, <1>2 DEF M!CountRead, M!SaturatingSub
  <2>4. M!MessageCount(finalized)' = M!MessageCount(finalized)
    BY <2>1 DEF M!MessageCount
  <2> QED
    BY <1>0, <2>2, <2>3, <2>4 DEF WatchIsFinal
<1>3. CASE M!NewBlock
  <2>1. UNCHANGED <<watch, finalized>>
    BY <1>3 DEF M!NewBlock, M!runVars
  <2>2. PICK n : n = finalized
    OBVIOUS
  <2>3. M!MessageCount(n)' = M!MessageCount(n)
    BY <1>0, <1>3, <2>2, NewBlockBelow
  <2> QED
    BY <2>1, <2>2, <2>3 DEF WatchIsFinal, M!MessageCount
<1>4. CASE M!Finalize
  <2>1. UNCHANGED <<watch, events>> /\ finalized' \in Nat /\ finalized <= finalized'
    BY <1>0, <1>4 DEF M!Finalize, M!runVars
  <2>2. M!MessageCount(finalized) <= M!MessageCount(finalized')
    BY <1>0, <2>1
  <2>3. M!MessageCount(finalized') = M!MessageCount(finalized)'
    BY <2>1 DEF M!MessageCount
  <2>4. M!MessageCount(finalized') \in Nat
    BY <1>0
  <2> QED
    BY <1>0, <2>1, <2>2, <2>3, <2>4 DEF WatchIsFinal
<1>5. CASE Restart
  <2>1. watch' = 0 /\ UNCHANGED <<finalized, events>>
    BY <1>5 DEF Restart, l1Vars
  <2>2. M!MessageCount(finalized)' = M!MessageCount(finalized)
    BY <2>1 DEF M!MessageCount
  <2> QED
    BY <1>0, <2>1, <2>2 DEF WatchIsFinal
<1>6. \/ UNCHANGED <<watch, finalized, events>>
      \/ M!CountRead \/ M!NewBlock \/ M!Finalize \/ Restart
  BY MonitorSteps DEF monitorVars, l1Vars, Boot, M!FreshDeployment, M!ScanStart, M!ScanWindow,
                      M!Fail, M!Tick, M!CountFailed, M!l1Vars, M!runVars
<1> QED
  BY <1>1, <1>2, <1>3, <1>4, <1>5, <1>6

-----------------------------------------------------------------------------
(* The theorems.                                                           *)

\* Every start of the service keeps the invariant, however often it fails and is
\* started again.
THEOREM Invariance == Spec => []IInv
<1>1. Init => IInv
  BY InitIInv
<1>2. IInv /\ [Next]_vars => IInv'
  <2> SUFFICES ASSUME IInv, [Next]_vars PROVE IInv'
    OBVIOUS
  <2>1. BlocksOK'
    BY BlocksStep DEF IInv
  <2> QED
    BY <2>1, KeyStep, BootStep, ScanStep, LatestStep, PositionStep, WatchStep DEF IInv
<1> QED
  BY <1>1, <1>2, PTL DEF Spec

\* main reads L1 and serves only with a key that the contract knows
\* (KeyManager::initialize), for every allowed number of attempts and any number
\* of starts.
THEOREM RegisteredBeforeUp == Spec => []UpOnlyRegistered
<1>1. IInv => UpOnlyRegistered
  BY DEF IInv, KeyInv, UpOnlyRegistered
<1> QED
  BY <1>1, Invariance, PTL

\* A running service uses the secret's configuration if there is one, no
\* placeholder, and a position that L1 has (main, secrets.rs), for every set-up.
THEOREM Configured == Spec => []StartsAsConfigured
<1>1. IInv => StartsAsConfigured
  <2> SUFFICES ASSUME IInv, Up PROVE StartsAsConfigured
    BY DEF StartsAsConfigured
  <2>1. boot.state = "yes"
    BY DEF IInv, KeyInv, Up
  <2>2. checkpoint.starting_pos \in 1 .. M!MessageCount(head)
    BY DEF IInv, PositionOK
  <2>3. /\ ResolveConfigWithCheckpoint.starting_pos = checkpoint.starting_pos
        /\ ResolveConfigWithCheckpoint.starting_hotshot_height =
             IF config.is_fresh_deployment THEN boot.height ELSE "checkpoint"
    BY DEF ResolveConfigWithCheckpoint
  <2> QED
    BY <2>1, <2>2, <2>3 DEF IInv, BootOK, Environment, StartsAsConfigured
<1> QED
  BY <1>1, Invariance, PTL

\* scan_for_latest_checkpoint finds the last event in its reach, for every
\* log_scan_step and every limit, 0 included.
THEOREM ScanIsRight == Spec => []ScanFindsLatest
<1>1. IInv => ScanFindsLatest
  BY DEF IInv
<1> QED
  BY <1>1, Invariance, PTL

\* start() of the monitor publishes only what is final.
THEOREM PublishesFinal == Spec => []WatchIsFinal
<1>1. IInv => WatchIsFinal
  BY DEF IInv
<1> QED
  BY <1>1, Invariance, PTL
=============================================================================
