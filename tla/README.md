# A TLA+ model of the Chain Adjacent Service

The Chain Adjacent Service (CAS) stands between an Arbitrum Nitro rollup and Espresso. It
submits the sequencer's feed to Espresso, re-broadcasts what Espresso has finalized, and
certifies a batch for L1 only if the batch agrees with Espresso's order. This directory holds
TLA+ modules translated from the Rust source, TLC configurations, and TLAPS proofs. Source paths
below are relative to the crate (`src/` of the repository); `PROJECT.json` maps every definition
to its lines.

## The system

```
 sequencer feed -> feed client -> channel -> submitter -> Espresso
                                                             |
 subscribers <- feed server <- relay <- channel <- streamer <- poller
                                 ^                  ^   ^
                                 |  finalized index |   | verification requests
                                 +---- L1 monitor --+   DA API <- batch poster -> L1
```

`main.rs` runs streamer, feed relay, submitter loop, DA server and L1 monitor as futures of one
`select!`: a handler of theirs is atomic up to its awaits. Spawned, and so truly interleaved, are
the Espresso poller, the retry timer, the feed client, one task per feed subscriber and one task
per transaction in flight. When any of the main futures returns, the process ends.

| Part | State | Operations | Hard behaviours | What makes it correct |
| --- | --- | --- | --- | --- |
| streamer (`streamer/`) | sorted `queue`, `stubs`, `finalized_idx`, `last_broadcast_position`, retry flag | poll, handle blocks, finalization with promotion, broadcast, retry | messages out of order and included twice, full queue, full channel, failing re-fetch, finality overtaking the feed | nothing lost before L1 finality, first inclusion wins, feed in order |
| batch verification (`nitro.rs`) | none | compare a batch with the queue | gaps, delayed messages, ends of the range | loop means what it should; ranges chain |
| verification arm, cursor, L1 | request, cursor reads, batches on L1 | store, two reads, reply, post, finalize | reads torn by a new batch, failing reads, reorganisation | batches on L1 follow Espresso and all messages get there |
| submitter (`submitter/`) | pending messages and transactions, permits, tasks | receive, build, spawn, submit, poll | lost answers, dropped transactions, concurrent tasks | at least once, order within a window |
| packing (`nitro.rs`, `main.rs`) | remaining messages | one payload per round | sizes at the limit, messages that cannot be encoded | nothing lost or reordered, terminates |
| feed client (`feed/client.rs`) | `next_seq_num`, connection, frame in progress | connect, read, send, reconnect | drops in mid-stream, bad frames, full channel | once, in order, nothing valid skipped |
| relay and server (`feed/relay.rs`, `ws_server.rs`) | backlog, broadcast channel, per-client position | append, confirm, connect, send backlog, receive, lag | subscribing while messages arrive, lag, confirmation out of order | no gap, no repetition in a connection |
| L1 monitor (`l1_monitor.rs`) | scan window, last finalized block, published index | scan, tick, read count | lagging node, failed reads, steps and limits of 0 | latest checkpoint found, index final and published in the end |
| key manager (`key_manager/`) | key, attempts | check, prepare, register, verify | lost answers, late mining, restart with a new key | ready only if registered |
| start (`main.rs`, `secrets.rs`) | configuration, how far the start is | overrides, assertions, keys, checkpoint | any step fails, the process ends anywhere and starts again | the right configuration, a registered key, an end |
| restart (`main.rs`, `l1_monitor.rs`) | what L1 holds | start from the latest checkpoint | certificates still out, checkpoint reorganised away, stubs below the checkpoint | batches still follow Espresso, only stubs are missed |
| DA API (`da_api/`) | requests in progress, certificates | store with fallback, sign, recover | failing providers, restart, two AnyTrust endpoints, size limits | signs only what was verified; certificates lead back to the batch |
| formats (`nitro.rs`, `types.rs`, `batch_parsing.rs`, `certificate/`) | none | build, encode, parse, sign, validate | cut-off and empty parts, unreadable parts between good ones, optional fields | what one side writes the other side reads |

Not modelled, with the reason:

* the light client (`espresso_client/light_client.rs`): a thin reader over an external crate, which
  has all of the verification; `Streamer` has its outcomes (blocks, nothing, an error);
* the DA methods that forward a request without keeping or deciding anything, the answers that
  are constants (header bytes, `getMaxMessageSize`), and JSON-RPC itself;
* Brotli, the content of attestations and the proof for them, cryptography: external. They succeed
  or fail, and a signature is the pair of who signed and what;
* WebSocket transport, proxy connection, ping and pong, HTTP headers: no state that the properties
  can tell apart;
* deserialisation of the configuration, logging: no behaviour.

`PROJECT.json` lists every part with its status.

## Modules

| Module | Models | Notes |
| --- | --- | --- |
| `Streamer` | `streamer.rs` without the verification arm | queue and stubs as functions from sequence numbers; loops as closed forms |
| `StreamerLoops` | the loops of `streamer.rs` over the Vec and the BTreeMap | recursive; shows the closed forms of `Streamer` right |
| `NitroVerify`, `NitroVerifyLoop` | `verify_batch_messages` | closed form, and the loop it is compared with on the requests of `Pipeline` |
| `Pipeline` | extends `Streamer` and `NitroVerify` by requests, cursor and L1 | the poster, the contracts and reorganisations are external |
| `Restart` | extends `Pipeline` by the end of the process and a start from L1's checkpoint | everything in memory is gone; L1, Espresso and certificates stay |
| `TxPacking` | `build_espresso_tx_payload` | operators; message sizes instead of bytes |
| `Delivery` | what the submitter promises | abstract: at-least-once delivery |
| `Submitter` | `submitter.rs`, and `build_tx_fn` of `main.rs` | extends `TxPacking`, refines `Delivery` |
| `FeedClient`, `FeedServer` | `feed/client.rs`; `feed/relay.rs`, `broadcaster.rs`, `ws_server.rs` | |
| `L1Monitor`, `KeyManager` | the files of these names | components of `Startup`; L1 and contracts are external |
| `Startup` | `main.rs` up to the running service, `secrets.rs` | composes the two; a configured value is where it comes from |
| `DaApi` | `da_api/nitro/server.rs`, `store_fallback.rs` | providers are external |
| `Bytes` | integers, slices and fixed fields as byte sequences | shared by the formats |
| `BatchParsing` | `batch_parsing.rs` | with the replayer on L1 (external) that must agree with it |
| `HotshotPayload` | payloads V1 and legacy, built and parsed (`nitro.rs`, `utils.rs`) | framing in bytes; contents as tokens |
| `MessageRlp` | the hand-written RLP of `types.rs` | byte by byte |
| `CasCertificate` | `certificate/`, `sign_message` | byte layout; what is signed |
| `Codecs` | the inputs of these formats, growing step by step | the properties of all formats |
| `NumberLemmas` | least and greatest element | lemmas of the proofs |
| `StreamerLemmas`, `StreamerSteps`, `StreamerProofs` | proofs about `Streamer` | its operators, its actions, its theorems |
| `PipelineProofs`, `DaApiProofs`, `StartupProofs` | proofs about these modules | |
| `MC*` | instances for TLC | |

An action is a whole handler, or the part between two awaits where others can interfere. State
that lives outside the service (Espresso's chain, L1, providers, the sequencer) is marked external
and is as adverse as the code has to expect: it lags, fails, drops and repeats. A definition whose
comment begins with "Mutant" is a plausible defect of the definition after it; with it in place,
the property named in `PROJECT.json` must fail.

Choices worth knowing:

* The streamer's channels never close while `main.rs` runs, so the branches for a dropped sender
  are unreachable and left out. The watch channel starts at 0.
* A failed or empty poll changes nothing and is a stutter. The blocks after the bounded chain are
  `HandleQuietBlocks`: ranges without entries keep arriving and each one tries to broadcast.
* While the verification arm awaits its two cursor reads, no other arm of the streamer runs, but
  poller, L1 and poster do. A failed read gives the default cursor (1, 1), as in the code.
* Numbers are small; none of the code's arithmetic comes near 2^64 except where it saturates, and
  there the saturation is modelled.
* The feed relay returns when the client task does, which ends the process; `FeedServer` describes
  the service while it runs. A failed backlog write is a client that leaves.

## Runs

Passing runs. State counts are of distinct states.

| Run | Question | States |
| --- | --- | --- |
| `streamer` | does the streamer lose, replace or reorder anything, is a blocked broadcast taken up again, and are the closed forms of its loops right? | 2.0 M |
| `pipeline` | are the batches on L1 in Espresso's order, with delayed messages, gaps, failing reads, a reorganisation or a restart of the service; does a restart start low enough; is each request verified as by the code's loop, and is the split into batches immaterial? | 1.8 M |
| `pipeline_live` | does every message reach L1 through eviction and promotion, and the feed through back-pressure? | 105 k |
| `submitter` | is every list of messages packed in order within the limit, and delivered at least once (refinement of `Delivery`, and liveness)? | 592 k |
| `feed_client` | is each valid message passed on once, in order, eventually? | 5.2 k |
| `feed_server` | are subscribers without gaps, and reached eventually? | 22 k |
| `startup` | is a running service registered and configured as it should be, is the latest checkpoint found, does every start end, and is finality published? | 453 k |
| `da_api` | is only what was verified signed, is a fallback only used when asked for, and does a certificate lead back to its batch? | 1.9 M |
| `codecs` | is what is built read back, also in part or next to unreadable parts; does a parsed batch replay as it was verified? | 190 k |

Runs that show a disagreement between the code and what the repository says of it (`findings` in
`PROJECT.json` quotes the lines):

| Run | What happens |
| --- | --- |
| `pipeline_fetch` | a promotion that fails is not retried unless L1 finalizes more, which may need the promotion |
| `pipeline_gap` | with a gap in the queue a batch is compared with entries of other numbers |
| `tx_oversized` | an oversized message is not skipped; the packing loop does not end |

### Other observations

Smaller differences between code and comments, met while translating. The models follow the code;
no run states these.

* `promote_stubs` (`streamer.rs:391`) keeps the last occurrence of a number in the blocks it fetches
  again. If a message was included a second time in that range, the height differs from the
  stub's and promotion stops, although stubs are "Promoted back to full entries when finalization
  creates room." (`streamer.rs:29`).
* `fetch_batch_cursor` (`l1_monitor.rs:205`) joins two requests at the latest block. A batch that
  is accepted between the two gives a position and a delayed count of different blocks, not "the
  current batch cursor" (`rollup.rs:16`). `pipeline` covers this interleaving.
* The submitter does not wait for finalization "before submitting the next transaction"
  (`submitter.rs:46`): up to `max_in_flight` are under way. `Delivery` states what that leaves.
* `is_fatal` names "errors that should stop the client permanently" (`feed/client.rs:84`), but
  `retry_connect` retries them as well.
* "Skip backoff for first reconnection attemp" (`feed/client.rs:422`): every successful connect sets
  the flag again (239), so no reconnection after a successful one waits.
* With `is_anytrust` and `anytrust_fallback_url` both set, a certificate of the primary sidecar is
  recovered from the fallback (`server.rs:489`). `da_api` takes one AnyTrust endpoint at a time.
* A restart begins at the height of the checkpoint, which is the lower one of the heights
  `start_espresso_block` and `min_espresso_block_still_in_queue` of the certificate. The latter looks at the full queue
  only (`nitro.rs:198`). A message that was a stub when the batch was certified may lie below; the
  new instance does not see it, or knows only a later copy. `OnlyStubsAreMissed` shows that nothing
  else is missed, and `L1InEspressoOrder` needs its exception for exactly these messages. That the
  contract keeps the lower height is an assumption on code outside the repository.
* The checkpoint of a restart is taken at the latest block (`l1_monitor.rs:259`). If its batch is
  reorganised away afterwards, the instance started from it skips the messages of the dropped
  batch as below `starting_pos` and cannot verify them again before its next start.
* With no event on L1 and no limit on the scan, the checkpoint has height 0 and
  `starting_hotshot_height` of the configuration is not used unless the deployment is fresh.
* `filter_messages` compares with `starting_pos` but not with `finalized_idx` (`streamer.rs:301`): final
  messages that are included again can fill the queue until the next finalization that advances.
* A frame or signature that the feed client rejects is not asked for again once a later message
  was accepted; what is behind the gap is submitted, but the streamer's feed waits at the gap.
* `watch()` of a registration returns Ok also for a reverted one (`tee_verifier.rs`); the read of the
  contract after it is what makes `UpOnlyRegistered` true.
* `calldata_max_size` mirrors the L1 limit (`da_api/config.rs:15`). The fallback path counts the
  certificate towards it (`store_fallback.rs:166`), the calldata provider does not
  (`server.rs:313`).

### Bounds

* Streamer: four blocks over four sequence numbers, with a block that numbers two contents alike,
  a cap of 2 and a range limit of 3: enough for eviction in the middle, re-inclusion between the
  heights of two stubs, two fetch groups, and a full feed channel (capacity 1). Starting positions
  and heights vary. Any block may come again.
* Pipeline with restarts (`MCRestart`): three messages, the second one delayed, three different
  blocks after the empty genesis block (messages come twice, blocks do not), cap 2, one failure (a failed cursor read or a restart) and one
  reorganisation, at most two certificates: a batch is posted, dropped and posted again while a
  stub waits, and a restart happens with a certificate still out. The feed channel has room for
  all messages and the relay is idle, since no property of this run is about the feed.
  `pipeline_live` has four messages in two blocks, the fourth not to be posted yet, and a feed
  channel of 2. Its blocks hold every message once: with cap 1 and re-inclusion, a message that is
  already final may fill the queue (see above).
* Submitter: four messages, one that cannot be encoded and one that fills a payload alone, two
  permits, two polls per attempt, one fault (a lost answer, failed
  look-up or dropped transaction).
* Feed: four messages, frames of up to two, two drops and one rejection for the client; three
  messages, one subscriber with two connections, a broadcast channel of 2 and one confirmation for
  the server.
  Subscribers do not influence each other except through the counter of clients.
* Startup: two attempts, two starts, blocks 0 to 3 with every set of events, scan steps 0, 1, 2 and
  limits 0, 1, 3: windows that adjoin, overlap the limit and stop at 0. Every environment is looked
  at with one way of scanning, and every way of scanning with one environment: the two meet only
  in `is_fresh_deployment`, which varies in both. The theorems have no such bounds.
* DA API: two batches of four sizes around the limit (symmetric), five provider configurations,
  two starts.
* Codecs: batches of up to four items of every kind and every malformed form; transactions of up to
  four parts, whole or short of 1, 2, 9 or 12 bytes, which ends within a message, a prefix or a
  header, and with a header of length 0; blocks with one unreadable transaction of somebody else
  before, between or behind the submitter's; RLP values on both
  sides of the limits 0, 127/128, 55/56 and 255/256 bytes; certificates with every length of
  downstream certificate from none to three bytes and cut anywhere.

Runs whose cfg has `CHECK_DEADLOCK FALSE` may stop for good: the bounded input is used up, the
process has failed, or initialisation has returned.

### Fairness

Weak fairness stands for tokio polling a task that is ready. The streamer's arms get it singly
since `select!` picks at random among ready arms; as an arm is only intermittently ready while
verifications are in progress (`Pipeline`), it is strong fairness, again by the random choice.
External parties get what the code has to rely on: Espresso goes on producing blocks, an accepted
transaction is included or dropped (drops are bounded), the poster tries the next batch, a node
that is up to date answers a tick again and again and a read of the count succeeds now and then
(`Startup`). The steps of a start are weakly fair together: every await returns, with a result or an
error. For the `watch()` of a registration this is an assumption on the L1 node, since the code
sets no timeout of its own; `StartEnds` rests on it. A failing read of L1 is a step of its own, to which nothing is bound. Nothing is assumed of
lost answers and failures except that their number is bounded where stated, and no restart is
ever required. `pipeline`, `da_api` and `codecs` check safety only.

## Proofs

The theorems of `StreamerProofs` hold for every cap, range limit, channel capacity, set of block
contents and starting point: `TypeOK`, `QueueWithinCap`, `NoMessageLost`, `FirstInclusionWins`,
`HeldIsOnEspresso`, `FeedInOrderWithoutGaps`, `FeedFollowsEspresso`, `PollerCoversEveryHeight`,
`RetryNotForgotten` and the action property `ForgetsOnlyFinal`. The assumptions are the `ASSUME`s
of `Streamer`: blocks are sequences of numbered messages, capacities and the range limit are
positive, the cap is a natural number (0 included).

The argument is one inductive invariant, `IInv`. The properties need each other:
`FirstInclusionWins` holds after a block is handled because ranges adjoin
(`PollerCoversEveryHeight`), so every handled height is below the new ones; `FeedFollowsEspresso`
follows from what the queue holds (`HeldIsOnEspresso`, `FirstInclusionWins`) when a message is
sent, which is why a message that is not yet final must never be replaced (`NoMessageLost` and the
test for known numbers); and order in the feed needs `finalized_idx <= last_broadcast_position`,
since finality moves the position. Added to the properties are finiteness of the two maps, the
order of the positions, and that the feed ends at `last_broadcast_position`. `StreamerLemmas`
describes the helpers once (`FilterFacts`, `PromoteFacts`, `BroadcastFacts`, `LowestCardinality`),
`StreamerSteps` has one lemma per action. `RetryNotForgotten` is inductive by itself, given the
types.

`PipelineProofs` adds the verification arm, the poster and an L1 that reorganises. `PIInv` is `IInv`
and what is known of L1: the message counts of its batches grow, finality is below the latest of
them, and a certificate's range is not empty. The steps of the streamer keep `IInv` by
`StreamerSteps`; the others leave the streamer's variables alone (`FrameIInv`) or raise `l1_idx`, which stays
at or below what is final on L1. With the counts, `KeepsWhatL1MayNeed` follows: what is dropped from queue and stubs is at or below
`finalized_idx`, and a reorganisation stops above it. `PSpec` has no restarts; after one,
`HoldsWhatL1MayNeed` is model-checked (`pipeline`).

`DaApiProofs` proves `SignedOnlyVerified` and `FallbackJustified` for any batches, sizes, limits, provider
configurations and number of restarts. Its `IInv` says of a request in progress that it was verified
if it is with a provider, and that it is with AnyTrust only if the primary endpoint declined it.

`StartupProofs` proves `UpOnlyRegistered`, `StartsAsConfigured`, `ScanFindsLatest` and `WatchIsFinal` for any
number of starts and blocks, the 1 to 10 attempts that the code allows, and any step and limit of the scan. `IInv` adds to them that
nothing behind initialize runs without its Ok (`KeyInv`), which values are those of the file and
which those of the secret (`BootOK`), that the numbers read from L1 are below its head (`BlocksOK`),
and the loop invariant of the scan (`ScanOK`): no event at or below the head it read is above the
window to come. The assumptions are the named `ASSUME`s of `Startup`.

Only model-checked: all liveness properties (fairness is beyond the prover); the refinement of
`Delivery`; that the closed forms equal the loops, and the
formats of `Codecs` (recursion over data); restarts, whose property compares sequences of batches
with all of Espresso; feed client and feed server.
