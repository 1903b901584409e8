# Validated Streams in TLA+

A TLA+ model of the consensus mechanism in this repository, of the node around it and of
two of its sample clients, with TLC instances and TLAPS proofs. Paths below are relative to `src/`.

## The system

A validator is a Substrate node (Aura for authoring, GRANDPA for finality) with a
*trusted client* attached. The client reports event ids; an event is *validated* once
enough validators have reported it and it is on the finalized chain.

| Part | Code | What it does | State |
|---|---|---|---|
| Witnessing rules | `consensus/src/events/mod.rs`, `proofs/mod.rs` | who may sign, which signature is valid, how many are needed (`target`) | an LRU cache of authority lists |
| Event witnesser | `consensus/src/events/witness.rs` | signs an event id with the node's AURA key, hands it to the gossip | the keystore |
| Gossip service | `consensus/src/gossip/mod.rs` | one task: takes orders from a bounded channel and messages from libp2p | channel of 64 orders |
| Gossip handler | `consensus/src/events/gossip.rs` | verifies a message, stores and purges proofs, counts, submits an extrinsic | event proofs, transaction pool |
| Event proof stores | `consensus/src/proofs/{offchain,in_memory,rocksdb}.rs` | signatures by event and key; the node uses the off-chain one | node database |
| Block import | `consensus/src/block_import.rs` | refuses blocks with events the node lacks proofs for, unless major syncing | - |
| Event stream | `consensus/src/events/validate.rs`, `server.rs` | gRPC: streams the events of finalized blocks | position of the stream |
| Pallet | `pallet/src/lib.rs` | `validate_event`, submitted unsigned by the handler and taken from any origin; two features: proofs off-chain (default) or on-chain | `Streams` / `OnStreams` |
| Runtime | `runtime/src/lib.rs` | ids of the events in a body, the unsigned extrinsic, Aura's authorities | - |
| Node | `node/src/service.rs`, `consensus/src/node.rs` | starts and connects all of it | - |
| Configuration | `consensus/src/config.rs` | gossip port and multiaddresses | - |
| Samples | `samples/irc`, `samples/tps-benchmark`, `samples/basic` | an IRC bot, a load generator, scripts | reply timers, counters |

What runs concurrently on a node: the gRPC handlers, the gossip task (one message at a
time, but with other tasks running between its accesses to the store, the client and the
pool), block import, GRANDPA, Aura. What fails: publications to the network, nodes,
runtime calls; what can be late or repeated: every gossip message and every block.

## Modules

| Module | Content |
|---|---|
| `Authorities` | signatures, `verify_witnessed_event_origin`, `target` |
| `Chain` | what the code uses of Substrate: the block tree, imported, best and finalized blocks, GRANDPA; and the pallet's effect on a block's state |
| `ValidatedStreams` | the path of an event through a network of nodes with off-chain proofs |
| `EventProofs` | what the proof store promises its writer |
| `OffchainEventProofs` | the off-chain store, one action per storage access |
| `EventProofStores` | the in-memory and the RocksDB store |
| `EventStream` | the stream of finalized events, over `Chain` |
| `OnChainProofs` | the handler and the pallet of a node built without `off-chain-proofs` |
| `GossipChannel` | the bounded channel of orders and the start-up of the gossip task |
| `NetworkConfig` | ports and multiaddresses, as operators |
| `NodeStart` | `GossipChannel` and `NetworkConfig` composed: a node from its command line to its gossip loop |
| `TpsBenchmark` | the throughput benchmark |
| `IrcBots` | the IRC bots on one channel |
| `MC...` | the instances for TLC |
| `ValidatedStreams_proofs` | arithmetic of `target` and quorum intersection; types, block import, finality, exclusive alternatives; what the gossip handler submits and purges |
| `OffchainEventProofs_proofs` | purges are complete, the store implements `EventProofs`, counts are right |
| `EventProofStores_proofs` | what the other two stores keep, purge and count |
| `EventStream_proofs` | the stream is the finalized chain |
| `OnChainProofs_proofs` | what the pallet stores, and that it accepts what the handler submits |
| `NodeStart_proofs` | the order of the start-up, and what it takes for a sender to wait before the loop runs; ports and addresses |
| `TpsBenchmark_proofs` | what the benchmark requests and counts, and which factors keep its rate up |
| `IrcBots_proofs` | one reply per bot, cancelled only for another line, naming the user |

### Authorities

A signature is a record of the key and the event it was made for; only the holder of the
key can add one to `signed`. A `WitnessedEvent` is well formed only if its fields agree
with the signature it carries, which is what `VerifyWitnessedEventOrigin` checks.
`Target` keeps the truncation to `u16`. Authority lists are sets: Aura's list has no
duplicates, and the code only asks for membership and length.

### Chain

None of it is code of this repository except the events, the authorities and the `Streams`
keys in a block's state. A block's state never changes, so the authority cache in front of
the runtime call is invisible. The model says what the code relies on: a node imports
children of blocks it has; the longest chain is the best one; GRANDPA finalizes one chain,
with the votes of more than two thirds of the authorities, and a modelled node votes only
for blocks on its best chain. Keys that belong to no modelled node (`Keys \ HeldKeys`) are
*foreign*: they sign, author and vote without any rule. Blocks that carry no event and
change no authority are left out, as nothing looks at them. A body can hold a call for any
event: `validate_event` takes signed calls, and one that fails stays in the body; only an
unsigned call for an id in `Streams` makes a block invalid.

### ValidatedStreams

| Action | Code |
|---|---|
| `WitnessEvent` | `EventWitnesser::witness_event`: the key must be an authority of the latest finalized block |
| `HandleIncomingOrder` | `GossipService::handle_incoming_order`: publish (may fail) and handle locally |
| `HandleIncomingEvent`, `HandleMisattributedEvent` | `handle_incoming_event`: a message of the topic, or one that is not what its signer signed |
| `AddEventProof`, `PurgeEventStaleSignatures`, `CheckProofCount`, `SubmitEventExtrinsic` | the rest of `handle_witnessed_event` and `submit_event_extrinsic`, with the authorities read at the start |
| `AuthorBlock` | Aura: a block from the whole pool on the best block, signed calls included (`BlockEvents`), imported through the same block import |
| `ImportBlock`, `ImportUnchecked` | `import_block`, with the check; and while major syncing or without a body |
| `FinalizeBlock`, `JustifyBlock` | a node finalizes what GRANDPA has finalized; GRANDPA finalizes a block |
| `Restart` | the channel, the handler and the pool are lost; the database, with the proofs, is not |
| `ForeignWitness`, `ForeignBlock` | validators that are not modelled |

`task[n]` is the program counter of the gossip task together with its local variables, so that
blocks can be imported and finalized between any two of its steps. `net` is a set that is never
emptied: a message can be delivered repeatedly, in any order or never. The network takes part only
in what `Faults` allows: `publish` (a publication fails), `crash`, `sync` (a node is major
syncing), `delay` (a block misses the next slot, which makes forks), `foreign` (foreign validators
author blocks), `signed` (the pool holds signed `validate_event` calls, which no handler has
looked at), `api` (a runtime call fails).

Atomic in the model and not in the code: `witness_event` (its only shared access is the
final send, and a queued order models any delay before it); one call to the proof store;
the check and the import of one block (the check reads the store once per event, and a
signature read at any of these moments was really made).

Two details of the code the model follows rather than the comments: the handler counts and
submits after *every* valid message, not only after one that was not stored before
(`events/gossip.rs:71-74`), and a stored proof is simply overwritten.

### EventProofs and OffchainEventProofs

`ValidatedStreams` takes a call to the store for one step. `OffchainEventProofs` looks inside:
`SetSignature` (`offchain.rs:28`), the loop of `LoadSigners`, `RetainSigner` (one signer of the
`retain`) and `CompareAndSet`, and a count that looks up one key at a time. Both loops, that of
adding (34-49) and that of purging (93-120), are the same three actions. There is one writer,
because `run_loop` awaits each message, and it always purges the event it has just added a
proof of, with the authorities that proof was verified against. Hence the comparison never
fails; the model keeps the retry. An absent list and an empty one read the same and are not
told apart. `EventProofs` is the abstract store, `store <- sig` the refinement mapping.
The process is not stopped within a call here; see *Where the code differs from its comments*.

### EventStream

One stream on one node. `AskForBlock` reads the finalized tip, `FindBlock` and `BlockNotReady`
are the two outcomes of the check, `LookupFails` that of an error of
`block_hash` or `lowest_common_ancestor`, `Subscribe` and `Notified` the two halves of line 58 of
`validate.rs`, `SendEvents` the response. The notification stream is a temporary: it starts
empty and is dropped with all but its first notification. The node imports any tree of blocks
and finalizes any chain of them. `SendDefault` is the outcome of a failed `block_body` or
`get_extrinsic_ids`: a response without events, told apart from one of a block that has none by
a mark (`failed`) that only the properties look at. The server's branch for an error is left
out, because `get_finalized_block_events` never returns one.

### EventProofStores

One specification for the two other implementations of the trait, chosen by `kind`. In memory a
mutex makes each call one step, and an occupied entry keeps its signature. In RocksDB each row
`<<event, key>>` is its own write; a purge takes an iterator over a snapshot and deletes row by
row; puts, iterators, deletes and reads can fail; a crash can come between any two of them.
`prefix_iterator` yields all rows from the prefix on, because the database is opened without a
prefix extractor; that is RocksDB's behaviour, not code of this repository. `destroy`, which
deletes the directory, is left out. The count of the in-memory store is the trait's default,
the size of what `get_event_proofs` returns (`DefaultProofCount`); RocksDB has its own.

### OnChainProofs

The other feature of pallet and node: the handler reads the proofs of an event
(`HandleWitnessedEvent`: count, then `get_event_proofs`), puts them in the call
(`CreateUnsignedExtrinsic`; the bound of the map is that of the authorities, so it always fits)
and the pallet checks them against the authorities of the block that includes the call
(`ValidateEventImpl`). A call that fails stays in the body of its block. The chain has no
forks: the properties are about what one chain holds, and other validators may author any block
of it.

### GossipChannel, NetworkConfig and NodeStart

`GossipChannel` models `futures::channel::mpsc` by what the code relies on: a queue of `Buffer`
orders plus one slot for each sender; a sender whose order went beyond `Buffer` is parked until a
receive frees it. Requests may come at any time once the server is up. The witness requests, the
listen addresses and the dialler each have a clone of the sender. `Run` is the point where the
task starts to receive; `HandleIncomingOrder` the whole handler of an order. `NetworkConfig` has
`FromStr` and `Display` of `PortOrOffset` with the ranges of `i16` and `u16` and both treatments
of overflow (printing the least `i16` panics with checks), the saturating `AdjustPort`, and
`adjust_multiaddr`: the protocols popped off the end of an address (`Popped`), one of them
adjusted, put back in the order they were popped. A text is its signs and its number, an address a
sequence of protocols. `NodeStart` adds the sequence of `node.rs`: parse, serve, derive addresses,
spawn the gossip task. Its steps are steps of `GossipChannel` or leave it alone
(`StartRefinesChannel`). A server that cannot bind its addresses is one that gets no requests.

### TpsBenchmark

Connecting, the witnessing of event 0 that probes for the validator, the control loop with its
`u32` counters, and batches of at most `Concurrent` requests at a time, any of which may be
refused. The factors are ratios of whole numbers, and the new rate loses its fraction as the
cast to `u32` drops it (`Times`, `Over`); for rates and ratios of a few digits `f32` rounds no
quotient up to the next whole number. Rates and limits are taken to be small enough that
`sent_events + events_per_block` does not overflow. A build with overflow checks and one
without (`checks`) are both modelled.

### IrcBots

Each bot has a message thread, a task that reads the stream of its node, and timer callbacks.
`SendReply` and `StoreTimer` are two steps: `AddOrUpdate` calls its factory, which starts the
timer, before it stores the entry, and a reply of another bot can be handled in between. A
disposed timer whose callback has started goes on. The handlers go by the text of a line: one of a
user that reads like a reply cancels a timer as a bot's does (`UserLine`), and one whose
identifier is no hexadecimal number throws. The witness command is two steps, as a callback can
run between noting the user and planning the reply. The order of the bots is an arbitrary function
`Hash`, compared by `Precedes`; a bot counts only those whose username it knows (`knows`). The IRC
library learns a username from a message of that user (`LearnUserName`); which ones it knows at
first is left open (`Acquainted`). With `Timed`, deliveries and timers are late by at most `Delay`
ticks; `Tick` waits for no bot that has exited or stopped handling messages.

## Runs

| Run | Instance | Checks |
|---|---|---|
| `static` | 2 nodes, 3 authorities (one foreign and Byzantine), 2 exclusive events, 1 block besides genesis; `publish`, `foreign`, `signed`; symmetric nodes | `TypeOK`, `ImportedEventsWitnessed`, `AlternativesExclusive` |
| `authority_change` | 1 node, 4 keys, authorities {k1,k2,k3} may become {k1,k3,k4}, 2 blocks, all faults but `api`, symmetric blocks | `ImportedEventsWitnessed`, `SubmittedEventsWitnessed`, `FinalizedEventsWitnessed`, `OwnExtrinsicsPassImport`, `StandingAuthoritiesKept` |
| `liveness` | 2 nodes, 3 authorities, 1 event, no faults, fairness | `WitnessedEventsFinalized` |
| `fail_open` | as `static` with 1 event, `foreign` and `api` | expected to violate `ImportedEventsWitnessed` |
| `offchain` | 2 keys, 2 events, lists of up to 3 signers, fairness | `PurgedOfStaleProofs`, `CountRightAtSomeMoment`, `ImplementsEventProofs`, `CallsReturn` |
| `stores` | 3 keys, 2 events, 2 signatures, crashes and failures, symmetric keys and signatures | `PurgedOfStaleProofs`, `CountNeverTooHigh`, `StandingProofsKept`, `OnlyGivenEventPurged` |
| `stream` | 3 blocks besides genesis, 1 event, failing lookups and reads, fairness | `TypeOK`, `StreamIsFinalizedChain`, `HeardBlocksDelivered` |
| `onchain` | 3 keys, authorities that may change, 2 events, 3 blocks, blocks of other validators | `OnStreamsProved`, `PoolPassesValidation` |
| `node_start` | 2 addresses, 3 requests, a buffer of 4; texts and ports at the ends of their ranges, 8 shapes of address; fairness | `ListensBeforeDialling`, `WaitsOnlyIfCrowded`, `HandledUnlessStuck`, `DisplayRoundTrips`, `AdjustedInPlace`, `ProtocolsKept`, `OffsetMovesPort` |
| `early_requests` | as `node_start`, with one command line | expected to violate `WitnessedEventsHandled` |
| `tps` | 3 events, 2 requests at a time, factors 2 and 2, 3/2 and 5/2, 1/2 and 2, other clients, refused requests, fairness | `BatchesCoverSent`, `RateSurvives`, `RequestsMadeOnce`, `AllButOneReceived`, `OwnEventsLag`, `BenchmarkEnds` |
| `irc` | 2 bots, who know each other's usernames or not, 1 event, clocks, 1 trouble (a failing call, a broken stream or a user's line), fairness | `WitnessingNamesUser`, `OneReplyPerBot`, `CancelledOnlyByOthers`, `SlotsKeepRepliesApart`, `DeliveredIsAnswered` |

- `ImportedEventsWitnessed`: every event of a block imported with the check was signed by
  `target` authorities of the parent, whatever was gossiped, purged or finalized meanwhile.
- `FinalizedEventsWitnessed`: the same for the chain GRANDPA finalized, if no modelled node
  imported the block while major syncing, although foreign validators vote as they like. Of a
  block imported while major syncing nothing is said.
- `AlternativesExclusive`: why `target` is what it is. With clients that vote for one of two
  alternatives and at most a third of the authorities Byzantine, no two imported blocks, on
  any forks, settle both.
- `SubmittedEventsWitnessed`: the handler submits only events that `target` authorities of
  a finalized block signed, although its authority list may be out of date.
- `OwnExtrinsicsPassImport`: with constant authorities, what a node's import refuses of a block
  it would build was put there by signed calls alone; its own extrinsics pass. (With changing
  authorities they may not.)
- `StandingAuthoritiesKept`: a purge never drops the signature of a validator that was an
  authority in every block the node has finalized.
- `WitnessedEventsFinalized`: an event `target` authorities signed is finalized everywhere.

`fail_open` shows that `import_block` treats a failing `get_extrinsic_ids` call as a block
without events (`block_import.rs:130`), against the type's own documentation. `early_requests`
shows that the gossip task can wait for itself (`node.rs:134`): it sends its start-up orders into
the bounded channel before it receives any, and requests that are already coming in can fill it.
Then no witness request is handled, against the documentation of `witness_event`.

- `PurgedOfStaleProofs`, `ImplementsEventProofs`: a proof is there when adding it returns; a
  purge removes only what it is told to, and all of it. In RocksDB this survives crashes and
  failed calls, because the rows are their own index.
- `CountRightAtSomeMoment`: a count that runs while proofs are added lies between the number
  at its start and the number at its end. A purge of a key being counted can break that, and
  is excluded: block import may then count a mix, of signatures that were all really made.
- `StreamIsFinalizedChain`: the responses are the finalized chain from the requested number on,
  without gap or repetition, although numbers are looked up on the best chain; a block whose
  events could not be read counts as one without events.
- `HeardBlocksDelivered`: a finalization that finds the stream waiting wakes it up, and all up
  to that block is delivered unless a lookup fails. Nothing stronger holds: any number of
  finalizations can fall between the check and the subscription, or queue up behind the one that
  is received, and wake nobody.
- `StandingProofsKept`, `OnlyGivenEventPurged`: a purge removes no proof of a current authority,
  of any event; in memory, none of another event at all.
- `CountNeverTooHigh`: a failed read hides a proof from the count and never adds one, and the
  count agrees with `get_event_proofs` whenever that returns.
- `OnStreamsProved`: what the pallet stores was signed by `target` authorities of the state its
  block was executed on, whoever authored it.
- `PoolPassesValidation`: under constant authorities the pallet accepts every call the handler
  has submitted, however late it is included: two checks, written twice, agree.
- `WaitsOnlyIfCrowded`, `HandledUnlessStuck`: before the loop runs a sender waits only if the
  requests made, the addresses and the dial order are together more than the buffer; and nothing
  but the gossip task waiting for itself keeps a request from being handled.
- `ListensBeforeDialling`: no order to dial overtakes one to listen, with any buffer.
- `DisplayRoundTrips`, `AdjustedInPlace`, `ProtocolsKept`, `OffsetMovesPort`: a setting survives
  printing, except that the build with overflow checks panics on the least `i16`; an address that
  ends in its port has just that port changed; any other keeps its protocols, in some order; an
  offset keeps two networks on different ports unless it saturates.
- `BatchesCoverSent`, `RequestsMadeOnce`: the benchmark asks for each event up to
  `sent_events` once; a request that was dropped with its batch counts as asked for.
- `RateSurvives`, `BenchmarkEnds`: with an increase factor of at least 1 and a decrease factor of at
  most 2 the rate never falls to zero, and the program ends if it is alone, nothing is refused
  and it does not panic.
- `AllButOneReceived`, `OwnEventsLag`: the two places where event 0 spoils its counters, and that
  it is only event 0, or another client, that does.
- `OneReplyPerBot`, `WitnessingNamesUser`: over all interleavings of threads and callbacks, no bot
  replies twice to an event or, when witnessing, without the name of the user.
- `CancelledOnlyByOthers`, `DeliveredIsAnswered`: a reply is cancelled only for a line the bot has
  been given that reads as the reply, and though every bot leaves it to the others, not all of
  them do. A user's line that reads as the reply counts, as it does for the bots.
- `SlotsKeepRepliesApart`: bots that are on time and in different slots do not reply unaware of
  the first reply. Bots that do not know each other's usernames can share a slot.

Bounds. `MaxOrders` is 1: orders are handled in turn and a second one only repeats what the
network set already allows. Three authorities need all three signatures (`target` = 3), and the
mutants show that one signature less is noticed. In `static` one Byzantine key votes for both
alternatives, and with a target of two both would be settled. One block besides genesis is enough
for import; two make forks and authority changes. Nodes with their keys, and the alternatives, are
interchangeable in `static`, blocks in `authority_change`, and as both check safety only they use
that symmetry.

For the store, two keys make a purge that keeps one and drops one, and three entries make a
list with a repeated signer. For the stream, three blocks make a fork that is longer than what
gets finalized; numbers go beyond the chain. An instance of `stream`,
`onchain`, `node_start`, `tps` or `irc` stops when its blocks, requests, events or ticks are used
up, so deadlock is not checked there.

In `stores` three keys make a signer, another authority and a key that is neither; two events
make an iterator that runs on into the next. In `onchain` three blocks let a call be included
after the authorities it was made for have changed. In `node_start` a buffer of four stands for
64: it has room for two addresses, one dialler and one request, so that with the second early
request somebody has to wait. In `tps` three events take the rate up and down and leave batches
that are cut off at the limit. In `irc` two bots are ordered one way for one kind of reply and the
other way for the other; a behaviour has one command or one block (`Mixed`), as the two kinds share
no entry, what comes in comes early enough to be answered within `Horizon` (`InTime`), and one
thing goes wrong (`MaxTroubles`). That two commands get one reply is left to the proof.

Fairness of `offchain` and `stream`: storage accesses and calls to the client do not block, and
the executor polls a stream that is read from: weak fairness of the writer and of the stream.
Nothing is assumed of messages, imports or finality.

Fairness of `node_start`: the main thread gets through `start`, and the gossip task is polled
when it can move. Nobody has to make a request. Of `tps`: the node answers, the chain goes on
(weak fairness), and each witnessed event gets into some block (strong, as any block may leave it
out); refusals and other clients are never forced. Of `irc`: threads, callbacks and time go on;
no command, block, broken stream or failing call is forced.

Fairness of `liveness`. The gossip loop is a `select!` over the order channel and the
swarm, which picks among ready branches pseudo-randomly; the handler always terminates. So
every order, and every message of another node, is taken up although the loop is often
busy: strong fairness. There is none for a node's own messages, which gossipsub does not
deliver to their sender. The handler's steps, authoring, import and finality are weakly
fair. Without failures and with `delay` off a block reaches the next author in time, and
there are no forks: the pool does not bring back an extrinsic from a retracted block, and
nothing resubmits after a restart, so the property is not claimed with those faults.

## Proofs

All for any number of nodes, keys (fewer than 65536, so that the cast in `target` loses
nothing), events and blocks, any authority sets, and any faults except where said.

- `TargetDerivation`, `TargetReachable`, `QuorumsShareCorrect` (`ValidatedStreams_proofs`): the
  closed form of `target` is the expression its comment derives; a list of authorities can
  always reach it, and two quorums share a correct authority.
- `TypeCorrect` (`ValidatedStreams_proofs`, `EventStream_proofs`, `OnChainProofs_proofs`,
  `NodeStart_proofs`).
- `ImportsAreWitnessed` (`api` excluded). The invariant needs three parts: the block tree
  only grows and is closed under parents (`ChainInv`); every message, queued order, message
  in the handler and stored proof stands for a signature that was made
  (`SignaturesReal`, the reason `verify_witnessed_event_origin` is needed); and the
  property itself, which later signatures cannot undo.
- `AlternativesStayExclusive` (`api` excluded): from the import invariant, from correct keys
  never signing two alternatives, and from quorum intersection.
- `FinalizedAreWitnessed` (`api` excluded), if in no set of authorities more than two thirds of
  the keys are foreign (`NodesNeeded`): otherwise GRANDPA finalizes without any node that runs this
  code. `TreeInv` says that the tree is closed under ancestors, and so is what a node has
  imported; hence a block GRANDPA finalizes, which some node voted for (`JustifiedImported`), is
  imported with all its ancestors by that node, each through the check or while major syncing.
- `SubmissionsAreWitnessed`, `PurgeKeepsStandingAuthorities`: from `HandlerInv`, which says of
  each step of the handler that its authority list is one of a finalized block, and that what it
  is about to submit is backed by such a list. Finality is never undone, so both stay true while
  it moves on.
- `OwnExtrinsicsPass`: no assumption; the property itself speaks of unchanged authorities.
  `PoolInv` says that, as long as they do not change, a node holds enough proofs for every event
  in its pool and for the one its handler is about to submit; a purge with the same authorities
  takes none.
- `PurgeIsComplete`, `OffchainImplementsEventProofs` (`OffchainEventProofs_proofs`): for any
  keys and events, without crashes. The invariant says that every signature is listed under
  its event or about to be (`SignaturesListed`), and, within a purge, that what is still
  signed is in the part of the list already kept or still to do (`LoopInv`).
- `CountsAreRight` (`OffchainEventProofs_proofs`): for any finite set of keys. `CountInv` bounds a
  count in progress: what is counted and what is left to look up make at least the number at the
  start, and what is counted is at most the number of proofs now among the keys looked up. A proof
  that is added moves both bounds the right way; one that is purged is why `disturbed` is there.
- `PurgesAreComplete`, `PurgesKeepStandingProofs`, `PurgesInMemoryAreLocal`,
  `CountsNeverTooHigh` (`EventProofStores_proofs`): for finitely many keys and any events,
  signatures, crashes and failures. `StoreInv` says that the proof just added is stored and that
  during a purge every stale row of the event is among the rows the iterator has yet to yield;
  that is all a purge needs to know of what earlier ones left behind.
- `StreamsFinalizedChain` (`EventStream_proofs`): for any tree of blocks. The invariant says that
  ancestors form chains with one block for each number (`TreeInv`), and that all the stream holds
  for finalized is an ancestor of the finalized tip (`StreamInv`), which finality only extends.
- `OnStreamsAlwaysProved`, `PoolAlwaysPasses` (`OnChainProofs_proofs`): for any authorities and any
  length of the chain. Stored proofs and calls carry signatures that were made
  (`SignaturesMade`), and a call that is being submitted passes as one in the pool does
  (`CallsPass`).
- `ListensFirst`, `WaitsIfCrowded` (`NodeStart_proofs`): for any addresses, requests and buffer.
  `OrderInv` says that every address is tried or ahead of the dialler in the queue, `StartupInv`
  that the queue is no longer than the number of senders that have sent. `StartRefinesChannel`
  shows that `StartSpec` implements the specification of the channel, which carries both over to
  the start of a node (`NodeListensFirst`, `NodeWaitsIfCrowded`).
- `DisplayAndParse`, `PortAdjustedInPlace`, `AllProtocolsKept`, `OffsetsMovePorts`
  (`NodeStart_proofs`): for every setting and every address, of any length. `StartedInv` says that
  the addresses are those `adjust_multiaddr` derives from the setting. Its result is given place by
  place (`AdjustedAt`): the protocol at a place is the wanted one of `Origin`, a permutation that
  is its own inverse (`OriginReverses`). That an address has a last port, or none, needs the least
  element of a set of numbers (`LeastNumber`).
- `BatchesCover`, `NoRequestTwice`, `RateStaysUp`, `ReceivesAllButOne`, `OwnEventsDoNotOverflow`
  (`TpsBenchmark_proofs`): for any limit, factors and width of the counters. `BatchInv` says that
  exactly the events above `sent_events` are unsent; `Truncation` that a truncated product or
  quotient is zero only if the exact one is below 1, which `RateStaysUp` needs; `ReceivedInv` that
  no event is in two unread blocks, or in one and in a response, so that `received_events` is the
  number of events received; `EndInv` what the counters were when the program ended, and that
  without other clients every finalized event but event 0 was sent.
- `RepliesOnce`, `NamesUser`, `CancelsOnlyForOthers` (`IrcBots_proofs`): for any number of bots,
  events, commands, failures and users' lines, with or without clocks. An entry is absent while a
  timer exists only until the thread that made it stores it (`AbsentUntilStored`), each thread
  stores timers of one kind (`OwnReplier`), the user is noted before the thread goes on to plan
  the reply (`UserNoted`), and a bot's message in the channel has its timer `sent`
  (`MessagesSent`).

Only model-checked: liveness (`WitnessedEventsFinalized`, `CallsReturn`, `HeardBlocksDelivered`,
`HandledUnlessStuck`, `BenchmarkEnds`, `DeliveredIsAnswered`), which is out of the prover's
reach; and `SlotsKeepRepliesApart`, which depends on the delays being small against the gap between
the first two bots that reply. A bot that exits leaves its slot empty, and the gaps are differences
of square roots that shrink from slot to slot, so no one bound on the delay serves any number of
bots. `SlotToTime` is an integer square root besides, about which a proof would need induction.

## Where the code differs from its comments

`fail_open` and `early_requests` are runs of their own. The following were met while modelling; no
run states them.

- `offchain.rs:28`: the signature and its signer's entry in the list are two writes. A process
  stopped between them keeps a signature that no purge removes unless the same signer is added
  again. Counts over the current authorities do not see it.
- `validate.rs:58`: the stream subscribes after it has compared the block with the finalized tip. A
  block finalized in between is delivered after the next finalization only. `traits.rs:21` says it
  "waits until the block is finalized". The same happens when a lookup fails (`:45`, `:48`).
- `validate.rs:62`: a failed read is sent as a block without events (`SendDefault`).
- `pallet/src/lib.rs:107`: `validate_event` does not look at its origin. A signed call gets into a
  pool without the handler, and while too few authorities have signed its event the author's own
  import refuses the blocks built from that pool.
- `config.rs:85`: printing an offset of -32768 panics in a build with overflow checks.
- `gossip/mod.rs:160`: a message published before a peer is connected is handled locally and never
  sent again.
- `rocksdb.rs:86`: a purge runs on into the rows of later events, and deletes proofs there by keys
  that are no authorities of the call. `StandingProofsKept` shows that no current one is lost.
- `rocksdb.rs:77`: the count skips failed reads that make `get_event_proofs` fail, which
  `proofs/mod.rs:49` calls equivalent. `CountNeverTooHigh` shows that it errs on the safe side.
- `pallet/src/lib.rs:131`: with on-chain proofs a call that fails stays in its block, and the event
  stream, which is made of the ids in the body, shows its event.
- `config.rs:71`: protocols are put back in the order they were popped, so an address with
  something behind its port, or without a port, comes out reordered (`ProtocolsKept`).
- `tps-benchmark/src/main.rs:140`, `:122`, `:127`: event 0 counts towards the limit; it can make the
  difference of the counters overflow; and an increase factor below 1 or a decrease factor above
  2 can take the rate to zero, where it stays.
- `TrustedClientReplier.cs:78`, `:90`: a timer made while another's reply is handled is stored by
  nobody and cannot be cancelled; a callback that has started replies whatever was handled since.
- `TrustedClientReplier.cs:55`, `:66`: a line of anybody that reads like a reply cancels one
  ("someone else sent it"); bots that have not learnt each other's usernames take the same slot
  and both reply.
- `TrustedClientBot.cs:99`: a stream that is opened again starts at the latest block, so blocks
  finalized while it was down are not reported.

## Not modelled

PROJECT.json lists every component and hazard.

- `node/src/command.rs`, `cli.rs`, `rpc.rs`, `benchmarking.rs` and most of `chain_spec.rs`: they
  dispatch subcommands, open endpoints and build configuration, and keep no state.
- The runtime's declaration of pallets and their parameters, and the Substrate services wired in
  `service.rs` (telemetry, import queue, warp sync): generated or library code.
- Building the libp2p swarm: keys, transport and behaviours are configuration of the library.
- `samples/irc/Program.cs`, which connects and joins through the IRC library, and the scripts of
  `samples/basic`.
- Availability after a restart or a fork (`events/gossip.rs:136`): nothing submits an extrinsic
  again unless another message arrives, so there is no promise to check. The same holds for
  signatures of new authorities refused before finality (`:81`).
- The growth of a signer list with repeated messages (`offchain.rs:40`): it costs space only, and
  the model bounds it with `MaxSigners`.
