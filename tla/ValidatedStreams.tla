-------------------------- MODULE ValidatedStreams --------------------------
(***************************************************************************)
(* The path of an event through a network of nodes built with the default  *)
(* feature, off-chain-proofs: a trusted client asks its node to witness    *)
(* it, the node signs and gossips it, every node collects signatures and   *)
(* submits an extrinsic once there are enough, an author puts it in a      *)
(* block, and every node checks the block against its own signatures       *)
(* before importing it.                                                    *)
(*                                                                         *)
(* On each node three tasks run concurrently: the gRPC handlers (which     *)
(* call WitnessEvent), the gossip task (which handles one message at a     *)
(* time, in the steps AddEventProof, PurgeEventStaleSignatures,            *)
(* CheckProofCount and SubmitEventExtrinsic), and the client (block import *)
(* and finality).                                                          *)
(***************************************************************************)
EXTENDS Chain, Sequences

CONSTANTS
  MaxOrders,     \* bound on the gossip orders waiting at a node
  Alternatives,  \* pairs {a, b} of events of which a trusted client witnesses one
  Byzantine,     \* the keys that sign whatever they like
  Faults         \* what may go wrong or come from outside: see FaultKinds

FaultKinds == {"publish",  \* gossipsub cannot publish a message
               "crash",    \* a node stops and starts again
               "sync",     \* a node falls behind and is major syncing
               "delay",    \* a block reaches other authors after their slot
               "foreign",  \* validators outside Nodes author blocks
               "signed",   \* accounts submit signed validate_event calls
               "api"}      \* the runtime call get_extrinsic_ids fails

ASSUME StreamsAssumption ==
  /\ MaxOrders \in Nat \ {0}
  /\ Alternatives \subseteq SUBSET Events
  /\ Byzantine \subseteq Keys
  /\ Faults \subseteq FaultKinds

VARIABLES
  signed,    \* every signature ever made
  net,       \* the messages published to the gossip topic
  orders,    \* orders[n]: Publish orders waiting for n's gossip task
  task,      \* task[n]: what n's gossip task is doing
  proofs,    \* proofs[n][e]: keys whose signature of e is in n's EventProofs
  pool,      \* pool[n]: events whose unsigned extrinsic is in n's pool
  bypassed   \* bypassed[n]: blocks n imported without looking at events

gossipVars == <<signed, net, orders, task>>
vars == <<chainVars, gossipVars, proofs, pool, bypassed>>

Idle == [step |-> "idle"]

(* A message being handled, with the authorities read when it came in.     *)
Handling == [step        : {"add", "purge", "count"},
             key         : Keys,
             event       : Events,
             authorities : SUBSET Keys]

(* An extrinsic being submitted, with the best block read before.          *)
Submitting == [step : {"submit"}, event : Events, at : Hashes]

TypeOK ==
  /\ DOMAIN blocks \subseteq Hashes
  /\ blocks \in [DOMAIN blocks -> Block]
  /\ imported \in [Nodes -> SUBSET DOMAIN blocks]
  /\ best \in [Nodes -> DOMAIN blocks]
  /\ finalized \in [Nodes -> DOMAIN blocks]
  /\ justified \in DOMAIN blocks
  /\ signed \subseteq Signature
  /\ net \subseteq WitnessedEvent
  /\ orders \in [Nodes -> Seq(WitnessedEvent)]
  /\ task \in [Nodes -> Handling \cup Submitting \cup {Idle}]
  /\ proofs \in [Nodes -> [Events -> SUBSET Keys]]
  /\ pool \in [Nodes -> SUBSET Events]
  /\ bypassed \in [Nodes -> SUBSET DOMAIN blocks]

Init ==
  /\ ChainInit
  /\ signed = {}
  /\ net = {}
  /\ orders = [n \in Nodes |-> <<>>]
  /\ task = [n \in Nodes |-> Idle]
  /\ proofs = [n \in Nodes |-> [e \in Events |-> {}]]
  /\ pool = [n \in Nodes |-> {}]
  /\ bypassed = [n \in Nodes |-> {}]

-----------------------------------------------------------------------------
(* Witnessing.                                                             *)

(* The clients' side of the bargain that the comment on `target` states:   *)
(* a client that does not fail votes for one alternative only.             *)
TrustedClientAccepts(k, e) ==
  \/ k \in Byzantine
  \/ \A o \in Events \ {e} : {e, o} \in Alternatives => [key |-> k, event |-> o] \notin signed

(* EventWitnesser::witness_event, called from the gRPC handler: sign with  *)
(* a key that is an authority of the latest finalized block, and queue the *)
(* message for the gossip task.  A node without such a key answers         *)
(* NotAValidator.                                                          *)
WitnessEvent(n, e) ==
  /\ Len(orders[n]) < MaxOrders
  /\ \E k \in Keystore[n] \cap LatestAuthorities(n) :
       /\ TrustedClientAccepts(k, e)
       /\ signed' = signed \cup {[key |-> k, event |-> e]}
       /\ orders' = [orders EXCEPT ![n] = Append(@, SignedBy(k, e))]
  /\ UNCHANGED <<chainVars, net, task, proofs, pool, bypassed>>

(* A validator outside Nodes witnesses e.                                  *)
ForeignWitness(k, e) ==
  /\ k \notin HeldKeys
  /\ TrustedClientAccepts(k, e)
  /\ SignedBy(k, e) \notin net
  /\ signed' = signed \cup {[key |-> k, event |-> e]}
  /\ net' = net \cup {SignedBy(k, e)}
  /\ UNCHANGED <<chainVars, orders, task, proofs, pool, bypassed>>

-----------------------------------------------------------------------------
(* The gossip task.                                                        *)

(* The first half of EventGossipHandler::handle_witnessed_event: read the  *)
(* authorities and verify the message; an invalid one is only logged.      *)
BeginHandling(n, we) ==
  /\ task[n] = Idle
  /\ task' = [task EXCEPT ![n] =
       IF VerifyWitnessedEventOrigin(LatestAuthorities(n), we)
       THEN [step        |-> "add",
             key         |-> we.pub_key,
             event       |-> we.event_id,
             authorities |-> LatestAuthorities(n)]
       ELSE Idle]

(* A loop that leaves its own messages to the network.                     *)
MutantNotHandledLocally(n) ==
  /\ orders[n] # <<>>
  /\ task[n] = Idle
  /\ orders' = [orders EXCEPT ![n] = Tail(@)]
  /\ net' = net \cup {Head(orders[n])}
  /\ UNCHANGED <<chainVars, signed, task, proofs, pool, bypassed>>

(* GossipService::handle_incoming_order for a Publish order: send it to    *)
(* the peers (a failure is only logged) and handle it locally.             *)
HandleIncomingOrder(n) ==
  /\ orders[n] # <<>>
  /\ orders' = [orders EXCEPT ![n] = Tail(@)]
  /\ \/ net' = net \cup {Head(orders[n])}
     \/ "publish" \in Faults /\ net' = net
  /\ BeginHandling(n, Head(orders[n]))
  /\ UNCHANGED <<chainVars, signed, proofs, pool, bypassed>>

(* GossipService::handle_incoming_event for a message of the topic.  The   *)
(* network loses, repeats and reorders messages: any of them can come at   *)
(* any time, or never.                                                     *)
HandleIncomingEvent(n, we) ==
  /\ we \in net
  /\ BeginHandling(n, we)
  /\ UNCHANGED <<chainVars, signed, net, orders, proofs, pool, bypassed>>

(* The same for a message that is not what its signer signed: it names     *)
(* another key or another event than the signature it carries.             *)
HandleMisattributedEvent(n, we) ==
  /\ we.signature \in signed
  /\ we # SignedBy(we.signature.key, we.signature.event)
  /\ BeginHandling(n, we)
  /\ UNCHANGED <<chainVars, signed, net, orders, proofs, pool, bypassed>>

(* EventProofsTrait::get_event_proof_count on node n's store.              *)
GetEventProofCount(n, e, validators) == Cardinality(proofs[n][e] \cap validators)

(* The handler goes on to another step with what it has read.              *)
GoTo(n, step) ==
  task' = [task EXCEPT ![n] = [step        |-> step,
                               key         |-> @.key,
                               event       |-> @.event,
                               authorities |-> @.authorities]]

AddEventProof(n) ==
  /\ task[n].step = "add"
  /\ proofs' = [proofs EXCEPT ![n][task[n].event] = @ \cup {task[n].key}]
  /\ GoTo(n, "purge")
  /\ UNCHANGED <<chainVars, signed, net, orders, pool, bypassed>>

(* A purge that keeps the signatures it should drop and drops the others.  *)
MutantInvertedPurge(n) ==
  /\ task[n].step = "purge"
  /\ proofs' = [proofs EXCEPT ![n][task[n].event] = @ \ task[n].authorities]
  /\ GoTo(n, "count")
  /\ UNCHANGED <<chainVars, signed, net, orders, pool, bypassed>>

PurgeEventStaleSignatures(n) ==
  /\ task[n].step = "purge"
  /\ proofs' = [proofs EXCEPT ![n][task[n].event] = @ \cap task[n].authorities]
  /\ GoTo(n, "count")
  /\ UNCHANGED <<chainVars, signed, net, orders, pool, bypassed>>

(* A target check that is off by one.                                      *)
MutantOneProofShort(n) ==
  /\ task[n].step = "count"
  /\ task' = [task EXCEPT ![n] =
       IF GetEventProofCount(n, @.event, @.authorities) + 1 >= Target(Cardinality(@.authorities))
       THEN [step |-> "submit", event |-> @.event, at |-> best[n]]
       ELSE Idle]
  /\ UNCHANGED <<chainVars, signed, net, orders, proofs, pool, bypassed>>

(* The target check of handle_witnessed_event, and the reads that          *)
(* submit_event_extrinsic starts with.                                     *)
CheckProofCount(n) ==
  /\ task[n].step = "count"
  /\ task' = [task EXCEPT ![n] =
       IF GetEventProofCount(n, @.event, @.authorities) >= Target(Cardinality(@.authorities))
       THEN [step |-> "submit", event |-> @.event, at |-> best[n]]
       ELSE Idle]
  /\ UNCHANGED <<chainVars, signed, net, orders, proofs, pool, bypassed>>

(* submit_local validates the extrinsic in the state of the block read     *)
(* before: an event that is there is Stale, one that is in the pool is     *)
(* AlreadyImported, and the code takes both for success.                   *)
SubmitEventExtrinsic(n) ==
  /\ task[n].step = "submit"
  /\ pool' = [pool EXCEPT ![n] = @ \cup ({task[n].event} \ blocks[task[n].at].streams)]
  /\ task' = [task EXCEPT ![n] = Idle]
  /\ UNCHANGED <<chainVars, signed, net, orders, proofs, bypassed>>

-----------------------------------------------------------------------------
(* Blocks.                                                                 *)

(* An import that checks against the latest finalized authorities instead  *)
(* of those of the block's parent.                                         *)
MutantFinalizedAuthorities(n, p, ids) ==
  {e \in ids : GetEventProofCount(n, e, LatestAuthorities(n))
                 < Target(Cardinality(LatestAuthorities(n)))}

(* An import check that is off by one.                                     *)
MutantOneWitnessShort(n, p, ids) ==
  {e \in ids : GetEventProofCount(n, e, AuthoritiesAt(p)) + 1
                 < Target(Cardinality(AuthoritiesAt(p)))}

(* verify_events_validity: the ids without enough signatures, by the       *)
(* authorities of block p.                                                 *)
VerifyEventsValidity(n, p, ids) ==
  {e \in ids : GetEventProofCount(n, e, AuthoritiesAt(p))
                 < Target(Cardinality(AuthoritiesAt(p)))}

(* What import_block takes for the ids of a body with events evs: an error *)
(* of the runtime call becomes the empty list (`.ok().unwrap_or_default()`)*)
ExtrinsicIds(evs) == {evs} \cup {ids \in {{}} : "api" \in Faults}

(* ValidatedStreamsBlockImport::import_block lets a block on parent p go   *)
(* on to the inner import when the node is not major syncing.              *)
ImportCheck(n, p, evs) ==
  \E ids \in ExtrinsicIds(evs) : VerifyEventsValidity(n, p, ids) = {}

(* The inner import, and what the transaction pool does on a new best      *)
(* block: drop the extrinsics that are in its state.                       *)
InnerImport(n, h, block) ==
  LET newBest == BestAfterImport(n, h, block.number)
  IN  /\ imported' = [imported EXCEPT ![n] = @ \cup {h}]
      /\ best' = [best EXCEPT ![n] = newBest]
      /\ pool' = [pool EXCEPT ![n] =
           @ \ (IF newBest = h THEN block ELSE blocks[newBest]).streams]
      /\ UNCHANGED <<finalized, justified>>

(* Without delays every block reaches the next author before its slot.     *)
InSlot(n) ==
  \/ "delay" \in Faults
  \/ \A h \in DOMAIN blocks : blocks[h].number <= blocks[best[n]].number

(* The ids in the body of a block that node n builds: its own unsigned     *)
(* extrinsics, less those that are Stale by now, and the signed calls in   *)
(* its pool, which neither its handler nor validate_unsigned has looked    *)
(* at.                                                                     *)
BlockEvents(n, calls) == (pool[n] \ blocks[best[n]].streams) \cup calls

(* Aura: a node that holds an authority's key builds a block on its best   *)
(* block from everything in its pool, and imports it through the same      *)
(* block import before anyone else sees it.  A block the import refuses is *)
(* never announced.                                                        *)
AuthorBlock(n, h, calls, authorities) ==
  LET p == best[n]
      evs == BlockEvents(n, calls)
      block == ValidateEvents(h, p, evs, authorities)
  IN  /\ h \notin DOMAIN blocks
      /\ calls # {} => "signed" \in Faults
      /\ Keystore[n] \cap AuthoritiesAt(p) # {}
      /\ InSlot(n)
      /\ ValidBody(p, evs, authorities)
      /\ ImportCheck(n, p, evs)
      /\ AddBlock(h, block)
      /\ InnerImport(n, h, block)
      /\ UNCHANGED <<gossipVars, proofs, bypassed>>

(* A validator outside Nodes authors any block the runtime would execute.  *)
ForeignBlock(h, p, evs, authorities) ==
  /\ "foreign" \in Faults
  /\ h \notin DOMAIN blocks
  /\ p \in DOMAIN blocks
  /\ ValidBody(p, evs, authorities)
  /\ AddBlock(h, ValidateEvents(h, p, evs, authorities))
  /\ UNCHANGED <<imported, best, finalized, justified, gossipVars, proofs, pool, bypassed>>

(* import_block for a block received from the network.                     *)
ImportBlock(n, h) ==
  /\ h \in DOMAIN blocks
  /\ Importable(n, h, blocks[h].parent)
  /\ ImportCheck(n, blocks[h].parent, blocks[h].events)
  /\ InnerImport(n, h, blocks[h])
  /\ UNCHANGED <<blocks, gossipVars, proofs, bypassed>>

(* The same while is_major_syncing(), or without a body: no event is       *)
(* looked at.                                                              *)
ImportUnchecked(n, h) ==
  /\ "sync" \in Faults
  /\ h \in DOMAIN blocks
  /\ Importable(n, h, blocks[h].parent)
  /\ InnerImport(n, h, blocks[h])
  /\ bypassed' = [bypassed EXCEPT ![n] = @ \cup {h}]
  /\ UNCHANGED <<blocks, gossipVars, proofs>>

(* GRANDPA finalizes h.                                                    *)
JustifyBlock(h) ==
  /\ h \in DOMAIN blocks
  /\ CanJustify(h)
  /\ justified' = h
  /\ UNCHANGED <<blocks, imported, best, finalized, gossipVars, proofs, pool, bypassed>>

(* Node n learns of it.                                                    *)
FinalizeBlock(n, h) ==
  /\ CanFinalize(n, h)
  /\ finalized' = [finalized EXCEPT ![n] = h]
  /\ \E b \in BestAfterFinality(n, h) :
       /\ best' = [best EXCEPT ![n] = b]
       /\ pool' = [pool EXCEPT ![n] = @ \ blocks[b].streams]
  /\ UNCHANGED <<blocks, imported, justified, gossipVars, proofs, bypassed>>

(* A node stops and starts again.  The database and the offchain storage   *)
(* that holds the proofs survive; the order channel, the handler and the   *)
(* transaction pool do not.                                                *)
Restart(n) ==
  /\ "crash" \in Faults
  /\ orders' = [orders EXCEPT ![n] = <<>>]
  /\ task' = [task EXCEPT ![n] = Idle]
  /\ pool' = [pool EXCEPT ![n] = {}]
  /\ UNCHANGED <<chainVars, signed, net, proofs, bypassed>>

-----------------------------------------------------------------------------
GossipTask(n) ==
  \/ HandleIncomingOrder(n)
  \/ \E we \in net : HandleIncomingEvent(n, we)
  \/ \E k \in Keys, e \in Events, s \in signed :
       HandleMisattributedEvent(n, [pub_key |-> k, event_id |-> e, signature |-> s])
  \/ AddEventProof(n)
  \/ PurgeEventStaleSignatures(n)
  \/ CheckProofCount(n)
  \/ SubmitEventExtrinsic(n)

Client(n) ==
  \/ \E h \in Hashes, calls \in SUBSET Events, a \in SUBSET Keys : AuthorBlock(n, h, calls, a)
  \/ \E h \in Hashes : ImportBlock(n, h)
  \/ \E h \in Hashes : ImportUnchecked(n, h)
  \/ \E h \in Hashes : FinalizeBlock(n, h)

Environment ==
  \/ \E k \in Keys, e \in Events : ForeignWitness(k, e)
  \/ \E h, p \in Hashes, evs \in SUBSET Events, a \in SUBSET Keys : ForeignBlock(h, p, evs, a)
  \/ \E h \in Hashes : JustifyBlock(h)

Next ==
  \/ \E n \in Nodes, e \in Events : WitnessEvent(n, e)
  \/ \E n \in Nodes : GossipTask(n)
  \/ \E n \in Nodes : Client(n)
  \/ \E n \in Nodes : Restart(n)
  \/ Environment

Spec == Init /\ [][Next]_vars

(* What the tasks of a running node do sooner or later.  The gossip loop   *)
(* selects fairly among its streams and takes each of them in order, so    *)
(* every order and every message of a peer is taken up even though the     *)
(* handler keeps being busy with others; authors get their slots, the      *)
(* network transports blocks, and GRANDPA makes progress.                  *)
Fairness ==
  /\ \A n \in Nodes :
       /\ SF_vars(HandleIncomingOrder(n))
       /\ \A k \in Keys \ Keystore[n], e \in Events : SF_vars(HandleIncomingEvent(n, SignedBy(k, e)))
       /\ WF_vars(AddEventProof(n))
       /\ WF_vars(PurgeEventStaleSignatures(n))
       /\ WF_vars(CheckProofCount(n))
       /\ WF_vars(SubmitEventExtrinsic(n))
       /\ WF_vars(\E h \in Hashes : AuthorBlock(n, h, {}, AuthoritiesAt(best[n])))
       /\ \A h \in Hashes : WF_vars(ImportBlock(n, h)) /\ WF_vars(FinalizeBlock(n, h))
  /\ \A h \in Hashes : WF_vars(JustifyBlock(h))

FairSpec == Spec /\ Fairness

-----------------------------------------------------------------------------
(* Properties.                                                             *)

(* The authorities in A that signed e.                                     *)
Witnesses(e, A) == {k \in A : [key |-> k, event |-> e] \in signed}

Quorate(e, A) == Cardinality(Witnesses(e, A)) >= Target(Cardinality(A))

(* The promise of ValidatedStreamsBlockImport: every event of a block that *)
(* a node imported while it was not major syncing was really signed by     *)
(* `target` different authorities of the block's parent, whatever was      *)
(* gossiped, purged, finalized or restarted meanwhile.                     *)
ImportedEventsWitnessed ==
  \A n \in Nodes : \A h \in imported[n] \ bypassed[n] : \A e \in blocks[h].events :
    Quorate(e, AuthoritiesAt(blocks[h].parent))

(* The reason for the formula of `target`: when trusted clients vote for   *)
(* one alternative only and at most a third of the authorities misbehave,  *)
(* no two nodes import, not even on different forks, blocks that settle    *)
(* two alternatives under the same authorities.                            *)
AlternativesExclusive ==
  \A n, m \in Nodes : \A h \in imported[n] \ bypassed[n], g \in imported[m] \ bypassed[m] :
    LET A == AuthoritiesAt(blocks[h].parent)
    IN  ( /\ A = AuthoritiesAt(blocks[g].parent)
          /\ Cardinality(A \cap Byzantine) <= MaxByzantine(Cardinality(A)) )
        => \A e \in blocks[h].events, o \in blocks[g].events :
             e # o => {e, o} \notin Alternatives

(* An extrinsic only gets into a node's pool for an event that `target`    *)
(* authorities of a block on the node's finalized chain really signed,     *)
(* although the handler goes on using the authorities it read first.       *)
SubmittedEventsWitnessed ==
  \A n \in Nodes : \A e \in pool[n] :
    \E h \in blocks[finalized[n]].ancestors : Quorate(e, AuthoritiesAt(h))

(* What block import is for: as long as no node of this network imported a *)
(* block while major syncing, every event on the chain GRANDPA finalized   *)
(* was signed by `target` authorities, even though validators outside the  *)
(* network may author and vote as they please.                             *)
FinalizedEventsWitnessed ==
  \A h \in blocks[justified].ancestors :
    (\A n \in Nodes : h \notin bypassed[n])
      => \A e \in blocks[h].events : Quorate(e, AuthoritiesAt(blocks[h].parent))

(* While the authorities never change, a node's own extrinsics never make  *)
(* its import refuse the block it built: purging and restarting leave      *)
(* enough signatures behind each of them.  What the import refuses of such *)
(* a block was put there by signed calls alone, which validate_event takes *)
(* from any origin.                                                        *)
OwnExtrinsicsPassImport ==
  (\A h \in DOMAIN blocks : AuthoritiesAt(h) = GenesisAuthorities)
    => \A n \in Nodes, calls \in SUBSET Events :
         VerifyEventsValidity(n, best[n], BlockEvents(n, calls)) \subseteq calls \ pool[n]

(* What a purge may never do: throw away the signature of a validator that *)
(* has been an authority in every block the node has finalized.            *)
StandingAuthoritiesKept ==
  [][\A n \in Nodes, e \in Events : \A k \in proofs[n][e] \ proofs'[n][e] :
       \E h \in blocks[finalized[n]].ancestors : k \notin AuthoritiesAt(h)]_vars

(* What the whole network is for: without failures, an event that `target` *)
(* authorities have signed ends up on the finalized chain of every node.   *)
WitnessedEventsFinalized ==
  \A e \in Events :
    Quorate(e, GenesisAuthorities) ~> \A n \in Nodes : e \in blocks[finalized[n]].streams
=============================================================================
