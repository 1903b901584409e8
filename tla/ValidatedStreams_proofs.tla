----------------------- MODULE ValidatedStreams_proofs -----------------------
(* Proofs about ValidatedStreams, for any number of nodes, keys, events and *)
(* blocks: the target, types, block import, alternatives, what the gossip   *)
(* handler may submit and purge, and what GRANDPA may finalize.             *)
EXTENDS ValidatedStreams, FiniteSetTheorems, TLAPS

(* The target.                                                             *)

(* The `as u16` cast in AuthoritiesList::target changes nothing for lists  *)
(* of fewer than 2^16 authorities.                                         *)
LEMMA TargetValue ==
  ASSUME NEW total \in Nat, total < U16
  PROVE  Target(total) = (total * 2) \div 3 + 1
BY DEF Target, U16

(* The comment on AuthoritiesList::target derives the number of votes as a *)
(* strict majority of the correct nodes plus the double voters, and says   *)
(* that this equals the rounded two thirds.  It does, for every total.     *)
THEOREM TargetDerivation ==
  ASSUME NEW total \in Nat, total < U16
  PROVE  Target(total) = (total - MaxByzantine(total)) \div 2 + 1 + MaxByzantine(total)
BY TargetValue DEF MaxByzantine

(* The target of AuthoritiesList::target can be met by the authorities,    *)
(* and never without any of them.                                          *)
THEOREM TargetReachable ==
  ASSUME NEW total \in Nat \ {0}, total < U16
  PROVE  Target(total) \in 1..total
BY TargetValue

(* Any two sets of authorities that reach the target overlap in more nodes *)
(* than AuthoritiesList::target allows to be Byzantine.                    *)
LEMMA QuorumOverlap ==
  ASSUME NEW A, IsFiniteSet(A), Cardinality(A) < U16,
         NEW S \in SUBSET A, NEW T \in SUBSET A,
         Cardinality(S) >= Target(Cardinality(A)),
         Cardinality(T) >= Target(Cardinality(A))
  PROVE  Cardinality(S \cap T) > MaxByzantine(Cardinality(A))
<1>1. /\ Cardinality(A) \in Nat
      /\ IsFiniteSet(S) /\ Cardinality(S) \in Nat
      /\ IsFiniteSet(T) /\ Cardinality(T) \in Nat
      /\ IsFiniteSet(S \cap T) /\ Cardinality(S \cap T) \in Nat
  BY FS_CardinalityType, FS_Subset, FS_Intersection
<1>2. Cardinality(S \cup T) = Cardinality(S) + Cardinality(T) - Cardinality(S \cap T)
  BY <1>1, FS_Union
<1>3. Cardinality(S \cup T) <= Cardinality(A) /\ Cardinality(S \cup T) \in Nat
  <2>1. S \cup T \in SUBSET A
    OBVIOUS
  <2> QED
    BY <2>1, FS_Subset, FS_CardinalityType
<1>4. Target(Cardinality(A)) = (Cardinality(A) * 2) \div 3 + 1
  BY <1>1, TargetValue
<1> QED
  BY <1>1, <1>2, <1>3, <1>4 DEF MaxByzantine

(* The purpose of the formula: of any two sets of authorities that reach   *)
(* the target, both contain the same correct node, if no more than a third *)
(* of the authorities are Byzantine.                                       *)
THEOREM QuorumsShareCorrect ==
  ASSUME NEW A, IsFiniteSet(A), Cardinality(A) < U16,
         NEW S \in SUBSET A, NEW T \in SUBSET A,
         Cardinality(S) >= Target(Cardinality(A)),
         Cardinality(T) >= Target(Cardinality(A)),
         NEW B, Cardinality(A \cap B) <= MaxByzantine(Cardinality(A))
  PROVE  \E k \in S \cap T : k \notin B
<1> SUFFICES ASSUME S \cap T \subseteq B PROVE FALSE
  OBVIOUS
<1>1. Cardinality(S \cap T) > MaxByzantine(Cardinality(A))
  BY QuorumOverlap
<1>2. IsFiniteSet(A \cap B) /\ Cardinality(A \cap B) \in Nat
  BY FS_Intersection, FS_CardinalityType, Zenon
<1>3. S \cap T \in SUBSET (A \cap B)
  OBVIOUS
<1>4. Cardinality(S \cap T) <= Cardinality(A \cap B) /\ Cardinality(S \cap T) \in Nat
  BY <1>2, <1>3, FS_Subset, FS_CardinalityType
<1>5. MaxByzantine(Cardinality(A)) \in Nat
  BY FS_CardinalityType DEF MaxByzantine
<1> QED
  BY <1>1, <1>2, <1>4, <1>5
-----------------------------------------------------------------------------
(* Types.                                                                  *)

(* Every typed state has typed messages to handle.                         *)
LEMMA BeginHandlingType ==
  ASSUME TypeOK, NEW n \in Nodes, NEW we \in WitnessedEvent, BeginHandling(n, we)
  PROVE  task' \in [Nodes -> Handling \cup Submitting \cup {Idle}]
<1>1. LatestAuthorities(n) \in SUBSET Keys
  BY DEF TypeOK, LatestAuthorities, AuthoritiesAt, Block
<1>2. we.pub_key \in Keys /\ we.event_id \in Events
  BY DEF WitnessedEvent
<1>3. [step        |-> "add",
       key         |-> we.pub_key,
       event       |-> we.event_id,
       authorities |-> LatestAuthorities(n)] \in Handling
  BY <1>1, <1>2 DEF Handling
<1> QED
  BY <1>3 DEF TypeOK, BeginHandling

(* What an import changes keeps its type.                                  *)
LEMMA InnerImportType ==
  ASSUME TypeOK, NEW n \in Nodes, NEW h, NEW block \in Block, InnerImport(n, h, block)
  PROVE  /\ imported' \in [Nodes -> SUBSET (DOMAIN blocks \cup {h})]
         /\ best' \in [Nodes -> DOMAIN blocks \cup {h}]
         /\ pool' \in [Nodes -> SUBSET Events]
         /\ finalized' = finalized
         /\ justified' = justified
BY DEF TypeOK, InnerImport, BestAfterImport

(* A block on a known parent is a block.                                   *)
LEMMA ValidateEventsType ==
  ASSUME TypeOK, NEW h \in Hashes, NEW p \in DOMAIN blocks, NEW evs \in SUBSET Events,
         NEW authorities \in SUBSET Keys
  PROVE  ValidateEvents(h, p, evs, authorities) \in Block
<1>1. blocks[p] \in Block /\ p \in Hashes
  BY DEF TypeOK
<1> QED
  BY <1>1 DEF ValidateEvents, Block

(* Adding a block leaves the others alone.                                 *)
LEMMA AddBlockType ==
  ASSUME TypeOK, NEW h \in Hashes, NEW block \in Block, AddBlock(h, block)
  PROVE  /\ DOMAIN blocks' = DOMAIN blocks \cup {h}
         /\ DOMAIN blocks' \subseteq Hashes
         /\ blocks' \in [DOMAIN blocks' -> Block]
BY DEF TypeOK, AddBlock

(* The tasks that leave the chain alone.                                   *)
LEMMA GossipTypeStep ==
  ASSUME TypeOK, NEW n \in Nodes, GossipTask(n)
  PROVE  TypeOK'
<1>1. CASE HandleIncomingOrder(n)
  <2>1. Head(orders[n]) \in WitnessedEvent /\ Tail(orders[n]) \in Seq(WitnessedEvent)
    BY <1>1 DEF TypeOK, HandleIncomingOrder
  <2>2. task' \in [Nodes -> Handling \cup Submitting \cup {Idle}]
    BY <1>1, <2>1, BeginHandlingType DEF HandleIncomingOrder
  <2> QED
    BY <1>1, <2>1, <2>2, Zenon DEF TypeOK, HandleIncomingOrder, chainVars
<1>2. CASE \E we \in net : HandleIncomingEvent(n, we)
  <2>1. PICK we \in net : HandleIncomingEvent(n, we)
    BY <1>2
  <2>2. task' \in [Nodes -> Handling \cup Submitting \cup {Idle}]
    BY <2>1, BeginHandlingType DEF HandleIncomingEvent, TypeOK
  <2> QED
    BY <2>1, <2>2 DEF TypeOK, HandleIncomingEvent, chainVars
<1>3. CASE \E k \in Keys, e \in Events, s \in signed :
             HandleMisattributedEvent(n, [pub_key |-> k, event_id |-> e, signature |-> s])
  <2>1. PICK we \in WitnessedEvent : HandleMisattributedEvent(n, we)
    BY <1>3 DEF TypeOK, WitnessedEvent
  <2>2. task' \in [Nodes -> Handling \cup Submitting \cup {Idle}]
    BY <2>1, BeginHandlingType DEF HandleMisattributedEvent
  <2> QED
    BY <2>1, <2>2 DEF TypeOK, HandleMisattributedEvent, chainVars
<1>4. CASE AddEventProof(n)
  BY <1>4 DEF TypeOK, AddEventProof, GoTo, Handling, Submitting, Idle, chainVars
<1>5. CASE PurgeEventStaleSignatures(n)
  BY <1>5 DEF TypeOK, PurgeEventStaleSignatures, GoTo, Handling, Submitting, Idle, chainVars
<1>6. CASE CheckProofCount(n)
  BY <1>6 DEF TypeOK, CheckProofCount, Handling, Submitting, Idle, chainVars
<1>7. CASE SubmitEventExtrinsic(n)
  BY <1>7 DEF TypeOK, SubmitEventExtrinsic, Handling, Submitting, Idle, chainVars
<1> QED
  BY <1>1, <1>2, <1>3, <1>4, <1>5, <1>6, <1>7 DEF GossipTask

(* Authoring, importing and finalizing preserve the types.                 *)
LEMMA ClientTypeStep ==
  ASSUME TypeOK, NEW n \in Nodes, Client(n)
  PROVE  TypeOK'
<1>1. ASSUME NEW h \in Hashes, NEW calls \in SUBSET Events, NEW a \in SUBSET Keys,
             AuthorBlock(n, h, calls, a)
      PROVE  TypeOK'
  <2> DEFINE evs == BlockEvents(n, calls)
             block == ValidateEvents(h, best[n], evs, a)
  <2>1. best[n] \in DOMAIN blocks /\ evs \in SUBSET Events
    BY DEF TypeOK, BlockEvents
  <2>2. block \in Block
    BY <2>1, ValidateEventsType
  <2>3. AddBlock(h, block) /\ InnerImport(n, h, block)
    BY <1>1 DEF AuthorBlock
  <2> HIDE DEF block
  <2>4. /\ DOMAIN blocks' = DOMAIN blocks \cup {h}
        /\ DOMAIN blocks' \subseteq Hashes
        /\ blocks' \in [DOMAIN blocks' -> Block]
    BY <2>2, <2>3, AddBlockType, Zenon
  <2>5. /\ imported' \in [Nodes -> SUBSET (DOMAIN blocks \cup {h})]
        /\ best' \in [Nodes -> DOMAIN blocks \cup {h}]
        /\ pool' \in [Nodes -> SUBSET Events]
        /\ finalized' = finalized
        /\ justified' = justified
    BY <2>2, <2>3, InnerImportType
  <2>6. UNCHANGED <<gossipVars, proofs, bypassed>>
    BY <1>1 DEF AuthorBlock
  <2> QED
    BY <2>4, <2>5, <2>6 DEF TypeOK, gossipVars
<1>2. ASSUME NEW h \in Hashes, ImportBlock(n, h) \/ ImportUnchecked(n, h)
      PROVE  TypeOK'
  <2>1. blocks[h] \in Block /\ h \in DOMAIN blocks /\ InnerImport(n, h, blocks[h])
    BY <1>2 DEF TypeOK, ImportBlock, ImportUnchecked
  <2>2. \/ bypassed' = bypassed
        \/ bypassed' = [bypassed EXCEPT ![n] = @ \cup {h}]
    BY <1>2 DEF ImportBlock, ImportUnchecked
  <2>3. bypassed' \in [Nodes -> SUBSET DOMAIN blocks]
    <3>1. bypassed \in [Nodes -> SUBSET DOMAIN blocks]
      BY DEF TypeOK
    <3>2. h \in DOMAIN blocks
      BY <2>1
    <3> QED
      BY <2>2, <3>1, <3>2
  <2>4. UNCHANGED <<blocks, gossipVars, proofs>>
    BY <1>2 DEF ImportBlock, ImportUnchecked
  <2> QED
    BY <2>1, <2>3, <2>4, InnerImportType DEF TypeOK, gossipVars
<1>3. ASSUME NEW h \in Hashes, FinalizeBlock(n, h)
      PROVE  TypeOK'
  <2>1. PICK b \in BestAfterFinality(n, h) :
          /\ best' = [best EXCEPT ![n] = b]
          /\ pool' = [pool EXCEPT ![n] = @ \ blocks[b].streams]
    BY <1>3, Zenon DEF FinalizeBlock
  <2>2. b \in DOMAIN blocks /\ h \in DOMAIN blocks
    BY <1>3 DEF BestAfterFinality, TypeOK, FinalizeBlock, CanFinalize
  <2> QED
    BY <1>3, <2>1, <2>2 DEF TypeOK, FinalizeBlock, gossipVars
<1> QED
  BY <1>1, <1>2, <1>3 DEF Client

(* So does every other step.                                               *)
LEMMA TypeStep == TypeOK /\ [Next]_vars => TypeOK'
<1> SUFFICES ASSUME TypeOK, [Next]_vars PROVE TypeOK'
  OBVIOUS
<1>1. ASSUME NEW n \in Nodes, NEW e \in Events, WitnessEvent(n, e)
      PROVE  TypeOK'
  <2>1. PICK k \in Keys :
          /\ signed' = signed \cup {[key |-> k, event |-> e]}
          /\ orders' = [orders EXCEPT ![n] = Append(@, SignedBy(k, e))]
    BY <1>1, ChainAssumption, Zenon DEF WitnessEvent
  <2>2. SignedBy(k, e) \in WitnessedEvent /\ [key |-> k, event |-> e] \in Signature
    BY DEF SignedBy, WitnessedEvent, Signature
  <2> QED
    BY <1>1, <2>1, <2>2 DEF TypeOK, WitnessEvent, chainVars
<1>2. ASSUME NEW k \in Keys, NEW e \in Events, ForeignWitness(k, e)
      PROVE  TypeOK'
  <2>1. SignedBy(k, e) \in WitnessedEvent /\ [key |-> k, event |-> e] \in Signature
    BY DEF SignedBy, WitnessedEvent, Signature
  <2> QED
    BY <1>2, <2>1 DEF TypeOK, ForeignWitness, chainVars
<1>3. ASSUME NEW h \in Hashes, NEW p \in Hashes, NEW evs \in SUBSET Events,
             NEW a \in SUBSET Keys, ForeignBlock(h, p, evs, a)
      PROVE  TypeOK'
  <2>1. p \in DOMAIN blocks /\ AddBlock(h, ValidateEvents(h, p, evs, a))
    BY <1>3 DEF ForeignBlock
  <2>2. ValidateEvents(h, p, evs, a) \in Block
    BY <2>1, ValidateEventsType
  <2> QED
    BY <1>3, <2>1, <2>2, AddBlockType, Zenon DEF TypeOK, ForeignBlock, gossipVars
<1>4. ASSUME NEW h \in Hashes, JustifyBlock(h)
      PROVE  TypeOK'
  BY <1>4 DEF TypeOK, JustifyBlock, gossipVars
<1>5. ASSUME NEW n \in Nodes, Restart(n)
      PROVE  TypeOK'
  BY <1>5 DEF TypeOK, Restart, chainVars
<1>6. CASE UNCHANGED vars
  BY <1>6 DEF TypeOK, vars, chainVars, gossipVars
<1> QED
  BY <1>1, <1>2, <1>3, <1>4, <1>5, <1>6, GossipTypeStep, ClientTypeStep DEF Next, Environment

(* The initial state has the right types.                                  *)
LEMMA InitType == Init => TypeOK
<1> SUFFICES ASSUME Init PROVE TypeOK
  OBVIOUS
<1>1. GenesisBlock \in Block
  BY ChainAssumption DEF GenesisBlock, Block
<1>2. DOMAIN blocks = {Genesis} /\ blocks \in [{Genesis} -> Block]
  BY <1>1 DEF Init, ChainInit
<1> QED
  BY <1>2, ChainAssumption DEF Init, ChainInit, TypeOK

(* Every variable of every node keeps its type, whatever is gossiped,      *)
(* imported, finalized or restarted.                                       *)
THEOREM TypeCorrect == Spec => []TypeOK
BY InitType, TypeStep, PTL DEF Spec

-----------------------------------------------------------------------------
(* The chain only grows: a step adds at most one block, on a known parent. *)
NewBlock(h, p, evs, a) ==
  /\ h \notin DOMAIN blocks
  /\ ValidBody(p, evs, a)
  /\ AddBlock(h, ValidateEvents(h, p, evs, a))

(* A block, once it exists, never changes; a new one is well formed.       *)
LEMMA BlocksStep ==
  ASSUME TypeOK, [Next]_vars
  PROVE  \/ blocks' = blocks
         \/ \E h \in Hashes, p \in DOMAIN blocks, evs \in SUBSET Events, a \in SUBSET Keys :
              NewBlock(h, p, evs, a)
<1>1. ASSUME NEW n \in Nodes, NEW h \in Hashes, NEW calls \in SUBSET Events,
             NEW a \in SUBSET Keys, AuthorBlock(n, h, calls, a)
      PROVE  \E p \in DOMAIN blocks, evs \in SUBSET Events : NewBlock(h, p, evs, a)
  <2>1. best[n] \in DOMAIN blocks /\ BlockEvents(n, calls) \in SUBSET Events
    BY DEF TypeOK, BlockEvents
  <2>2. NewBlock(h, best[n], BlockEvents(n, calls), a)
    BY <1>1 DEF AuthorBlock, NewBlock
  <2> QED
    BY <2>1, <2>2
<1>2. ASSUME NEW n \in Nodes, Client(n)
      PROVE  \/ blocks' = blocks
             \/ \E h \in Hashes, calls \in SUBSET Events, a \in SUBSET Keys :
                  AuthorBlock(n, h, calls, a)
  BY <1>2 DEF Client, ImportBlock, ImportUnchecked, FinalizeBlock
<1>3. ASSUME NEW n \in Nodes, GossipTask(n)
      PROVE  blocks' = blocks
  BY <1>3, Zenon DEF GossipTask, HandleIncomingOrder, HandleIncomingEvent, HandleMisattributedEvent,
              AddEventProof, PurgeEventStaleSignatures, CheckProofCount, SubmitEventExtrinsic,
              chainVars
<1>4. CASE Environment
  BY <1>4 DEF Environment, ForeignWitness, ForeignBlock, JustifyBlock, NewBlock, chainVars
<1>5. CASE UNCHANGED vars \/ \E n \in Nodes : Restart(n) \/ \E e \in Events : WitnessEvent(n, e)
  BY <1>5 DEF vars, Restart, WitnessEvent, chainVars
<1> QED
  BY <1>1, <1>2, <1>3, <1>4, <1>5 DEF Next

(* No signature is ever taken back.                                        *)
LEMMA SignedStep == [Next]_vars => signed \subseteq signed'
<1> SUFFICES ASSUME [Next]_vars PROVE signed \subseteq signed'
  OBVIOUS
<1>1. ASSUME NEW n \in Nodes, GossipTask(n) PROVE signed' = signed
  BY <1>1, Zenon DEF GossipTask, HandleIncomingOrder, HandleIncomingEvent, HandleMisattributedEvent,
              AddEventProof, PurgeEventStaleSignatures, CheckProofCount, SubmitEventExtrinsic
<1>2. ASSUME NEW n \in Nodes, Client(n) PROVE signed' = signed
  BY <1>2 DEF Client, AuthorBlock, ImportBlock, ImportUnchecked, FinalizeBlock, gossipVars
<1>3. CASE Environment
  BY <1>3 DEF Environment, ForeignWitness, ForeignBlock, JustifyBlock, gossipVars
<1>4. CASE UNCHANGED vars \/ \E n \in Nodes : Restart(n) \/ \E e \in Events : WitnessEvent(n, e)
  BY <1>4 DEF vars, Restart, WitnessEvent, gossipVars
<1> QED
  BY <1>1, <1>2, <1>3, <1>4 DEF Next

(* The shape of the block tree.                                            *)
ChainInv ==
  \A h \in DOMAIN blocks :
    /\ blocks[h].parent \in DOMAIN blocks
    /\ h \in blocks[h].ancestors
    /\ blocks[h].ancestors \subseteq DOMAIN blocks
    /\ \A a \in blocks[h].ancestors : blocks[a].ancestors \subseteq blocks[h].ancestors

(* What a step leaves as it was.                                           *)
Grows ==
  /\ signed \subseteq signed'
  /\ DOMAIN blocks \subseteq DOMAIN blocks'
  /\ \A h \in DOMAIN blocks : blocks'[h] = blocks[h]

(* Blocks and signatures only ever grow.                                   *)
LEMMA StepGrows ==
  ASSUME TypeOK, [Next]_vars
  PROVE  Grows
<1>1. signed \subseteq signed'
  BY SignedStep
<1>2. /\ DOMAIN blocks \subseteq DOMAIN blocks'
      /\ \A h \in DOMAIN blocks : blocks'[h] = blocks[h]
  BY BlocksStep, Zenon DEF NewBlock, AddBlock
<1> QED
  BY <1>1, <1>2 DEF Grows

(* The block tree stays closed under parents and ancestors.                *)
LEMMA ChainStep ==
  ASSUME TypeOK, [Next]_vars, ChainInv
  PROVE  ChainInv'
<1>1. CASE blocks' = blocks
  BY <1>1 DEF ChainInv
<1>2. ASSUME NEW h \in Hashes, NEW p \in DOMAIN blocks, NEW evs \in SUBSET Events,
             NEW a \in SUBSET Keys, NewBlock(h, p, evs, a)
      PROVE  ChainInv'
  <2>1. /\ h \notin DOMAIN blocks
        /\ DOMAIN blocks' = DOMAIN blocks \cup {h}
        /\ \A x \in DOMAIN blocks : blocks'[x] = blocks[x]
        /\ blocks'[h].parent = p
        /\ blocks'[h].ancestors = blocks[p].ancestors \cup {h}
    BY <1>2 DEF NewBlock, AddBlock, ValidateEvents
  <2>2. ASSUME NEW x \in DOMAIN blocks
        PROVE  /\ blocks'[x].parent \in DOMAIN blocks'
               /\ x \in blocks'[x].ancestors
               /\ blocks'[x].ancestors \subseteq DOMAIN blocks'
               /\ \A y \in blocks'[x].ancestors : blocks'[y].ancestors \subseteq blocks'[x].ancestors
    BY <2>1 DEF ChainInv
  <2>3. /\ blocks'[h].parent \in DOMAIN blocks'
        /\ h \in blocks'[h].ancestors
        /\ blocks'[h].ancestors \subseteq DOMAIN blocks'
        /\ \A y \in blocks'[h].ancestors : blocks'[y].ancestors \subseteq blocks'[h].ancestors
    BY <2>1 DEF ChainInv
  <2> QED
    BY <2>1, <2>2, <2>3 DEF ChainInv
<1> QED
  BY <1>1, <1>2, BlocksStep
-----------------------------------------------------------------------------
(* Every message, every message being handled and every stored proof       *)
(* stands for a signature that was really made.                            *)
SignaturesReal ==
  /\ \A we \in net : we.signature \in signed
  /\ \A n \in Nodes : \A i \in 1..Len(orders[n]) : orders[n][i].signature \in signed
  /\ \A n \in Nodes : task[n].step \in {"add", "purge", "count"}
       => [key |-> task[n].key, event |-> task[n].event] \in signed
  /\ \A n \in Nodes, e \in Events : \A k \in proofs[n][e] : [key |-> k, event |-> e] \in signed

(* Handling a message that carries a real signature: verification ties the *)
(* key and the event of the task to that signature.                        *)
LEMMA BeginHandlingSigned ==
  ASSUME TypeOK, SignaturesReal, NEW n \in Nodes, NEW we, we.signature \in signed,
         BeginHandling(n, we)
  PROVE  \A m \in Nodes : task'[m].step \in {"add", "purge", "count"}
           => [key |-> task'[m].key, event |-> task'[m].event] \in signed
<1>1. ASSUME VerifyWitnessedEventOrigin(LatestAuthorities(n), we)
      PROVE  [key |-> we.pub_key, event |-> we.event_id] \in signed
  BY <1>1 DEF VerifyWitnessedEventOrigin
<1>2. CASE VerifyWitnessedEventOrigin(LatestAuthorities(n), we)
  BY <1>1, <1>2 DEF TypeOK, SignaturesReal, BeginHandling
<1>3. CASE ~VerifyWitnessedEventOrigin(LatestAuthorities(n), we)
  BY <1>3 DEF TypeOK, SignaturesReal, BeginHandling, Idle
<1> QED
  BY <1>2, <1>3

(* Whatever is published, queued, handled or stored was really signed.     *)
LEMMA SignaturesRealStep ==
  ASSUME TypeOK, [Next]_vars, SignaturesReal
  PROVE  SignaturesReal'
<1>1. ASSUME NEW n \in Nodes, NEW e \in Events, WitnessEvent(n, e)
      PROVE  SignaturesReal'
  <2>1. PICK k \in Keys :
          /\ signed' = signed \cup {[key |-> k, event |-> e]}
          /\ orders' = [orders EXCEPT ![n] = Append(@, SignedBy(k, e))]
    BY <1>1, ChainAssumption, Zenon DEF WitnessEvent
  <2>2. SignedBy(k, e) \in WitnessedEvent /\ SignedBy(k, e).signature \in signed'
    BY <2>1 DEF SignedBy, WitnessedEvent, Signature
  <2>3. ASSUME NEW m \in Nodes, NEW i \in 1..Len(orders'[m])
        PROVE  orders'[m][i].signature \in signed'
    <3>1. orders[m] \in Seq(WitnessedEvent)
      BY DEF TypeOK
    <3>2. CASE m = n
      <4>1. orders'[m] = Append(orders[m], SignedBy(k, e))
        BY <2>1, <3>2 DEF TypeOK
      <4>2. CASE i = Len(orders[m]) + 1
        BY <2>2, <3>1, <4>1, <4>2
      <4>3. CASE i \in 1..Len(orders[m])
        BY <2>1, <2>2, <3>1, <4>1, <4>3, SMTT(30) DEF SignaturesReal
      <4> QED
        BY <2>2, <3>1, <4>1, <4>2, <4>3
    <3>3. CASE m # n
      BY <2>1, <3>3 DEF TypeOK, SignaturesReal
    <3> QED
      BY <3>2, <3>3
  <2>4. UNCHANGED <<net, task, proofs>>
    BY <1>1 DEF WitnessEvent
  <2> QED
    BY <2>1, <2>3, <2>4 DEF SignaturesReal
<1>2. ASSUME NEW k \in Keys, NEW e \in Events, ForeignWitness(k, e)
      PROVE  SignaturesReal'
  BY <1>2 DEF SignaturesReal, ForeignWitness, SignedBy
<1>3. ASSUME NEW n \in Nodes, HandleIncomingOrder(n)
      PROVE  SignaturesReal'
  <2>1. orders[n] \in Seq(WitnessedEvent) /\ orders[n] # <<>>
    BY <1>3 DEF TypeOK, HandleIncomingOrder
  <2>2. Head(orders[n]).signature \in signed
    <3>1. Head(orders[n]) = orders[n][1] /\ 1 \in 1..Len(orders[n])
      BY <2>1
    <3> QED
      BY <3>1 DEF SignaturesReal
  <2>3. \A m \in Nodes : task'[m].step \in {"add", "purge", "count"}
           => [key |-> task'[m].key, event |-> task'[m].event] \in signed
    BY <1>3, <2>2, BeginHandlingSigned DEF HandleIncomingOrder
  <2>4. ASSUME NEW m \in Nodes, NEW i \in 1..Len(orders'[m])
        PROVE  orders'[m][i].signature \in signed
    <3>1. CASE m = n
      <4>1. orders'[m] = Tail(orders[n])
        BY <1>3, <3>1 DEF HandleIncomingOrder, TypeOK
      <4>2. i + 1 \in 1..Len(orders[n]) /\ orders'[m][i] = orders[n][i + 1]
        BY <2>1, <4>1
      <4> QED
        BY <4>2 DEF SignaturesReal
    <3>2. CASE m # n
      BY <1>3, <3>2 DEF HandleIncomingOrder, TypeOK, SignaturesReal
    <3> QED
      BY <3>1, <3>2
  <2>5. net' \subseteq net \cup {Head(orders[n])} /\ UNCHANGED <<signed, proofs>>
    BY <1>3 DEF HandleIncomingOrder
  <2> QED
    BY <2>2, <2>3, <2>4, <2>5 DEF SignaturesReal
<1>4. ASSUME NEW n \in Nodes, NEW we \in net, HandleIncomingEvent(n, we)
      PROVE  SignaturesReal'
  <2>1. we.signature \in signed
    BY DEF SignaturesReal
  <2> QED
    BY <1>4, <2>1, BeginHandlingSigned DEF SignaturesReal, HandleIncomingEvent
<1>5. ASSUME NEW n \in Nodes, NEW we, HandleMisattributedEvent(n, we)
      PROVE  SignaturesReal'
  BY <1>5, BeginHandlingSigned DEF SignaturesReal, HandleMisattributedEvent
<1>6. ASSUME NEW n \in Nodes, AddEventProof(n)
      PROVE  SignaturesReal'
  BY <1>6 DEF TypeOK, SignaturesReal, AddEventProof, GoTo
<1>7. ASSUME NEW n \in Nodes, PurgeEventStaleSignatures(n)
      PROVE  SignaturesReal'
  BY <1>7 DEF TypeOK, SignaturesReal, PurgeEventStaleSignatures, GoTo
<1>8. ASSUME NEW n \in Nodes, CheckProofCount(n) \/ SubmitEventExtrinsic(n)
      PROVE  SignaturesReal'
  <2>1. UNCHANGED <<signed, net, orders, proofs>>
    BY <1>8 DEF CheckProofCount, SubmitEventExtrinsic
  <2>2. \A m \in Nodes : task'[m] = task[m] \/ task'[m].step \in {"submit", "idle"}
    BY <1>8 DEF TypeOK, CheckProofCount, SubmitEventExtrinsic, Idle
  <2> QED
    BY <2>1, <2>2 DEF SignaturesReal
<1>9. ASSUME NEW n \in Nodes, Restart(n)
      PROVE  SignaturesReal'
  BY <1>9 DEF TypeOK, SignaturesReal, Restart, Idle
<1>10. CASE UNCHANGED <<gossipVars, proofs>>
  BY <1>10, SMTT(30) DEF SignaturesReal, gossipVars
<1>11. ASSUME NEW n \in Nodes, Client(n)
       PROVE  UNCHANGED <<gossipVars, proofs>>
  BY <1>11 DEF Client, AuthorBlock, ImportBlock, ImportUnchecked, FinalizeBlock
<1>12. CASE Environment
  BY <1>2, <1>10, <1>12 DEF Environment, ForeignBlock, JustifyBlock
<1> QED
  BY <1>1, <1>3, <1>4, <1>5, <1>6, <1>7, <1>8, <1>9, <1>10, <1>11, <1>12, Zenon
  DEF Next, GossipTask, vars
-----------------------------------------------------------------------------
(* Counting.                                                               *)

(* Quorate with the signatures as a parameter.                             *)
QuorateIn(S, e, A) ==
  Cardinality({k \in A : [key |-> k, event |-> e] \in S}) >= Target(Cardinality(A))

(* Every authority list is a finite set, shorter than a u16 can count.     *)
LEMMA KeySets ==
  ASSUME NEW A \in SUBSET Keys
  PROVE  IsFiniteSet(A) /\ Cardinality(A) \in Nat /\ Cardinality(A) < U16
<1>1. IsFiniteSet(A) /\ Cardinality(A) <= Cardinality(Keys)
  BY ChainAssumption, FS_Subset
<1>2. Cardinality(A) \in Nat /\ Cardinality(Keys) \in Nat
  BY <1>1, ChainAssumption, FS_CardinalityType
<1> QED
  BY <1>1, <1>2, ChainAssumption DEF U16

(* The target of an authority list is a number.                            *)
LEMMA TargetType ==
  ASSUME NEW A \in SUBSET Keys
  PROVE  Target(Cardinality(A)) \in Nat
BY KeySets DEF Target, U16

(* More signatures never undo a quorum.                                    *)
LEMMA QuorateMonotone ==
  ASSUME NEW S, NEW T, S \subseteq T, NEW e, NEW A \in SUBSET Keys, QuorateIn(S, e, A)
  PROVE  QuorateIn(T, e, A)
<1> DEFINE X == {k \in A : [key |-> k, event |-> e] \in S}
           Y == {k \in A : [key |-> k, event |-> e] \in T}
<1>1. Y \in SUBSET Keys /\ X \in SUBSET Y
  OBVIOUS
<1>2. Cardinality(X) <= Cardinality(Y) /\ Cardinality(X) \in Nat /\ Cardinality(Y) \in Nat
  BY <1>1, KeySets, FS_Subset, Zenon
<1> QED
  BY <1>2, TargetType DEF QuorateIn

(* A node that counts enough proofs has seen enough signatures.            *)
LEMMA CountedQuorate ==
  ASSUME TypeOK, SignaturesReal, NEW n \in Nodes, NEW e \in Events, NEW A \in SUBSET Keys,
         ~(GetEventProofCount(n, e, A) < Target(Cardinality(A)))
  PROVE  QuorateIn(signed, e, A)
<1> DEFINE X == proofs[n][e] \cap A
           Y == {k \in A : [key |-> k, event |-> e] \in signed}
<1>1. Y \in SUBSET Keys /\ X \in SUBSET Y
  BY DEF SignaturesReal
<1>2. Cardinality(X) <= Cardinality(Y) /\ Cardinality(X) \in Nat /\ Cardinality(Y) \in Nat
  BY <1>1, KeySets, FS_Subset, Zenon
<1> QED
  BY <1>2, TargetType DEF QuorateIn, GetEventProofCount

-----------------------------------------------------------------------------
(* Block import.                                                           *)

(* The blocks that a step adds to what a node imported with the check.     *)
LEMMA ImportedStep ==
  ASSUME TypeOK, [Next]_vars, NEW n \in Nodes, NEW h \in imported'[n] \ bypassed'[n]
  PROVE  \/ h \in imported[n] \ bypassed[n]
         \/ /\ h \in DOMAIN blocks'
            /\ blocks'[h].parent \in DOMAIN blocks
            /\ blocks'[h].events \subseteq Events
            /\ ImportCheck(n, blocks'[h].parent, blocks'[h].events)
<1> DEFINE Old == h \in imported[n] \ bypassed[n]
           New == /\ h \in DOMAIN blocks'
                  /\ blocks'[h].parent \in DOMAIN blocks
                  /\ blocks'[h].events \subseteq Events
                  /\ ImportCheck(n, blocks'[h].parent, blocks'[h].events)
<1>1. CASE UNCHANGED <<imported, bypassed>>
  BY <1>1
<1>2. ASSUME NEW m \in Nodes, NEW x, NEW block, InnerImport(m, x, block), bypassed' = bypassed,
             h \notin imported[n]
      PROVE  m = n /\ x = h
  BY <1>2 DEF InnerImport, TypeOK
<1>3. ASSUME NEW m \in Nodes, NEW x \in Hashes, NEW calls \in SUBSET Events,
             NEW a \in SUBSET Keys, AuthorBlock(m, x, calls, a)
      PROVE  Old \/ New
  <2> DEFINE p == best[m]
             evs == BlockEvents(m, calls)
             block == ValidateEvents(x, p, evs, a)
  <2>1. /\ AddBlock(x, block) /\ InnerImport(m, x, block)
        /\ ImportCheck(m, p, evs) /\ bypassed' = bypassed
    BY <1>3 DEF AuthorBlock
  <2>2. p \in DOMAIN blocks /\ evs \subseteq Events
    BY DEF TypeOK, BlockEvents
  <2>3. block.parent = p /\ block.events = evs
    BY DEF ValidateEvents
  <2> HIDE DEF block
  <2>4. x \in DOMAIN blocks' /\ blocks'[x] = block
    BY <2>1 DEF AddBlock
  <2>5. CASE h \in imported[n]
    BY <2>1, <2>5
  <2>6. CASE h \notin imported[n]
    <3>1. m = n /\ x = h
      BY <1>2, <2>1, <2>6
    <3> QED
      BY <2>1, <2>2, <2>3, <2>4, <3>1, ZenonT(60)
  <2> QED
    BY <2>5, <2>6
<1>4. ASSUME NEW m \in Nodes, NEW x \in Hashes, ImportBlock(m, x)
      PROVE  Old \/ New
  <2>1. /\ x \in DOMAIN blocks /\ InnerImport(m, x, blocks[x])
        /\ ImportCheck(m, blocks[x].parent, blocks[x].events)
        /\ blocks[x].parent \in imported[m]
        /\ blocks' = blocks /\ bypassed' = bypassed
    BY <1>4 DEF ImportBlock, Importable
  <2>2. blocks[x].parent \in DOMAIN blocks /\ blocks[x].events \subseteq Events
    BY <2>1 DEF TypeOK, Block
  <2>3. CASE h \in imported[n]
    BY <2>1, <2>3
  <2>4. CASE h \notin imported[n]
    <3>1. m = n /\ x = h
      BY <1>2, <2>1, <2>4
    <3> QED
      BY <2>1, <2>2, <3>1
  <2> QED
    BY <2>3, <2>4
<1>5. ASSUME NEW m \in Nodes, NEW x \in Hashes, ImportUnchecked(m, x)
      PROVE  Old
  BY <1>5 DEF ImportUnchecked, InnerImport, TypeOK
<1>6. ASSUME NEW m \in Nodes, Client(m)
      PROVE  Old \/ New
  <2>1. ASSUME NEW x \in Hashes, FinalizeBlock(m, x)
        PROVE  UNCHANGED <<imported, bypassed>>
    BY <2>1 DEF FinalizeBlock
  <2> QED
    BY <1>1, <1>3, <1>4, <1>5, <1>6, <2>1 DEF Client
<1>7. ASSUME NEW m \in Nodes, GossipTask(m)
      PROVE  UNCHANGED <<imported, bypassed>>
  BY <1>7, Zenon DEF GossipTask, HandleIncomingOrder, HandleIncomingEvent, HandleMisattributedEvent,
              AddEventProof, PurgeEventStaleSignatures, CheckProofCount, SubmitEventExtrinsic,
              chainVars
<1>8. CASE Environment
  BY <1>1, <1>8, ZenonT(60) DEF Environment, ForeignWitness, ForeignBlock, JustifyBlock, chainVars
<1>9. CASE UNCHANGED vars \/ \E m \in Nodes : Restart(m) \/ \E e \in Events : WitnessEvent(m, e)
  BY <1>1, <1>9 DEF vars, Restart, WitnessEvent, chainVars
<1> QED
  BY <1>1, <1>6, <1>7, <1>8, <1>9 DEF Next

(* An import that gets past the check, when the runtime call works, has    *)
(* a quorum behind every event.                                            *)
LEMMA CheckedQuorate ==
  ASSUME TypeOK, SignaturesReal, "api" \notin Faults,
         NEW n \in Nodes, NEW p \in DOMAIN blocks, NEW evs \in SUBSET Events,
         ImportCheck(n, p, evs), NEW e \in evs
  PROVE  QuorateIn(signed, e, AuthoritiesAt(p))
<1>1. VerifyEventsValidity(n, p, evs) = {}
  BY DEF ImportCheck, ExtrinsicIds
<1>2. ~(GetEventProofCount(n, e, AuthoritiesAt(p)) < Target(Cardinality(AuthoritiesAt(p))))
  BY <1>1 DEF VerifyEventsValidity
<1>3. AuthoritiesAt(p) \in SUBSET Keys
  BY DEF TypeOK, AuthoritiesAt, Block
<1> QED
  BY <1>2, <1>3, CountedQuorate

(* The inductive invariant behind the import property.                     *)
ImportInv == TypeOK /\ ChainInv /\ SignaturesReal /\ ImportedEventsWitnessed

(* The check of import_block lets only witnessed events through, and later *)
(* steps cannot undo that.                                                 *)
LEMMA ImportedWitnessedStep ==
  ASSUME ImportInv, [Next]_vars, "api" \notin Faults
  PROVE  ImportedEventsWitnessed'
<1> USE DEF ImportInv
<1>1. Grows
  BY StepGrows
<1> SUFFICES ASSUME NEW n \in Nodes, NEW h \in imported'[n] \ bypassed'[n],
                    NEW e \in blocks'[h].events
             PROVE  QuorateIn(signed', e, blocks'[blocks'[h].parent].authorities)
  BY DEF ImportedEventsWitnessed, Quorate, QuorateIn, Witnesses, AuthoritiesAt
<1>2. CASE h \in imported[n] \ bypassed[n]
  <2>1. h \in DOMAIN blocks /\ blocks[h].parent \in DOMAIN blocks
    BY <1>2 DEF TypeOK, ChainInv
  <2>2. blocks'[h] = blocks[h] /\ blocks'[blocks[h].parent] = blocks[blocks[h].parent]
    BY <1>1, <2>1 DEF Grows
  <2>3. QuorateIn(signed, e, blocks[blocks[h].parent].authorities)
    BY <1>2, <2>2
    DEF ImportedEventsWitnessed, Quorate, QuorateIn, Witnesses, AuthoritiesAt
  <2>4. blocks[blocks[h].parent].authorities \in SUBSET Keys
    BY <2>1 DEF TypeOK, Block
  <2>5. signed \subseteq signed'
    BY <1>1 DEF Grows
  <2> QED
    BY <2>2, <2>3, <2>4, <2>5, QuorateMonotone
<1>3. CASE /\ blocks'[h].parent \in DOMAIN blocks
           /\ blocks'[h].events \subseteq Events
           /\ ImportCheck(n, blocks'[h].parent, blocks'[h].events)
  <2> DEFINE p == blocks'[h].parent
  <2>1. QuorateIn(signed, e, blocks[p].authorities)
    BY <1>3, CheckedQuorate DEF AuthoritiesAt
  <2>2. blocks'[p] = blocks[p] /\ signed \subseteq signed'
    BY <1>1, <1>3 DEF Grows
  <2>3. blocks[p].authorities \in SUBSET Keys
    BY <1>3 DEF TypeOK, Block
  <2> QED
    BY <2>1, <2>2, <2>3, QuorateMonotone
<1> QED
  BY <1>2, <1>3, ImportedStep

(* The genesis state satisfies the chain invariant, and nothing is signed. *)
LEMMA InitChain == Init => ChainInv /\ SignaturesReal
<1> SUFFICES ASSUME Init PROVE ChainInv /\ SignaturesReal
  OBVIOUS
<1>1. blocks = [x \in {Genesis} |-> GenesisBlock]
  BY DEF Init, ChainInit
<1>2. ChainInv
  BY <1>1 DEF ChainInv, GenesisBlock
<1>3. SignaturesReal
  <2>1. /\ net = {} /\ \A n \in Nodes : orders[n] = <<>> /\ task[n].step = "idle"
        /\ \A n \in Nodes, e \in Events : proofs[n][e] = {}
    BY DEF Init, Idle
  <2>2. \A n \in Nodes : 1..Len(orders[n]) = {}
    BY <2>1
  <2> QED
    BY <2>1, <2>2 DEF SignaturesReal
<1> QED
  BY <1>2, <1>3

(* The inductive invariant behind ImportsAreWitnessed.                     *)
LEMMA ImportInvariant ==
  ASSUME "api" \notin Faults
  PROVE  Spec => []ImportInv
<1>1. Init => ImportInv
  <2> SUFFICES ASSUME Init PROVE ImportInv
    OBVIOUS
  <2>1. TypeOK
    BY InitType
  <2>2. ChainInv /\ SignaturesReal
    BY InitChain
  <2>3. blocks = [x \in {Genesis} |-> GenesisBlock]
    BY DEF Init, ChainInit
  <2>4. ImportedEventsWitnessed
    <3>1. \A n \in Nodes : imported[n] = {Genesis}
      BY DEF Init, ChainInit
    <3>2. blocks[Genesis].events = {}
      BY <2>3 DEF GenesisBlock
    <3> QED
      BY <3>1, <3>2 DEF ImportedEventsWitnessed
  <2> QED
    BY <2>1, <2>2, <2>4 DEF ImportInv
<1>2. ImportInv /\ [Next]_vars => ImportInv'
  <2> SUFFICES ASSUME ImportInv, [Next]_vars PROVE ImportInv'
    OBVIOUS
  <2> QED
    BY TypeStep, ChainStep, SignaturesRealStep, ImportedWitnessedStep DEF ImportInv
<1> QED
  BY <1>1, <1>2, PTL DEF Spec

(* Whatever is gossiped, purged, finalized or restarted: if the runtime    *)
(* call get_extrinsic_ids does not fail, every event of a block that a     *)
(* node imported through the check was signed by `target` authorities.     *)
THEOREM ImportsAreWitnessed ==
  ASSUME "api" \notin Faults
  PROVE  Spec => []ImportedEventsWitnessed
<1>1. ImportInv => ImportedEventsWitnessed
  BY DEF ImportInv
<1> QED
  BY <1>1, ImportInvariant, PTL
-----------------------------------------------------------------------------
(* Alternatives.                                                           *)

(* No correct client has voted for both of two alternatives.               *)
HonestVotes ==
  \A k \in Keys \ Byzantine, e, o \in Events :
    e # o /\ {e, o} \in Alternatives
      => [key |-> k, event |-> e] \notin signed \/ [key |-> k, event |-> o] \notin signed

(* No step makes a correct key sign two alternatives.                      *)
LEMMA HonestVotesStep ==
  ASSUME TypeOK, [Next]_vars, HonestVotes
  PROVE  HonestVotes'
<1>1. CASE signed' = signed
  BY <1>1 DEF HonestVotes
<1>2. ASSUME NEW k \in Keys, NEW e \in Events, TrustedClientAccepts(k, e),
             signed' = signed \cup {[key |-> k, event |-> e]}
      PROVE  HonestVotes'
  <2> SUFFICES ASSUME NEW j \in Keys \ Byzantine, NEW a \in Events, NEW b \in Events,
                      a # b, {a, b} \in Alternatives,
                      [key |-> j, event |-> a] \in signed', [key |-> j, event |-> b] \in signed'
               PROVE  FALSE
    BY DEF HonestVotes
  <2>1. CASE [key |-> j, event |-> a] \in signed /\ [key |-> j, event |-> b] \in signed
    BY <2>1 DEF HonestVotes
  <2>2. CASE j = k /\ a = e /\ [key |-> j, event |-> b] \in signed
    BY <1>2, <2>2 DEF TrustedClientAccepts
  <2>3. CASE j = k /\ b = e /\ [key |-> j, event |-> a] \in signed
    <3>1. {b, a} = {a, b}
      OBVIOUS
    <3> QED
      BY <1>2, <2>3, <3>1 DEF TrustedClientAccepts
  <2> QED
    BY <1>2, <2>1, <2>2, <2>3
<1>3. ASSUME NEW n \in Nodes, NEW e \in Events, WitnessEvent(n, e)
      PROVE  HonestVotes'
  BY <1>2, <1>3, ChainAssumption DEF WitnessEvent
<1>4. ASSUME NEW n \in Nodes, GossipTask(n)
      PROVE  signed' = signed
  BY <1>4, Zenon DEF GossipTask, HandleIncomingOrder, HandleIncomingEvent, HandleMisattributedEvent,
              AddEventProof, PurgeEventStaleSignatures, CheckProofCount, SubmitEventExtrinsic
<1>5. ASSUME NEW n \in Nodes, Client(n)
      PROVE  signed' = signed
  BY <1>5, Zenon DEF Client, AuthorBlock, ImportBlock, ImportUnchecked, FinalizeBlock, gossipVars
<1>6. CASE Environment
  BY <1>1, <1>2, <1>6 DEF Environment, ForeignWitness, ForeignBlock, JustifyBlock, gossipVars
<1>7. CASE UNCHANGED vars \/ \E n \in Nodes : Restart(n)
  BY <1>1, <1>7, SMTT(30) DEF vars, Restart, gossipVars
<1> QED
  BY <1>1, <1>3, <1>4, <1>5, <1>6, <1>7 DEF Next

(* Two witnessed alternatives would need a correct key that signed both.   *)
LEMMA ExclusiveFromQuorums ==
  ASSUME ImportInv, HonestVotes
  PROVE  AlternativesExclusive
<1> SUFFICES ASSUME NEW n \in Nodes, NEW m \in Nodes,
                    NEW h \in imported[n] \ bypassed[n], NEW g \in imported[m] \ bypassed[m],
                    AuthoritiesAt(blocks[h].parent) = AuthoritiesAt(blocks[g].parent),
                    Cardinality(AuthoritiesAt(blocks[h].parent) \cap Byzantine)
                      <= MaxByzantine(Cardinality(AuthoritiesAt(blocks[h].parent))),
                    NEW e \in blocks[h].events, NEW o \in blocks[g].events,
                    e # o
             PROVE  {e, o} \notin Alternatives
  BY Zenon DEF AlternativesExclusive
<1> SUFFICES ASSUME {e, o} \in Alternatives
             PROVE  FALSE
  OBVIOUS
<1> DEFINE A == AuthoritiesAt(blocks[h].parent)
<1>1. A \in SUBSET Keys /\ e \in Events /\ o \in Events
  BY SMTT(30) DEF ImportInv, TypeOK, ChainInv, Block, AuthoritiesAt
<1>2. /\ Cardinality(Witnesses(e, A)) >= Target(Cardinality(A))
      /\ Cardinality(Witnesses(o, A)) >= Target(Cardinality(A))
  BY DEF ImportInv, ImportedEventsWitnessed, Quorate
<1>3. Witnesses(e, A) \in SUBSET A /\ Witnesses(o, A) \in SUBSET A
  BY DEF Witnesses
<1>4. IsFiniteSet(A) /\ Cardinality(A) < U16
  BY <1>1, KeySets
<1>5. Cardinality(A \cap Byzantine) <= MaxByzantine(Cardinality(A))
  OBVIOUS
<1> HIDE DEF A
<1>6. PICK k \in Witnesses(e, A) \cap Witnesses(o, A) : k \notin Byzantine
  BY <1>2, <1>3, <1>4, <1>5, QuorumsShareCorrect
<1>7. k \in Keys \ Byzantine /\ [key |-> k, event |-> e] \in signed
                             /\ [key |-> k, event |-> o] \in signed
  BY <1>1, <1>6 DEF Witnesses
<1> QED
  BY <1>1, <1>7 DEF HonestVotes

(* The guarantee the comment on AuthoritiesList::target asks for: with     *)
(* clients that vote for one alternative only and at most a third of the   *)
(* authorities Byzantine, no two nodes import blocks that settle two       *)
(* alternatives under the same authorities.                                *)
THEOREM AlternativesStayExclusive ==
  ASSUME "api" \notin Faults
  PROVE  Spec => []AlternativesExclusive
<1>1. Init => HonestVotes
  BY DEF Init, HonestVotes
<1>2. ImportInv /\ HonestVotes /\ [Next]_vars => HonestVotes'
  BY HonestVotesStep DEF ImportInv
<1>3. ImportInv /\ HonestVotes => AlternativesExclusive
  BY ExclusiveFromQuorums
<1> QED
  BY <1>1, <1>2, <1>3, ImportInvariant, PTL DEF Spec
-----------------------------------------------------------------------------
(* Finality.                                                               *)

(* Where the blocks of the tree come from, and what a node has of it.      *)
TreeInv ==
  /\ \A h \in DOMAIN blocks :
       /\ blocks[h].authorities \in AuthoritySets \cup {GenesisAuthorities}
       /\ blocks[h].ancestors \subseteq blocks[blocks[h].parent].ancestors \cup {h}
  /\ \A n \in Nodes :
       /\ best[n] \in imported[n]
       /\ \A h \in imported[n] : blocks[h].ancestors \subseteq imported[n]

(* What a step can make of the blocks a node has and follows: it imports a *)
(* block on a parent it has, moves between blocks it has, or neither.      *)
LEMMA NodeBlocksStep ==
  ASSUME TypeOK, TreeInv, [Next]_vars, NEW n \in Nodes
  PROVE  /\ bypassed[n] \subseteq bypassed'[n]
         /\ \/ imported'[n] = imported[n] /\ best'[n] \in imported[n]
            \/ \E h \in DOMAIN blocks' :
                 /\ imported'[n] = imported[n] \cup {h}
                 /\ best'[n] \in {best[n], h}
                 /\ blocks'[h].parent \in imported[n]
<1> DEFINE Kept == bypassed' = bypassed /\ imported' = imported /\ best' = best
           Goal == /\ bypassed[n] \subseteq bypassed'[n]
                   /\ \/ imported'[n] = imported[n] /\ best'[n] \in imported[n]
                      \/ \E h \in DOMAIN blocks' :
                           /\ imported'[n] = imported[n] \cup {h}
                           /\ best'[n] \in {best[n], h}
                           /\ blocks'[h].parent \in imported[n]
<1>1. CASE Kept
  BY <1>1 DEF TreeInv
<1>2. ASSUME NEW m \in Nodes, NEW h \in DOMAIN blocks', NEW block, InnerImport(m, h, block),
             blocks'[h].parent \in imported[m], bypassed[n] \subseteq bypassed'[n]
      PROVE  Goal
  <2>1. CASE m = n
    BY <1>2, <2>1 DEF InnerImport, BestAfterImport, TypeOK
  <2>2. CASE m # n
    <3>1. imported'[n] = imported[n] /\ best'[n] = best[n]
      BY <1>2, <2>2 DEF InnerImport, TypeOK
    <3> QED
      BY <1>2, <3>1 DEF TreeInv
  <2> QED
    BY <2>1, <2>2
<1>3. ASSUME NEW m \in Nodes, NEW h \in Hashes, NEW calls \in SUBSET Events,
             NEW a \in SUBSET Keys, AuthorBlock(m, h, calls, a)
      PROVE  Goal
  <2> DEFINE block == ValidateEvents(h, best[m], BlockEvents(m, calls), a)
  <2>1. AddBlock(h, block) /\ InnerImport(m, h, block) /\ bypassed' = bypassed
    BY <1>3, ZenonT(60) DEF AuthorBlock
  <2>2. block.parent = best[m]
    BY DEF ValidateEvents
  <2> HIDE DEF block
  <2>3. h \in DOMAIN blocks' /\ blocks'[h] = block
    BY <2>1 DEF AddBlock
  <2>4. blocks'[h].parent \in imported[m]
    BY <2>2, <2>3, SMTT(30) DEF TreeInv
  <2>5. bypassed[n] \subseteq bypassed'[n]
    BY <2>1
  <2> QED
    BY <1>2, <2>1, <2>3, <2>4, <2>5, ZenonT(60)
<1>4. ASSUME NEW m \in Nodes, NEW h \in Hashes, ImportBlock(m, h) \/ ImportUnchecked(m, h)
      PROVE  Goal
  <2>1. /\ h \in DOMAIN blocks' /\ InnerImport(m, h, blocks[h])
        /\ blocks'[h].parent \in imported[m]
    BY <1>4 DEF ImportBlock, ImportUnchecked, Importable
  <2>2. bypassed[n] \subseteq bypassed'[n]
    BY <1>4, ZenonT(60) DEF ImportBlock, ImportUnchecked, TypeOK
  <2> QED
    BY <1>2, <2>1, <2>2, ZenonT(60)
<1>5. ASSUME NEW m \in Nodes, NEW h \in Hashes, FinalizeBlock(m, h)
      PROVE  Goal
  <2>1. PICK b \in BestAfterFinality(m, h) : best' = [best EXCEPT ![m] = b]
    BY <1>5, Zenon DEF FinalizeBlock
  <2>2. b \in imported[m]
    BY SMTT(30) DEF BestAfterFinality, TreeInv
  <2>3. imported' = imported /\ bypassed' = bypassed
    BY <1>5 DEF FinalizeBlock
  <2> QED
    BY <2>1, <2>2, <2>3 DEF TypeOK, TreeInv
<1>6. ASSUME NEW m \in Nodes, GossipTask(m)
      PROVE  Kept
  BY <1>6, ZenonT(60)
  DEF GossipTask, HandleIncomingOrder, HandleIncomingEvent, HandleMisattributedEvent,
      AddEventProof, PurgeEventStaleSignatures, CheckProofCount, SubmitEventExtrinsic, chainVars
<1>7. CASE Environment
  BY <1>1, <1>7, ZenonT(60) DEF Environment, ForeignWitness, ForeignBlock, JustifyBlock, chainVars
<1>8. CASE UNCHANGED vars \/ \E m \in Nodes : Restart(m) \/ \E e \in Events : WitnessEvent(m, e)
  BY <1>1, <1>8, ZenonT(60) DEF vars, Restart, WitnessEvent, chainVars
<1>9. ASSUME NEW m \in Nodes, Client(m)
      PROVE  Goal
  BY <1>3, <1>4, <1>5, <1>9, ZenonT(60) DEF Client
<1> QED
  BY <1>1, <1>6, <1>7, <1>8, <1>9, Zenon DEF Next

(* A new block takes its authorities from its parent or from a change the  *)
(* session pallet allows, and a node only imports on what it has.          *)
LEMMA TreeStep ==
  ASSUME TypeOK, ChainInv, TreeInv, [Next]_vars
  PROVE  TreeInv'
<1>1. /\ DOMAIN blocks \subseteq DOMAIN blocks'
      /\ \A h \in DOMAIN blocks : blocks'[h] = blocks[h]
  BY StepGrows DEF Grows
<1>2. ASSUME NEW h \in DOMAIN blocks'
      PROVE  /\ blocks'[h].authorities \in AuthoritySets \cup {GenesisAuthorities}
             /\ blocks'[h].ancestors \subseteq blocks'[blocks'[h].parent].ancestors \cup {h}
  <2>1. CASE h \in DOMAIN blocks
    <3>1. blocks[h].parent \in DOMAIN blocks
      BY <2>1 DEF ChainInv
    <3>2. blocks'[h] = blocks[h] /\ blocks'[blocks[h].parent] = blocks[blocks[h].parent]
      BY <1>1, <2>1, <3>1
    <3> QED
      BY <2>1, <3>2 DEF TreeInv
  <2>2. CASE h \notin DOMAIN blocks
    <3>1. PICK x \in Hashes, p \in DOMAIN blocks, evs \in SUBSET Events, a \in SUBSET Keys :
            NewBlock(x, p, evs, a)
      BY <2>2, BlocksStep
    <3>2. /\ blocks'[h].parent = p
          /\ blocks'[h].ancestors = blocks[p].ancestors \cup {h}
          /\ blocks'[h].authorities = a
      BY <2>2, <3>1 DEF NewBlock, AddBlock, ValidateEvents
    <3>3. a \in AuthoritySets \cup {blocks[p].authorities}
      BY <3>1 DEF NewBlock, ValidBody, AuthoritiesAt
    <3>4. blocks'[p] = blocks[p]
      BY <1>1
    <3> QED
      BY <3>2, <3>3, <3>4 DEF TreeInv
  <2> QED
    BY <2>1, <2>2
<1>3. ASSUME NEW n \in Nodes
      PROVE  /\ best'[n] \in imported'[n]
             /\ \A h \in imported'[n] : blocks'[h].ancestors \subseteq imported'[n]
  <2>1. imported[n] \subseteq DOMAIN blocks /\ best[n] \in imported[n]
    BY DEF TypeOK, TreeInv
  <2>2. \A h \in imported[n] : blocks'[h].ancestors \subseteq imported[n]
    BY <1>1, <2>1 DEF TreeInv
  <2>3. CASE imported'[n] = imported[n] /\ best'[n] \in imported[n]
    BY <2>2, <2>3
  <2>4. ASSUME NEW h \in DOMAIN blocks', imported'[n] = imported[n] \cup {h},
               best'[n] \in {best[n], h}, blocks'[h].parent \in imported[n]
        PROVE  /\ best'[n] \in imported'[n]
               /\ \A x \in imported'[n] : blocks'[x].ancestors \subseteq imported'[n]
    <3>1. blocks'[h].ancestors \subseteq imported'[n]
      BY <1>2, <2>2, <2>4
    <3> QED
      BY <2>1, <2>2, <2>4, <3>1
  <2> QED
    BY <2>3, <2>4, NodeBlocksStep
<1> QED
  BY <1>2, <1>3 DEF TreeInv

(* The share of the authorities that run this code: the others alone are   *)
(* never enough for GRANDPA to finalize a block.                           *)
NodesNeeded ==
  \A A \in AuthoritySets \cup {GenesisAuthorities} :
    3 * Cardinality(A \ HeldKeys) <= 2 * Cardinality(A)

(* Then a node of this network is on the chain of every block finalized,   *)
(* and has imported the block with all its ancestors.                      *)
LEMMA JustifiedImported ==
  ASSUME TypeOK, TreeInv, NodesNeeded, NEW h \in DOMAIN blocks, CanJustify(h)
  PROVE  \E n \in Nodes : h \in imported[n]
<1> DEFINE A == AuthoritiesAt(justified)
<1>1. A \in AuthoritySets \cup {GenesisAuthorities} /\ A \in SUBSET Keys
  BY DEF TypeOK, TreeInv, AuthoritiesAt, Block
<1>2. Cardinality(Supporters(h, A)) * 3 > Cardinality(A) * 2
  BY DEF CanJustify
<1>3. 3 * Cardinality(A \ HeldKeys) <= 2 * Cardinality(A)
  BY <1>1 DEF NodesNeeded
<1>4. Supporters(h, A) \in SUBSET Keys /\ A \ HeldKeys \in SUBSET Keys
  BY <1>1 DEF Supporters
<1> HIDE DEF A
<1>5. PICK n \in Nodes : h \in blocks[best[n]].ancestors
  <2> SUFFICES ASSUME \A n \in Nodes : h \notin blocks[best[n]].ancestors
               PROVE  FALSE
    OBVIOUS
  <2>1. Supporters(h, A) \in SUBSET (A \ HeldKeys)
    BY DEF Supporters
  <2>2. Cardinality(Supporters(h, A)) <= Cardinality(A \ HeldKeys)
    BY <1>4, <2>1, KeySets, FS_Subset
  <2>3. /\ Cardinality(A) \in Nat /\ Cardinality(Supporters(h, A)) \in Nat
        /\ Cardinality(A \ HeldKeys) \in Nat
    BY <1>1, <1>4, KeySets
  <2> QED
    BY <1>2, <1>3, <2>2, <2>3
<1> QED
  BY <1>5 DEF TreeInv

(* The step in which GRANDPA finalizes a block: what the node that voted   *)
(* for it has checked covers the block and all its ancestors.              *)
LEMMA JustifyWitnessed ==
  ASSUME ImportInv, TreeInv, NodesNeeded, NEW h \in DOMAIN blocks, CanJustify(h),
         NEW x \in blocks[h].ancestors, \A n \in Nodes : x \notin bypassed[n]
  PROVE  \A e \in blocks[x].events : Quorate(e, AuthoritiesAt(blocks[x].parent))
<1>1. PICK n \in Nodes : h \in imported[n]
  BY JustifiedImported DEF ImportInv
<1>2. x \in imported[n] \ bypassed[n]
  BY <1>1 DEF TreeInv
<1> QED
  BY <1>2 DEF ImportInv, ImportedEventsWitnessed

(* Finality moves only by JustifyBlock.                                    *)
LEMMA JustifiedStep ==
  ASSUME [Next]_vars
  PROVE  \/ justified' = justified
         \/ \E h \in Hashes : JustifyBlock(h)
<1>1. ASSUME NEW n \in Nodes, Client(n)
      PROVE  justified' = justified
  BY <1>1, Zenon DEF Client, AuthorBlock, ImportBlock, ImportUnchecked, FinalizeBlock, InnerImport
<1>2. ASSUME NEW n \in Nodes, GossipTask(n)
      PROVE  justified' = justified
  BY <1>2, Zenon
  DEF GossipTask, HandleIncomingOrder, HandleIncomingEvent, HandleMisattributedEvent,
      AddEventProof, PurgeEventStaleSignatures, CheckProofCount, SubmitEventExtrinsic, chainVars
<1>3. CASE \/ Environment \/ UNCHANGED vars
           \/ \E n \in Nodes : Restart(n) \/ \E e \in Events : WitnessEvent(n, e)
  BY <1>3, Zenon DEF Environment, ForeignWitness, ForeignBlock, Restart, WitnessEvent,
                     vars, chainVars
<1> QED
  BY <1>1, <1>2, <1>3 DEF Next

(* No step takes a quorum away from an event on the finalized chain, or    *)
(* finalizes an event without one.                                         *)
LEMMA FinalizedStepWitnessed ==
  ASSUME ImportInv, TreeInv, NodesNeeded, FinalizedEventsWitnessed, [Next]_vars
  PROVE  FinalizedEventsWitnessed'
<1>1. Grows
  BY StepGrows DEF ImportInv
<1> SUFFICES ASSUME NEW x \in blocks'[justified'].ancestors,
                    \A n \in Nodes : x \notin bypassed'[n],
                    NEW e \in blocks'[x].events
             PROVE  QuorateIn(signed', e, blocks'[blocks'[x].parent].authorities)
  BY Zenon DEF FinalizedEventsWitnessed, Quorate, QuorateIn, Witnesses, AuthoritiesAt
<1>2. \A n \in Nodes : x \notin bypassed[n]
  BY NodeBlocksStep DEF ImportInv
<1>3. justified' \in DOMAIN blocks
  BY JustifiedStep DEF ImportInv, TypeOK, JustifyBlock
<1>4. blocks'[justified'] = blocks[justified']
  BY <1>1, <1>3 DEF Grows
<1>5. x \in DOMAIN blocks /\ blocks[x].parent \in DOMAIN blocks
  BY <1>3, <1>4 DEF ImportInv, ChainInv
<1>6. blocks'[x] = blocks[x] /\ blocks'[blocks[x].parent] = blocks[blocks[x].parent]
  BY <1>1, <1>5 DEF Grows
<1>7. Quorate(e, AuthoritiesAt(blocks[x].parent))
  <2>1. CASE justified' = justified
    BY <1>2, <1>4, <1>6, <2>1 DEF FinalizedEventsWitnessed
  <2>2. ASSUME NEW h \in Hashes, JustifyBlock(h)
        PROVE  Quorate(e, AuthoritiesAt(blocks[x].parent))
    <3>1. h \in DOMAIN blocks /\ CanJustify(h) /\ justified' = h
      BY <2>2 DEF JustifyBlock
    <3>2. x \in blocks[h].ancestors /\ e \in blocks[x].events
      BY <1>4, <1>6, <3>1
    <3> QED
      BY <1>2, <3>1, <3>2, JustifyWitnessed
  <2> QED
    BY <2>1, <2>2, JustifiedStep
<1>8. QuorateIn(signed, e, blocks[blocks[x].parent].authorities)
  BY <1>7, Zenon DEF Quorate, QuorateIn, Witnesses, AuthoritiesAt
<1>9. blocks[blocks[x].parent].authorities \in SUBSET Keys
  BY <1>5 DEF ImportInv, TypeOK, Block
<1>10. signed \subseteq signed'
  BY <1>1 DEF Grows
<1> QED
  BY <1>6, <1>8, <1>9, <1>10, QuorateMonotone

(* What block import is for: if GRANDPA needs the votes of nodes that run  *)
(* this code, and get_extrinsic_ids does not fail, every event on the      *)
(* chain it finalizes was signed by `target` authorities, except in blocks *)
(* a node imported while major syncing.  Validators outside the network    *)
(* may author, sign and vote as they please.                               *)
THEOREM FinalizedAreWitnessed ==
  ASSUME "api" \notin Faults, NodesNeeded
  PROVE  Spec => []FinalizedEventsWitnessed
<1>1. Init => TreeInv /\ FinalizedEventsWitnessed
  <2> SUFFICES ASSUME Init PROVE TreeInv /\ FinalizedEventsWitnessed
    OBVIOUS
  <2>1. blocks = [x \in {Genesis} |-> GenesisBlock] /\ justified = Genesis
    BY DEF Init, ChainInit
  <2>2. \A n \in Nodes : imported[n] = {Genesis} /\ best[n] = Genesis
    BY DEF Init, ChainInit
  <2>3. TreeInv
    BY <2>1, <2>2 DEF TreeInv, GenesisBlock
  <2>4. FinalizedEventsWitnessed
    BY <2>1 DEF FinalizedEventsWitnessed, GenesisBlock
  <2> QED
    BY <2>3, <2>4
<1>2. ImportInv /\ TreeInv /\ [Next]_vars => TreeInv'
  BY TreeStep DEF ImportInv
<1>3. ImportInv /\ TreeInv /\ FinalizedEventsWitnessed /\ [Next]_vars
        => FinalizedEventsWitnessed'
  BY FinalizedStepWitnessed
<1> QED
  BY <1>1, <1>2, <1>3, ImportInvariant, PTL DEF Spec
-----------------------------------------------------------------------------
(* The gossip handler.                                                     *)

(* The finalized chain of a node only gets longer.                         *)
LEMMA FinalizedStep ==
  ASSUME TypeOK, ChainInv, [Next]_vars, NEW n \in Nodes,
         NEW h \in blocks[finalized[n]].ancestors
  PROVE  /\ h \in DOMAIN blocks
         /\ h \in blocks'[finalized'[n]].ancestors
         /\ blocks'[h] = blocks[h]
<1>1. finalized[n] \in DOMAIN blocks /\ h \in DOMAIN blocks
  BY DEF TypeOK, ChainInv
<1>2. Grows
  BY StepGrows, SMTT(30)
<1>3. \/ finalized'[n] = finalized[n]
      \/ /\ finalized'[n] \in DOMAIN blocks
         /\ finalized[n] \in blocks[finalized'[n]].ancestors
  <2>1. ASSUME NEW m \in Nodes, NEW x \in Hashes, FinalizeBlock(m, x)
        PROVE  \/ finalized'[n] = finalized[n]
               \/ /\ finalized'[n] \in DOMAIN blocks
                  /\ finalized[n] \in blocks[finalized'[n]].ancestors
    BY <2>1 DEF FinalizeBlock, CanFinalize, TypeOK
  <2>2. ASSUME NEW m \in Nodes, Client(m)
        PROVE  finalized' = finalized \/ \E x \in Hashes : FinalizeBlock(m, x)
    BY <2>2, ZenonT(60) DEF Client, AuthorBlock, ImportBlock, ImportUnchecked, InnerImport
  <2>3. ASSUME NEW m \in Nodes, GossipTask(m)
        PROVE  finalized' = finalized
    BY <2>3, ZenonT(60)
    DEF GossipTask, HandleIncomingOrder, HandleIncomingEvent, HandleMisattributedEvent,
        AddEventProof, PurgeEventStaleSignatures, CheckProofCount, SubmitEventExtrinsic,
                chainVars
  <2>4. CASE \/ Environment \/ UNCHANGED vars
             \/ \E m \in Nodes : Restart(m) \/ \E e \in Events : WitnessEvent(m, e)
    BY <2>4, Zenon DEF Environment, ForeignWitness, ForeignBlock, JustifyBlock, Restart, WitnessEvent,
                vars, chainVars
  <2> QED
    BY <2>1, <2>2, <2>3, <2>4, ZenonT(60) DEF Next
<1>4. h \in blocks[finalized'[n]].ancestors /\ finalized'[n] \in DOMAIN blocks
  BY <1>1, <1>3 DEF ChainInv
<1> QED
  BY <1>1, <1>2, <1>4 DEF Grows

(* Being an authority list of node n's finalized chain.                    *)
FinalizedList(n, A) == \E h \in blocks[finalized[n]].ancestors : A = AuthoritiesAt(h)

(* Having a quorum of an authority list of node n's finalized chain.       *)
Backed(n, e) == \E h \in blocks[finalized[n]].ancestors : Quorate(e, AuthoritiesAt(h))

(* A block stays on the finalized chain, with the same authorities,        *)
(* whatever the client does next.                                          *)
LEMMA FinalizedListStable ==
  ASSUME TypeOK, ChainInv, [Next]_vars, NEW n \in Nodes, NEW A, FinalizedList(n, A)
  PROVE  \E h \in blocks'[finalized'[n]].ancestors : A = blocks'[h].authorities
BY FinalizedStep DEF FinalizedList, AuthoritiesAt

(* Signatures are never unmade and finality is never undone, so an event   *)
(* that is backed stays so.                                                *)
LEMMA BackedStable ==
  ASSUME TypeOK, ChainInv, [Next]_vars, NEW n \in Nodes, NEW e, Backed(n, e)
  PROVE  \E h \in blocks'[finalized'[n]].ancestors :
           QuorateIn(signed', e, blocks'[h].authorities)
<1>1. PICK h \in blocks[finalized[n]].ancestors : QuorateIn(signed, e, blocks[h].authorities)
  BY ZenonT(60) DEF Backed, Quorate, QuorateIn, Witnesses, AuthoritiesAt
<1>2. /\ h \in DOMAIN blocks
      /\ h \in blocks'[finalized'[n]].ancestors
      /\ blocks'[h] = blocks[h]
  BY FinalizedStep
<1>3. blocks[h].authorities \in SUBSET Keys
  BY <1>2 DEF TypeOK, Block
<1>4. signed \subseteq signed'
  BY SignedStep
<1> QED
  BY <1>1, <1>2, <1>3, <1>4, QuorateMonotone

-----------------------------------------------------------------------------
(* The handler keeps using the authorities it read when the message came:  *)
(* they stay a list of the finalized chain, and what it is about to submit *)
(* or has submitted is backed by such a list.                              *)
HandlerInv ==
  \A n \in Nodes :
    /\ task[n].step \in {"add", "purge", "count"} => FinalizedList(n, task[n].authorities)
    /\ task[n].step = "submit" => Backed(n, task[n].event)
    /\ \A e \in pool[n] : Backed(n, e)

(* The client does not interfere with the gossip task, and takes from the  *)
(* pool what is on the best chain.                                         *)
LEMMA ClientStep ==
  ASSUME TypeOK, NEW n \in Nodes, NEW m \in Nodes, Client(m)
  PROVE  task' = task /\ pool'[n] \subseteq pool[n]
<1>1. task' = task
  BY ZenonT(60) DEF Client, AuthorBlock, ImportBlock, ImportUnchecked, FinalizeBlock, gossipVars
<1>2. ASSUME NEW x, NEW block, InnerImport(m, x, block)
      PROVE  pool'[n] \subseteq pool[n]
  BY <1>2 DEF InnerImport, TypeOK
<1>3. ASSUME NEW x, FinalizeBlock(m, x)
      PROVE  pool'[n] \subseteq pool[n]
  BY <1>3 DEF FinalizeBlock, TypeOK
<1>4. \/ \E x, block : InnerImport(m, x, block)
      \/ \E x : FinalizeBlock(m, x)
  BY ZenonT(60) DEF Client, AuthorBlock, ImportBlock, ImportUnchecked
<1> QED
  BY <1>1, <1>2, <1>3, <1>4, SMTT(30)

(* What a step can make of a node's task and pool: the handler goes on     *)
(* with the authorities it read from the finalized block, and an event is  *)
(* submitted once its proofs have been counted with these.                 *)
LEMMA TaskStep ==
  ASSUME TypeOK, [Next]_vars, NEW n \in Nodes
  PROVE  /\ task'[n].step \in {"add", "purge", "count"} =>
              \/ task'[n].authorities = AuthoritiesAt(finalized[n])
              \/ /\ task[n].step \in {"add", "purge", "count"}
                 /\ task'[n].authorities = task[n].authorities
         /\ task'[n].step = "submit" =>
              \/ task'[n] = task[n]
              \/ /\ task[n].step = "count"
                 /\ task'[n].event = task[n].event
                 /\ GetEventProofCount(n, task[n].event, task[n].authorities)
                      >= Target(Cardinality(task[n].authorities))
         /\ \A e \in pool'[n] : e \in pool[n] \/ (task[n].step = "submit" /\ e = task[n].event)
<1> DEFINE Read == task'[n].authorities = AuthoritiesAt(finalized[n])
           Carried == /\ task[n].step \in {"add", "purge", "count"}
                      /\ task'[n].authorities = task[n].authorities
           Counted == /\ task[n].step = "count"
                      /\ task'[n].event = task[n].event
                      /\ GetEventProofCount(n, task[n].event, task[n].authorities)
                           >= Target(Cardinality(task[n].authorities))
           Handled == task'[n].step \in {"add", "purge", "count"} => Read \/ Carried
           Submitted == task'[n].step = "submit" => task'[n] = task[n] \/ Counted
           Pooled == \A e \in pool'[n] :
                       e \in pool[n] \/ (task[n].step = "submit" /\ e = task[n].event)
           Goal == Handled /\ Submitted /\ Pooled
<1>1. ASSUME pool'[n] \subseteq pool[n], task'[n] = task[n] \/ task'[n].step = "idle"
      PROVE  Goal
  BY <1>1
<1>2. ASSUME NEW m \in Nodes, NEW we, BeginHandling(m, we), pool' = pool
      PROVE  Goal
  BY <1>2, SMTT(30) DEF BeginHandling, TypeOK, Idle, LatestAuthorities
<1>3. ASSUME NEW m \in Nodes, NEW step \in {"purge", "count"}, GoTo(m, step), pool' = pool,
             task[m].step \in {"add", "purge", "count"}
      PROVE  Goal
  BY <1>3 DEF GoTo, TypeOK
<1>4. ASSUME NEW m \in Nodes, CheckProofCount(m)
      PROVE  Goal
  BY <1>4 DEF CheckProofCount, TypeOK, Idle
<1>5. ASSUME NEW m \in Nodes, SubmitEventExtrinsic(m)
      PROVE  Goal
  BY <1>5, SMTT(30) DEF SubmitEventExtrinsic, TypeOK, Idle
<1>6. ASSUME NEW m \in Nodes, Client(m)
      PROVE  Goal
  BY <1>1, <1>6, ClientStep, ZenonT(60)
<1>7. ASSUME Environment \/ UNCHANGED vars \/ \E m \in Nodes, e \in Events : WitnessEvent(m, e)
      PROVE  Goal
  BY <1>1, <1>7, ZenonT(60) DEF Environment, ForeignWitness, ForeignBlock, JustifyBlock,
                    WitnessEvent, vars, gossipVars
<1>8. ASSUME NEW m \in Nodes, Restart(m)
      PROVE  Goal
  BY <1>1, <1>8, SMTT(30) DEF Restart, TypeOK, Idle
<1> HIDE DEF Goal
<1>9. ASSUME NEW m \in Nodes, GossipTask(m)
      PROVE  Goal
  BY <1>2, <1>3, <1>4, <1>5, <1>9, ZenonT(60)
  DEF GossipTask, HandleIncomingOrder, HandleIncomingEvent, HandleMisattributedEvent,
      AddEventProof, PurgeEventStaleSignatures
<1>10. Goal
  BY <1>6, <1>7, <1>8, <1>9 DEF Next
<1> QED
  BY <1>10, ZenonT(60) DEF Goal

(* In the state before a step, the same holds of the task and the pool     *)
(* after it.                                                               *)
LEMMA HandlerStep ==
  ASSUME TypeOK, ChainInv, SignaturesReal, HandlerInv, [Next]_vars, NEW n \in Nodes
  PROVE  /\ task'[n].step \in {"add", "purge", "count"} => FinalizedList(n, task'[n].authorities)
         /\ task'[n].step = "submit" => Backed(n, task'[n].event)
         /\ \A e \in pool'[n] : Backed(n, e)
<1>1. ASSUME task'[n].step \in {"add", "purge", "count"}
      PROVE  FinalizedList(n, task'[n].authorities)
  <2>1. CASE task'[n].authorities = AuthoritiesAt(finalized[n])
    BY <2>1, SMTT(30) DEF TypeOK, ChainInv, FinalizedList
  <2>2. CASE task[n].step \in {"add", "purge", "count"} /\ task'[n].authorities = task[n].authorities
    BY <2>2 DEF HandlerInv
  <2> QED
    BY <1>1, <2>1, <2>2, TaskStep
<1>2. ASSUME task[n].step = "count", task'[n].event = task[n].event,
             GetEventProofCount(n, task[n].event, task[n].authorities)
               >= Target(Cardinality(task[n].authorities))
      PROVE  Backed(n, task'[n].event)
  <2> DEFINE e == task[n].event
             A == task[n].authorities
  <2>1. e \in Events /\ A \in SUBSET Keys
    BY <1>2 DEF TypeOK, Handling, Submitting, Idle
  <2>2. PICK h \in blocks[finalized[n]].ancestors : A = AuthoritiesAt(h)
    BY <1>2 DEF HandlerInv, FinalizedList
  <2>3. GetEventProofCount(n, e, A) >= Target(Cardinality(A))
    BY <1>2
  <2> HIDE DEF e, A
  <2>4. proofs[n][e] \cap A \in SUBSET Keys
    BY <2>1
  <2>5. ~(GetEventProofCount(n, e, A) < Target(Cardinality(A)))
    BY <2>1, <2>3, <2>4, KeySets, TargetType DEF GetEventProofCount
  <2>6. QuorateIn(signed, e, A)
    BY <2>1, <2>5, CountedQuorate
  <2>7. Quorate(e, AuthoritiesAt(h))
    BY <2>2, <2>6, ZenonT(60) DEF Quorate, QuorateIn, Witnesses
  <2> QED
    BY <1>2, <2>2, <2>7 DEF Backed, e
<1>3. ASSUME task'[n].step = "submit"
      PROVE  Backed(n, task'[n].event)
  <2>1. CASE task'[n] = task[n]
    <3>1. task[n].step = "submit"
      BY <1>3, <2>1, Zenon
    <3>2. Backed(n, task[n].event)
      BY <3>1, Zenon DEF HandlerInv
    <3> QED
      BY <2>1, <3>2, Zenon
  <2>2. CASE /\ task[n].step = "count"
             /\ task'[n].event = task[n].event
             /\ GetEventProofCount(n, task[n].event, task[n].authorities)
                  >= Target(Cardinality(task[n].authorities))
    BY <1>2, <2>2, ZenonT(60)
  <2> QED
    BY <1>3, <2>1, <2>2, TaskStep, ZenonT(60)
<1>4. ASSUME NEW e \in pool'[n]
      PROVE  Backed(n, e)
  BY TaskStep, ZenonT(60) DEF HandlerInv
<1> QED
  BY <1>1, <1>3, <1>4

(* Every step of the gossip task, the client or a restart preserves        *)
(* HandlerInv.                                                             *)
LEMMA HandlerInvStep ==
  ASSUME TypeOK, ChainInv, SignaturesReal, HandlerInv, [Next]_vars
  PROVE  HandlerInv'
<1> SUFFICES ASSUME NEW n \in Nodes
             PROVE  /\ (task[n].step \in {"add", "purge", "count"}
                          => FinalizedList(n, task[n].authorities))'
                    /\ (task[n].step = "submit" => Backed(n, task[n].event))'
                    /\ \A e \in pool'[n] : Backed(n, e)'
  BY DEF HandlerInv
<1>1. ASSUME task'[n].step \in {"add", "purge", "count"}
      PROVE  FinalizedList(n, task[n].authorities)'
  <2>1. FinalizedList(n, task'[n].authorities)
    BY <1>1, HandlerStep
  <2>2. \E h \in blocks'[finalized'[n]].ancestors : task'[n].authorities = blocks'[h].authorities
    BY <2>1, FinalizedListStable
  <2> QED
    BY <2>2 DEF FinalizedList, AuthoritiesAt
<1>2. ASSUME task'[n].step = "submit"
      PROVE  Backed(n, task[n].event)'
  <2>1. Backed(n, task'[n].event)
    BY <1>2, HandlerStep
  <2>2. \E h \in blocks'[finalized'[n]].ancestors :
          QuorateIn(signed', task'[n].event, blocks'[h].authorities)
    BY <2>1, BackedStable
  <2> QED
    BY <2>2, Zenon DEF Backed, Quorate, QuorateIn, Witnesses, AuthoritiesAt
<1>3. ASSUME NEW e \in pool'[n]
      PROVE  Backed(n, e)'
  <2>1. Backed(n, e)
    BY HandlerStep
  <2>2. \E h \in blocks'[finalized'[n]].ancestors :
          QuorateIn(signed', e, blocks'[h].authorities)
    BY <2>1, BackedStable
  <2> QED
    BY <2>2, Zenon DEF Backed, Quorate, QuorateIn, Witnesses, AuthoritiesAt
<1> QED
  BY <1>1, <1>2, <1>3, SMTT(30)

BaseInv == TypeOK /\ ChainInv /\ SignaturesReal /\ HandlerInv

(* The inductive invariant behind the two theorems below.                  *)
LEMMA BaseInvariant == Spec => []BaseInv
<1>1. Init => BaseInv
  <2> SUFFICES ASSUME Init PROVE BaseInv
    OBVIOUS
  <2>1. TypeOK
    BY InitType
  <2>2. ChainInv /\ SignaturesReal
    BY InitChain
  <2>3. HandlerInv
    BY DEF Init, HandlerInv, Idle
  <2> QED
    BY <2>1, <2>2, <2>3 DEF BaseInv
<1>2. BaseInv /\ [Next]_vars => BaseInv'
  <2> SUFFICES ASSUME BaseInv, [Next]_vars PROVE BaseInv'
    OBVIOUS
  <2> QED
    BY TypeStep, ChainStep, SignaturesRealStep, HandlerInvStep DEF BaseInv
<1> QED
  BY <1>1, <1>2, PTL DEF Spec

(* handle_witnessed_event only ever submits events that a quorum of the    *)
(* authorities of a finalized block signed, whatever it read when.         *)
THEOREM SubmissionsAreWitnessed == Spec => []SubmittedEventsWitnessed
<1>1. BaseInv => SubmittedEventsWitnessed
  BY DEF BaseInv, HandlerInv, Backed, SubmittedEventsWitnessed
<1> QED
  BY <1>1, BaseInvariant, PTL

(* The one action that drops a signature, and which it may drop.           *)
LEMMA PurgeStep ==
  ASSUME BaseInv, [Next]_vars, NEW n \in Nodes, NEW e \in Events,
         NEW k \in proofs[n][e], k \notin proofs'[n][e]
  PROVE  \E h \in blocks[finalized[n]].ancestors : k \notin AuthoritiesAt(h)
<1>1. PurgeEventStaleSignatures(n)
  <2>1. ASSUME NEW m \in Nodes, AddEventProof(m) PROVE FALSE
    BY <2>1 DEF AddEventProof, BaseInv, TypeOK
  <2>2. ASSUME NEW m \in Nodes, PurgeEventStaleSignatures(m) PROVE m = n
    BY <2>2 DEF PurgeEventStaleSignatures, BaseInv, TypeOK
  <2>3. proofs' # proofs
    BY SMTT(30)
  <2>4. \E m \in Nodes : GossipTask(m)
    BY <2>3, ZenonT(60) DEF Next, Client, Environment, WitnessEvent, Restart, AuthorBlock,
                ImportBlock, ImportUnchecked, FinalizeBlock, ForeignWitness, ForeignBlock, JustifyBlock, vars
  <2> QED
    BY <2>1, <2>2, <2>3, <2>4, Zenon
    DEF GossipTask, HandleIncomingOrder, HandleIncomingEvent, HandleMisattributedEvent,
        CheckProofCount, SubmitEventExtrinsic
<1>2. k \notin task[n].authorities /\ task[n].step = "purge"
  BY <1>1 DEF PurgeEventStaleSignatures, BaseInv, TypeOK
<1> QED
  BY <1>2 DEF BaseInv, HandlerInv, FinalizedList

(* purge_event_stale_signatures, as handle_witnessed_event calls it, never *)
(* drops a signature of a validator that has been an authority in every    *)
(* block the node has finalized.                                           *)
THEOREM PurgeKeepsStandingAuthorities == Spec => StandingAuthoritiesKept
<1> DEFINE Kept == \A n \in Nodes, e \in Events : \A k \in proofs[n][e] \ proofs'[n][e] :
                     \E h \in blocks[finalized[n]].ancestors : k \notin AuthoritiesAt(h)
<1>1. BaseInv /\ [Next]_vars => [Kept]_vars
  BY PurgeStep
<1> QED
  BY <1>1, BaseInvariant, PTL DEF Spec, StandingAuthoritiesKept
-----------------------------------------------------------------------------
(* The author's own import.                                                *)

(* The authorities are the same in every block.                            *)
NoChange == \A h \in DOMAIN blocks : AuthoritiesAt(h) = GenesisAuthorities

(* Node n holds enough proofs of event e.                                  *)
Enough(n, e) ==
  ~(GetEventProofCount(n, e, GenesisAuthorities) < Target(Cardinality(GenesisAuthorities)))

(* The inductive form of OwnExtrinsicsPassImport: what is being submitted  *)
(* has enough proofs too.                                                  *)
PoolInv ==
  NoChange => \A n \in Nodes :
    /\ task[n].step = "submit" => Enough(n, task[n].event)
    /\ \A e \in pool[n] : Enough(n, e)

(* A step that leaves the authorities alone takes no proof by one of them. *)
LEMMA EnoughStable ==
  ASSUME BaseInv, [Next]_vars, NoChange, NEW n \in Nodes, NEW e \in Events, Enough(n, e)
  PROVE  Enough(n, e)'
<1> DEFINE A == GenesisAuthorities
           X == proofs[n][e] \cap A
           Y == proofs'[n][e] \cap A
<1>1. ASSUME NEW k \in X
      PROVE  k \in Y
  <2> SUFFICES ASSUME k \notin proofs'[n][e] PROVE FALSE
    OBVIOUS
  <2>1. PICK h \in blocks[finalized[n]].ancestors : k \notin AuthoritiesAt(h)
    BY PurgeStep
  <2>2. h \in DOMAIN blocks
    BY SMTT(30) DEF BaseInv, TypeOK, ChainInv
  <2> QED
    BY <2>1, <2>2 DEF NoChange
<1>2. X \in SUBSET Keys /\ Y \in SUBSET Keys /\ X \in SUBSET Y /\ A \in SUBSET Keys
  BY <1>1, ChainAssumption, ZenonT(60)
<1>3. Cardinality(X) <= Cardinality(Y) /\ Cardinality(X) \in Nat /\ Cardinality(Y) \in Nat
  BY <1>2, KeySets, FS_Subset, Zenon
<1>4. Target(Cardinality(A)) \in Nat
  BY <1>2, TargetType
<1> QED
  BY <1>3, <1>4 DEF Enough, GetEventProofCount

(* Every step preserves PoolInv.                                           *)
LEMMA PoolInvStep ==
  ASSUME BaseInv, PoolInv, [Next]_vars
  PROVE  PoolInv'
<1> SUFFICES ASSUME NoChange', NEW n \in Nodes
             PROVE  /\ task'[n].step = "submit" => Enough(n, task[n].event)'
                    /\ \A e \in pool'[n] : Enough(n, e)'
  BY DEF PoolInv
<1>1. NoChange
  <2>1. Grows
    BY StepGrows DEF BaseInv
  <2> QED
    BY <2>1 DEF NoChange, Grows, AuthoritiesAt
<1>2. TypeOK /\ TypeOK'
  BY TypeStep DEF BaseInv
<1>3. ASSUME task'[n].step = "submit"
      PROVE  Enough(n, task[n].event)'
  <2>1. task'[n].event \in Events
    BY <1>2, <1>3, SMTT(30) DEF TypeOK, Handling, Submitting, Idle
  <2>2. Enough(n, task'[n].event)
    <3>1. CASE task'[n] = task[n]
      BY <1>1, <1>3, <3>1, SMTT(30) DEF PoolInv
    <3>2. CASE /\ task[n].step = "count"
               /\ task'[n].event = task[n].event
               /\ GetEventProofCount(n, task[n].event, task[n].authorities)
                    >= Target(Cardinality(task[n].authorities))
      <4> DEFINE A == GenesisAuthorities
      <4>1. task[n].authorities = A
        <5>1. PICK h \in blocks[finalized[n]].ancestors : task[n].authorities = AuthoritiesAt(h)
          BY <3>2, ZenonT(60) DEF BaseInv, HandlerInv, FinalizedList
        <5>2. h \in DOMAIN blocks
          BY SMTT(30) DEF BaseInv, TypeOK, ChainInv
        <5> QED
          BY <1>1, <5>1, <5>2, SMTT(30) DEF NoChange
      <4>2. A \in SUBSET Keys /\ proofs[n][task'[n].event] \cap A \in SUBSET Keys
        BY ChainAssumption
      <4>3. Target(Cardinality(A)) \in Nat
        BY <4>2, TargetType
      <4>4. Cardinality(proofs[n][task'[n].event] \cap A) \in Nat
        BY <4>2, KeySets
      <4> QED
        BY <3>2, <4>1, <4>3, <4>4, SMTT(30) DEF Enough, GetEventProofCount
    <3> QED
      BY <1>2, <1>3, <3>1, <3>2, TaskStep
  <2> QED
    BY <1>1, <2>1, <2>2, EnoughStable, SMTT(30) DEF Enough, GetEventProofCount
<1>4. ASSUME NEW e \in pool'[n]
      PROVE  Enough(n, e)'
  <2>1. e \in Events
    BY <1>2, SMTT(30) DEF TypeOK
  <2>2. e \in pool[n] \/ (task[n].step = "submit" /\ e = task[n].event)
    BY <1>2, TaskStep, ZenonT(60)
  <2>3. Enough(n, e)
    BY <1>1, <2>2 DEF PoolInv
  <2> QED
    BY <1>1, <2>1, <2>3, EnoughStable, SMTT(30)
<1> QED
  BY <1>3, <1>4

(* While the authorities never change, verify_events_validity refuses of   *)
(* the block an author builds only what signed calls alone put there: its  *)
(* own extrinsics pass, whatever was purged, finalized or restarted since  *)
(* they were submitted, and whichever signed calls are in the pool.        *)
THEOREM OwnExtrinsicsPass == Spec => []OwnExtrinsicsPassImport
<1>1. Init => PoolInv
  BY DEF Init, PoolInv, Idle
<1>2. BaseInv /\ PoolInv /\ [Next]_vars => PoolInv'
  BY PoolInvStep
<1>3. BaseInv /\ PoolInv => OwnExtrinsicsPassImport
  <2> SUFFICES ASSUME BaseInv, PoolInv, NoChange, NEW n \in Nodes, NEW calls \in SUBSET Events,
                      NEW e \in VerifyEventsValidity(n, best[n], BlockEvents(n, calls))
               PROVE  e \in calls /\ e \notin pool[n]
    BY Zenon DEF OwnExtrinsicsPassImport, NoChange
  <2>1. AuthoritiesAt(best[n]) = GenesisAuthorities
    BY DEF BaseInv, TypeOK, NoChange
  <2>2. \A d \in pool[n] : Enough(n, d)
    BY DEF PoolInv
  <2>3. e \in BlockEvents(n, calls) /\ ~Enough(n, e)
    BY <2>1, Zenon DEF VerifyEventsValidity, Enough
  <2> QED
    BY <2>2, <2>3, Zenon DEF BlockEvents
<1> QED
  BY <1>1, <1>2, <1>3, BaseInvariant, PTL DEF Spec
=============================================================================
