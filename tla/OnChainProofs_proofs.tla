----------------------- MODULE OnChainProofs_proofs -------------------------
(***************************************************************************)
(* What the pallet's check of the proofs gives, for any keys, events,      *)
(* authority changes and blocks of other validators.  The argument: every  *)
(* signature the node stores, is about to submit or has in its pool was    *)
(* made by its key, and a block of another validator can only carry        *)
(* signatures that were made; the pallet does the rest.                    *)
(***************************************************************************)
EXTENDS OnChainProofs, TLAPS

CallSigned(c) ==
  c.proofs # <<>> => \A k \in DOMAIN c.proofs[1] : c.proofs[1][k] \in signed

SignaturesMade ==
  /\ \A e \in Events : \A k \in stored[e] : [key |-> k, event |-> e] \in signed
  /\ task # Idle => CallSigned(task)
  /\ \A c \in pool : CallSigned(c)

AuthoritiesFixed ==
  \A i \in 1..Len(chain) : chain[i].authorities = GenesisAuthorities

(* The strengthening of PoolPassesValidation: what is being submitted      *)
(* passes too.                                                             *)
CallsPass ==
  AuthoritiesFixed =>
    /\ task # Idle => ValidateEventImpl(GenesisAuthorities, task)
    /\ \A c \in pool : ValidateEventImpl(GenesisAuthorities, c)

IInv ==
  /\ TypeOK
  /\ SignaturesMade
  /\ OnStreamsProved
  /\ CallsPass

-----------------------------------------------------------------------------
(* A call has proofs or none.                                              *)
LEMMA CallFacts ==
  ASSUME NEW c \in Call
  PROVE  /\ c.event \in Events
         /\ c # Idle
         /\ c.proofs # <<>> => c.proofs[1] \in ProofsMap
<1>1. c.event \in Events /\ c.proofs \in {<<>>} \cup {<<m>> : m \in ProofsMap}
  BY DEF Call
<1>2. c # Idle
  BY DEF Call, Idle
<1> QED BY <1>1, <1>2

(* The chain starts with a genesis block without events.                   *)
LEMMA InitInv == Init => IInv
<1> SUFFICES ASSUME Init PROVE IInv OBVIOUS
<1> DEFINE genesis == [ids |-> {}, authorities |-> GenesisAuthorities, onStreams |-> {}]
<1>1. genesis \in Block
  BY OnChainAssumption DEF Block
<1>2. chain = <<genesis>>
  BY DEF Init
<1>3. /\ chain \in Seq(Block) /\ Len(chain) = 1
  BY <1>1, <1>2
<1>4. TypeOK
  BY <1>3 DEF Init, TypeOK
<1>5. SignaturesMade /\ CallsPass
  BY DEF Init, SignaturesMade, CallsPass
<1>6. OnStreamsProved
  BY <1>2 DEF OnStreamsProved
<1> QED BY <1>4, <1>5, <1>6 DEF IInv
(* A step of the node that leaves the chain alone and unmakes no           *)
(* signature.                                                              *)
LEMMA SameChain ==
  ASSUME IInv, chain' = chain, signed \subseteq signed'
  PROVE  OnStreamsProved'
<1> SUFFICES ASSUME NEW i \in 1..Len(chain), NEW s \in chain[i].onStreams
             PROVE  \E j \in 2..i :
                      /\ s.event \in chain[j].ids
                      /\ DOMAIN s.proofs \subseteq chain[j - 1].authorities
                      /\ Cardinality(DOMAIN s.proofs) >= Target(Cardinality(chain[j - 1].authorities))
                      /\ \A k \in DOMAIN s.proofs : [key |-> k, event |-> s.event] \in signed'
  BY DEF OnStreamsProved
<1> QED BY DEF IInv, OnStreamsProved

(* A new signature.                                                        *)
LEMMA WitnessInv ==
  ASSUME IInv, NEW k \in Keys, NEW e \in Events, Witness(k, e)
  PROVE  IInv'
<1> USE DEF IInv
<1>1. /\ signed' = signed \cup {[key |-> k, event |-> e]}
      /\ UNCHANGED <<chain, finalized, stored, task, pool>>
  BY DEF Witness
<1>2. [key |-> k, event |-> e] \in Signature
  BY DEF Signature
<1>3. TypeOK'
  BY <1>1, <1>2 DEF TypeOK
<1>4. SignaturesMade'
  BY <1>1 DEF SignaturesMade, CallSigned
<1>5. CallsPass'
  BY <1>1 DEF CallsPass, AuthoritiesFixed
<1>6. OnStreamsProved'
  BY <1>1, SameChain
<1> QED BY <1>3, <1>4, <1>5, <1>6

(* An authentic message is stored, and may complete the proofs of its      *)
(* event: the call then carries one signature for each of the keys stored. *)
LEMMA HandleInv ==
  ASSUME IInv, NEW k \in Keys, NEW e \in Events, HandleWitnessedEvent(k, e)
  PROVE  IInv'
<1> USE DEF IInv
<1> DEFINE authorities == LatestAuthorities
           keys == (stored[e] \cup {k}) \cap authorities
           proofs == [l \in keys |-> [key |-> l, event |-> e]]
           call == [event |-> e, proofs |-> <<proofs>>]
<1>1. /\ [key |-> k, event |-> e] \in signed
      /\ stored' = [stored EXCEPT ![e] = keys]
      /\ UNCHANGED <<chain, finalized, signed, pool>>
  BY DEF HandleWitnessedEvent
<1>2. \/ task' = Idle
      \/ task' = call /\ Cardinality(keys) >= Target(Cardinality(authorities))
  <2>1. keys \cap authorities = keys
    OBVIOUS
  <2> QED BY <2>1 DEF HandleWitnessedEvent, CreateUnsignedExtrinsic, GetEventProofs
<1>3. keys \subseteq Keys /\ \A l \in keys : [key |-> l, event |-> e] \in signed
  BY <1>1 DEF TypeOK, SignaturesMade
<1>4. DOMAIN proofs = keys /\ \A l \in keys : proofs[l] = [key |-> l, event |-> e]
  OBVIOUS
<1>5. proofs \in ProofsMap
  <2>1. proofs \in [keys -> Signature]
    BY <1>3 DEF Signature
  <2> QED BY <1>3, <2>1 DEF ProofsMap
<1> HIDE DEF proofs
<1>6. call.event = e /\ call.proofs = <<proofs>> /\ call.proofs[1] = proofs /\ call.proofs # <<>>
  OBVIOUS
<1>7. call \in Call
  BY <1>5 DEF Call
<1> HIDE DEF call, keys, authorities
<1>8. TypeOK'
  BY <1>1, <1>2, <1>3, <1>7 DEF TypeOK
<1>9. SignaturesMade'
  <2>1. \A l \in DOMAIN call.proofs[1] : call.proofs[1][l] \in signed'
    BY <1>1, <1>3, <1>4, <1>6
  <2>2. task' # Idle => CallSigned(task)'
    BY <1>2, <2>1 DEF CallSigned
  <2>3. \A f \in Events : \A l \in stored'[f] : [key |-> l, event |-> f] \in signed'
    BY <1>1, <1>3 DEF SignaturesMade, TypeOK
  <2>4. \A c \in pool' : CallSigned(c)'
    BY <1>1 DEF SignaturesMade, CallSigned
  <2> QED BY <2>2, <2>3, <2>4 DEF SignaturesMade
<1>10. CallsPass'
  <2> SUFFICES ASSUME AuthoritiesFixed'
               PROVE  /\ task' # Idle => ValidateEventImpl(GenesisAuthorities, task')
                      /\ \A c \in pool' : ValidateEventImpl(GenesisAuthorities, c)
    BY DEF CallsPass
  <2>1. AuthoritiesFixed
    BY <1>1 DEF AuthoritiesFixed
  <2>2. authorities = GenesisAuthorities
    BY <2>1 DEF AuthoritiesFixed, authorities, LatestAuthorities, TypeOK
  <2>3. task' = call /\ Cardinality(keys) >= Target(Cardinality(authorities))
          => ValidateEventImpl(GenesisAuthorities, call)
    BY <1>4, <1>6, <2>2 DEF ValidateEventImpl, keys
  <2> QED BY <1>1, <1>2, <2>1, <2>3 DEF CallsPass
<1>11. OnStreamsProved'
  BY <1>1, SameChain
<1> QED BY <1>8, <1>9, <1>10, <1>11

(* The call goes to the pool or is dropped.                                *)
LEMMA SubmitInv ==
  ASSUME IInv, SubmitEventExtrinsic
  PROVE  IInv'
<1> USE DEF IInv
<1>1. /\ task # Idle /\ task' = Idle
      /\ pool' \subseteq pool \cup {task}
      /\ UNCHANGED <<chain, finalized, signed, stored>>
  BY DEF SubmitEventExtrinsic
<1>2. TypeOK'
  BY <1>1 DEF TypeOK
<1>3. SignaturesMade'
  BY <1>1 DEF SignaturesMade, CallSigned
<1>4. CallsPass'
  BY <1>1 DEF CallsPass, AuthoritiesFixed
<1>5. OnStreamsProved'
  BY <1>1, SameChain
<1> QED BY <1>2, <1>3, <1>4, <1>5

(* Finality advances.                                                      *)
LEMMA FinalizeInv ==
  ASSUME IInv, FinalizeBlock
  PROVE  IInv'
<1> USE DEF IInv
<1>1. /\ finalized < Len(chain) /\ finalized' = finalized + 1
      /\ UNCHANGED <<chain, signed, stored, task, pool>>
  BY DEF FinalizeBlock
<1>2. TypeOK'
  BY <1>1 DEF TypeOK
<1>3. SignaturesMade' /\ CallsPass'
  BY <1>1 DEF SignaturesMade, CallSigned, CallsPass, AuthoritiesFixed
<1>4. OnStreamsProved'
  BY <1>1, SameChain
<1> QED BY <1>2, <1>3, <1>4
(* A block goes on top of the chain: what it adds to OnStreams has just    *)
(* been checked against the authorities of the block before it.            *)
LEMMA ExecuteInv ==
  ASSUME IInv, NEW calls \in SUBSET Call, NEW authorities \in SUBSET Keys,
         \A c \in calls : CallSigned(c),
         ExecuteBlock(calls, authorities),
         UNCHANGED <<finalized, signed, stored, task>>
  PROVE  IInv'
<1> USE DEF IInv
<1> DEFINE n == Len(chain)
           valid == {c \in calls : /\ ~ IsEventValid(BestBlock.onStreams, c.event)
                                   /\ ValidateEventImpl(BestBlock.authorities, c)}
           added == {[event |-> c.event, proofs |-> c.proofs[1]] : c \in valid}
           block == [ids         |-> {c.event : c \in calls},
                     authorities |-> authorities,
                     onStreams   |-> BestBlock.onStreams \cup added]
<1>1. chain' = Append(chain, block) /\ pool' \subseteq pool
  BY DEF ExecuteBlock
<1>2. /\ n \in Nat /\ n > 0 /\ BestBlock = chain[n] /\ BestBlock \in Block
  BY DEF TypeOK, BestBlock
<1>3. \A c \in valid : /\ c \in Call /\ c.event \in Events /\ c.proofs # <<>>
                       /\ c.proofs[1] \in ProofsMap
  BY CallFacts DEF ValidateEventImpl
<1>4. added \subseteq [event : Events, proofs : ProofsMap]
  BY <1>3
<1>5. block \in Block
  <2>1. {c.event : c \in calls} \subseteq Events
    BY CallFacts
  <2>2. BestBlock.onStreams \subseteq [event : Events, proofs : ProofsMap]
    BY <1>2 DEF Block
  <2> HIDE DEF added
  <2> QED BY <1>4, <2>1, <2>2 DEF Block
<1>6. /\ block.ids = {c.event : c \in calls}
      /\ block.onStreams = chain[n].onStreams \cup added
  BY <1>2
<1> HIDE DEF block
<1>7. /\ chain' \in Seq(Block) /\ Len(chain') = n + 1
      /\ \A i \in 1..n : chain'[i] = chain[i]
      /\ chain'[n + 1] = block
  BY <1>1, <1>2, <1>5 DEF TypeOK
<1> HIDE DEF n
<1>8. TypeOK'
  BY <1>1, <1>2, <1>7 DEF TypeOK, n
<1>9. SignaturesMade'
  BY <1>1 DEF SignaturesMade, CallSigned
<1>10. CallsPass'
  <2>1. AuthoritiesFixed' => AuthoritiesFixed
    BY <1>2, <1>7 DEF AuthoritiesFixed, n
  <2> QED BY <1>1, <2>1 DEF CallsPass
<1>11. ASSUME NEW s \in added
       PROVE  /\ s.event \in block.ids
              /\ DOMAIN s.proofs \subseteq chain[n].authorities
              /\ Cardinality(DOMAIN s.proofs) >= Target(Cardinality(chain[n].authorities))
              /\ \A k \in DOMAIN s.proofs : [key |-> k, event |-> s.event] \in signed
  <2>1. PICK c \in valid : s = [event |-> c.event, proofs |-> c.proofs[1]]
    BY <1>11
  <2>2. s.event = c.event /\ s.proofs = c.proofs[1]
    BY <2>1
  <2>3. /\ c.proofs # <<>>
        /\ DOMAIN c.proofs[1] \subseteq chain[n].authorities
        /\ \A k \in DOMAIN c.proofs[1] : c.proofs[1][k] = [key |-> k, event |-> c.event]
        /\ Cardinality(DOMAIN c.proofs[1]) >= Target(Cardinality(chain[n].authorities))
    BY <1>2 DEF ValidateEventImpl
  <2>4. \A k \in DOMAIN c.proofs[1] : [key |-> k, event |-> c.event] \in signed
    BY <2>3 DEF CallSigned
  <2>5. c.event \in block.ids
    BY <1>6
  <2> QED BY <2>2, <2>3, <2>4, <2>5
<1>12. OnStreamsProved'
  <2> SUFFICES ASSUME NEW i \in 1..(n + 1), NEW s \in chain'[i].onStreams
               PROVE  \E j \in 2..i :
                        /\ s.event \in chain'[j].ids
                        /\ DOMAIN s.proofs \subseteq chain'[j - 1].authorities
                        /\ Cardinality(DOMAIN s.proofs)
                             >= Target(Cardinality(chain'[j - 1].authorities))
                        /\ \A k \in DOMAIN s.proofs : [key |-> k, event |-> s.event] \in signed
    BY <1>7 DEF OnStreamsProved
  <2>1. CASE i = n + 1 /\ s \in added
    <3>1. chain'[i] = block /\ chain'[i - 1] = chain[n] /\ i \in 2..i
      BY <1>2, <1>7, <2>1
    <3> QED BY <1>11, <2>1, <3>1
  <2>2. CASE \E l \in 1..n : l <= i /\ s \in chain[l].onStreams
    <3>1. PICK l \in 1..n : l <= i /\ s \in chain[l].onStreams
      BY <2>2
    <3>2. PICK j \in 2..l :
             /\ s.event \in chain[j].ids
             /\ DOMAIN s.proofs \subseteq chain[j - 1].authorities
             /\ Cardinality(DOMAIN s.proofs) >= Target(Cardinality(chain[j - 1].authorities))
             /\ \A k \in DOMAIN s.proofs : [key |-> k, event |-> s.event] \in signed
      BY <3>1 DEF OnStreamsProved, n
    <3>3. j \in 2..i /\ chain'[j] = chain[j] /\ chain'[j - 1] = chain[j - 1]
      BY <1>2, <1>7, <3>1
    <3> QED BY <3>2, <3>3
  <2>3. \/ i = n + 1 /\ s \in added
        \/ \E l \in 1..n : l <= i /\ s \in chain[l].onStreams
    <3>1. CASE i \in 1..n
      BY <1>2, <1>7, <3>1
    <3>2. CASE i = n + 1
      BY <1>2, <1>6, <1>7, <3>2
    <3> QED BY <1>2, <3>1, <3>2
  <2> QED BY <2>1, <2>2, <2>3
<1> QED BY <1>8, <1>9, <1>10, <1>12

(* Every step keeps the invariant.                                         *)
LEMMA NextInv == IInv /\ [Next]_vars => IInv'
<1> SUFFICES ASSUME IInv, [Next]_vars PROVE IInv' OBVIOUS
<1>1. ASSUME NEW a \in SUBSET Keys, AuthorBlock(a) PROVE IInv'
  BY <1>1, ExecuteInv DEF AuthorBlock, IInv, TypeOK, SignaturesMade
<1>2. ASSUME NEW c \in Call, ImportBlock(c) PROVE IInv'
  <2>1. BestBlock.authorities \in SUBSET Keys
    <3>1. BestBlock \in Block
      BY DEF IInv, TypeOK, BestBlock
    <3> QED BY <3>1 DEF Block
  <2>2. \A d \in {c} : CallSigned(d)
    BY <1>2 DEF ImportBlock, CallSigned
  <2> QED BY <1>2, <2>1, <2>2, ExecuteInv DEF ImportBlock
<1>3. CASE UNCHANGED vars
  <2>1. TypeOK' /\ SignaturesMade' /\ CallsPass'
    BY <1>3 DEF vars, IInv, TypeOK, SignaturesMade, CallSigned, CallsPass, AuthoritiesFixed
  <2>2. OnStreamsProved'
    BY <1>3, SameChain DEF vars
  <2> QED BY <2>1, <2>2 DEF IInv
<1> QED BY <1>1, <1>2, <1>3, WitnessInv, HandleInv, SubmitInv, FinalizeInv DEF Next

(* The chain, the signatures, the store and the pool are what their names  *)
(* say; finality never runs ahead of the best block.                       *)
THEOREM TypeCorrect == Spec => []TypeOK
<1>1. IInv => TypeOK BY DEF IInv
<1> QED BY InitInv, NextInv, <1>1, PTL DEF Spec

(* Whoever authored its block, an event in OnStreams was signed by as many *)
(* authorities as the pallet's target asks for (validate_event_impl).      *)
THEOREM OnStreamsAlwaysProved == Spec => []OnStreamsProved
<1>1. IInv => OnStreamsProved BY DEF IInv
<1> QED BY InitInv, NextInv, <1>1, PTL DEF Spec

(* While the authorities never change, the pallet accepts every call the   *)
(* node's handler has put into the pool (handle_witnessed_event and        *)
(* validate_event_impl agree on the target).                               *)
THEOREM PoolAlwaysPasses == Spec => []PoolPassesValidation
<1>1. IInv => PoolPassesValidation
  <2> SUFFICES ASSUME IInv, AuthoritiesFixed
               PROVE  \A c \in pool : ValidateEventImpl(BestBlock.authorities, c)
    BY DEF PoolPassesValidation, AuthoritiesFixed
  <2>1. BestBlock.authorities = GenesisAuthorities
    BY DEF IInv, TypeOK, AuthoritiesFixed, BestBlock
  <2> QED BY <2>1 DEF IInv, CallsPass
<1> QED BY InitInv, NextInv, <1>1, PTL DEF Spec
=============================================================================
