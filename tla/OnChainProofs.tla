--------------------------- MODULE OnChainProofs ---------------------------
(***************************************************************************)
(* A node built without the feature off-chain-proofs: validate_event       *)
(* carries the proofs and the pallet checks them when the block is         *)
(* executed (pallet/src/lib.rs), in place of the check on block import.    *)
(* One node that collects proofs and authors blocks, on a chain without    *)
(* forks, whose blocks it may also get from other validators; finality and *)
(* the handler's view of the authorities lag behind the best block.        *)
(***************************************************************************)
EXTENDS Authorities, Sequences

CONSTANTS
  GenesisAuthorities,
  AuthoritySets,     \* the sets a block may replace the authorities with
  OthersAuthor,      \* whether other validators author blocks
  MaxBlocks          \* bound on the length of the chain

ASSUME OnChainAssumption ==
  /\ IsFiniteSet(Keys)
  /\ Cardinality(Keys) < U16
  /\ GenesisAuthorities \subseteq Keys
  /\ AuthoritySets \subseteq SUBSET Keys
  /\ OthersAuthor \in BOOLEAN
  /\ MaxBlocks \in Nat

VARIABLES
  chain,      \* the blocks up to the best one, the genesis block first
  finalized,  \* the number of finalized blocks
  signed,     \* every signature ever made
  stored,     \* stored[e]: the keys with a proof of e in the node's store
  task,       \* the extrinsic being submitted
  pool        \* the validate_event calls in the transaction pool

vars == <<chain, finalized, signed, stored, task, pool>>

Idle == [event |-> "none"]

(* ProofsMap: a signature for each of a set of keys.                       *)
ProofsMap == UNION {[K -> Signature] : K \in SUBSET Keys}

(* A validate_event call; <<>> stands for None.                            *)
Call == [event : Events, proofs : {<<>>} \cup {<<m>> : m \in ProofsMap}]

(* ids are the events of the validate_event calls in the body; authorities *)
(* and onStreams are the runtime's state after the block.                  *)
Block == [ids : SUBSET Events, authorities : SUBSET Keys,
          onStreams : SUBSET [event : Events, proofs : ProofsMap]]

BestBlock == chain[Len(chain)]

Init ==
  /\ chain = <<[ids |-> {}, authorities |-> GenesisAuthorities, onStreams |-> {}]>>
  /\ finalized = 1
  /\ signed = {}
  /\ stored = [e \in Events |-> {}]
  /\ task = Idle
  /\ pool = {}

-----------------------------------------------------------------------------
(* The pallet.                                                             *)

IsEventValid(onStreams, e) == \E s \in onStreams : s.event = e

(* A pallet that does not look at whose the proofs are.                    *)
MutantValidateEventImpl(authorities, c) ==
  /\ c.proofs # <<>>
  /\ LET proofs == c.proofs[1]
     IN  /\ \A k \in DOMAIN proofs : proofs[k] = [key |-> k, event |-> c.event]
         /\ Cardinality(DOMAIN proofs) >= Target(Cardinality(authorities))

(* A target check that is off by one.                                      *)
MutantOneProofMore(authorities, c) ==
  /\ c.proofs # <<>>
  /\ LET proofs == c.proofs[1]
     IN  /\ DOMAIN proofs \subseteq authorities
         /\ \A k \in DOMAIN proofs : proofs[k] = [key |-> k, event |-> c.event]
         /\ Cardinality(DOMAIN proofs) > Target(Cardinality(authorities))

(* Whether validate_event_impl succeeds on an event that is not in         *)
(* OnStreams: NoProofs, UnrecognizedAuthority, InvalidProof and            *)
(* NotEnoughProofs are its errors otherwise.                               *)
ValidateEventImpl(authorities, c) ==
  /\ c.proofs # <<>>
  /\ LET proofs == c.proofs[1]
     IN  /\ DOMAIN proofs \subseteq authorities
         /\ \A k \in DOMAIN proofs : proofs[k] = [key |-> k, event |-> c.event]
         /\ Cardinality(DOMAIN proofs) >= Target(Cardinality(authorities))

(* A block with the given calls, no two for one event, executed on the     *)
(* best block.  A call that fails stays in the body.  So does one for an   *)
(* event that is in OnStreams (AlreadyValidated) if it is signed, as       *)
(* validate_event takes any origin; an unsigned one would make the block   *)
(* invalid (validate_unsigned), and the pool has none.                     *)
ExecuteBlock(calls, authorities) ==
  /\ Len(chain) < MaxBlocks
  /\ \A c, d \in calls : c.event = d.event => c = d
  /\ authorities \in AuthoritySets \cup {BestBlock.authorities}
  /\ LET valid == {c \in calls : /\ ~ IsEventValid(BestBlock.onStreams, c.event)
                                 /\ ValidateEventImpl(BestBlock.authorities, c)}
         block == [ids         |-> {c.event : c \in calls},
                   authorities |-> authorities,
                   onStreams   |-> BestBlock.onStreams
                     \cup {[event |-> c.event, proofs |-> c.proofs[1]] : c \in valid}]
     IN  /\ chain' = Append(chain, block)
         /\ pool' = {c \in pool : /\ c \notin calls
                                  /\ ~ IsEventValid(block.onStreams, c.event)}

-----------------------------------------------------------------------------
(* The node.                                                               *)

LatestAuthorities == chain[finalized].authorities

(* A validator that is an authority signs e, and its message reaches the   *)
(* node sooner or later.                                                   *)
Witness(k, e) ==
  /\ k \in BestBlock.authorities
  /\ signed' = signed \cup {[key |-> k, event |-> e]}
  /\ UNCHANGED <<chain, finalized, stored, task, pool>>

GetEventProofs(keys, validators, e) ==
  [k \in keys \cap validators |-> [key |-> k, event |-> e]]

(* create_unsigned_extrinsic.  The map always fits ProofsMap: its keys are *)
(* authorities, of which there are no more than VSMaxAuthorities.          *)
CreateUnsignedExtrinsic(e, proofs) == [event |-> e, proofs |-> <<proofs>>]

(* handle_witnessed_event for an authentic message by k, up to the         *)
(* extrinsic it will submit.                                               *)
HandleWitnessedEvent(k, e) ==
  LET authorities == LatestAuthorities
      keys == (stored[e] \cup {k}) \cap authorities
  IN  /\ task = Idle
      /\ [key |-> k, event |-> e] \in signed
      /\ k \in authorities
      /\ stored' = [stored EXCEPT ![e] = keys]
      /\ task' = IF Cardinality(keys) >= Target(Cardinality(authorities))
                   THEN CreateUnsignedExtrinsic(e, GetEventProofs(keys, authorities, e))
                   ELSE Idle
      /\ UNCHANGED <<chain, finalized, signed, pool>>

(* submit_local: Stale and AlreadyImported are taken for success.  While a *)
(* call for the event is in the pool another one is refused, because it    *)
(* provides the same tag.                                                  *)
SubmitEventExtrinsic ==
  /\ task # Idle
  /\ pool' = IF \/ IsEventValid(BestBlock.onStreams, task.event)
                \/ \E c \in pool : c.event = task.event
               THEN pool
               ELSE pool \cup {task}
  /\ task' = Idle
  /\ UNCHANGED <<chain, finalized, signed, stored>>

(* Aura: a block of everything in the pool.                                *)
AuthorBlock(authorities) ==
  /\ pool # {} \/ authorities # BestBlock.authorities
  /\ ExecuteBlock(pool, authorities)
  /\ UNCHANGED <<finalized, signed, stored, task>>

(* A block of another validator, with a call, signed or unsigned, that may *)
(* carry any signatures made so far, or none.                              *)
ImportBlock(c) ==
  /\ OthersAuthor
  /\ c.proofs # <<>> => \A k \in DOMAIN c.proofs[1] : c.proofs[1][k] \in signed
  /\ ExecuteBlock({c}, BestBlock.authorities)
  /\ UNCHANGED <<finalized, signed, stored, task>>

FinalizeBlock ==
  /\ finalized < Len(chain)
  /\ finalized' = finalized + 1
  /\ UNCHANGED <<chain, signed, stored, task, pool>>

-----------------------------------------------------------------------------
Next ==
  \/ \E k \in Keys, e \in Events : Witness(k, e) \/ HandleWitnessedEvent(k, e)
  \/ SubmitEventExtrinsic
  \/ \E a \in SUBSET Keys : AuthorBlock(a)
  \/ \E c \in Call : ImportBlock(c)
  \/ FinalizeBlock

Spec == Init /\ [][Next]_vars

-----------------------------------------------------------------------------
TypeOK ==
  /\ chain \in Seq(Block) /\ Len(chain) > 0
  /\ finalized \in 1..Len(chain)
  /\ signed \subseteq Signature
  /\ stored \in [Events -> SUBSET Keys]
  /\ task \in Call \cup {Idle}
  /\ pool \subseteq Call

(* Whoever authored the block: an event in OnStreams was really signed by  *)
(* `target` of the authorities under which its block was executed, and the *)
(* proofs kept on chain are theirs (pallet, validate_event_impl).          *)
OnStreamsProved ==
  \A i \in 1..Len(chain) : \A s \in chain[i].onStreams :
    \E j \in 2..i :
      /\ s.event \in chain[j].ids
      /\ DOMAIN s.proofs \subseteq chain[j - 1].authorities
      /\ Cardinality(DOMAIN s.proofs) >= Target(Cardinality(chain[j - 1].authorities))
      /\ \A k \in DOMAIN s.proofs : [key |-> k, event |-> s.event] \in signed

(* While the authorities never change, the pallet accepts every call in    *)
(* the node's pool: the handler's target check and the pallet's agree,     *)
(* however late the call is included (events/gossip.rs, pallet).           *)
PoolPassesValidation ==
  (\A i \in 1..Len(chain) : chain[i].authorities = GenesisAuthorities)
    => \A c \in pool : ValidateEventImpl(BestBlock.authorities, c)
=============================================================================
