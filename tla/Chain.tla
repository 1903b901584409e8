------------------------------- MODULE Chain -------------------------------
(***************************************************************************)
(* What the validated-streams code uses of a Substrate node: the tree of   *)
(* blocks, the blocks a node has imported, its best and its finalized      *)
(* block, and GRANDPA's finality.  None of it is code of this repository,  *)
(* except the part of a block the runtime defines (its events, the         *)
(* authorities after it, the pallet's storage after it).                   *)
(***************************************************************************)
EXTENDS Authorities

CONSTANTS
  Nodes,               \* the nodes that run this code
  Keystore,            \* Keystore[n]: the AURA keys node n holds
  Hashes,              \* block hashes
  Genesis,             \* the genesis hash
  GenesisAuthorities,  \* Aura's authorities in the chain specification
  AuthoritySets        \* the sets a block may replace the authorities with

ASSUME ChainAssumption ==
  /\ Keystore \in [Nodes -> SUBSET Keys]
  /\ Genesis \in Hashes
  /\ IsFiniteSet(Keys)
  /\ Cardinality(Keys) < U16
  /\ GenesisAuthorities \subseteq Keys
  /\ AuthoritySets \subseteq SUBSET Keys

VARIABLES
  blocks,      \* the blocks that exist, by hash
  imported,    \* imported[n]: hashes in node n's database
  best,        \* best[n]: client.info().best_hash
  finalized,   \* finalized[n]: client.info().finalized_hash
  justified    \* the last block GRANDPA has finalized anywhere

chainVars == <<blocks, imported, best, finalized, justified>>

(* ancestors includes the block itself; authorities and streams are the    *)
(* runtime's state after the block (Aura's authorities, and the keys of    *)
(* the pallet's Streams map).                                              *)
Block == [parent      : Hashes,
          number      : Nat,
          ancestors   : SUBSET Hashes,
          events      : SUBSET Events,
          authorities : SUBSET Keys,
          streams     : SUBSET Events]

GenesisBlock == [parent      |-> Genesis,
                 number      |-> 0,
                 ancestors   |-> {Genesis},
                 events      |-> {},
                 authorities |-> GenesisAuthorities,
                 streams     |-> {}]

ChainInit ==
  /\ blocks = [h \in {Genesis} |-> GenesisBlock]
  /\ imported = [n \in Nodes |-> {Genesis}]
  /\ best = [n \in Nodes |-> Genesis]
  /\ finalized = [n \in Nodes |-> Genesis]
  /\ justified = Genesis

-----------------------------------------------------------------------------
(* get_authorities_list: the Aura authorities in the state of block h.  A  *)
(* block's state never changes, so the LRU cache in front of the runtime   *)
(* call is invisible here.                                                 *)
AuthoritiesAt(h) == blocks[h].authorities

(* The authorities of the best block, which may still be reverted.         *)
MutantBestAuthorities(n) == AuthoritiesAt(best[n])

(* get_latest_authorities_list                                             *)
LatestAuthorities(n) == AuthoritiesAt(finalized[n])

(* A block h on parent p whose body has validate_event calls, signed or    *)
(* unsigned, for the events evs: the ids get_extrinsic_ids returns.  With  *)
(* off-chain proofs a call inserts its id into Streams whatever its        *)
(* origin; one for an id that is there fails with AlreadyValidated, and a  *)
(* signed one stays in the body all the same.                              *)
ValidateEvents(h, p, evs, authorities) ==
  [parent      |-> p,
   number      |-> blocks[p].number + 1,
   ancestors   |-> blocks[p].ancestors \cup {h},
   events      |-> evs,
   authorities |-> authorities,
   streams     |-> blocks[p].streams \cup evs]

(* The bodies and the authority lists a valid block on p can have.  Any    *)
(* events can be in a body: only an unsigned call for an id that is in     *)
(* Streams makes a block invalid (validate_unsigned), a signed one does    *)
(* not.  A block that has no event and changes no authority is left out:   *)
(* it alters nothing the code looks at.                                    *)
ValidBody(p, evs, authorities) ==
  /\ authorities \in AuthoritySets \cup {AuthoritiesAt(p)}
  /\ evs # {} \/ authorities # AuthoritiesAt(p)

AddBlock(h, block) ==
  blocks' = [x \in DOMAIN blocks \cup {h} |-> IF x = h THEN block ELSE blocks[x]]

(* The client takes a block whose parent it has, on top of what it has     *)
(* finalized.                                                              *)
Importable(n, h, p) ==
  /\ h \notin imported[n]
  /\ p \in imported[n]
  /\ finalized[n] \in blocks[p].ancestors

(* The longest-chain rule: block h, with the given number, becomes best if *)
(* it is longer than the chain the node follows.                           *)
BestAfterImport(n, h, number) ==
  IF number > blocks[best[n]].number THEN h ELSE best[n]

-----------------------------------------------------------------------------
HeldKeys == UNION {Keystore[n] : n \in Nodes}

(* The authorities that can have voted for h: those whose node follows a   *)
(* chain with h in it, and those that are not modelled.                    *)
Supporters(h, voters) ==
  {k \in voters : \/ k \notin HeldKeys
                  \/ \E n \in Nodes : k \in Keystore[n] /\ h \in blocks[best[n]].ancestors}

(* GRANDPA finalizes one chain, each block with more than two thirds of    *)
(* the voters.                                                             *)
CanJustify(h) ==
  LET voters == AuthoritiesAt(justified)
  IN  /\ h # justified
      /\ justified \in blocks[h].ancestors
      /\ Cardinality(Supporters(h, voters)) * 3 > Cardinality(voters) * 2

(* What node n may finalize: a block it has that GRANDPA has finalized.    *)
CanFinalize(n, h) ==
  /\ h \in imported[n]
  /\ h # finalized[n]
  /\ finalized[n] \in blocks[h].ancestors
  /\ h \in blocks[justified].ancestors

(* Finalizing a block off the best chain moves the node to the longest     *)
(* chain that contains the block.                                          *)
BestAfterFinality(n, h) ==
  LET descendants == {d \in imported[n] : h \in blocks[d].ancestors}
  IN  IF best[n] \in descendants
      THEN {best[n]}
      ELSE {d \in descendants : \A c \in descendants : blocks[c].number <= blocks[d].number}
=============================================================================
