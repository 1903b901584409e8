---------------------------- MODULE Authorities ----------------------------
(***************************************************************************)
(* The authorities of a block as the witnessing code sees them: who may    *)
(* sign, what a valid WitnessedEvent is, and how many signatures make an   *)
(* event witnessed (consensus/src/events/mod.rs).                          *)
(*                                                                         *)
(* Authority lists are sets here: Aura's list holds every key once, and    *)
(* the code only asks for membership and length.                           *)
(***************************************************************************)
EXTENDS Naturals, FiniteSets

CONSTANTS
  Keys,     \* sr25519 public keys that can be authorities
  Events    \* event ids (H256)

-----------------------------------------------------------------------------
(* A signature is what it proves: which key signed which event id.  Nobody *)
(* can make one without the key, so a signature over something else, or    *)
(* made by another key, is just a different element of this set.           *)
Signature == [key : Keys, event : Events]

(* proofs/mod.rs: what is gossiped and stored for one validator.           *)
WitnessedEvent == [pub_key : Keys, event_id : Events, signature : Signature]

(* A signer that puts its public key where the signature belongs.          *)
MutantKeyForSignature(k, e) == [pub_key   |-> k,
                                event_id  |-> e,
                                signature |-> k]

(* What a correct signer publishes for event e.                            *)
SignedBy(k, e) == [pub_key   |-> k,
                   event_id  |-> e,
                   signature |-> [key |-> k, event |-> e]]

(* A check that trusts the pub_key field without verifying the signature.  *)
MutantUnverifiedOrigin(authorities, we) == we.pub_key \in authorities

(* AuthoritiesList::verify_witnessed_event_origin                          *)
VerifyWitnessedEventOrigin(authorities, we) ==
  /\ we.pub_key \in authorities
  /\ we.signature = [key |-> we.pub_key, event |-> we.event_id]

-----------------------------------------------------------------------------
(* The number of authorities that have to witness an event.                *)
U16 == 65536

(* Two thirds, rounded down.                                               *)
MutantTwoThirds(total) == ((total * 2) \div 3) % U16

(* AuthoritiesList::target, with its truncating `as u16` cast.             *)
Target(total) == ((total * 2) \div 3 + 1) % U16

(* The number of Byzantine authorities the comment on `target` allows for. *)
MaxByzantine(total) == total \div 3
=============================================================================
