---------------------------- MODULE EventProofs ----------------------------
(***************************************************************************)
(* What EventProofsTrait promises its one writer, the gossip task: which   *)
(* keys have a proof stored for an event before, during and after a call   *)
(* (consensus/src/proofs/mod.rs).  A call takes effect between its start   *)
(* and its return; a purge may take effect key by key.                     *)
(***************************************************************************)
CONSTANTS Keys, Events

VARIABLES
  store,   \* store[e]: the keys with a proof of e
  call     \* the call in progress

NoCall == [op |-> "none"]
Adding == [op : {"add"}, event : Events, key : Keys]
Purging == [op : {"purge"}, event : Events, validators : SUBSET Keys]

Init ==
  /\ store = [e \in Events |-> {}]
  /\ call = NoCall

Begin(c) ==
  /\ call = NoCall
  /\ call' = c
  /\ UNCHANGED store

AddProof ==
  /\ call.op = "add"
  /\ store' = [store EXCEPT ![call.event] = @ \cup {call.key}]
  /\ UNCHANGED call

(* Only proofs of the given event, by keys that are not in the given list. *)
DropStale(S) ==
  /\ call.op = "purge"
  /\ S \cap call.validators = {}
  /\ store' = [store EXCEPT ![call.event] = @ \ S]
  /\ UNCHANGED call

(* When the call returns its effect is complete.                           *)
Return ==
  /\ \/ call.op = "add" /\ call.key \in store[call.event]
     \/ call.op = "purge" /\ store[call.event] \subseteq call.validators
  /\ call' = NoCall
  /\ UNCHANGED store

Next ==
  \/ \E c \in Adding \cup Purging : Begin(c)
  \/ AddProof
  \/ \E S \in SUBSET Keys : DropStale(S)
  \/ Return

Spec == Init /\ [][Next]_<<store, call>>
=============================================================================
