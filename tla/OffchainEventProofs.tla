------------------------ MODULE OffchainEventProofs ------------------------
(***************************************************************************)
(* OffchainStorageEventProofs (consensus/src/proofs/offchain.rs), one      *)
(* action per access to the offchain storage.  Two kinds of entries are    *)
(* kept in step without transactions: a signature per event and key, and   *)
(* per event the list of signers, which is the only way for a purge to     *)
(* find the signatures.                                                    *)
(*                                                                         *)
(* The node has one writer, the gossip task: handle_witnessed_event adds a *)
(* proof by one of the authorities and then purges the same event with     *)
(* those authorities.  Block import counts proofs at any moment.           *)
(***************************************************************************)
EXTENDS Naturals, Sequences, FiniteSets

CONSTANTS
  Keys,
  Events,
  MaxSigners    \* bound on the length of a signer list

ASSUME StoreAssumption ==
  /\ IsFiniteSet(Keys)
  /\ MaxSigners \in Nat

VARIABLES
  sig,       \* sig[e]: the keys with a signature entry under event e
  signers,   \* signers[e]: the stored signer list; an absent one reads as empty
  message,   \* the message handled: its event and key, and the authorities
  call,      \* the call the handler makes on the store
  pc,        \* what the writer does next
  seen,      \* existing_bytes: the list as it was loaded
  todo,      \* what `retain` has yet to look at
  kept,      \* signers_list: what will be stored
  reader     \* the count in progress

writerVars == <<message, call, pc, seen, todo, kept>>
vars == <<sig, signers, writerVars, reader>>

Store == INSTANCE EventProofs WITH store <- sig

Message == [event : Events, key : Keys, authorities : SUBSET Keys]

NoReader == [step |-> "idle"]

(* asked is the argument, left what has yet to be looked up; before and    *)
(* disturbed only serve to state a property: how many proofs there were    *)
(* when the call started, and whether a purge took one of them since.      *)
Reader == [step      : {"count"},
           event     : Events,
           asked     : SUBSET Keys,
           left      : SUBSET Keys,
           count     : Nat,
           before    : Nat,
           disturbed : BOOLEAN]

TypeOK ==
  /\ sig \in [Events -> SUBSET Keys]
  /\ signers \in [Events -> Seq(Keys)]
  /\ call \in Store!Adding \cup Store!Purging \cup {Store!NoCall}
  /\ message \in {<<>>} \cup {<<m>> : m \in Message}
  /\ pc \in {"idle", "set", "load", "retain", "done", "added"}
  /\ {seen, todo, kept} \subseteq Seq(Keys)
  /\ reader \in Reader \cup {NoReader}

Init ==
  /\ sig = [e \in Events |-> {}]
  /\ signers = [e \in Events |-> <<>>]
  /\ message = <<>>
  /\ call = Store!NoCall
  /\ pc = "idle"
  /\ seen = <<>> /\ todo = <<>> /\ kept = <<>>
  /\ reader = NoReader

-----------------------------------------------------------------------------
(* add_event_proof                                                         *)

CallAdd(e, k, authorities) ==
  /\ pc = "idle"
  /\ k \in authorities
  /\ Len(signers[e]) < MaxSigners
  /\ message' = <<[event |-> e, key |-> k, authorities |-> authorities]>>
  /\ call' = [op |-> "add", event |-> e, key |-> k]
  /\ pc' = "set"
  /\ UNCHANGED <<sig, signers, seen, todo, kept, reader>>

SetSignature ==
  /\ pc = "set"
  /\ sig' = [sig EXCEPT ![call.event] = @ \cup {call.key}]
  /\ pc' = "load"
  /\ UNCHANGED <<signers, message, call, seen, todo, kept, reader>>

-----------------------------------------------------------------------------
(* purge_event_stale_signatures                                            *)

CallPurge ==
  /\ pc = "added"
  /\ call' = [op |-> "purge",
              event |-> message[1].event,
              validators |-> message[1].authorities]
  /\ pc' = "load"
  /\ UNCHANGED <<sig, signers, message, seen, todo, kept, reader>>

(* A purge that removes every signature it finds listed.                   *)
MutantRetainNone ==
  /\ pc = "retain"
  /\ todo # <<>>
  /\ todo' = Tail(todo)
  /\ sig' = [sig EXCEPT ![call.event] = @ \ {Head(todo)}]
  /\ UNCHANGED <<signers, message, call, pc, seen, kept, reader>>

(* The closure of `retain`, for one signer.                                *)
RetainSigner ==
  LET k == Head(todo)
  IN  /\ pc = "retain"
      /\ todo # <<>>
      /\ todo' = Tail(todo)
      /\ \/ /\ k \in call.validators
            /\ kept' = Append(kept, k)
            /\ UNCHANGED <<sig, reader>>
         \/ /\ k \notin call.validators
            /\ sig' = [sig EXCEPT ![call.event] = @ \ {k}]
            /\ reader' =
                 IF /\ reader.step = "count"
                    /\ reader.event = call.event
                    /\ k \in sig[call.event] \cap reader.asked
                 THEN [reader EXCEPT !.disturbed = TRUE]
                 ELSE reader
            /\ UNCHANGED kept
      /\ UNCHANGED <<signers, message, call, pc, seen>>

-----------------------------------------------------------------------------
(* The compare-and-set loop both of them end with.                         *)

(* A loop that forgets to add the new signer to the list.                  *)
MutantSignerNotListed ==
  /\ pc = "load"
  /\ seen' = signers[call.event]
  /\ todo' = IF call.op = "add" THEN <<>> ELSE seen'
  /\ kept' = IF call.op = "add" THEN seen' ELSE <<>>
  /\ pc' = "retain"
  /\ UNCHANGED <<sig, signers, message, call, reader>>

LoadSigners ==
  /\ pc = "load"
  /\ seen' = signers[call.event]
  /\ todo' = IF call.op = "add" THEN <<>> ELSE seen'
  /\ kept' = IF call.op = "add" THEN Append(seen', call.key) ELSE <<>>
  /\ pc' = "retain"
  /\ UNCHANGED <<sig, signers, message, call, reader>>

(* A loop that expects the entry to be absent.                             *)
MutantExpectAbsent ==
  /\ pc = "retain"
  /\ todo = <<>>
  /\ \/ /\ signers[call.event] = <<>>
        /\ signers' = [signers EXCEPT ![call.event] = kept]
        /\ pc' = "done"
     \/ /\ signers[call.event] # <<>>
        /\ pc' = "load"
        /\ UNCHANGED signers
  /\ UNCHANGED <<sig, message, call, seen, todo, kept, reader>>

(* With one writer the comparison succeeds at the first attempt.           *)
CompareAndSet ==
  /\ pc = "retain"
  /\ todo = <<>>
  /\ IF signers[call.event] = seen
     THEN signers' = [signers EXCEPT ![call.event] = kept] /\ pc' = "done"
     ELSE pc' = "load" /\ UNCHANGED signers
  /\ UNCHANGED <<sig, message, call, seen, todo, kept, reader>>

Return ==
  /\ pc = "done"
  /\ pc' = IF call.op = "add" THEN "added" ELSE "idle"
  /\ message' = IF call.op = "add" THEN message ELSE <<>>
  /\ call' = Store!NoCall
  /\ seen' = <<>> /\ todo' = <<>> /\ kept' = <<>>
  /\ UNCHANGED <<sig, signers, reader>>

-----------------------------------------------------------------------------
(* get_event_proof_count: one lookup per validator.                        *)

CallCount(e, validators) ==
  /\ reader = NoReader
  /\ reader' = [step      |-> "count",
                event     |-> e,
                asked     |-> validators,
                left      |-> validators,
                count     |-> 0,
                before    |-> Cardinality(sig[e] \cap validators),
                disturbed |-> FALSE]
  /\ UNCHANGED <<sig, signers, writerVars>>

(* A count over the signer list, in which a signer can be repeated.        *)
MutantCountSigners(k) ==
  /\ reader.step = "count"
  /\ k \in reader.left
  /\ reader' = [reader EXCEPT
       !.left = @ \ {k},
       !.count = @ + Cardinality({i \in 1..Len(signers[reader.event]) :
                                    signers[reader.event][i] = k})]
  /\ UNCHANGED <<sig, signers, writerVars>>

LookUp(k) ==
  /\ reader.step = "count"
  /\ k \in reader.left
  /\ reader' = [reader EXCEPT
       !.left = @ \ {k},
       !.count = IF k \in sig[reader.event] THEN @ + 1 ELSE @]
  /\ UNCHANGED <<sig, signers, writerVars>>

ReturnCount ==
  /\ reader.step = "count"
  /\ reader.left = {}
  /\ reader' = NoReader
  /\ UNCHANGED <<sig, signers, writerVars>>

-----------------------------------------------------------------------------
Writer ==
  \/ SetSignature
  \/ CallPurge
  \/ LoadSigners
  \/ RetainSigner
  \/ CompareAndSet
  \/ Return

Next ==
  \/ \E e \in Events, k \in Keys, authorities \in SUBSET Keys :
       CallAdd(e, k, authorities)
  \/ Writer
  \/ \E e \in Events, validators \in SUBSET Keys : CallCount(e, validators)
  \/ \E k \in Keys : LookUp(k)
  \/ ReturnCount

Spec == Init /\ [][Next]_vars

(* Storage accesses do not block.                                          *)
FairSpec == Spec /\ WF_vars(Writer)

-----------------------------------------------------------------------------
(* Properties.                                                             *)

(* The writer's view of the store is the one EventProofs promises.         *)
ImplementsEventProofs == Store!Spec

(* A count that runs while proofs are added is one that was right at some  *)
(* moment of the call, unless a purge takes away a proof being counted:    *)
(* adding is one proof at a time, so every number in between was right.    *)
CountRightAtSomeMoment ==
  (reader.step = "count" /\ reader.left = {} /\ ~reader.disturbed)
    => /\ reader.before <= reader.count
       /\ reader.count <= Cardinality(sig[reader.event] \cap reader.asked)

(* Every message handled gets through both loops, that of add_event_proof  *)
(* and that of purge_event_stale_signatures.                               *)
CallsReturn == pc = "set" ~> pc = "done" /\ call.op = "purge"

(* The trait's promise for a purge that has done its work: no proof by a   *)
(* key outside the given list is left.                                     *)
PurgedOfStaleProofs ==
  (pc = "done" /\ call.op = "purge") => sig[call.event] \subseteq call.validators
=============================================================================
