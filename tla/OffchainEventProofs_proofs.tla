--------------------- MODULE OffchainEventProofs_proofs ---------------------
(***************************************************************************)
(* The off-chain store keeps the promises of EventProofs, for every set of *)
(* keys and events, as long as the node does not crash within a call.  The *)
(* argument: every signature is listed under its event, or is about to be, *)
(* so a purge that goes through the list finds every signature.  And a     *)
(* count that runs meanwhile gets a number that was right at some moment.  *)
(***************************************************************************)
EXTENDS OffchainEventProofs, FiniteSetTheorems, TLAPS

Listed(s) == {s[i] : i \in 1..Len(s)}

(* The key that is signed but not listed yet.                              *)
Pending(e) ==
  IF call.op = "add" /\ call.event = e /\ pc \in {"load", "retain"}
  THEN {call.key}
  ELSE {}

WriterTypeOK ==
  /\ sig \in [Events -> SUBSET Keys]
  /\ signers \in [Events -> Seq(Keys)]
  /\ seen \in Seq(Keys) /\ todo \in Seq(Keys) /\ kept \in Seq(Keys)
  /\ pc \in {"idle", "set", "load", "retain", "done", "added"}
  /\ message \in {<<>>} \cup {<<m>> : m \in Message}

CallInv ==
  /\ pc \in {"idle", "added"} => call = Store!NoCall
  /\ pc = "set" => call \in Store!Adding
  /\ pc \in {"load", "retain", "done"} => call \in Store!Adding \cup Store!Purging
  /\ pc # "idle" => message \in {<<m>> : m \in Message}

(* Where the writer is in its loop.                                        *)
LoopInv ==
  /\ (pc \in {"load", "retain", "done"} /\ call.op = "add")
       => call.key \in sig[call.event]
  /\ pc = "retain" => seen = signers[call.event]
  /\ (pc = "retain" /\ call.op = "add")
       => todo = <<>> /\ kept = Append(seen, call.key)
  /\ (pc = "retain" /\ call.op = "purge")
       => /\ sig[call.event] \subseteq Listed(kept) \cup Listed(todo)
          /\ Listed(kept) \subseteq call.validators

SignaturesListed ==
  \A e \in Events : sig[e] \subseteq Listed(signers[e]) \cup Pending(e)

IInv ==
  /\ WriterTypeOK
  /\ CallInv
  /\ LoopInv
  /\ SignaturesListed
  /\ PurgedOfStaleProofs

-----------------------------------------------------------------------------
(* What Append, Head and Tail do to the keys of a signer list.             *)
LEMMA ListedAppend ==
  ASSUME NEW s \in Seq(Keys), NEW k \in Keys
  PROVE  Listed(Append(s, k)) = Listed(s) \cup {k}
<1>1. /\ Len(Append(s, k)) = Len(s) + 1
      /\ Len(s) \in Nat
      /\ \A i \in 1..Len(s) : Append(s, k)[i] = s[i]
      /\ Append(s, k)[Len(s) + 1] = k
  OBVIOUS
<1>2. 1..(Len(s) + 1) = (1..Len(s)) \cup {Len(s) + 1}
  BY <1>1
<1> QED  BY <1>1, <1>2 DEF Listed

(* An absent signer list, which reads as the empty one, names no key.      *)
LEMMA ListedEmpty == Listed(<<>>) = {}
BY DEF Listed

(* `retain` looks at the head and goes on with the tail: it misses no key. *)
LEMMA ListedHeadTail ==
  ASSUME NEW s \in Seq(Keys), s # <<>>
  PROVE  /\ Head(s) \in Keys
         /\ Tail(s) \in Seq(Keys)
         /\ Listed(s) \subseteq {Head(s)} \cup Listed(Tail(s))
<1>1. /\ Head(s) \in Keys
      /\ Tail(s) \in Seq(Keys)
      /\ Len(s) \in Nat
      /\ Len(Tail(s)) = Len(s) - 1
      /\ Head(s) = s[1]
      /\ \A i \in 1..(Len(s) - 1) : Tail(s)[i] = s[i + 1]
  OBVIOUS
<1>2. ASSUME NEW i \in 1..Len(s), i # 1
      PROVE  s[i] \in Listed(Tail(s))
  <2>1. i - 1 \in 1..Len(Tail(s)) /\ Tail(s)[i - 1] = s[i]
    BY <1>1, <1>2
  <2> QED  BY <2>1 DEF Listed
<1> QED  BY <1>1, <1>2 DEF Listed

-----------------------------------------------------------------------------
(* The invariant holds of the empty store.                                 *)
LEMMA StoreInit == Init => IInv
<1> SUFFICES ASSUME Init PROVE IInv
  OBVIOUS
<1>1. WriterTypeOK
  BY DEF Init, WriterTypeOK
<1>2. CallInv /\ LoopInv
  BY DEF Init, CallInv, LoopInv
<1>3. SignaturesListed /\ PurgedOfStaleProofs
  BY DEF Init, SignaturesListed, PurgedOfStaleProofs
<1> QED  BY <1>1, <1>2, <1>3 DEF IInv

(* add_event_proof up to its loop: the signature is pending.               *)
LEMMA AddStep ==
  ASSUME IInv,
         \/ \E e \in Events, k \in Keys, authorities \in SUBSET Keys :
              CallAdd(e, k, authorities)
         \/ SetSignature
  PROVE  IInv'
<1> USE DEF IInv
<1>1. ASSUME NEW e \in Events, NEW k \in Keys, NEW authorities \in SUBSET Keys,
             CallAdd(e, k, authorities)
      PROVE  IInv'
  <2>1. WriterTypeOK' /\ CallInv'
    BY <1>1 DEF CallAdd, WriterTypeOK, CallInv, Message, Store!Adding
  <2>2. LoopInv' /\ PurgedOfStaleProofs'
    BY <1>1 DEF CallAdd, LoopInv, PurgedOfStaleProofs
  <2>3. SignaturesListed'
    BY <1>1 DEF CallAdd, SignaturesListed, Pending
  <2> QED  BY <2>1, <2>2, <2>3
<1>2. CASE SetSignature
  <2>1. /\ call.op = "add" /\ call.event \in Events /\ call.key \in Keys
        /\ call' = call /\ pc' = "load" /\ pc = "set"
    BY <1>2 DEF SetSignature, CallInv, Store!Adding
  <2>2. WriterTypeOK'
    BY <1>2, <2>1 DEF SetSignature, WriterTypeOK
  <2>3. CallInv'
    BY <1>2, <2>1 DEF SetSignature, CallInv
  <2>4. LoopInv' /\ PurgedOfStaleProofs'
    BY <1>2, <2>1 DEF SetSignature, LoopInv, PurgedOfStaleProofs, WriterTypeOK
  <2>5. SignaturesListed'
    BY <1>2, <2>1 DEF SetSignature, SignaturesListed, Pending, WriterTypeOK
  <2> QED  BY <2>2, <2>3, <2>4, <2>5
<1> QED  BY <1>1, <1>2

(* The start of a purge, and of the loop of either call.                   *)
LEMMA LoadStep ==
  ASSUME IInv, CallPurge \/ LoadSigners
  PROVE  IInv'
<1> USE DEF IInv
<1>1. CASE CallPurge
  <2>1. PICK m \in Message : message = <<m>>
    BY <1>1 DEF CallPurge, CallInv
  <2>2. message[1] = m /\ m.event \in Events /\ m.authorities \in SUBSET Keys
    BY <2>1 DEF Message
  <2>3. call' \in Store!Purging /\ call'.op = "purge" /\ call.op = "none"
    BY <1>1, <2>2 DEF CallPurge, CallInv, Store!Purging, Store!NoCall
  <2>4. WriterTypeOK' /\ CallInv'
    BY <1>1, <2>1, <2>3 DEF CallPurge, WriterTypeOK, CallInv
  <2>5. LoopInv' /\ PurgedOfStaleProofs'
    BY <1>1, <2>3 DEF CallPurge, LoopInv, PurgedOfStaleProofs
  <2>6. SignaturesListed'
    BY <1>1, <2>3 DEF CallPurge, SignaturesListed, Pending
  <2> QED  BY <2>4, <2>5, <2>6
<1>2. CASE LoadSigners
  <2>1. /\ call \in Store!Adding \cup Store!Purging
        /\ call.event \in Events
        /\ call.op = "add" => call.key \in Keys
        /\ call.op \in {"add", "purge"}
        /\ pc = "load" /\ pc' = "retain" /\ call' = call
    BY <1>2 DEF LoadSigners, CallInv, Store!Adding, Store!Purging
  <2>2. signers[call.event] \in Seq(Keys)
    BY <2>1 DEF WriterTypeOK
  <2>3. WriterTypeOK' /\ CallInv'
    BY <1>2, <2>1, <2>2 DEF LoadSigners, WriterTypeOK, CallInv
  <2>4. call.op = "purge" => sig[call.event] \subseteq Listed(signers[call.event])
    BY <2>1 DEF SignaturesListed, Pending
  <2>5. LoopInv'
    BY <1>2, <2>1, <2>4, ListedEmpty DEF LoadSigners, LoopInv
  <2>6. SignaturesListed' /\ PurgedOfStaleProofs'
    BY <1>2, <2>1 DEF LoadSigners, SignaturesListed, Pending, PurgedOfStaleProofs
  <2> QED  BY <2>3, <2>5, <2>6
<1> QED  BY <1>1, <1>2

(* One signer of a purge: kept, or removed with its signature.             *)
LEMMA RetainStep ==
  ASSUME IInv, RetainSigner
  PROVE  IInv'
<1> USE DEF IInv
<1> DEFINE k == Head(todo)
<1>1. /\ call \in Store!Purging /\ call.op = "purge"
      /\ call.event \in Events
      /\ pc = "retain" /\ pc' = "retain" /\ call' = call /\ message' = message
      /\ signers' = signers /\ seen' = seen /\ todo' = Tail(todo)
  BY DEF RetainSigner, CallInv, LoopInv, Store!Adding, Store!Purging
<1>2. /\ k \in Keys
      /\ Tail(todo) \in Seq(Keys)
      /\ Listed(todo) \subseteq {k} \cup Listed(Tail(todo))
  BY ListedHeadTail DEF RetainSigner, WriterTypeOK
<1>3. CallInv' /\ PurgedOfStaleProofs'
  BY <1>1 DEF CallInv, PurgedOfStaleProofs
<1>4. CASE k \in call.validators
  <2>1. sig' = sig /\ kept' = Append(kept, k)
    BY <1>4 DEF RetainSigner
  <2>2. Listed(kept') = Listed(kept) \cup {k}
    BY <1>2, <2>1, ListedAppend DEF WriterTypeOK
  <2>3. WriterTypeOK'
    BY <1>1, <1>2, <2>1 DEF WriterTypeOK
  <2>4. LoopInv'
    BY <1>1, <1>2, <1>4, <2>1, <2>2 DEF LoopInv
  <2>5. SignaturesListed'
    BY <1>1, <2>1 DEF SignaturesListed, Pending
  <2> QED  BY <1>3, <2>3, <2>4, <2>5
<1>5. CASE k \notin call.validators
  <2>1. sig' = [sig EXCEPT ![call.event] = @ \ {k}] /\ kept' = kept
    BY <1>5 DEF RetainSigner
  <2>2. WriterTypeOK'
    BY <1>1, <1>2, <2>1 DEF WriterTypeOK
  <2>3. LoopInv'
    BY <1>1, <1>2, <2>1 DEF LoopInv, WriterTypeOK
  <2>4. SignaturesListed'
    BY <1>1, <2>1 DEF SignaturesListed, Pending, WriterTypeOK
  <2> QED  BY <1>3, <2>2, <2>3, <2>4
<1> QED  BY <1>4, <1>5

(* The list is stored: what was pending is listed, what was dropped has no *)
(* signature any more.                                                     *)
LEMMA StoreListStep ==
  ASSUME IInv, CompareAndSet \/ Return
  PROVE  IInv'
<1> USE DEF IInv
<1>1. CASE CompareAndSet
  <2>1. /\ call \in Store!Adding \cup Store!Purging
        /\ call.event \in Events
        /\ call.op = "add" => call.key \in Keys
        /\ call.op \in {"add", "purge"}
        /\ pc = "retain" /\ pc' = "done" /\ call' = call /\ message' = message
        /\ signers' = [signers EXCEPT ![call.event] = kept]
        /\ sig' = sig /\ todo = <<>>
        /\ seen' = seen /\ todo' = todo /\ kept' = kept
    <3>1. pc = "retain" /\ todo = <<>> /\ signers[call.event] = seen
      BY <1>1 DEF CompareAndSet, LoopInv
    <3>2. /\ call \in Store!Adding \cup Store!Purging
          /\ call.event \in Events
          /\ call.op = "add" => call.key \in Keys
          /\ call.op \in {"add", "purge"}
      BY <3>1 DEF CallInv, Store!Adding, Store!Purging
    <3> QED  BY <1>1, <3>1, <3>2 DEF CompareAndSet
  <2>2. WriterTypeOK' /\ CallInv'
    BY <2>1 DEF WriterTypeOK, CallInv
  <2>3. CASE call.op = "add"
    <3>1. Listed(kept) = Listed(signers[call.event]) \cup {call.key}
      <4>1. kept = Append(signers[call.event], call.key)
        BY <2>1, <2>3 DEF LoopInv
      <4>2. signers[call.event] \in Seq(Keys) /\ call.key \in Keys
        BY <2>1, <2>3 DEF WriterTypeOK
      <4> QED  BY <4>1, <4>2, ListedAppend
    <3>2. SignaturesListed'
      BY <2>1, <2>3, <3>1 DEF SignaturesListed, Pending, WriterTypeOK
    <3>3. LoopInv' /\ PurgedOfStaleProofs'
      BY <2>1, <2>3 DEF LoopInv, PurgedOfStaleProofs
    <3> QED  BY <2>2, <3>2, <3>3
  <2>4. CASE call.op = "purge"
    <3>1. sig[call.event] \subseteq Listed(kept) /\ Listed(kept) \subseteq call.validators
      BY <2>1, <2>4, ListedEmpty DEF LoopInv
    <3>2. SignaturesListed'
      BY <2>1, <2>4, <3>1 DEF SignaturesListed, Pending, WriterTypeOK
    <3>3. LoopInv' /\ PurgedOfStaleProofs'
      BY <2>1, <2>4, <3>1 DEF LoopInv, PurgedOfStaleProofs
    <3> QED  BY <2>2, <3>2, <3>3
  <2> QED  BY <2>1, <2>3, <2>4
<1>2. CASE Return
  <2>1. /\ pc = "done" /\ pc' \in {"idle", "added"} /\ call' = Store!NoCall
        /\ sig' = sig /\ signers' = signers
        /\ call'.op = "none"
    BY <1>2 DEF Return, Store!NoCall
  <2>2. WriterTypeOK' /\ CallInv'
    BY <1>2, <2>1 DEF Return, WriterTypeOK, CallInv
  <2>3. LoopInv' /\ PurgedOfStaleProofs'
    BY <2>1 DEF LoopInv, PurgedOfStaleProofs
  <2>4. SignaturesListed'
    BY <2>1 DEF SignaturesListed, Pending
  <2> QED  BY <2>2, <2>3, <2>4
<1> QED  BY <1>1, <1>2

(* Counting leaves the store and its writer alone.                         *)
LEMMA FrameStep ==
  ASSUME IInv, UNCHANGED <<sig, signers, writerVars>>
  PROVE  IInv'
BY DEF IInv, WriterTypeOK, CallInv, LoopInv, SignaturesListed, Pending,
       PurgedOfStaleProofs, writerVars

(* Every access of the store preserves the invariant.                      *)
LEMMA StoreStep == IInv /\ [Next]_vars => IInv'
<1> SUFFICES ASSUME IInv, [Next]_vars PROVE IInv'
  OBVIOUS
<1>1. CASE \E e \in Events, k \in Keys, authorities \in SUBSET Keys :
             CallAdd(e, k, authorities)
  BY <1>1, AddStep
<1>2. CASE Writer
  BY <1>2, AddStep, LoadStep, RetainStep, StoreListStep DEF Writer
<1>3. CASE UNCHANGED <<sig, signers, writerVars>>
  BY <1>3, FrameStep
<1>4. CASE \E e \in Events, validators \in SUBSET Keys : CallCount(e, validators)
  BY <1>4, <1>3 DEF CallCount
<1>5. CASE \E k \in Keys : LookUp(k)
  BY <1>5, <1>3 DEF LookUp
<1>6. CASE ReturnCount
  BY <1>6, <1>3 DEF ReturnCount
<1>7. CASE UNCHANGED vars
  BY <1>7, <1>3 DEF vars
<1> QED  BY <1>1, <1>2, <1>4, <1>5, <1>6, <1>7 DEF Next

(* The invariant holds throughout.                                         *)
LEMMA StoreInvariant == Spec => []IInv
BY StoreInit, StoreStep, PTL DEF Spec

(* A purge_event_stale_signatures that has done its work leaves no proof   *)
(* by a key outside the given list, whatever was added before.             *)
THEOREM PurgeIsComplete == Spec => []PurgedOfStaleProofs
<1>1. IInv => PurgedOfStaleProofs
  BY DEF IInv
<1> QED  BY <1>1, StoreInvariant, PTL

-----------------------------------------------------------------------------
(* Every step of the off-chain store is a step of EventProofs or none.     *)
LEMMA StepSimulation ==
  ASSUME IInv, [Next]_vars
  PROVE  [Store!Next]_<<sig, call>>
<1> USE DEF IInv
<1>1. ASSUME NEW e \in Events, NEW k \in Keys, NEW authorities \in SUBSET Keys,
             CallAdd(e, k, authorities)
      PROVE  Store!Next
  <2>1. call' \in Store!Adding
    BY <1>1 DEF CallAdd, Store!Adding
  <2>2. Store!Begin(call')
    BY <1>1 DEF CallAdd, CallInv, Store!Begin
  <2> QED  BY <2>1, <2>2 DEF Store!Next
<1>2. CASE SetSignature
  <2>1. call.op = "add"
    BY <1>2 DEF SetSignature, CallInv, Store!Adding
  <2> QED  BY <1>2, <2>1 DEF SetSignature, Store!AddProof, Store!Next
<1>3. CASE CallPurge
  <2>1. PICK m \in Message : message = <<m>>
    BY <1>3 DEF CallPurge, CallInv
  <2>2. message[1] = m /\ m.event \in Events /\ m.authorities \in SUBSET Keys
    BY <2>1 DEF Message
  <2>3. call' \in Store!Purging
    BY <1>3, <2>2 DEF CallPurge, Store!Purging
  <2>4. Store!Begin(call')
    BY <1>3 DEF CallPurge, CallInv, Store!Begin
  <2> QED  BY <2>3, <2>4 DEF Store!Next
<1>4. CASE LoadSigners
  BY <1>4 DEF LoadSigners
<1>5. CASE RetainSigner
  <2>1. call.op = "purge" /\ call' = call /\ Head(todo) \in Keys
    <3>1. call.op = "purge" /\ call' = call
      BY <1>5 DEF RetainSigner, CallInv, LoopInv, Store!Adding, Store!Purging
    <3>2. Head(todo) \in Keys
      BY <1>5, ListedHeadTail DEF RetainSigner, WriterTypeOK
    <3> QED  BY <3>1, <3>2
  <2>2. CASE Head(todo) \in call.validators
    BY <1>5, <2>1, <2>2 DEF RetainSigner
  <2>3. CASE Head(todo) \notin call.validators
    <3>1. sig' = [sig EXCEPT ![call.event] = @ \ {Head(todo)}]
      BY <1>5, <2>3 DEF RetainSigner
    <3>2. Store!DropStale({Head(todo)})
      BY <2>1, <2>3, <3>1 DEF Store!DropStale
    <3>3. {Head(todo)} \in SUBSET Keys
      BY <2>1
    <3> QED  BY <3>2, <3>3 DEF Store!Next
  <2> QED  BY <2>2, <2>3
<1>6. CASE CompareAndSet
  BY <1>6 DEF CompareAndSet
<1>7. CASE Return
  <2>1. pc = "done" /\ call' = Store!NoCall /\ sig' = sig
    BY <1>7 DEF Return
  <2>2. call.op \in {"add", "purge"}
    BY <2>1 DEF CallInv, Store!Adding, Store!Purging
  <2>3. \/ call.op = "add" /\ call.key \in sig[call.event]
        \/ call.op = "purge" /\ sig[call.event] \subseteq call.validators
    BY <2>1, <2>2 DEF LoopInv, PurgedOfStaleProofs
  <2> QED  BY <2>1, <2>3 DEF Store!Return, Store!Next
<1>8. CASE \E e \in Events, validators \in SUBSET Keys : CallCount(e, validators)
  BY <1>8 DEF CallCount, writerVars
<1>9. CASE (\E k \in Keys : LookUp(k)) \/ ReturnCount
  BY <1>9, Zenon DEF LookUp, ReturnCount, writerVars
<1>10. CASE UNCHANGED vars
  BY <1>10 DEF vars, writerVars
<1> QED
  BY <1>1, <1>2, <1>3, <1>4, <1>5, <1>6, <1>7, <1>8, <1>9, <1>10 DEF Next, Writer

(* The off-chain store implements EventProofs: to its writer, a proof is   *)
(* there once add_event_proof returns, a purge touches only the proofs it  *)
(* is told to, and all of them are gone once it returns.                   *)
THEOREM OffchainImplementsEventProofs == Spec => ImplementsEventProofs
<1>1. Init => Store!Init
  BY DEF Init, Store!Init
<1>2. IInv /\ [Next]_vars => [Store!Next]_<<sig, call>>
  BY StepSimulation
<1> QED  BY <1>1, <1>2, StoreInvariant, PTL DEF Spec, ImplementsEventProofs, Store!Spec
-----------------------------------------------------------------------------
(* Counting while the writer is at work.                                   *)

(* What a count in progress has found, and what it can still find: unless  *)
(* a purge took a proof that is counted, it has no more than there are     *)
(* behind it, and with those ahead no less than there were at the start.   *)
CountInv ==
  /\ reader \in Reader \cup {NoReader}
  /\ reader.step = "count" =>
       /\ reader.left \subseteq reader.asked
       /\ ~reader.disturbed =>
            /\ reader.count <= Cardinality(sig[reader.event] \cap (reader.asked \ reader.left))
            /\ reader.before
                 <= reader.count + Cardinality(sig[reader.event] \cap reader.left)

(* Sets of keys can be counted.                                            *)
LEMMA KeysFinite ==
  ASSUME NEW S \in SUBSET Keys
  PROVE  IsFiniteSet(S) /\ Cardinality(S) \in Nat
BY StoreAssumption, FS_Subset, FS_CardinalityType

(* More proofs make for no smaller count.                                  *)
LEMMA CountMonotone ==
  ASSUME NEW S \in SUBSET Keys, NEW T \in SUBSET S
  PROVE  Cardinality(T) <= Cardinality(S)
BY KeysFinite, FS_Subset

(* A reader's bounds survive whatever leaves its own proofs in place.      *)
LEMMA CountStable ==
  ASSUME CountInv, sig \in [Events -> SUBSET Keys], sig' \in [Events -> SUBSET Keys],
         reader' = reader,
         (reader.step = "count" /\ ~reader.disturbed)
           => sig[reader.event] \cap reader.asked \subseteq sig'[reader.event]
  PROVE  CountInv'
<1> SUFFICES ASSUME reader.step = "count", ~reader.disturbed
             PROVE  /\ reader.count
                         <= Cardinality(sig'[reader.event] \cap (reader.asked \ reader.left))
                    /\ reader.before
                         <= reader.count + Cardinality(sig'[reader.event] \cap reader.left)
  BY DEF CountInv
<1> DEFINE e == reader.event
           D == reader.asked \ reader.left
           L == reader.left
<1>1. reader \in Reader
  BY DEF CountInv, NoReader
<1>2. /\ e \in Events /\ reader.asked \in SUBSET Keys /\ L \in SUBSET reader.asked
      /\ reader.count \in Nat /\ reader.before \in Nat
  BY <1>1 DEF Reader, CountInv
<1>3. /\ sig[e] \cap D \in SUBSET (sig'[e] \cap D) /\ sig'[e] \cap D \in SUBSET Keys
      /\ sig[e] \cap L \in SUBSET (sig'[e] \cap L) /\ sig'[e] \cap L \in SUBSET Keys
  BY <1>2
<1>4. /\ Cardinality(sig[e] \cap D) <= Cardinality(sig'[e] \cap D)
      /\ Cardinality(sig[e] \cap L) <= Cardinality(sig'[e] \cap L)
  BY <1>3, CountMonotone
<1>5. /\ Cardinality(sig[e] \cap D) \in Nat /\ Cardinality(sig'[e] \cap D) \in Nat
      /\ Cardinality(sig[e] \cap L) \in Nat /\ Cardinality(sig'[e] \cap L) \in Nat
  BY <1>3, KeysFinite
<1>6. /\ reader.count <= Cardinality(sig[e] \cap D)
      /\ reader.before <= reader.count + Cardinality(sig[e] \cap L)
  BY DEF CountInv
<1> QED
  BY <1>2, <1>4, <1>5, <1>6

(* One lookup moves a key from what is ahead to what is behind.            *)
LEMMA LookUpStep ==
  ASSUME CountInv, sig \in [Events -> SUBSET Keys], NEW k \in Keys, LookUp(k)
  PROVE  CountInv'
<1> DEFINE e == reader.event
           S == sig[e]
           D == reader.asked \ reader.left
           L == reader.left
           c == IF k \in S THEN reader.count + 1 ELSE reader.count
<1>1. reader \in Reader /\ reader.step = "count" /\ k \in L
  BY DEF LookUp, CountInv, NoReader
<1>2. /\ e \in Events /\ reader.asked \in SUBSET Keys /\ L \in SUBSET reader.asked
      /\ reader.count \in Nat /\ reader.before \in Nat /\ reader.disturbed \in BOOLEAN
  BY <1>1 DEF Reader, CountInv
<1>3. reader' = [reader EXCEPT !.left = L \ {k}, !.count = c] /\ sig' = sig
  BY DEF LookUp
<1>4. c \in Nat
  BY <1>2
<1>5. reader' \in Reader /\ reader'.left \subseteq reader'.asked
  BY <1>1, <1>2, <1>3, <1>4, Zenon DEF Reader
<1>6. ASSUME ~reader.disturbed
      PROVE  /\ c <= Cardinality(S \cap (D \cup {k}))
             /\ reader.before <= c + Cardinality(S \cap (L \ {k}))
  <2>1. /\ reader.count <= Cardinality(S \cap D)
        /\ reader.before <= reader.count + Cardinality(S \cap L)
    BY <1>1, <1>6 DEF CountInv
  <2>2. S \cap D \in SUBSET Keys /\ S \cap L \in SUBSET Keys
    BY <1>2
  <2>3. CASE k \in S
    <3>1. S \cap (D \cup {k}) = (S \cap D) \cup {k} /\ k \notin S \cap D
      BY <1>1, <2>3
    <3>2. S \cap (L \ {k}) = (S \cap L) \ {k} /\ k \in S \cap L
      BY <1>1, <2>3
    <3>3. Cardinality((S \cap D) \cup {k}) = Cardinality(S \cap D) + 1
      BY <2>2, <3>1, KeysFinite, FS_AddElement
    <3>4. Cardinality((S \cap L) \ {k}) = Cardinality(S \cap L) - 1
      BY <2>2, <3>2, KeysFinite, FS_RemoveElement, Zenon
    <3>5. Cardinality(S \cap D) \in Nat /\ Cardinality(S \cap L) \in Nat
      BY <2>2, KeysFinite
    <3>6. c = reader.count + 1
      BY <2>3
    <3>7. c <= Cardinality(S \cap D) + 1
      BY <1>2, <2>1, <3>5, <3>6
    <3>8. reader.before <= c + (Cardinality(S \cap L) - 1)
      BY <1>2, <2>1, <3>5, <3>6
    <3> HIDE DEF c, D, L, S
    <3> QED
      BY <3>1, <3>2, <3>3, <3>4, <3>7, <3>8
  <2>4. CASE k \notin S
    <3>1. S \cap (D \cup {k}) = S \cap D /\ S \cap (L \ {k}) = S \cap L
      BY <2>4
    <3> QED
      BY <2>1, <2>4, <3>1, Zenon
  <2> QED
    BY <2>3, <2>4
<1>7. /\ reader'.asked \ reader'.left = D \cup {k} /\ reader'.left = L \ {k}
      /\ reader'.event = e /\ reader'.count = c /\ reader'.before = reader.before
      /\ reader'.disturbed = reader.disturbed
  BY <1>1, <1>2, <1>3 DEF Reader
<1> HIDE DEF c
<1> QED
  BY <1>3, <1>5, <1>6, <1>7 DEF CountInv

(* The start of a count: all is ahead.                                     *)
LEMMA CallCountStep ==
  ASSUME sig \in [Events -> SUBSET Keys], NEW e \in Events, NEW validators \in SUBSET Keys,
         CallCount(e, validators)
  PROVE  CountInv'
<1>1. sig[e] \cap validators \in SUBSET Keys
  OBVIOUS
<1>2. Cardinality(sig[e] \cap validators) \in Nat
  BY <1>1, KeysFinite
<1>3. validators \ validators = {} /\ sig[e] \cap {} = {} /\ Cardinality({}) = 0
  BY FS_EmptySet
<1>4. /\ reader'.step = "count" /\ reader'.event = e /\ reader'.count = 0
      /\ reader'.asked = validators /\ reader'.left = validators
      /\ reader'.before = Cardinality(sig[e] \cap validators)
      /\ reader' \in Reader /\ sig' = sig
  BY <1>2 DEF CallCount, Reader
<1> QED
  BY <1>2, <1>3, <1>4 DEF CountInv

(* Every step preserves the reader's bounds.                               *)
LEMMA CountStep ==
  ASSUME IInv, CountInv, [Next]_vars
  PROVE  CountInv'
<1>1. sig \in [Events -> SUBSET Keys] /\ sig' \in [Events -> SUBSET Keys]
  BY StoreStep DEF IInv, WriterTypeOK
<1>2. ASSUME reader' = reader, sig' = sig
      PROVE  CountInv'
  BY <1>2 DEF CountInv
<1>3. CASE SetSignature
  <2>1. reader' = reader /\ sig' = [sig EXCEPT ![call.event] = @ \cup {call.key}]
    BY <1>3 DEF SetSignature
  <2>2. \A e \in Events : sig[e] \subseteq sig'[e]
    BY <1>1, <2>1
  <2>3. reader.step = "count" => reader.event \in Events
    BY DEF CountInv, Reader, NoReader
  <2> QED
    BY <1>1, <2>1, <2>2, <2>3, CountStable
<1>4. CASE RetainSigner
  <2> DEFINE k == Head(todo)
  <2>1. CASE k \in call.validators
    BY <1>2, <1>4, <2>1 DEF RetainSigner
  <2>2. CASE k \notin call.validators
    <3>1. sig' = [sig EXCEPT ![call.event] = @ \ {k}]
      BY <1>4, <2>2 DEF RetainSigner
    <3>2. reader.step = "count" => reader \in Reader
      BY DEF CountInv, NoReader
    <3>3. CASE /\ reader.step = "count"
               /\ reader.event = call.event
               /\ k \in sig[call.event] \cap reader.asked
      <4>1. reader' = [reader EXCEPT !.disturbed = TRUE]
        BY <1>4, <2>2, <3>3 DEF RetainSigner
      <4>2. reader' \in Reader /\ reader'.disturbed /\ reader'.left \subseteq reader'.asked
        BY <3>2, <3>3, <4>1, Zenon DEF Reader, CountInv
      <4> QED
        BY <4>2 DEF CountInv
    <3>4. CASE ~ /\ reader.step = "count"
                 /\ reader.event = call.event
                 /\ k \in sig[call.event] \cap reader.asked
      <4>1. reader' = reader
        BY <1>4, <2>2, <3>4 DEF RetainSigner
      <4>2. reader.step = "count" => sig[reader.event] \cap reader.asked \subseteq sig'[reader.event]
        BY <1>1, <3>1, <3>2, <3>4 DEF Reader
      <4> QED
        BY <1>1, <4>1, <4>2, CountStable
    <3> QED
      BY <3>3, <3>4
  <2> QED
    BY <2>1, <2>2
<1>5. CASE CallPurge \/ LoadSigners \/ CompareAndSet \/ Return
  BY <1>2, <1>5 DEF CallPurge, LoadSigners, CompareAndSet, Return
<1>6. CASE \E e \in Events, k \in Keys, authorities \in SUBSET Keys :
             CallAdd(e, k, authorities)
  BY <1>2, <1>6 DEF CallAdd
<1>7. CASE \E e \in Events, validators \in SUBSET Keys : CallCount(e, validators)
  BY <1>1, <1>7, CallCountStep
<1>8. CASE \E k \in Keys : LookUp(k)
  BY <1>1, <1>8, LookUpStep
<1>9. CASE ReturnCount
  BY <1>9 DEF ReturnCount, CountInv, NoReader
<1>10. CASE UNCHANGED vars
  BY <1>2, <1>10 DEF vars
<1> QED
  BY <1>3, <1>4, <1>5, <1>6, <1>7, <1>8, <1>9, <1>10 DEF Next, Writer

(* The count that block import gets while the gossip task adds proofs was  *)
(* right at some moment of the call: no smaller than the number of proofs  *)
(* at its start, no larger than the number at its end, unless a purge took *)
(* a proof that was being counted.                                         *)
THEOREM CountsAreRight == Spec => []CountRightAtSomeMoment
<1>1. Init => CountInv
  BY DEF Init, CountInv, NoReader
<1>2. IInv /\ CountInv /\ [Next]_vars => CountInv'
  BY CountStep
<1>3. IInv /\ CountInv => CountRightAtSomeMoment
  <2> SUFFICES ASSUME IInv, CountInv, reader.step = "count", reader.left = {}, ~reader.disturbed
               PROVE  /\ reader.before <= reader.count
                      /\ reader.count <= Cardinality(sig[reader.event] \cap reader.asked)
    BY DEF CountRightAtSomeMoment
  <2>1. sig[reader.event] \cap (reader.asked \ {}) = sig[reader.event] \cap reader.asked
    OBVIOUS
  <2>2. sig[reader.event] \cap {} = {} /\ Cardinality({}) = 0
    BY FS_EmptySet
  <2>3. reader.count \in Nat /\ reader.before \in Nat
    BY DEF CountInv, Reader, NoReader
  <2> QED
    BY <2>1, <2>2, <2>3 DEF CountInv
<1> QED
  BY <1>1, <1>2, <1>3, StoreInvariant, PTL DEF Spec
=============================================================================
