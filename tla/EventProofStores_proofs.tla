----------------------- MODULE EventProofStores_proofs -----------------------
(***************************************************************************)
(* The stores of EventProofStores, for any number of keys and events: what *)
(* a purge leaves, what it may take, and what readers are given, although  *)
(* calls and reads fail and the process crashes between any two writes.    *)
(***************************************************************************)
EXTENDS EventProofStores, FiniteSetTheorems, TLAPS

(* What the handler has done so far of the message it is at: its proof is  *)
(* stored once it has been added, and what a purge has yet to delete of    *)
(* the event is ahead of the iterator.                                     *)
StoreInv ==
  /\ kind \in {"in_memory", "rocksdb"}
  /\ stored \subseteq Rows
  /\ step \in {"idle", "add", "added", "purge", "purged"}
  /\ step # "idle" => \E m \in Message : message = <<m>> /\ m.key \in m.authorities
  /\ step \in {"added", "purge"} => <<message[1].event, message[1].key>> \in stored
  /\ step = "purge" =>
       /\ kind = "rocksdb"
       /\ \A k \in Keys : <<message[1].event, k>> \in stored =>
            k \in message[1].authorities \/ <<message[1].event, k>> \in scan
  /\ PurgedOfStaleProofs

(* What the message being handled consists of.                             *)
LEMMA MessageParts ==
  ASSUME StoreInv, step # "idle"
  PROVE  /\ message[1].event \in Events
         /\ message[1].key \in Keys
         /\ message[1].key \in message[1].authorities
         /\ message # <<>>
BY DEF StoreInv, Message

(* A handler that starts, stores its proof or gives up.                    *)
LEMMA HandlerInvStep ==
  ASSUME StoreInv,
         \/ \E m \in Message : HandleMessage(m)
         \/ AddEventProof \/ CallFails \/ Crash
  PROVE  StoreInv'
<1>1. ASSUME NEW m \in Message, HandleMessage(m)
      PROVE  StoreInv'
  BY <1>1 DEF HandleMessage, StoreInv, stored, PurgedOfStaleProofs
<1>2. CASE AddEventProof
  <2> DEFINE row == <<message[1].event, message[1].key>>
  <2>1. step = "add" /\ step' = "added" /\ kind' = kind /\ message' = message
    BY <1>2 DEF AddEventProof
  <2>2. row \in Rows
    BY <2>1, MessageParts DEF Rows
  <2>3. proofs' \in {Insert(row, message[1].signature), Put(row, message[1].signature)}
    BY <1>2 DEF AddEventProof
  <2>4. stored' = stored \cup {row}
    BY <2>3 DEF Insert, Put, stored
  <2> QED
    BY <2>1, <2>2, <2>4 DEF StoreInv, PurgedOfStaleProofs
<1>3. CASE CallFails
  BY <1>3 DEF CallFails, StoreInv, stored, PurgedOfStaleProofs
<1>4. CASE Crash
  <2>1. stored' \subseteq stored
    BY <1>4 DEF Crash, stored
  <2> QED
    BY <1>4, <2>1 DEF Crash, StoreInv, PurgedOfStaleProofs
<1> QED
  BY <1>1, <1>2, <1>3, <1>4

(* A row that the purge has looked at is gone or not stale.                *)
LEMMA PurgeInvStep ==
  ASSUME StoreInv,
         \/ PurgeInMemory \/ StartPurge \/ EndPurge
         \/ \E r \in Rows : PurgeRow(r)
  PROVE  StoreInv'
<1> DEFINE e == message[1].event
           A == message[1].authorities
           own == <<e, message[1].key>>
<1>1. /\ step # "idle" /\ message' = message /\ kind' = kind
      /\ step \in {"added", "purge"} /\ own \in stored
  BY Zenon DEF PurgeInMemory, StartPurge, EndPurge, PurgeRow, StoreInv
<1>2. e \in Events /\ message[1].key \in Keys /\ message[1].key \in A
  BY <1>1, MessageParts
<1>3. CASE PurgeInMemory
  <2>1. stored' = {r \in stored : r[1] = e => r[2] \in A} /\ step' = "purged"
    BY <1>3 DEF PurgeInMemory, Restrict, Retain, stored
  <2>2. own \in stored'
    BY <1>1, <1>2, <2>1
  <2>3. \A k \in Keys : <<e, k>> \in stored' => k \in A
    BY <2>1
  <2> QED
    BY <1>1, <2>1, <2>2, <2>3 DEF StoreInv, PurgedOfStaleProofs
<1>4. CASE StartPurge
  <2>1. /\ kind = "rocksdb" /\ step' = "purge" /\ proofs' = proofs
        /\ scan' = {r \in stored : r[1] >= e}
    BY <1>4 DEF StartPurge, PrefixIterator
  <2>2. \A k \in Keys : <<e, k>> \in stored => <<e, k>> \in scan'
    BY <1>2, <2>1, StoresAssumption DEF Events
  <2> QED
    BY <1>1, <2>1, <2>2 DEF StoreInv, PurgedOfStaleProofs, stored
<1>5. ASSUME NEW r \in Rows, PurgeRow(r)
      PROVE  StoreInv'
  <2>1. step = "purge" /\ step' = "purge" /\ scan' = scan \ {r}
    BY <1>5 DEF PurgeRow
  <2>2. stored' = IF r[2] \in A THEN stored ELSE stored \ {r}
    BY <1>5 DEF PurgeRow, Restrict, stored
  <2>3. own \in stored'
    BY <1>1, <1>2, <2>2
  <2>4. ASSUME NEW k \in Keys, <<e, k>> \in stored'
        PROVE  k \in A \/ <<e, k>> \in scan'
    BY <2>1, <2>2, <2>4 DEF StoreInv
  <2> QED
    BY <1>1, <2>1, <2>2, <2>3, <2>4 DEF StoreInv, PurgedOfStaleProofs
<1>6. CASE EndPurge
  <2>1. step = "purge" /\ scan = {} /\ step' = "purged" /\ proofs' = proofs
    BY <1>6 DEF EndPurge
  <2> QED
    BY <1>1, <2>1 DEF StoreInv, PurgedOfStaleProofs, stored
<1> QED
  BY <1>3, <1>4, <1>5, <1>6

(* The invariant holds throughout.                                         *)
LEMMA StoreInvariant == Spec => []StoreInv
<1>1. Init => StoreInv
  BY DEF Init, StoreInv, stored, PurgedOfStaleProofs
<1>2. StoreInv /\ [Next]_vars => StoreInv'
  <2> SUFFICES ASSUME StoreInv, [Next]_vars PROVE StoreInv'
    OBVIOUS
  <2>1. CASE UNCHANGED <<kind, proofs, message, step, scan>>
    BY <2>1 DEF StoreInv, stored, PurgedOfStaleProofs
  <2>2. CASE \/ \E e \in Events, v \in SUBSET Keys : \E f \in SUBSET ({e} \X v) : Read(e, v, f)
             \/ ReadReturns
             \/ UNCHANGED vars
    BY <2>1, <2>2 DEF Read, ReadReturns, vars
  <2> QED
    BY <2>2, HandlerInvStep, PurgeInvStep DEF Next
<1> QED
  BY <1>1, <1>2, PTL DEF Spec

(* Whatever crashed or failed before, purge_event_stale_signatures returns *)
(* with no proof of the event left by a key that is no authority, and with *)
(* the proof the handler has just added, in memory and in RocksDB.         *)
THEOREM PurgesAreComplete == Spec => []PurgedOfStaleProofs
<1>1. StoreInv => PurgedOfStaleProofs
  BY DEF StoreInv
<1> QED
  BY <1>1, StoreInvariant, PTL

-----------------------------------------------------------------------------
(* What a step may take from the store.                                    *)

(* The only rows that go while the process runs are those a purge is told  *)
(* to remove, and in memory only rows of the given event.                  *)
LEMMA RemovedRows ==
  ASSUME StoreInv, [Next]_vars, message' # <<>>, NEW r \in stored \ stored'
  PROVE  /\ r[2] \notin message[1].authorities
         /\ kind = "in_memory" => r[1] = message[1].event
<1>1. CASE AddEventProof
  <2>1. stored \subseteq stored'
    BY <1>1 DEF AddEventProof, Insert, Put, stored
  <2> QED
    BY <2>1
<1>2. CASE PurgeInMemory
  BY <1>2 DEF PurgeInMemory, Restrict, Retain, stored
<1>3. ASSUME NEW q \in Rows, PurgeRow(q)
      PROVE  r = q /\ r[2] \notin message[1].authorities /\ kind = "rocksdb"
  BY <1>3 DEF PurgeRow, Restrict, stored, StoreInv
<1>4. proofs' # proofs
  BY DEF stored
<1>5. ~CallFails /\ ~Crash
  BY DEF CallFails, Crash
<1> QED
  BY <1>1, <1>2, <1>3, <1>4, <1>5
  DEF Next, HandleMessage, StartPurge, EndPurge, Read, ReadReturns, vars

(* A purge never costs a proof by one of the authorities, of no event,     *)
(* although the iterator of RocksDB goes on past the event it is for.      *)
THEOREM PurgesKeepStandingProofs == Spec => StandingProofsKept
<1> DEFINE Kept == message' # <<>> =>
                     \A r \in stored \ stored' : r[2] \notin message[1].authorities
<1>1. StoreInv /\ [Next]_vars => [Kept]_vars
  BY RemovedRows
<1> QED
  BY <1>1, StoreInvariant, PTL DEF Spec, StandingProofsKept

(* The store in memory purges proofs of the given event alone.             *)
THEOREM PurgesInMemoryAreLocal == Spec => OnlyGivenEventPurged
<1> DEFINE Local == (kind = "in_memory" /\ message' # <<>>) =>
                      \A r \in stored \ stored' : r[1] = message[1].event
<1>1. StoreInv /\ [Next]_vars => [Local]_vars
  BY RemovedRows
<1> QED
  BY <1>1, StoreInvariant, PTL DEF Spec, OnlyGivenEventPurged

-----------------------------------------------------------------------------
(* Readers.                                                                *)

(* A failed read hides a proof from get_event_proof_count and never adds   *)
(* one; when get_event_proofs fails on none, the two agree.                *)
LEMMA ReadStep ==
  ASSUME NEW e \in Events, NEW v \in SUBSET Keys, NEW f \in SUBSET ({e} \X v), Read(e, v, f)
  PROVE  CountNeverTooHigh'
<1> DEFINE C == {k \in v : <<e, k>> \in stored \ f}
           B == ProofsBy(e, v)
<1>1. B \in SUBSET Keys /\ C \in SUBSET B
  BY DEF ProofsBy
<1>2. Cardinality(C) <= Cardinality(B) /\ Cardinality(B) \in Nat
  BY <1>1, StoresAssumption, FS_Subset, FS_CardinalityType, Zenon
<1>3. GetEventProofs(e, v, {}).keys = B
  BY DEF GetEventProofs
<1>4. read'.count \in {Cardinality(B), Cardinality(C)} /\ read'.real = Cardinality(B)
  BY <1>3 DEF Read, DefaultProofCount, GetEventProofCount
<1>5. read'.count <= read'.real
  BY <1>2, <1>4
<1>6. ASSUME read'.got # Error
      PROVE  read'.count = Cardinality(read'.got.keys)
  <2>1. \A k \in v : <<e, k>> \notin f
    BY <1>6 DEF Read, GetEventProofs
  <2>2. read'.got.keys = B
    BY <2>1, Zenon DEF Read, GetEventProofs
  <2>3. C = B
    BY <2>1 DEF ProofsBy
  <2> QED
    BY <1>4, <2>2, <2>3, Zenon
<1> QED
  BY <1>5, <1>6 DEF CountNeverTooHigh

(* No reader takes an event for witnessed because a read failed.           *)
THEOREM CountsNeverTooHigh == Spec => []CountNeverTooHigh
<1>1. Init => CountNeverTooHigh
  BY DEF Init, CountNeverTooHigh
<1>2. CountNeverTooHigh /\ [Next]_vars => CountNeverTooHigh'
  <2> SUFFICES ASSUME CountNeverTooHigh, [Next]_vars PROVE CountNeverTooHigh'
    OBVIOUS
  <2>1. CASE read' = read
    BY <2>1 DEF CountNeverTooHigh
  <2>2. CASE ReadReturns \/ Crash
    BY <2>2 DEF ReadReturns, Crash, CountNeverTooHigh
  <2>3. CASE UNCHANGED vars
    BY <2>1, <2>3 DEF vars
  <2>4. CASE \E r \in Rows : PurgeRow(r)
    BY <2>1, <2>4 DEF PurgeRow
  <2> QED
    BY <2>1, <2>2, <2>3, <2>4, ReadStep
    DEF Next, HandleMessage, AddEventProof, PurgeInMemory, StartPurge, EndPurge, CallFails
<1> QED
  BY <1>1, <1>2, PTL DEF Spec
=============================================================================
