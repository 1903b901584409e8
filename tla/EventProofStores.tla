-------------------------- MODULE EventProofStores --------------------------
(***************************************************************************)
(* The two other stores of event proofs: InMemoryEventProofs               *)
(* (consensus/src/proofs/in_memory.rs), where a mutex makes each call one  *)
(* step, and RocksDbEventProofs (consensus/src/proofs/rocksdb.rs), where   *)
(* every row is written on its own, a crash can come between any two       *)
(* writes, and calls and reads can fail.  The writer is the gossip task,   *)
(* which adds a proof by one of the authorities and then purges the event  *)
(* with those authorities (events/gossip.rs); readers come at any time.    *)
(***************************************************************************)
EXTENDS Naturals, FiniteSets, Functions

CONSTANTS Keys, LastEvent, Signatures

ASSUME StoresAssumption == IsFiniteSet(Keys) /\ LastEvent \in Nat

Events == 1..LastEvent     \* event ids in the order of their bytes
Rows == Events \X Keys

VARIABLES
  kind,     \* the store the node was built with
  proofs,   \* the signatures of the rows <<event, key>> that are stored
  message,  \* the witnessed event being handled, and the authorities
  step,     \* "idle", "add", "added", "purge" or "purged"
  scan,     \* the rows the iterator of a purge has yet to yield
  read      \* what the last reader was given

vars == <<kind, proofs, message, step, scan, read>>

Message == [event : Events, key : Keys, signature : Signatures,
            authorities : SUBSET Keys]
Error == [error |-> TRUE]
NoRead == [error |-> FALSE]
stored == DOMAIN proofs

Init ==
  /\ kind \in {"in_memory", "rocksdb"}
  /\ proofs = <<>>
  /\ message = <<>> /\ scan = {}
  /\ step = "idle"
  /\ read = NoRead

HandleMessage(m) ==
  /\ step \in {"idle", "purged"}
  /\ m.key \in m.authorities
  /\ message' = <<m>>
  /\ step' = "add"
  /\ UNCHANGED <<kind, proofs, scan, read>>

-----------------------------------------------------------------------------
(* add_event_proof                                                         *)
Put(row, signature) ==
  [r \in stored \cup {row} |-> IF r = row THEN signature ELSE proofs[r]]

(* In memory the entry is filled only when it is vacant.                   *)
Insert(row, signature) ==
  IF row \in stored THEN proofs ELSE Put(row, signature)

AddEventProof ==
  LET m   == message[1]
      row == <<m.event, m.key>>
  IN  /\ step = "add"
      /\ \/ kind = "in_memory" /\ proofs' = Insert(row, m.signature)
         \/ kind = "rocksdb" /\ proofs' = Put(row, m.signature)
      /\ step' = "added"
      /\ UNCHANGED <<kind, message, scan, read>>

-----------------------------------------------------------------------------
(* purge_event_stale_signatures                                            *)

(* The stale proofs of every event go.                                     *)
MutantRetain(e, authorities) == {r \in stored : r[2] \in authorities}

Retain(e, authorities) == {r \in stored : r[1] = e => r[2] \in authorities}

PurgeInMemory ==
  /\ kind = "in_memory" /\ step = "added"
  /\ proofs' = Restrict(proofs, Retain(message[1].event, message[1].authorities))
  /\ step' = "purged"
  /\ UNCHANGED <<kind, message, scan, read>>

(* An iterator that starts after the first row of the event.               *)
MutantPrefixIterator(e) ==
  {r \in stored : r[1] >= e} \ {CHOOSE r \in stored : r[1] = e}

(* RocksDB: prefix_iterator positions itself at the first row of the       *)
(* prefix, in a snapshot of the rows.  Without a prefix extractor, which   *)
(* open_default does not set, nothing stops it where the prefix ends.      *)
PrefixIterator(e) == {r \in stored : r[1] >= e}

StartPurge ==
  /\ kind = "rocksdb" /\ step = "added"
  /\ scan' = PrefixIterator(message[1].event)
  /\ step' = "purge"
  /\ UNCHANGED <<kind, proofs, message, read>>

(* A purge that deletes the rows of the other authorities.                 *)
MutantPurgeRow(r) ==
  /\ step = "purge"
  /\ r \in scan /\ \A q \in scan : r[1] <= q[1]
  /\ scan' = scan \ {r}
  /\ proofs' = IF r[2] \in message[1].authorities \ {message[1].key}
                 THEN Restrict(proofs, stored \ {r}) ELSE proofs
  /\ UNCHANGED <<kind, message, step, read>>

PurgeRow(r) ==
  /\ step = "purge"
  /\ r \in scan /\ \A q \in scan : r[1] <= q[1]
  /\ scan' = scan \ {r}
  /\ proofs' = IF r[2] \in message[1].authorities
                 THEN proofs ELSE Restrict(proofs, stored \ {r})
  /\ UNCHANGED <<kind, message, step, read>>

EndPurge ==
  /\ step = "purge" /\ scan = {}
  /\ step' = "purged"
  /\ UNCHANGED <<kind, proofs, message, scan, read>>

(* RocksDB: a put, the iterator or a delete fails.  The call returns the   *)
(* error, and what was deleted so far stays deleted.                       *)
CallFails ==
  /\ kind = "rocksdb" /\ step \in {"add", "purge"}
  /\ message' = <<>> /\ scan' = {}
  /\ step' = "idle"
  /\ UNCHANGED <<kind, proofs, read>>

-----------------------------------------------------------------------------
(* The readers; multi_get reads one snapshot and failing is the set of     *)
(* rows whose read ends in an error, none of them in memory.               *)
ProofsBy(e, validators) == {k \in validators : <<e, k>> \in stored}

GetEventProofs(e, validators, failing) ==
  IF \E k \in validators : <<e, k>> \in failing
    THEN Error
    ELSE [error |-> FALSE, keys |-> ProofsBy(e, validators)]

(* The trait's own get_event_proof_count, which the store in memory uses.  *)
DefaultProofCount(e, validators) == Cardinality(GetEventProofs(e, validators, {}).keys)

(* A count that takes a failed read for a proof.                           *)
MutantGetEventProofCount(e, validators, failing) ==
  Cardinality({k \in validators : <<e, k>> \in stored \cup failing})

(* RocksDB counts by reads of its own, leaving out those that fail.        *)
GetEventProofCount(e, validators, failing) ==
  Cardinality({k \in validators : <<e, k>> \in stored \ failing})

Read(e, validators, failing) ==
  /\ read = NoRead
  /\ kind = "in_memory" => failing = {}
  /\ read' = [count |-> IF kind = "in_memory" THEN DefaultProofCount(e, validators)
                        ELSE GetEventProofCount(e, validators, failing),
              got   |-> GetEventProofs(e, validators, failing),
              real  |-> Cardinality(ProofsBy(e, validators))]
  /\ UNCHANGED <<kind, proofs, message, step, scan>>

ReadReturns ==
  /\ read # NoRead
  /\ read' = NoRead
  /\ UNCHANGED <<kind, proofs, message, step, scan>>

(* The rows of RocksDB survive; the handler and the iterator do not.       *)
Crash ==
  /\ proofs' = IF kind = "rocksdb" THEN proofs ELSE <<>>
  /\ message' = <<>> /\ scan' = {}
  /\ step' = "idle"
  /\ read' = NoRead
  /\ UNCHANGED kind

-----------------------------------------------------------------------------
Next ==
  \/ \E m \in Message : HandleMessage(m)
  \/ AddEventProof
  \/ PurgeInMemory
  \/ StartPurge
  \/ \E r \in Rows : PurgeRow(r)
  \/ EndPurge
  \/ CallFails
  \/ \E e \in Events, v \in SUBSET Keys : \E f \in SUBSET ({e} \X v) : Read(e, v, f)
  \/ ReadReturns
  \/ Crash

Spec == Init /\ [][Next]_vars

-----------------------------------------------------------------------------
(* Whatever crashed or failed before, when a purge returns the event has   *)
(* proofs by its authorities only, the one just added among them: a purge  *)
(* cut short leaves nothing that the next one cannot find (rocksdb.rs, the *)
(* rows are their own index).                                              *)
PurgedOfStaleProofs ==
  step = "purged" =>
    /\ \A k \in Keys :
         <<message[1].event, k>> \in stored => k \in message[1].authorities
    /\ <<message[1].event, message[1].key>> \in stored

(* While the process runs, a proof by one of the current authorities is    *)
(* never removed, of no event: the rows the iterator of RocksDB yields in  *)
(* excess only cost stale proofs.                                          *)
StandingProofsKept ==
  [][message' # <<>> =>
       \A r \in stored \ stored' : r[2] \notin message[1].authorities]_vars

(* In memory a purge removes proofs of the given event alone, as proofs/   *)
(* mod.rs has it.  RocksDB's iterator can go on to later events.           *)
OnlyGivenEventPurged ==
  [][(kind = "in_memory" /\ message' # <<>>) =>
       \A r \in stored \ stored' : r[1] = message[1].event]_vars

(* A failed read can hide a proof from the count and never adds one, so an *)
(* event is never taken for witnessed because of it; the count agrees with *)
(* the proofs get_event_proofs returns whenever it returns any ("Equiva-   *)
(* lent to", proofs/mod.rs).                                               *)
CountNeverTooHigh ==
  read # NoRead =>
    /\ read.count <= read.real
    /\ read.got # Error => read.count = Cardinality(read.got.keys)
=============================================================================
