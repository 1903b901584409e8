---------------------------- MODULE EventStream ----------------------------
(***************************************************************************)
(* The stream of finalized events a trusted client reads from its node:    *)
(* validated_events (consensus/src/server.rs) asks                         *)
(* get_finalized_block_events (consensus/src/events/validate.rs) for one   *)
(* block number after the other, while the node imports forks, changes its *)
(* best chain and finalizes.  One action per access to the client that     *)
(* another task can come between.                                          *)
(***************************************************************************)
EXTENDS Chain, Sequences

CONSTANT Node   \* the node the client is connected to

ASSUME NodeAssumption == Nodes = {Node}

VARIABLES
  pc,         \* what the stream does next
  from,       \* the block number the stream started with
  blockNum,   \* the number being asked for
  last,       \* last_finalized
  blockId,    \* block_id, once the loop has found it
  inbox,      \* what the notification stream holds; only its head is read
  sent,       \* the responses, in order
  heard       \* the last block whose finalization found the stream waiting,
              \* the genesis block if there is none or a lookup failed since
              \* (only to state a property)

streamVars == <<pc, from, blockNum, last, blockId, inbox, sent>>
vars == <<chainVars, streamVars, heard>>

Tip == finalized[Node]

(* failed only serves to state a property: the events could not be read.   *)
Response == [next_block : Nat, events : SUBSET Events, failed : BOOLEAN]

TypeOK ==
  /\ DOMAIN blocks \subseteq Hashes
  /\ \A h \in DOMAIN blocks : blocks[h] \in Block
  /\ {Tip, best[Node], heard, last, blockId} \subseteq imported[Node]
  /\ imported[Node] \subseteq DOMAIN blocks
  /\ pc \in {"closed", "ask", "check", "subscribe", "wait", "read"}
  /\ {from, blockNum} \subseteq Nat
  /\ inbox \in Seq(Hashes)
  /\ sent \in Seq(Response)

Init ==
  /\ ChainInit
  /\ pc = "closed"
  /\ from = 0 /\ blockNum = 0
  /\ last = Genesis /\ blockId = Genesis
  /\ inbox = <<>>
  /\ sent = <<>>
  /\ heard = Genesis

-----------------------------------------------------------------------------
(* The node.                                                               *)

(* A block arrives; an empty one counts too, for it is streamed as well.   *)
ImportBlock(h, p, evs) ==
  /\ h \notin DOMAIN blocks
  /\ Importable(Node, h, p)
  /\ AddBlock(h, ValidateEvents(h, p, evs, AuthoritiesAt(p)))
  /\ imported' = [imported EXCEPT ![Node] = @ \cup {h}]
  /\ best' = [best EXCEPT ![Node] = BestAfterImport(Node, h, blocks[p].number + 1)]
  /\ UNCHANGED <<finalized, justified, streamVars, heard>>

(* Everything up to h is finalized; those subscribed by now are notified.  *)
FinalizeBlock(h) ==
  /\ h \in imported[Node]
  /\ h # Tip
  /\ Tip \in blocks[h].ancestors
  /\ finalized' = [finalized EXCEPT ![Node] = h]
  /\ justified' = h
  /\ \E b \in BestAfterFinality(Node, h) : best' = [best EXCEPT ![Node] = b]
  /\ heard' = IF pc = "wait" /\ inbox = <<>> THEN h ELSE heard
  /\ inbox' = IF pc = "wait" THEN Append(inbox, h) ELSE inbox
  /\ UNCHANGED <<blocks, imported, pc, from, blockNum, last, blockId, sent>>

(* client.block_hash: the block with the given number on the best chain.   *)
BlockHash(number) ==
  {h \in blocks[best[Node]].ancestors : blocks[h].number = number}

-----------------------------------------------------------------------------
(* validated_events, with the from_block of the request.                   *)
OpenAt(number) ==
  /\ pc = "closed"
  /\ from' = number
  /\ blockNum' = number
  /\ pc' = "ask"
  /\ UNCHANGED <<chainVars, last, blockId, inbox, sent, heard>>

(* from_latest without a from_block: start with the last finalized block.  *)
OpenAtLatest ==
  OpenAt(blocks[Tip].number)

(* get_finalized_block_events starts.                                      *)
AskForBlock ==
  /\ pc = "ask"
  /\ last' = Tip
  /\ pc' = "check"
  /\ UNCHANGED <<chainVars, from, blockNum, blockId, inbox, sent, heard>>

(* A test that takes every block of the best chain for finalized.          *)
MutantOnBestChain(h, tip) == TRUE

(* h is the lowest common ancestor of itself and the given finalized tip.  *)
InFinalizedChain(h, tip) == h \in blocks[tip].ancestors

FindBlock ==
  /\ pc = "check"
  /\ \E h \in BlockHash(blockNum) :
       /\ InFinalizedChain(h, last)
       /\ blockId' = h
  /\ pc' = "read"
  /\ UNCHANGED <<chainVars, from, blockNum, last, inbox, sent, heard>>

BlockNotReady ==
  /\ pc = "check"
  /\ \A h \in BlockHash(blockNum) : ~InFinalizedChain(h, last)
  /\ pc' = "subscribe"
  /\ UNCHANGED <<chainVars, from, blockNum, last, blockId, inbox, sent, heard>>

(* block_hash or lowest_common_ancestor returns an error: the loop goes on *)
(* to wait, final or not.                                                  *)
LookupFails ==
  /\ pc = "check"
  /\ pc' = "subscribe"
  /\ heard' = Genesis
  /\ UNCHANGED <<chainVars, from, blockNum, last, blockId, inbox, sent>>

(* finality_notification_stream: only later finalizations are seen.        *)
Subscribe ==
  /\ pc = "subscribe"
  /\ inbox' = <<>>
  /\ pc' = "wait"
  /\ UNCHANGED <<chainVars, from, blockNum, last, blockId, sent, heard>>

(* A wait that keeps the finalized block it read at the start.             *)
MutantStaleFinalized ==
  /\ pc = "wait"
  /\ inbox # <<>>
  /\ inbox' = <<>>
  /\ pc' = "check"
  /\ UNCHANGED <<chainVars, from, blockNum, last, blockId, sent, heard>>

(* The notification stream is dropped with what else it holds.             *)
Notified ==
  /\ pc = "wait"
  /\ inbox # <<>>
  /\ last' = Head(inbox)
  /\ inbox' = <<>>
  /\ pc' = "check"
  /\ UNCHANGED <<chainVars, from, blockNum, blockId, sent, heard>>

(* The response for a block with the given events, and the next number.    *)
Respond(events, failed) ==
  /\ pc = "read"
  /\ sent' = Append(sent, [next_block |-> blockNum + 1, events |-> events,
                           failed |-> failed])
  /\ blockNum' = blockNum + 1
  /\ pc' = "ask"
  /\ UNCHANGED <<chainVars, from, last, blockId, inbox, heard>>

(* A response with the block's hash where its events belong.               *)
MutantHashForEvents == Respond({blockId}, FALSE)

SendEvents == Respond(blocks[blockId].events, FALSE)

(* block_body or get_extrinsic_ids fails: unwrap_or_default.               *)
SendDefault == Respond({}, TRUE)

-----------------------------------------------------------------------------
Stream ==
  \/ AskForBlock
  \/ FindBlock
  \/ BlockNotReady
  \/ LookupFails
  \/ Subscribe
  \/ Notified
  \/ SendEvents
  \/ SendDefault

Numbers == 0..Cardinality(Hashes)

Next ==
  \/ \E h \in Hashes, p \in DOMAIN blocks, evs \in SUBSET Events : ImportBlock(h, p, evs)
  \/ \E h \in DOMAIN blocks : FinalizeBlock(h)
  \/ \E number \in Numbers : OpenAt(number)
  \/ OpenAtLatest
  \/ Stream

Spec == Init /\ [][Next]_vars

(* The runtime polls the stream while the client reads from it.            *)
FairSpec == Spec /\ WF_vars(Stream)

-----------------------------------------------------------------------------
(* Properties.                                                             *)

(* The events finalized under the given number.                            *)
FinalizedEvents(number) ==
  UNION {blocks[h].events : h \in {a \in blocks[Tip].ancestors : blocks[a].number = number}}

(* The responses are the finalized chain from the requested block on: no   *)
(* gap, no repetition, nothing of a fork and nothing that is not final,    *)
(* although block numbers are looked up on the best chain, which may be    *)
(* another by the time of the response.  Where a call to the client failed *)
(* the response is empty, and the block's events are never sent.           *)
StreamIsFinalizedChain ==
  \A i \in 1..Len(sent) :
    LET number == from + i - 1
    IN  /\ sent[i].next_block = number + 1
        /\ number <= blocks[Tip].number
        /\ sent[i].events =
             IF sent[i].failed THEN {} ELSE FinalizedEvents(number)

Delivered(number) == from + Len(sent) > number

(* A finalization that finds the stream waiting wakes it up, and all that  *)
(* is final by then reaches the client, the blocks the wait was not for    *)
(* included, unless a lookup fails first, after which the stream waits for *)
(* the next finalization (validate.rs, the loop).  Finalizations that come *)
(* between the check and the subscription, or behind the one that is       *)
(* received, wake nobody, so the client may wait for a block that is final.*)
HeardBlocksDelivered ==
  \A number \in Numbers :
    (heard # Genesis /\ from <= number /\ number <= blocks[heard].number)
      ~> Delivered(number) \/ heard = Genesis
=============================================================================
