------------------------- MODULE EventStream_proofs -------------------------
(***************************************************************************)
(* The stream of finalized events is the finalized chain, for any blocks,  *)
(* forks and finalizations.  The argument: the ancestors of a block have   *)
(* different numbers, and whatever the stream has taken for finalized is   *)
(* an ancestor of the block finalized last, which later finalizations only *)
(* build upon; so the block found under a number is the one.               *)
(***************************************************************************)
EXTENDS EventStream, TLAPS

NodeTypeOK ==
  /\ DOMAIN blocks \subseteq Hashes
  /\ blocks \in [DOMAIN blocks -> Block]
  /\ imported \in [Nodes -> SUBSET DOMAIN blocks] /\ Genesis \in imported[Node]
  /\ best \in [Nodes -> DOMAIN blocks] /\ best[Node] \in imported[Node]
  /\ finalized \in [Nodes -> DOMAIN blocks] /\ Tip \in imported[Node]

StreamTypeOK ==
  /\ {heard, last, blockId} \subseteq imported[Node]
  /\ pc \in {"closed", "ask", "check", "subscribe", "wait", "read"}
  /\ from \in Nat /\ blockNum \in Nat
  /\ inbox \in Seq(imported[Node])
  /\ sent \in Seq(Response)

(* A node has the ancestors of the blocks it has; they are a chain, with   *)
(* one block for a number.                                                 *)
TreeInv ==
  /\ \A h \in DOMAIN blocks :
        /\ h \in blocks[h].ancestors /\ blocks[h].ancestors \subseteq DOMAIN blocks
        /\ \A a \in blocks[h].ancestors :
              /\ blocks[a].ancestors \subseteq blocks[h].ancestors
              /\ blocks[a].number <= blocks[h].number
        /\ \A a, b \in blocks[h].ancestors : blocks[a].number = blocks[b].number => a = b
  /\ \A h \in imported[Node] : blocks[h].ancestors \subseteq imported[Node]

Final == blocks[Tip].ancestors

(* What the stream holds for finalized is.                                 *)
StreamInv ==
  /\ last \in Final
  /\ \A i \in 1..Len(inbox) : inbox[i] \in Final
  /\ pc = "read" => blockId \in Final /\ blocks[blockId].number = blockNum
  /\ pc = "closed" => sent = <<>>
  /\ blockNum = from + Len(sent)

(* The response for block h, the given block being the next.               *)
For(h, next, failed) ==
  [next_block |-> next, events |-> IF failed THEN {} ELSE blocks[h].events,
   failed |-> failed]

SentInv ==
  \A i \in 1..Len(sent) :
     \E h \in Final, failed \in BOOLEAN :
        blocks[h].number = from + i - 1 /\ sent[i] = For(h, from + i, failed)

IInv ==
  /\ NodeTypeOK
  /\ StreamTypeOK
  /\ TreeInv
  /\ StreamInv
  /\ SentInv

-----------------------------------------------------------------------------
(* The node starts with the genesis block and no stream.                   *)
LEMMA InitInv == Init => IInv
<1> SUFFICES ASSUME Init PROVE IInv OBVIOUS
<1> USE NodeAssumption, ChainAssumption
<1>1. GenesisBlock \in Block
  BY DEF GenesisBlock, Block
<1>2. DOMAIN blocks = {Genesis} /\ blocks[Genesis] = GenesisBlock
  BY DEF Init, ChainInit
<1>3. /\ imported = [n \in Nodes |-> {Genesis}]
      /\ best = [n \in Nodes |-> Genesis] /\ finalized = [n \in Nodes |-> Genesis]
  BY DEF Init, ChainInit
<1>4. NodeTypeOK
  BY <1>1, <1>2, <1>3 DEF NodeTypeOK, Tip, Init, ChainInit
<1>5. StreamTypeOK
  BY <1>3 DEF StreamTypeOK, Init
<1>6. GenesisBlock.ancestors = {Genesis} /\ GenesisBlock.number = 0
  BY DEF GenesisBlock
<1>7. TreeInv
  BY <1>2, <1>3, <1>6 DEF TreeInv
<1>8. Genesis \in Final
  BY <1>2, <1>3, <1>6 DEF Final, Tip
<1>9. StreamInv /\ SentInv
  BY <1>8 DEF StreamInv, SentInv, Init
<1> QED BY <1>4, <1>5, <1>7, <1>9 DEF IInv

(* The last finalized block exists.                                        *)
LEMMA TipExists == IInv => Tip \in DOMAIN blocks /\ Node \in Nodes
BY NodeAssumption DEF IInv, NodeTypeOK, Tip

(* A step after which at least as much is final, and the blocks there were *)
(* are the same, leaves what was sent final.                               *)
LEMMA StaysFinal ==
  ASSUME IInv, Final \subseteq Final', UNCHANGED <<from, sent>>,
         \A h \in DOMAIN blocks : blocks'[h] = blocks[h]
  PROVE  SentInv'
<1>1. Final \subseteq DOMAIN blocks
  BY TipExists DEF IInv, TreeInv, Final
<1> SUFFICES ASSUME NEW i \in 1..Len(sent)
             PROVE  \E h \in Final', failed \in BOOLEAN :
                       /\ blocks'[h].number = from + i - 1
                       /\ sent[i] = [next_block |-> from + i,
                                     events |-> IF failed THEN {} ELSE blocks'[h].events,
                                     failed |-> failed]
  BY DEF SentInv, For
<1>2. PICK h \in Final, failed \in BOOLEAN :
         blocks[h].number = from + i - 1 /\ sent[i] = For(h, from + i, failed)
  BY DEF IInv, SentInv
<1>3. h \in Final' /\ blocks'[h] = blocks[h]
  BY <1>1, <1>2
<1> QED BY <1>2, <1>3 DEF For

(* A block that comes in is a leaf of the tree.                            *)
LEMMA ImportInv ==
  ASSUME IInv, NEW h \in Hashes, NEW p \in DOMAIN blocks, NEW evs \in SUBSET Events,
         ImportBlock(h, p, evs)
  PROVE  IInv'
<1> USE DEF IInv
<1> DEFINE block == ValidateEvents(h, p, evs, AuthoritiesAt(p))
<1>1. /\ h \notin DOMAIN blocks /\ p \in imported[Node]
      /\ blocks' = [x \in DOMAIN blocks \cup {h} |-> IF x = h THEN block ELSE blocks[x]]
      /\ imported' = [imported EXCEPT ![Node] = @ \cup {h}]
      /\ best' = [best EXCEPT ![Node] = BestAfterImport(Node, h, blocks[p].number + 1)]
      /\ UNCHANGED <<finalized, pc, from, blockNum, last, blockId, inbox, sent, heard>>
  BY DEF ImportBlock, Importable, AddBlock, streamVars
<1>2. blocks[p] \in Block /\ p \in Hashes
  BY DEF NodeTypeOK
<1>3. /\ block \in Block
      /\ block.number = blocks[p].number + 1
      /\ block.ancestors = blocks[p].ancestors \cup {h}
  BY <1>2 DEF ValidateEvents, AuthoritiesAt, Block
<1> HIDE DEF block
<1>4. /\ DOMAIN blocks' = DOMAIN blocks \cup {h}
      /\ \A x \in DOMAIN blocks : blocks'[x] = blocks[x]
      /\ blocks'[h] = block
  BY <1>1
<1>5. Node \in Nodes
  BY NodeAssumption
<1>6. imported'[Node] = imported[Node] \cup {h} /\ imported' \in [Nodes -> SUBSET DOMAIN blocks']
  BY <1>1, <1>4, <1>5 DEF NodeTypeOK
<1>7. NodeTypeOK'
  <2>1. blocks' \in [DOMAIN blocks' -> Block]
    BY <1>1, <1>3, <1>4 DEF NodeTypeOK
  <2>2. BestAfterImport(Node, h, blocks[p].number + 1) \in {h, best[Node]}
    BY DEF BestAfterImport
  <2>3. best' \in [Nodes -> DOMAIN blocks'] /\ best'[Node] \in imported'[Node]
    BY <1>1, <1>4, <1>5, <1>6, <2>2 DEF NodeTypeOK
  <2> QED BY <1>1, <1>4, <1>6, <2>1, <2>3 DEF NodeTypeOK, Tip
<1>8. StreamTypeOK'
  <2>1. inbox' \in Seq(imported'[Node])
    BY <1>1, <1>6 DEF StreamTypeOK
  <2> QED BY <1>1, <1>6, <2>1 DEF StreamTypeOK
<1>9. TreeInv'
  <2>1. \A x \in DOMAIN blocks : blocks[x] \in Block /\ blocks[x].number \in Nat
    BY DEF NodeTypeOK, Block
  <2>2. blocks[p].ancestors \subseteq DOMAIN blocks
    BY DEF TreeInv
  <2>3. \A a \in blocks[p].ancestors : blocks[a].number < block.number
    BY <1>3, <2>1, <2>2 DEF TreeInv
  <2>4. ASSUME NEW x \in DOMAIN blocks'
        PROVE  /\ x \in blocks'[x].ancestors /\ blocks'[x].ancestors \subseteq DOMAIN blocks'
               /\ \A a \in blocks'[x].ancestors :
                     /\ blocks'[a].ancestors \subseteq blocks'[x].ancestors
                     /\ blocks'[a].number <= blocks'[x].number
               /\ \A a, b \in blocks'[x].ancestors :
                     blocks'[a].number = blocks'[b].number => a = b
    <3>1. CASE x # h
      BY <1>4, <3>1 DEF TreeInv
    <3>2. CASE x = h
      <4>1. blocks'[x].ancestors = blocks[p].ancestors \cup {h}
        BY <1>3, <1>4, <3>2
      <4>2. \A a \in blocks[p].ancestors :
               blocks'[a] = blocks[a] /\ blocks[a].ancestors \subseteq blocks[p].ancestors
        BY <1>4, <2>2 DEF TreeInv
      <4>3. block.number \in Nat
        BY <1>3 DEF Block
      <4>4. blocks'[x].ancestors \subseteq DOMAIN blocks' /\ x \in blocks'[x].ancestors
        BY <1>4, <2>2, <3>2, <4>1
      <4>5. ASSUME NEW a \in blocks'[x].ancestors
            PROVE  /\ blocks'[a].ancestors \subseteq blocks'[x].ancestors
                   /\ blocks'[a].number <= blocks'[x].number
        BY <1>3, <1>4, <2>1, <2>2, <2>3, <3>2, <4>1, <4>2, <4>3
      <4>6. ASSUME NEW a \in blocks'[x].ancestors, NEW b \in blocks'[x].ancestors,
                   blocks'[a].number = blocks'[b].number
            PROVE  a = b
        <5>1. CASE a \in blocks[p].ancestors /\ b \in blocks[p].ancestors
          BY <4>2, <4>6, <5>1 DEF TreeInv
        <5>2. CASE a = h \/ b = h
          BY <1>4, <2>1, <2>2, <2>3, <4>1, <4>2, <4>3, <4>6, <5>2
        <5> QED BY <4>1, <5>1, <5>2
      <4> QED BY <4>4, <4>5, <4>6
    <3> QED BY <3>1, <3>2
  <2>5. \A x \in imported'[Node] : blocks'[x].ancestors \subseteq imported'[Node]
    BY <1>1, <1>3, <1>4, <1>6 DEF TreeInv, NodeTypeOK
  <2> QED BY <2>4, <2>5 DEF TreeInv
<1>10. Final' = Final /\ Final \subseteq DOMAIN blocks
  BY <1>1, <1>4, TipExists DEF Final, Tip, TreeInv
<1>11. StreamInv'
  BY <1>1, <1>4, <1>10 DEF StreamInv
<1>12. SentInv'
  BY <1>1, <1>4, <1>10, StaysFinal
<1> QED BY <1>7, <1>8, <1>9, <1>11, <1>12
(* A block above the last finalized one is finalized: its ancestors        *)
(* include all that was final.                                             *)
LEMMA FinalizeInv ==
  ASSUME IInv, NEW h \in DOMAIN blocks, FinalizeBlock(h)
  PROVE  IInv'
<1> USE DEF IInv
<1>1. /\ h \in imported[Node] /\ Tip \in blocks[h].ancestors
      /\ finalized' = [finalized EXCEPT ![Node] = h]
      /\ UNCHANGED <<blocks, imported, pc, from, blockNum, last, blockId, sent>>
      /\ heard' \in {h, heard}
      /\ inbox' = Append(inbox, h) \/ inbox' = inbox
  BY DEF FinalizeBlock
<1>2. PICK b \in BestAfterFinality(Node, h) : best' = [best EXCEPT ![Node] = b]
  BY DEF FinalizeBlock
<1>3. b \in imported[Node] /\ b \in DOMAIN blocks
  BY NodeAssumption DEF BestAfterFinality, NodeTypeOK
<1>4. Tip' = h
  BY <1>1, NodeAssumption DEF Tip, NodeTypeOK
<1>5. NodeTypeOK'
  BY <1>1, <1>2, <1>3, <1>4, NodeAssumption DEF NodeTypeOK
<1>6. StreamTypeOK'
  <2>1. inbox \in Seq(imported[Node])
    BY DEF StreamTypeOK
  <2>2. inbox' \in Seq(imported[Node])
    <3>1. CASE inbox' = inbox
      BY <2>1, <3>1
    <3>2. CASE inbox' = Append(inbox, h)
      BY <1>1, <2>1, <3>2
    <3> QED BY <1>1, <3>1, <3>2
  <2> QED BY <1>1, <2>2 DEF StreamTypeOK
<1>7. TreeInv'
  BY <1>1 DEF TreeInv
<1>8. Final \subseteq Final' /\ h \in Final'
  BY <1>1, <1>4, TipExists DEF Final, TreeInv
<1>9. StreamInv'
  <2>1. \A i \in 1..Len(inbox') : inbox'[i] \in Final'
    <3>1. CASE inbox' = inbox
      BY <1>8, <3>1 DEF StreamInv
    <3>2. CASE inbox' = Append(inbox, h)
      <4>1. /\ Len(inbox') = Len(inbox) + 1 /\ Len(inbox) \in Nat
            /\ \A i \in 1..Len(inbox) : inbox'[i] = inbox[i]
            /\ inbox'[Len(inbox) + 1] = h
        BY <1>1, <3>2 DEF StreamTypeOK
      <4> QED BY <1>8, <4>1 DEF StreamInv
    <3> QED BY <1>1, <3>1, <3>2
  <2> QED BY <1>1, <1>8, <2>1 DEF StreamInv
<1>10. SentInv'
  BY <1>1, <1>8, StaysFinal
<1> QED BY <1>5, <1>6, <1>7, <1>9, <1>10

(* The stream opens, asks, waits and finds blocks without touching the     *)
(* node.                                                                   *)
LEMMA WaitingInv ==
  ASSUME IInv,
         \/ \E number \in Nat : OpenAt(number)
         \/ AskForBlock \/ FindBlock \/ BlockNotReady \/ LookupFails
         \/ Subscribe \/ Notified
  PROVE  IInv'
<1> USE DEF IInv
<1>1. UNCHANGED <<chainVars, sent>> /\ heard' \in {heard, Genesis}
  BY DEF OpenAt, AskForBlock, FindBlock, BlockNotReady, LookupFails, Subscribe, Notified
<1>2. NodeTypeOK' /\ TreeInv' /\ Final' = Final /\ imported' = imported
  BY <1>1 DEF NodeTypeOK, TreeInv, Final, Tip, chainVars
<1>3. Tip \in Final /\ Final \subseteq imported[Node]
  BY TipExists DEF TreeInv, Final, NodeTypeOK
<1>4. CASE \E number \in Nat : OpenAt(number)
  <2>1. StreamTypeOK' /\ StreamInv'
    BY <1>1, <1>2, <1>4 DEF OpenAt, StreamTypeOK, StreamInv, chainVars
  <2>2. SentInv'
    BY <1>1, <1>4 DEF OpenAt, StreamInv, SentInv
  <2> QED BY <1>2, <2>1, <2>2
<1>5. CASE AskForBlock
  <2>1. StreamTypeOK' /\ StreamInv'
    BY <1>1, <1>2, <1>3, <1>5 DEF AskForBlock, StreamTypeOK, StreamInv, chainVars
  <2> QED BY <1>1, <1>2, <1>5, <2>1, StaysFinal DEF AskForBlock, chainVars
<1>6. CASE FindBlock
  <2>1. PICK h \in BlockHash(blockNum) : InFinalizedChain(h, last) /\ blockId' = h
    BY <1>6 DEF FindBlock
  <2>2. blocks[h].number = blockNum
    BY <2>1 DEF BlockHash
  <2>3. h \in Final
    BY <2>1, TipExists DEF InFinalizedChain, StreamInv, TreeInv, Final
  <2>4. StreamTypeOK' /\ StreamInv'
    BY <1>1, <1>2, <1>3, <1>6, <2>1, <2>2, <2>3 DEF FindBlock, StreamTypeOK, StreamInv, chainVars
  <2> QED BY <1>1, <1>2, <1>6, <2>4, StaysFinal DEF FindBlock, chainVars
<1>7. CASE BlockNotReady
  <2>1. StreamTypeOK' /\ StreamInv'
    BY <1>1, <1>2, <1>7 DEF BlockNotReady, StreamTypeOK, StreamInv, chainVars
  <2> QED BY <1>1, <1>2, <1>7, <2>1, StaysFinal DEF BlockNotReady, chainVars
<1>8. CASE LookupFails
  <2>1. StreamTypeOK' /\ StreamInv'
    BY <1>1, <1>2, <1>8 DEF LookupFails, StreamTypeOK, StreamInv, NodeTypeOK, chainVars
  <2> QED BY <1>1, <1>2, <1>8, <2>1, StaysFinal DEF LookupFails, chainVars
<1>9. CASE Subscribe
  <2>1. StreamTypeOK' /\ StreamInv'
    BY <1>1, <1>2, <1>9 DEF Subscribe, StreamTypeOK, StreamInv, chainVars
  <2> QED BY <1>1, <1>2, <1>9, <2>1, StaysFinal DEF Subscribe, chainVars
<1>10. CASE Notified
  <2>1. Head(inbox) = inbox[1] /\ 1 \in 1..Len(inbox) /\ inbox[1] \in imported[Node]
    BY <1>10 DEF Notified, StreamTypeOK
  <2>2. StreamTypeOK' /\ StreamInv'
    BY <1>1, <1>2, <1>10, <2>1 DEF Notified, StreamTypeOK, StreamInv, chainVars
  <2> QED BY <1>1, <1>2, <1>10, <2>2, StaysFinal DEF Notified, chainVars
<1> QED BY <1>4, <1>5, <1>6, <1>7, <1>8, <1>9, <1>10

(* The response for the block found, which is still final, with its events *)
(* or with none.                                                           *)
LEMMA SendInv ==
  ASSUME IInv, NEW failed \in BOOLEAN,
         Respond(IF failed THEN {} ELSE blocks[blockId].events, failed)
  PROVE  IInv'
<1> USE DEF IInv
<1> DEFINE response == For(blockId, blockNum + 1, failed)
<1>1. /\ pc = "read" /\ pc' = "ask" /\ blockNum' = blockNum + 1
      /\ sent' = Append(sent, response)
      /\ UNCHANGED <<chainVars, from, last, blockId, inbox, heard>>
  BY DEF Respond, For
<1>2. NodeTypeOK' /\ TreeInv' /\ Final' = Final /\ imported' = imported /\ blocks' = blocks
  BY <1>1 DEF NodeTypeOK, TreeInv, Final, Tip, chainVars
<1>3. blockId \in DOMAIN blocks
  BY NodeAssumption DEF StreamTypeOK, NodeTypeOK
<1>4. response \in Response
  <2>1. blocks[blockId].events \in SUBSET Events
    BY <1>3 DEF NodeTypeOK, Block
  <2> QED BY <2>1 DEF Response, StreamTypeOK, For
<1>5. response = For(blockId, from + (Len(sent) + 1), failed)
  BY DEF StreamInv, StreamTypeOK
<1> HIDE DEF response
<1>6. /\ sent' \in Seq(Response) /\ Len(sent') = Len(sent) + 1 /\ Len(sent) \in Nat
      /\ \A i \in 1..Len(sent) : sent'[i] = sent[i]
      /\ sent'[Len(sent) + 1] = response
  BY <1>1, <1>4 DEF StreamTypeOK
<1>7. StreamTypeOK'
  BY <1>1, <1>2, <1>6 DEF StreamTypeOK
<1>8. StreamInv'
  BY <1>1, <1>2, <1>6 DEF StreamInv, StreamTypeOK
<1>9. SentInv'
  <2> SUFFICES ASSUME NEW i \in 1..(Len(sent) + 1)
               PROVE  \E h \in Final, f \in BOOLEAN :
                         blocks[h].number = from + i - 1 /\ sent'[i] = For(h, from + i, f)
    BY <1>1, <1>2, <1>6 DEF SentInv, For
  <2>1. CASE i \in 1..Len(sent)
    BY <1>6, <2>1 DEF SentInv
  <2>2. CASE i = Len(sent) + 1
    <3>1. blockId \in Final /\ blocks[blockId].number = from + i - 1
      BY <1>1, <1>6, <2>2 DEF StreamInv, StreamTypeOK
    <3> QED BY <1>5, <1>6, <2>2, <3>1
  <2> QED BY <1>6, <2>1, <2>2
<1> QED BY <1>2, <1>7, <1>8, <1>9

(* Every step of the node and the stream keeps the invariant.              *)
LEMMA NextInv == IInv /\ [Next]_vars => IInv'
<1> SUFFICES ASSUME IInv, [Next]_vars PROVE IInv' OBVIOUS
<1>1. ASSUME NEW number \in Numbers, OpenAt(number) PROVE IInv'
  BY <1>1, WaitingInv DEF Numbers
<1>2. CASE OpenAtLatest
  <2>1. blocks[Tip].number \in Nat
    BY TipExists DEF IInv, NodeTypeOK, Block
  <2> QED BY <1>2, <2>1, WaitingInv DEF OpenAtLatest
<1>3. CASE Stream
  <2>1. CASE SendEvents
    BY <2>1, SendInv DEF SendEvents
  <2>2. CASE SendDefault
    BY <2>2, SendInv DEF SendDefault
  <2> QED BY <1>3, <2>1, <2>2, WaitingInv DEF Stream
<1>4. CASE UNCHANGED vars
  <2>1. Final' = Final /\ NodeTypeOK' /\ TreeInv'
    BY <1>4 DEF vars, chainVars, Final, Tip, IInv, NodeTypeOK, TreeInv
  <2>2. StreamTypeOK' /\ StreamInv'
    BY <1>4, <2>1 DEF vars, chainVars, streamVars, IInv, StreamTypeOK, StreamInv
  <2>3. SentInv'
    BY <1>4, <2>1, StaysFinal DEF vars, chainVars, streamVars
  <2> QED BY <2>1, <2>2, <2>3 DEF IInv
<1> QED BY <1>1, <1>2, <1>3, <1>4, ImportInv, FinalizeInv DEF Next

(* The stream and the node it reads from are well formed: every block the  *)
(* stream remembers is one the node has imported.                          *)
THEOREM TypeCorrect == Spec => []TypeOK
<1>1. IInv => TypeOK
  <2> SUFFICES ASSUME IInv PROVE TypeOK OBVIOUS
  <2>1. imported[Node] \subseteq DOMAIN blocks /\ DOMAIN blocks \subseteq Hashes
    BY NodeAssumption DEF IInv, NodeTypeOK
  <2>2. inbox \in Seq(Hashes)
    BY <2>1 DEF IInv, StreamTypeOK
  <2> QED BY <2>1, <2>2 DEF IInv, NodeTypeOK, StreamTypeOK, TypeOK
<1> QED BY InitInv, NextInv, <1>1, PTL DEF Spec

(* The client is sent the finalized chain from the block it asked for on,  *)
(* although get_finalized_block_events looks numbers up on the best chain  *)
(* and checks them against a finalized block that may be an old one.       *)
THEOREM StreamsFinalizedChain == Spec => []StreamIsFinalizedChain
<1>1. IInv => StreamIsFinalizedChain
  <2> SUFFICES ASSUME IInv, NEW i \in 1..Len(sent)
               PROVE  /\ sent[i].next_block = from + i - 1 + 1
                      /\ from + i - 1 <= blocks[Tip].number
                      /\ sent[i].events = IF sent[i].failed THEN {}
                                          ELSE FinalizedEvents(from + i - 1)
    BY DEF StreamIsFinalizedChain
  <2>1. PICK h \in Final, failed \in BOOLEAN :
           blocks[h].number = from + i - 1 /\ sent[i] = For(h, from + i, failed)
    BY DEF IInv, SentInv
  <2>2. from \in Nat /\ i \in Nat
    BY DEF IInv, StreamTypeOK
  <2>3. blocks[h].number <= blocks[Tip].number
    BY <2>1, TipExists DEF IInv, TreeInv, Final
  <2>4. {a \in blocks[Tip].ancestors : blocks[a].number = from + i - 1} = {h}
    BY <2>1, TipExists DEF IInv, TreeInv, Final
  <2>5. FinalizedEvents(from + i - 1) = blocks[h].events
    BY <2>4 DEF FinalizedEvents
  <2> QED BY <2>1, <2>2, <2>3, <2>5 DEF For
<1> QED BY InitInv, NextInv, <1>1, PTL DEF Spec
=============================================================================
