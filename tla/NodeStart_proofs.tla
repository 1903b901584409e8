-------------------------- MODULE NodeStart_proofs --------------------------
(***************************************************************************)
(* Proofs about the start of a node, for any numbers of addresses and      *)
(* requests, any multiaddress and any --gossip-port.                       *)
(*                                                                         *)
(* The channel of orders (GossipChannel): until the service runs, the      *)
(* channel holds at most one order per sender, so whoever waits for room   *)
(* waits behind more requests, addresses and peers than the channel was    *)
(* made for; and the order to dial is behind every order to listen.        *)
(*                                                                         *)
(* The addresses (NetworkConfig): adjust_multiaddr is a permutation of the *)
(* protocols that is its own inverse, with the last port adjusted.         *)
(***************************************************************************)
EXTENDS NodeStart, FiniteSetTheorems, WellFoundedInduction, TLAPS

ActiveAddresses == {a \in Addresses : state[a] # "idle"}
ActiveDialer == IF state[Dialer] = "idle" THEN 0 ELSE 1

StartupInv ==
  task # "run" =>
    Len(queue) <= Cardinality(Made) + Cardinality(ActiveAddresses) + ActiveDialer

Ahead(a, n) == a \in tried \/ \E j \in 1..n : queue[j] = a

OrderInv ==
  /\ \A a \in Addresses : state[a] # "idle" => Ahead(a, Len(queue))
  /\ \A i \in 1..Len(queue) :
        queue[i] = Dialer => \A a \in Addresses : Ahead(a, i - 1)
  /\ \A i \in 1..Len(parked) : state[parked[i]] # "idle"

-----------------------------------------------------------------------------
(* The requests and the addresses in use are finitely many.                *)
LEMMA ActiveFinite ==
  /\ IsFiniteSet(Made) /\ Cardinality(Made) \in Nat
  /\ IsFiniteSet(ActiveAddresses) /\ Cardinality(ActiveAddresses) \in Nat
  /\ Cardinality(ActiveAddresses) <= Cardinality(Addresses)
  /\ Cardinality(Addresses) \in Nat
<1>1. Made \subseteq Requests /\ ActiveAddresses \subseteq Addresses
  BY DEF Made, ActiveAddresses
<1> QED BY <1>1, ChannelAssumption, FS_Subset, FS_CardinalityType

(* What Append does to the channel.                                        *)
LEMMA QueueGrows ==
  ASSUME queue \in Seq(Senders), NEW s \in Senders, queue' = Append(queue, s)
  PROVE  /\ Len(queue) \in Nat /\ Len(queue') = Len(queue) + 1 /\ queue' \in Seq(Senders)
         /\ \A i \in 1..Len(queue) : queue'[i] = queue[i]
         /\ queue'[Len(queue) + 1] = s
OBVIOUS

(* What a receive does to the channel.                                     *)
LEMMA QueueShrinks ==
  ASSUME queue \in Seq(Senders), queue # <<>>, queue' = Tail(queue)
  PROVE  /\ Len(queue) \in Nat /\ Len(queue) > 0 /\ Len(queue') = Len(queue) - 1
         /\ queue' \in Seq(Senders)
         /\ \A i \in 1..Len(queue') : queue'[i] = queue[i + 1]
         /\ Head(queue) = queue[1] /\ Head(queue) \in Senders
OBVIOUS

(* A send keeps the channel and the senders well formed.                   *)
LEMMA EnqueueType ==
  ASSUME TypeOK, NEW s \in Senders, Enqueue(s)
  PROVE  /\ queue' \in Seq(Senders) /\ parked' \in Seq(Senders)
         /\ state' \in [Senders -> {"idle", "parked", "sent"}]
<1>1. queue \in Seq(Senders) /\ parked \in Seq(Senders)
  BY DEF TypeOK
<1>2. queue' = Append(queue, s) /\ parked' \in {parked, Append(parked, s)}
  BY DEF Enqueue
<1>3. queue' \in Seq(Senders) /\ Append(parked, s) \in Seq(Senders)
  BY <1>1, <1>2
<1>4. state' \in [Senders -> {"idle", "parked", "sent"}]
  BY DEF Enqueue, TypeOK
<1> QED BY <1>1, <1>2, <1>3, <1>4

(* The channel, its senders and the swarm stay well formed.                *)
LEMMA TypeStep == TypeOK /\ [Next]_vars => TypeOK'
<1> SUFFICES ASSUME TypeOK, [Next]_vars PROVE TypeOK' OBVIOUS
<1>1. Requests \subseteq Senders /\ Addresses \subseteq Senders /\ Dialer \in Senders
  BY DEF Senders
<1>2. ASSUME NEW r \in Requests, Publish(r) PROVE TypeOK'
  BY <1>1, <1>2, EnqueueType DEF Publish, TypeOK, swarmVars
<1>3. ASSUME NEW a \in Addresses, Listen(a) PROVE TypeOK'
  BY <1>1, <1>3, EnqueueType DEF Listen, TypeOK, swarmVars
<1>4. CASE ConnectTo
  BY <1>1, <1>4, EnqueueType DEF ConnectTo, TypeOK, swarmVars
<1>5. CASE Run
  BY <1>5 DEF Run, TypeOK, swarmVars
<1>6. CASE HandleIncomingOrder
  <2>1. Dequeue /\ UNCHANGED task
    BY <1>6 DEF HandleIncomingOrder
  <2>2. queue' \in Seq(Senders)
    BY <2>1, QueueShrinks DEF Dequeue, TypeOK
  <2>3. parked' \in Seq(Senders)
    BY <2>1 DEF Dequeue, TypeOK
  <2>4. state' \in [Senders -> {"idle", "parked", "sent"}]
    BY <2>1 DEF Dequeue, TypeOK
  <2>5. /\ tried' \in SUBSET Addresses /\ {dialled', connected'} \subseteq BOOLEAN
        /\ published' \in SUBSET Requests /\ handled' \in SUBSET Requests
    BY <1>6, Zenon DEF HandleIncomingOrder, HandleSendMessage, HandleListen, HandleDialPeers, TypeOK
  <2> QED BY <2>1, <2>2, <2>3, <2>4, <2>5 DEF TypeOK
<1>7. CASE PeersChange
  BY <1>7 DEF PeersChange, TypeOK
<1>8. CASE UNCHANGED vars
  BY <1>8 DEF vars, swarmVars, TypeOK
<1> QED BY <1>2, <1>3, <1>4, <1>5, <1>6, <1>7, <1>8 DEF Next

(* The channel starts empty.                                               *)
LEMMA InitInv ==
  Init => TypeOK /\ StartupInv /\ WaitsOnlyIfCrowded /\ OrderInv /\ ListensBeforeDialling
<1> SUFFICES ASSUME Init
             PROVE  /\ TypeOK /\ StartupInv /\ WaitsOnlyIfCrowded
                    /\ OrderInv /\ ListensBeforeDialling
  OBVIOUS
<1>1. TypeOK
  <2>1. dialled \in BOOLEAN /\ connected \in BOOLEAN
    BY Zenon DEF Init
  <2>2. {dialled, connected} \subseteq BOOLEAN
    BY <2>1, Zenon
  <2>3. queue \in Seq(Senders) /\ parked \in Seq(Senders)
    BY DEF Init
  <2> QED BY <2>2, <2>3 DEF Init, TypeOK
<1>2. \A s \in Senders : state[s] = "idle"
  BY DEF Init
<1>3. StartupInv /\ WaitsOnlyIfCrowded
  <2>1. Made = {} /\ ActiveAddresses = {} /\ ActiveDialer = 0
    BY <1>2 DEF Made, ActiveAddresses, ActiveDialer, Senders
  <2> QED BY <2>1, FS_EmptySet DEF Init, StartupInv, WaitsOnlyIfCrowded
<1>4. OrderInv /\ ListensBeforeDialling
  BY <1>2 DEF Init, OrderInv, ListensBeforeDialling, Senders
<1> QED BY <1>1, <1>3, <1>4

(* Before the service runs, a send adds an order for a sender that had     *)
(* none, and it waits only if the channel then holds more than it should.  *)
LEMMA EnqueueCounts ==
  ASSUME TypeOK, StartupInv, WaitsOnlyIfCrowded, task # "run", task' # "run",
         NEW s \in Senders, Enqueue(s)
  PROVE  StartupInv' /\ WaitsOnlyIfCrowded'
<1>1. /\ state[s] = "idle" /\ queue' = Append(queue, s)
      /\ \A t \in Senders : t # s => state'[t] = state[t]
      /\ state'[s] # "idle"
  BY DEF Enqueue, TypeOK
<1>2. /\ Len(queue) \in Nat /\ Len(queue') = Len(queue) + 1 /\ Buffer \in Nat
      /\ Len(queue) <= Cardinality(Made) + Cardinality(ActiveAddresses) + ActiveDialer
  BY <1>1, QueueGrows, ChannelAssumption DEF TypeOK, StartupInv
<1>3. /\ Cardinality(Made) \in Nat /\ Cardinality(ActiveAddresses) \in Nat
      /\ Cardinality(Addresses) \in Nat
  BY ActiveFinite
<1>4. Cardinality(ActiveAddresses') <= Cardinality(Addresses) /\ ActiveDialer' \in {0, 1}
  <2>1. ActiveAddresses' \subseteq Addresses
    BY DEF ActiveAddresses
  <2> QED BY <2>1, ChannelAssumption, FS_Subset DEF ActiveDialer
<1>5. /\ Cardinality(Made') \in Nat /\ Cardinality(ActiveAddresses') \in Nat
      /\ Cardinality(Made) <= Cardinality(Made')
      /\ Cardinality(Made) + Cardinality(ActiveAddresses) + ActiveDialer + 1
           = Cardinality(Made') + Cardinality(ActiveAddresses') + ActiveDialer'
  <2>1. CASE s \in Requests
    <3>1. Made' = Made \cup {s} /\ s \notin Made
      BY <1>1, <2>1 DEF Made, Senders
    <3>2. ActiveAddresses' = ActiveAddresses /\ ActiveDialer' = ActiveDialer
      BY <1>1, <2>1, ChannelAssumption DEF ActiveAddresses, ActiveDialer, Senders
    <3>3. Cardinality(Made') = Cardinality(Made) + 1
      BY <3>1, ActiveFinite, FS_AddElement, Zenon
    <3> QED BY <1>3, <1>4, <3>2, <3>3
  <2>2. CASE s \in Addresses
    <3>1. ActiveAddresses' = ActiveAddresses \cup {s} /\ s \notin ActiveAddresses
      BY <1>1, <2>2 DEF ActiveAddresses, Senders
    <3>2. Made' = Made /\ ActiveDialer' = ActiveDialer
      BY <1>1, <2>2, ChannelAssumption DEF Made, ActiveDialer, Senders
    <3>3. Cardinality(ActiveAddresses') = Cardinality(ActiveAddresses) + 1
      BY <3>1, ActiveFinite, FS_AddElement, Zenon
    <3> QED BY <1>3, <1>4, <3>2, <3>3
  <2>3. CASE s = Dialer
    <3>1. Made' = Made /\ ActiveAddresses' = ActiveAddresses
      BY <1>1, <2>3, ChannelAssumption DEF Made, ActiveAddresses, Senders
    <3>2. ActiveDialer = 0 /\ ActiveDialer' = 1
      BY <1>1, <2>3 DEF ActiveDialer
    <3> QED BY <1>3, <3>1, <3>2
  <2> QED BY <2>1, <2>2, <2>3 DEF Senders
<1>6. StartupInv'
  <2>1. ActiveDialer \in {0, 1}
    BY DEF ActiveDialer
  <2> QED BY <1>2, <1>3, <1>4, <1>5, <2>1 DEF StartupInv
<1>7. WaitsOnlyIfCrowded'
  <2> SUFFICES ASSUME parked' # <<>>
               PROVE  Cardinality(Made') + Cardinality(Addresses) + 1 > Buffer
    BY DEF WaitsOnlyIfCrowded
  <2>1. CASE Len(queue) >= Buffer
    <3>1. Len(queue) + 1 <= Cardinality(Made') + Cardinality(ActiveAddresses') + ActiveDialer'
      BY <1>2, <1>6 DEF StartupInv
    <3> QED BY <1>2, <1>3, <1>4, <1>5, <2>1, <3>1
  <2>2. CASE Len(queue) < Buffer
    <3>1. parked # <<>>
      BY <1>2, <2>2 DEF Enqueue
    <3>2. Cardinality(Made) + Cardinality(Addresses) + 1 > Buffer
      BY <3>1 DEF WaitsOnlyIfCrowded
    <3> QED BY <1>2, <1>3, <1>5, <3>2
  <2> QED BY <1>2, <2>1, <2>2
<1> QED BY <1>6, <1>7

(* The gossip task adds its own orders to those of the early requests.     *)
LEMMA StartupStep ==
  ASSUME TypeOK, StartupInv, WaitsOnlyIfCrowded, [Next]_vars
  PROVE  StartupInv' /\ WaitsOnlyIfCrowded'
<1> SUFFICES ASSUME task' # "run" PROVE StartupInv' /\ WaitsOnlyIfCrowded'
  BY DEF StartupInv, WaitsOnlyIfCrowded
<1>1. Requests \subseteq Senders /\ Addresses \subseteq Senders /\ Dialer \in Senders
  BY DEF Senders
<1>2. ASSUME NEW r \in Requests, Publish(r) PROVE task # "run" /\ Enqueue(r)
  BY <1>2 DEF Publish
<1>3. ASSUME NEW a \in Addresses, Listen(a) PROVE task # "run" /\ Enqueue(a)
  BY <1>3 DEF Listen
<1>4. CASE ConnectTo
  <2>1. task # "run" /\ Enqueue(Dialer)
    BY <1>4 DEF ConnectTo
  <2> QED BY <1>1, <2>1, EnqueueCounts
<1>5. CASE Run \/ HandleIncomingOrder \/ PeersChange
  BY <1>5 DEF Run, HandleIncomingOrder, PeersChange
<1>6. CASE UNCHANGED vars
  BY <1>6 DEF vars, StartupInv, WaitsOnlyIfCrowded, Made, ActiveAddresses, ActiveDialer
<1> QED BY <1>1, <1>2, <1>3, <1>4, <1>5, <1>6, EnqueueCounts DEF Next

(* A send goes behind what is in the channel.                              *)
LEMMA EnqueueOrder ==
  ASSUME TypeOK, OrderInv, NEW s \in Senders, Enqueue(s), tried' = tried,
         s = Dialer => \A a \in Addresses : state[a] # "idle"
  PROVE  OrderInv'
<1>1. /\ queue' = Append(queue, s)
      /\ \A t \in Senders : t # s => state'[t] = state[t]
  BY DEF Enqueue, TypeOK
<1>2. /\ Len(queue) \in Nat /\ Len(queue') = Len(queue) + 1
      /\ \A i \in 1..Len(queue) : queue'[i] = queue[i]
      /\ queue'[Len(queue) + 1] = s
  BY <1>1, QueueGrows DEF TypeOK
<1>3. \A a \in Addresses : \A n \in 0..Len(queue) : Ahead(a, n) => Ahead(a, n)'
  BY <1>2 DEF Ahead
<1>4. ASSUME NEW a \in Addresses, state'[a] # "idle" PROVE Ahead(a, Len(queue))'
  <2>1. CASE a = s
    BY <1>2, <2>1 DEF Ahead
  <2>2. CASE a # s
    <3>1. Ahead(a, Len(queue))
      BY <1>1, <1>4, <2>2 DEF OrderInv, Senders
    <3> QED BY <1>2, <3>1 DEF Ahead
  <2> QED BY <2>1, <2>2
<1>5. ASSUME NEW i \in 1..Len(queue'), queue'[i] = Dialer, NEW a \in Addresses
      PROVE  a \in tried' \/ \E j \in 1..(i - 1) : queue'[j] = a
  <2>1. CASE i \in 1..Len(queue)
    <3>1. Ahead(a, i - 1)
      BY <1>2, <1>5, <2>1 DEF OrderInv
    <3> QED BY <1>2, <2>1, <3>1 DEF Ahead
  <2>2. CASE i = Len(queue) + 1
    <3>1. Ahead(a, Len(queue))
      BY <1>2, <1>5, <2>2 DEF OrderInv
    <3> QED BY <1>2, <2>2, <3>1 DEF Ahead
  <2> QED BY <1>2, <2>1, <2>2
<1>6. ASSUME NEW i \in 1..Len(parked') PROVE state'[parked'[i]] # "idle"
  <2>1. parked \in Seq(Senders) /\ state \in [Senders -> {"idle", "parked", "sent"}]
    BY DEF TypeOK
  <2>2. \A t \in Senders : state[t] # "idle" \/ t = s => state'[t] # "idle"
    BY <2>1 DEF Enqueue
  <2>3. \A k \in 1..Len(parked) : parked[k] \in Senders /\ state[parked[k]] # "idle"
    BY <2>1 DEF OrderInv
  <2>4. CASE parked' = parked
    BY <1>6, <2>2, <2>3, <2>4
  <2>5. CASE parked' = Append(parked, s)
    <3>1. (i \in 1..Len(parked) /\ parked'[i] = parked[i]) \/ parked'[i] = s
      BY <1>6, <2>1, <2>5
    <3> QED BY <2>2, <2>3, <3>1
  <2> QED BY <2>4, <2>5 DEF Enqueue
<1> QED BY <1>4, <1>5, <1>6 DEF OrderInv, Ahead

(* A receive takes the order at the head, the one every other is behind.   *)
LEMMA DequeueOrder ==
  ASSUME TypeOK, OrderInv, ListensBeforeDialling, HandleIncomingOrder
  PROVE  OrderInv' /\ ListensBeforeDialling'
<1>1. Dequeue /\ queue # <<>> /\ queue' = Tail(queue)
  BY DEF HandleIncomingOrder, Dequeue
<1>2. /\ Len(queue) \in Nat /\ Len(queue) > 0 /\ Len(queue') = Len(queue) - 1
      /\ \A i \in 1..Len(queue') : queue'[i] = queue[i + 1]
      /\ Head(queue) = queue[1]
  BY <1>1, QueueShrinks DEF TypeOK
<1>3. tried \subseteq tried' /\ (Head(queue) \in Addresses => Head(queue) \in tried')
  BY ChannelAssumption DEF HandleIncomingOrder, HandleSendMessage, HandleListen, HandleDialPeers
<1>4. ASSUME NEW a \in Addresses, NEW n \in 1..Len(queue), Ahead(a, n)
      PROVE  a \in tried' \/ \E j \in 1..(n - 1) : queue'[j] = a
  <2>1. CASE a \in tried
    BY <1>3, <2>1
  <2>2. CASE \E j \in 1..n : queue[j] = a
    <3>1. PICK j \in 1..n : queue[j] = a
      BY <2>2
    <3>2. CASE j = 1
      BY <1>2, <1>3, <3>1, <3>2
    <3>3. CASE j # 1
      <4>1. j - 1 \in 1..(n - 1) /\ j - 1 \in 1..Len(queue')
        BY <1>2, <3>3
      <4>2. queue'[j - 1] = a
        BY <1>2, <3>1, <4>1
      <4> QED BY <4>1, <4>2
    <3> QED BY <3>2, <3>3
  <2> QED BY <1>4, <2>1, <2>2 DEF Ahead
<1>5. ASSUME NEW a \in Addresses, state'[a] # "idle"
      PROVE  a \in tried' \/ \E j \in 1..Len(queue') : queue'[j] = a
  <2>1. state[a] # "idle"
    <3>1. CASE parked = <<>>
      BY <1>1, <1>5, <3>1 DEF Dequeue
    <3>2. CASE parked # <<>>
      <4>1. parked \in Seq(Senders) /\ state \in [Senders -> {"idle", "parked", "sent"}]
        BY DEF TypeOK
      <4>2. 1 \in 1..Len(parked) /\ Head(parked) = parked[1]
        BY <3>2, <4>1
      <4>3. state[Head(parked)] # "idle"
        BY <4>2 DEF OrderInv
      <4>4. state' = [state EXCEPT ![Head(parked)] = "sent"] /\ a \in Senders
        BY <1>1, <3>2 DEF Dequeue, Senders
      <4>5. a # Head(parked) => state'[a] = state[a]
        BY <4>1, <4>4
      <4> QED BY <1>5, <4>3, <4>5
    <3> QED BY <3>1, <3>2
  <2>2. Ahead(a, Len(queue))
    BY <2>1 DEF OrderInv
  <2> QED BY <1>2, <1>4, <2>2
<1>6. ASSUME NEW i \in 1..Len(queue'), queue'[i] = Dialer, NEW a \in Addresses
      PROVE  a \in tried' \/ \E j \in 1..(i - 1) : queue'[j] = a
  <2>1. i + 1 \in 1..Len(queue) /\ queue[i + 1] = Dialer /\ i \in 1..Len(queue)
    BY <1>2, <1>6
  <2>2. Ahead(a, (i + 1) - 1)
    BY <2>1 DEF OrderInv
  <2>3. Ahead(a, i)
    BY <2>2, (i + 1) - 1 = i
  <2> QED BY <1>4, <2>1, <2>3
<1>7. ASSUME NEW i \in 1..Len(parked') PROVE state'[parked'[i]] # "idle"
  <2>1. parked \in Seq(Senders) /\ state \in [Senders -> {"idle", "parked", "sent"}]
    BY DEF TypeOK
  <2>2. \A t \in Senders : state[t] # "idle" => state'[t] # "idle"
    BY <1>1, <2>1 DEF Dequeue
  <2>3. \A k \in 1..Len(parked) : parked[k] \in Senders /\ state[parked[k]] # "idle"
    BY <2>1 DEF OrderInv
  <2>4. \E k \in 1..Len(parked) : parked'[i] = parked[k]
    <3>1. CASE parked' = parked
      BY <1>7, <3>1
    <3>2. CASE parked # <<>> /\ parked' = Tail(parked)
      <4>1. i + 1 \in 1..Len(parked) /\ parked'[i] = parked[i + 1]
        BY <1>7, <2>1, <3>2
      <4> QED BY <4>1
    <3> QED BY <1>1, <3>1, <3>2 DEF Dequeue
  <2> QED BY <2>2, <2>3, <2>4
<1>8. ListensBeforeDialling'
  <2>1. tried' \subseteq Addresses
    BY TypeStep DEF TypeOK, Next
  <2>2. CASE Head(queue) = Dialer
    <3>1. \A a \in Addresses : Ahead(a, 0)
      BY <1>2, <2>2 DEF OrderInv
    <3> QED BY <1>3, <2>1, <3>1 DEF Ahead, ListensBeforeDialling
  <2>3. CASE Head(queue) # Dialer
    <3>1. dialled' = dialled
      BY <2>3 DEF HandleIncomingOrder, HandleSendMessage, HandleListen
    <3> QED BY <1>3, <2>1, <3>1 DEF ListensBeforeDialling
  <2> QED BY <2>2, <2>3
<1> QED BY <1>5, <1>6, <1>7, <1>8 DEF OrderInv, Ahead

(* The order of the start-up is kept by every step.                        *)
LEMMA OrderStep ==
  ASSUME TypeOK, OrderInv, ListensBeforeDialling, [Next]_vars
  PROVE  OrderInv' /\ ListensBeforeDialling'
<1>1. Requests \subseteq Senders /\ Addresses \subseteq Senders /\ Dialer \in Senders
  BY DEF Senders
<1>2. ASSUME NEW r \in Requests, Publish(r)
      PROVE  OrderInv' /\ ListensBeforeDialling'
  <2>1. Enqueue(r) /\ tried' = tried /\ dialled' = dialled /\ r # Dialer
    BY <1>2, ChannelAssumption DEF Publish, swarmVars
  <2> QED BY <1>1, <2>1, EnqueueOrder DEF ListensBeforeDialling
<1>3. ASSUME NEW a \in Addresses, Listen(a)
      PROVE  OrderInv' /\ ListensBeforeDialling'
  <2>1. Enqueue(a) /\ tried' = tried /\ dialled' = dialled /\ a # Dialer
    BY <1>3, ChannelAssumption DEF Listen, swarmVars
  <2> QED BY <1>1, <2>1, EnqueueOrder DEF ListensBeforeDialling
<1>4. CASE ConnectTo
  <2>1. /\ Enqueue(Dialer) /\ tried' = tried /\ dialled' = dialled
        /\ \A a \in Addresses : state[a] # "idle"
    BY <1>4 DEF ConnectTo, swarmVars
  <2> QED BY <1>1, <2>1, EnqueueOrder DEF ListensBeforeDialling
<1>5. CASE HandleIncomingOrder
  BY <1>5, DequeueOrder
<1>6. CASE Run \/ PeersChange \/ UNCHANGED vars
  <2>1. UNCHANGED <<queue, parked, state, tried, dialled>>
    BY <1>6 DEF Run, PeersChange, vars, swarmVars
  <2> QED BY <2>1 DEF OrderInv, Ahead, ListensBeforeDialling
<1> QED BY <1>2, <1>3, <1>4, <1>5, <1>6 DEF Next

-----------------------------------------------------------------------------
(* The orders in the channel are those of its senders (gossip/mod.rs).     *)
THEOREM TypeCorrect == Spec => []TypeOK
<1>1. Init => TypeOK
  BY InitInv
<1> QED BY <1>1, TypeStep, PTL DEF Spec

(* No peer is dialled before every listen address was tried, whatever the  *)
(* witness requests that mix with the start-up orders (node.rs).           *)
THEOREM ListensFirst == Spec => []ListensBeforeDialling
<1> DEFINE IInv == TypeOK /\ OrderInv /\ ListensBeforeDialling
<1>1. Init => IInv
  BY InitInv
<1>2. IInv /\ [Next]_vars => IInv'
  BY TypeStep, OrderStep
<1>3. IInv => ListensBeforeDialling
  OBVIOUS
<1> QED BY <1>1, <1>2, <1>3, PTL DEF Spec

(* Until the service runs, a sender waits for room only if the early       *)
(* requests and the orders of start-up are more than the buffer (node.rs,  *)
(* where the buffer is 64).                                                *)
THEOREM WaitsIfCrowded == Spec => []WaitsOnlyIfCrowded
<1> DEFINE IInv == TypeOK /\ StartupInv /\ WaitsOnlyIfCrowded
<1>1. Init => IInv
  BY InitInv
<1>2. IInv /\ [Next]_vars => IInv'
  BY TypeStep, StartupStep
<1>3. IInv => WaitsOnlyIfCrowded
  OBVIOUS
<1> QED BY <1>1, <1>2, <1>3, PTL DEF Spec

-----------------------------------------------------------------------------
(* The last port of an address.                                            *)

(* A set of numbers has a least one.                                       *)
LEMMA LeastNumber ==
  ASSUME NEW T \in SUBSET Nat, T # {}
  PROVE  \E x \in T : \A y \in T : x <= y
<1> DEFINE R == OpToRel(<, Nat)
<1>1. PICK x \in T : \A y \in T : ~ (<<y, x>> \in R)
  <2>1. IsWellFoundedOn(R, Nat)
    BY NatLessThanWellFounded, Zenon
  <2> HIDE DEF R
  <2> QED
    BY <2>1, WFMin, Zenon
<1>2. ASSUME NEW y \in T PROVE x <= y
  <2>1. y \in Nat /\ x \in Nat
    OBVIOUS
  <2>2. ~ (<<y, x>> \in R)
    BY <1>1, Zenon
  <2>3. ~ (y < x)
    BY <2>1, <2>2 DEF OpToRel
  <2> QED
    BY <2>1, <2>3
<1> QED
  BY <1>2

(* LastPort is what its comment says.                                      *)
IsLastPort(i, a) ==
  /\ i \in 0..Len(a)
  /\ i # 0 => IsPort(a[i])
  /\ \A j \in i+1..Len(a) : ~ IsPort(a[j])

(* At most one index is that of the last port.                             *)
LEMMA LastPortUnique ==
  ASSUME NEW a \in Seq(Protocol), NEW i, IsLastPort(i, a)
  PROVE  LastPort(a) = i
<1>1. ASSUME NEW k, IsLastPort(k, a)
      PROVE  k = i
  <2>1. i \in Nat /\ k \in Nat /\ Len(a) \in Nat /\ i <= Len(a) /\ k <= Len(a)
    BY <1>1 DEF IsLastPort
  <2>2. CASE i < k
    <3>1. k \in i+1..Len(a)
      BY <2>1, <2>2
    <3> QED
      BY <1>1, <2>1, <2>2, <3>1 DEF IsLastPort
  <2>3. CASE k < i
    <3>1. i \in k+1..Len(a)
      BY <2>1, <2>3
    <3> QED
      BY <1>1, <2>1, <2>3, <3>1 DEF IsLastPort
  <2> QED
    BY <2>1, <2>2, <2>3
<1>2. LastPort(a) = CHOOSE k \in 0..Len(a) : IsLastPort(k, a)
  BY DEF LastPort, IsLastPort
<1>3. i \in 0..Len(a)
  BY DEF IsLastPort
<1> QED
  BY <1>1, <1>2, <1>3, Zenon

(* There always is one, so LastPort is well defined.                       *)
LEMMA LastPortExists ==
  ASSUME NEW a \in Seq(Protocol)
  PROVE  IsLastPort(LastPort(a), a)
<1> DEFINE n == Len(a)
           T == {k \in 0..n : k # n => IsPort(a[n - k])}
<1>1. n \in Nat
  OBVIOUS
<1>2. T \in SUBSET Nat /\ n \in T
  BY <1>1
<1>3. PICK k \in T : \A l \in T : k <= l
  BY <1>2, LeastNumber, Zenon
<1>4. k \in 0..n /\ n - k \in 0..n /\ n - k \in Nat
  BY <1>1, <1>3
<1>5. n - k # 0 => IsPort(a[n - k])
  BY <1>1, <1>3, <1>4
<1>6. ASSUME NEW j \in n - k + 1..n, IsPort(a[j])
      PROVE  FALSE
  <2>1. n - j \in 0..n /\ n - (n - j) = j /\ n - j < k
    BY <1>1, <1>4
  <2>2. n - j \in T
    BY <1>6, <2>1
  <2> QED
    BY <1>1, <1>3, <1>4, <2>1, <2>2
<1>7. IsLastPort(n - k, a)
  BY <1>4, <1>5, <1>6 DEF IsLastPort
<1> QED
  BY <1>7, LastPortUnique

-----------------------------------------------------------------------------
(* Where the loop of adjust_multiaddr stops: at the last port, or at the   *)
(* first protocol.                                                         *)
StopAt(a) == IF LastPort(a) = 0 THEN 1 ELSE LastPort(a)

(* The place of protocol i before the protocols that were taken off were   *)
(* put back in reverse.                                                    *)
Origin(i, a) == IF i < StopAt(a) THEN i ELSE Len(a) + StopAt(a) - i

(* The multiaddress with its last port adjusted and nothing moved.         *)
Wanted(s, a) ==
  [i \in 1..Len(a) |-> IF i = LastPort(a) THEN Adjusted(s, a[i]) ELSE a[i]]

(* It stops within the address.                                            *)
LEMMA StopAtType ==
  ASSUME NEW a \in Seq(Protocol)
  PROVE  StopAt(a) \in 1..Len(a) + 1 /\ (a # <<>> => StopAt(a) \in 1..Len(a))
<1>1. LastPort(a) \in 0..Len(a) /\ Len(a) \in Nat
  BY LastPortExists DEF IsLastPort
<1> QED
  BY <1>1 DEF StopAt

(* The bounds of u16 and i16.                                              *)
LEMMA Ranges ==
  /\ MaxU16 \in Nat /\ MaxI16 \in Nat /\ MinI16 \in Int
  /\ MaxI16 < MaxU16 /\ MinI16 = -MaxI16 - 1
BY SMT DEF MaxU16, MaxI16, MinI16

(* The values of a setting.                                                *)
LEMMA SettingParts ==
  ASSUME NEW s \in PortOrOffset
  PROVE  \/ s.kind = "port" /\ s.value \in 0..MaxU16
         \/ s.kind = "offset" /\ s.value \in MinI16..MaxI16
<1>1. CASE s \in [kind : {"port"}, value : 0..MaxU16]
  BY <1>1
<1>2. CASE s \in [kind : {"offset"}, value : MinI16..MaxI16]
  BY <1>2
<1> QED
  BY <1>1, <1>2, Zenon DEF PortOrOffset

(* An adjusted protocol is a protocol, and only a port is changed.         *)
LEMMA AdjustedType ==
  ASSUME NEW s \in PortOrOffset, NEW p \in Protocol
  PROVE  /\ Adjusted(s, p) \in Protocol
         /\ ~ IsPort(p) => Adjusted(s, p) = p
         /\ IsPort(p) => /\ Adjusted(s, p).name = p.name
                         /\ Adjusted(s, p).value = AdjustPort(s, p.value)
                         /\ IsPort(Adjusted(s, p))
<1>1. p.value \in Nat /\ p.name \in STRING
  BY DEF Protocol
<1>2. AdjustPort(s, p.value) \in Nat
  <2>1. CASE s.kind = "port" /\ s.value \in 0..MaxU16
    BY <2>1, Ranges, SMT DEF AdjustPort
  <2>2. CASE s.kind = "offset" /\ s.value \in MinI16..MaxI16
    <3>1. s.value \in Int /\ s.kind # "port"
      BY <2>2, Ranges, SMT
    <3> QED
      BY <1>1, <3>1, Ranges, SMT DEF AdjustPort
  <2> QED
    BY <2>1, <2>2, SettingParts, Zenon
<1> QED
  BY <1>1, <1>2 DEF Adjusted, Protocol, IsPort

(* adjust_multiaddr, place by place.                                       *)
LEMMA AdjustedAt ==
  ASSUME NEW s \in PortOrOffset, NEW a \in Seq(Protocol)
  PROVE  /\ AdjustMultiaddr(s, a) \in Seq(Protocol)
         /\ Len(AdjustMultiaddr(s, a)) = Len(a)
         /\ \A i \in 1..Len(a) :
              AdjustMultiaddr(s, a)[i] =
                IF i < StopAt(a) THEN a[i] ELSE Adjusted(s, a[Origin(i, a)])
<1> DEFINE n == Len(a)
           m == StopAt(a)
           front == SubSeq(a, 1, m - 1)
           popped == Popped(s, a)
<1>1. n \in Nat /\ m \in 1..n + 1
  BY StopAtType
<1>2. popped = [i \in 1..n + 1 - m |-> Adjusted(s, a[n + 1 - i])]
  BY DEF Popped, StopAt
<1>3. ASSUME NEW i \in 1..n + 1 - m
      PROVE  Adjusted(s, a[n + 1 - i]) \in Protocol
  <2>1. n + 1 - i \in 1..n
    BY <1>1
  <2>2. a[n + 1 - i] \in Protocol
    BY <2>1
  <2> QED
    BY <2>2, AdjustedType
<1>4. n + 1 - m \in Nat
  BY <1>1
<1> HIDE DEF n, m
<1>5. popped \in Seq(Protocol) /\ Len(popped) = n + 1 - m
  BY <1>2, <1>3, <1>4
<1>6. AdjustMultiaddr(s, a) = front \o popped
  <2>1. n - Len(popped) = m - 1
    BY <1>1, <1>5
  <2> QED
    BY <2>1, Zenon DEF AdjustMultiaddr, n
<1>7. /\ front \in Seq(Protocol) /\ Len(front) = m - 1
      /\ \A i \in 1..m - 1 : front[i] = a[i]
  BY <1>1 DEF n
<1> HIDE DEF front, popped
<1>8. /\ front \o popped \in Seq(Protocol)
      /\ Len(front \o popped) = n
  BY <1>1, <1>5, <1>7
<1>9. ASSUME NEW i \in 1..n
      PROVE  (front \o popped)[i] = IF i < m THEN a[i] ELSE Adjusted(s, a[n + m - i])
  <2>1. CASE i < m
    BY <1>1, <1>5, <1>7, <1>8, <2>1
  <2>2. CASE ~ (i < m)
    <3>1. i - (m - 1) \in 1..n + 1 - m /\ n + 1 - (i - (m - 1)) = n + m - i
      BY <1>1, <2>2
    <3>2. (front \o popped)[i] = popped[i - (m - 1)]
      BY <1>1, <1>5, <1>7, <1>8, <2>2
    <3> QED
      BY <1>2, <2>2, <3>1, <3>2, Zenon
  <2> QED
    BY <2>1, <2>2, Zenon
<1> QED
  BY <1>6, <1>8, <1>9 DEF Origin, n, m

(* What was taken off is put back in reverse.                              *)
LEMMA OriginReverses ==
  ASSUME NEW a \in Seq(Protocol), NEW i \in 1..Len(a)
  PROVE  Origin(i, a) \in 1..Len(a) /\ Origin(Origin(i, a), a) = i
<1>1. Len(a) \in Nat /\ StopAt(a) \in 1..Len(a) + 1
  BY StopAtType
<1>2. CASE i < StopAt(a)
  BY <1>1, <1>2 DEF Origin
<1>3. CASE ~ (i < StopAt(a))
  <2>1. Origin(i, a) = Len(a) + StopAt(a) - i
    BY <1>3 DEF Origin
  <2>2. Origin(i, a) \in StopAt(a)..Len(a)
    BY <1>1, <1>3, <2>1
  <2>3. Origin(Origin(i, a), a) = Len(a) + StopAt(a) - Origin(i, a)
    BY <1>1, <2>2 DEF Origin
  <2> QED
    BY <1>1, <2>1, <2>2, <2>3
<1> QED
  BY <1>2, <1>3

(* Each protocol is one of the address with its last port adjusted.        *)
LEMMA AdjustedIsWanted ==
  ASSUME NEW s \in PortOrOffset, NEW a \in Seq(Protocol), NEW i \in 1..Len(a)
  PROVE  AdjustMultiaddr(s, a)[i] = Wanted(s, a)[Origin(i, a)]
<1> DEFINE o == Origin(i, a)
<1>1. Len(a) \in Nat /\ StopAt(a) \in 1..Len(a) + 1 /\ o \in 1..Len(a)
  BY StopAtType, OriginReverses
<1>2. IsLastPort(LastPort(a), a)
  BY LastPortExists
<1>3. Wanted(s, a)[o] = IF o = LastPort(a) THEN Adjusted(s, a[o]) ELSE a[o]
  BY <1>1 DEF Wanted
<1>4. CASE i < StopAt(a)
  <2>1. AdjustMultiaddr(s, a)[i] = a[i] /\ o = i
    BY <1>4, AdjustedAt DEF Origin
  <2>2. o # LastPort(a)
    BY <1>1, <1>2, <1>4, <2>1 DEF StopAt, IsLastPort
  <2> QED
    BY <1>3, <2>1, <2>2
<1>5. CASE ~ (i < StopAt(a))
  <2>1. AdjustMultiaddr(s, a)[i] = Adjusted(s, a[o])
    BY <1>5, AdjustedAt
  <2>2. o \in StopAt(a)..Len(a)
    BY <1>1, <1>5 DEF Origin
  <2>3. CASE o = LastPort(a)
    BY <1>3, <2>1, <2>3
  <2>4. CASE o # LastPort(a)
    <3>1. o \in LastPort(a) + 1..Len(a)
      BY <1>1, <1>2, <2>2, <2>4 DEF StopAt, IsLastPort
    <3>2. a[o] \in Protocol /\ ~ IsPort(a[o])
      BY <1>1, <1>2, <3>1 DEF IsLastPort
    <3> QED
      BY <1>3, <2>1, <2>4, <3>2, AdjustedType
  <2> QED
    BY <2>3, <2>4
<1> QED
  BY <1>4, <1>5

-----------------------------------------------------------------------------
(* What the start leaves behind.                                           *)
StartedInv ==
  /\ input \in Inputs
  /\ setting \in PortOrOffset \cup {Unparsed, ParseError, Panic}
  /\ network.known =>
       /\ setting \in PortOrOffset
       /\ network.listen = AdjustMultiaddr(setting, input.given)
       /\ ~input.override => network.dial = StripPeerId(network.listen)

(* from_str returns a setting, an error, or panics.                        *)
LEMMA FromStrType ==
  ASSUME NEW t \in Text, NEW checks
  PROVE  FromStr(t, checks) \in PortOrOffset \cup {ParseError, Panic}
<1>1. t.digits \in Nat
  BY Zenon DEF Text
<1> DEFINE i == SignedValue(t.inner, t.digits)
<1>2. i \in Int
  BY <1>1, SMT DEF SignedValue
<1>3. t.digits <= MaxU16 => [kind |-> "port", value |-> t.digits] \in PortOrOffset
  <2>1. t.digits <= MaxU16 => t.digits \in 0..MaxU16
    BY <1>1, Ranges, SMT
  <2> QED
    BY <2>1 DEF PortOrOffset
<1>4. ASSUME NEW v \in MinI16..MaxI16
      PROVE  [kind |-> "offset", value |-> v] \in PortOrOffset
  BY <1>4 DEF PortOrOffset
<1>5. ASSUME NEW v \in MinI16..MaxI16
      PROVE  Negate(v) \in MinI16..MaxI16
  BY <1>5, Ranges, SMT DEF Negate
<1>6. t.digits > MaxU16 \/ t.digits <= MaxU16
  BY <1>1, Ranges, SMT
<1> HIDE DEF i
<1>7. \/ FromStr(t, checks) \in {ParseError, Panic}
      \/ FromStr(t, checks) = [kind |-> "port", value |-> t.digits] /\ ~ (t.digits > MaxU16)
      \/ /\ i \in MinI16..MaxI16
         /\ FromStr(t, checks) \in {[kind |-> "offset", value |-> i],
                                    [kind |-> "offset", value |-> Negate(i)]}
  BY Zenon DEF FromStr, i
<1> QED
  BY <1>3, <1>4, <1>5, <1>6, <1>7, Zenon

(* A setting that was parsed is not the one before.                        *)
LEMMA KindsDiffer ==
  /\ \A s \in PortOrOffset : s.kind \in {"port", "offset"}
  /\ {Unparsed.kind, ParseError.kind, Panic.kind} \cap {"port", "offset"} = {}
<1>1. \A s \in PortOrOffset : s.kind \in {"port", "offset"}
  BY SettingParts, Zenon
<1> QED
  BY <1>1 DEF Unparsed, ParseError, Panic

(* Every step of the start keeps it: the options are parsed once, and the  *)
(* addresses are derived from them once.                                   *)
LEMMA StartedStep == StartedInv /\ [StartNext]_<<vars, startVars>> => StartedInv'
<1> SUFFICES ASSUME StartedInv, [StartNext]_<<vars, startVars>> PROVE StartedInv'
  OBVIOUS
<1>1. CASE ParseOptions
  <2>1. /\ setting = Unparsed /\ setting' = FromStr(input.text, input.checks)
        /\ input' = input /\ network' = network
    BY <1>1 DEF ParseOptions
  <2>2. setting' \in PortOrOffset \cup {ParseError, Panic}
    BY <2>1, FromStrType, InputAssumption, Zenon DEF StartedInv
  <2>3. ~network.known
    BY <2>1, KindsDiffer, Zenon DEF StartedInv
  <2> QED
    BY <2>1, <2>2, <2>3 DEF StartedInv
<1>2. CASE DeriveAddresses
  <2>1. /\ setting.kind \in {"port", "offset"}
        /\ UNCHANGED <<input, setting>>
        /\ network'.listen = AdjustMultiaddr(setting, input.given)
        /\ ~input.override => network'.dial = StripPeerId(AdjustMultiaddr(setting, input.given))
    BY <1>2 DEF DeriveAddresses, Serving
  <2>2. setting \in PortOrOffset
    BY <2>1, KindsDiffer, Zenon DEF StartedInv
  <2> QED
    BY <2>1, <2>2 DEF StartedInv
<1>3. CASE UNCHANGED startVars
  BY <1>3 DEF StartedInv, startVars
<1>4. ParseOptions \/ DeriveAddresses \/ UNCHANGED startVars
  BY Zenon DEF StartNext, ServeRequest, Spawned
<1> QED
  BY <1>1, <1>2, <1>3, <1>4

(* What the start leaves behind stays as it is.                            *)
LEMMA StartedInvariant == StartSpec => []StartedInv
<1>1. StartInit => StartedInv
  BY DEF StartInit, StartedInv, NoNetwork
<1> QED
  BY <1>1, StartedStep, PTL DEF StartSpec

(* The start of the node adds to the channel's behaviour only the          *)
(* conditions under which it takes place.                                  *)
THEOREM StartRefinesChannel == StartSpec => Spec
<1>1. StartInit => Init
  BY DEF StartInit
<1>2. [StartNext]_<<vars, startVars>> => [Next]_vars
  BY Zenon DEF StartNext, ParseOptions, DeriveAddresses, ServeRequest, Spawned, Next
<1> QED
  BY <1>1, <1>2, PTL DEF StartSpec, Spec

(* Printing a setting and parsing the result gives the setting again, for  *)
(* every port and every offset but the least one, whose negation panics    *)
(* where overflow is checked (config.rs).                                  *)
THEOREM DisplayAndParse == StartSpec => []DisplayRoundTrips
<1>1. ASSUME NEW s \in PortOrOffset, NEW checks \in BOOLEAN, ~ (checks /\ s = LeastOffset)
      PROVE  FromStr(Display(s, checks), checks) = s
  <2> DEFINE t == Display(s, checks)
             v == s.value
  <2>1. CASE s \in [kind : {"port"}, value : 0..MaxU16]
    <3>1. s.kind = "port" /\ v \in 0..MaxU16 /\ s = [kind |-> "port", value |-> v]
      BY <2>1
    <3>2. ~ (v > MaxU16)
      BY <3>1, Ranges, SMT
    <3>3. t.sign = "" /\ t.digits = v
      BY <3>1 DEF Display
    <3> HIDE DEF t, v
    <3>4. FromStr(t, checks) = [kind |-> "port", value |-> v]
      BY <3>2, <3>3, Zenon DEF FromStr
    <3> QED
      BY <3>1, <3>4, Zenon DEF t
  <2>2. CASE s \in [kind : {"offset"}, value : MinI16..MaxI16]
    <3>1. s.kind = "offset" /\ s = [kind |-> "offset", value |-> v]
      BY <2>2
    <3>2. v \in MinI16..MaxI16 /\ v \in Int
      BY <2>2, Ranges
    <3> HIDE DEF v
    <3>3. CASE v >= 0
      <4>1. t.sign = "+" /\ t.inner = "" /\ t.digits = v
        BY <3>1, <3>3 DEF Display, v
      <4>2. SignedValue("", v) = v
        BY DEF SignedValue
      <4> HIDE DEF t
      <4>3. FromStr(t, checks) = [kind |-> "offset", value |-> v]
        BY <3>2, <4>1, <4>2, Zenon DEF FromStr
      <4> QED
        BY <3>1, <4>3, Zenon DEF t
    <3>4. CASE v < 0 /\ v # MinI16
      <4>1. /\ Negate(v) = -v /\ -v >= 0 /\ ~ (v >= 0) /\ -v # MinI16
            /\ -v \in MinI16..MaxI16 /\ Negate(-v) = v
        BY <3>2, <3>4, Ranges, SMT DEF Negate
      <4>2. t.sign = "-" /\ t.inner = "" /\ t.digits = -v
        BY <3>1, <3>4, <4>1 DEF Display, v
      <4>3. SignedValue("", -v) = -v
        BY DEF SignedValue
      <4> HIDE DEF t
      <4>4. FromStr(t, checks) = [kind |-> "offset", value |-> Negate(-v)]
        BY <4>1, <4>2, <4>3, Zenon DEF FromStr
      <4> QED
        BY <3>1, <4>1, <4>4, Zenon DEF t
    <3>5. CASE v = MinI16
      <4>1. /\ Negate(v) = v /\ ~ (v >= 0) /\ -(-v) = v
        BY <3>2, <3>5, Ranges, SMT DEF Negate
      <4> ~ checks
        BY <1>1, <3>1, <3>5, Zenon DEF LeastOffset
      <4>2. t.sign = "-" /\ t.inner = "-" /\ t.digits = -v
        BY <3>1, <4>1 DEF Display, v
      <4>3. SignedValue("-", -v) = v
        BY <4>1, SMT DEF SignedValue
      <4> HIDE DEF t
      <4>4. FromStr(t, checks) = [kind |-> "offset", value |-> Negate(v)]
        BY <3>2, <4>2, <4>3, Zenon DEF FromStr
      <4> QED
        BY <3>1, <4>1, <4>4, Zenon DEF t
    <3>6. v >= 0 \/ (v < 0 /\ v # MinI16) \/ v = MinI16
      BY <3>2, SMT
    <3> QED
      BY <3>3, <3>4, <3>5, <3>6, Zenon
  <2> QED
    BY <2>1, <2>2, Zenon DEF PortOrOffset
<1>2. Display(LeastOffset, TRUE) = Panic
  <2>1. ~ (MinI16 >= 0)
    BY SMT DEF MinI16
  <2> QED
    BY <2>1 DEF Display, LeastOffset
<1>3. StartedInv => DisplayRoundTrips
  <2> SUFFICES ASSUME StartedInv, setting \in PortOrOffset
               PROVE  IF input.checks /\ setting = LeastOffset
                        THEN Display(setting, input.checks) = Panic
                        ELSE FromStr(Display(setting, input.checks), input.checks) = setting
    BY Zenon DEF DisplayRoundTrips
  <2>1. input.checks \in BOOLEAN
    BY InputAssumption, Zenon DEF StartedInv
  <2>2. CASE input.checks /\ setting = LeastOffset
    <3>1. input.checks = TRUE
      BY <2>1, <2>2, Zenon
    <3> QED BY <1>2, <2>2, <3>1, Zenon
  <2>3. CASE ~ (input.checks /\ setting = LeastOffset)
    BY <1>1, <2>1, <2>3, Zenon
  <2> QED BY <2>2, <2>3, Zenon
<1> QED
  BY <1>3, StartedInvariant, PTL

-----------------------------------------------------------------------------
(* The addresses of the gossip network.                                    *)

(* The multiaddress the node is started with.                              *)
LEMMA InputParts ==
  ASSUME StartedInv
  PROVE  /\ input.given \in Seq(Protocol)
         /\ \A n \in 1..Len(input.given) :
              IsPort(input.given[n]) => input.given[n].value \in 0..MaxU16
BY InputAssumption, Zenon DEF StartedInv

(* An address that ends with its port has that port adjusted and nothing   *)
(* else changed, however long it is and whatever the setting.              *)
THEOREM PortAdjustedInPlace == StartSpec => []AdjustedInPlace
<1>1. StartedInv => AdjustedInPlace
  <2> DEFINE a == input.given
             n == Len(a)
             r == AdjustMultiaddr(setting, a)
             wanted == [a EXCEPT ![n] = Adjusted(setting, @)]
  <2> SUFFICES ASSUME StartedInv, network.known, EndsInPort
               PROVE  network.listen = wanted /\ (~input.override => network.dial = wanted)
    BY DEF AdjustedInPlace
  <2>1. /\ setting \in PortOrOffset /\ network.listen = r
        /\ ~input.override => network.dial = StripPeerId(r)
    BY DEF StartedInv
  <2>2. a \in Seq(Protocol) /\ a # <<>> /\ IsPort(a[n])
    BY InputParts DEF EndsInPort
  <2> HIDE DEF a
  <2>3. n \in Nat \ {0} /\ n \in 1..n /\ a[n] \in Protocol
    BY <2>2
  <2>4. IsLastPort(n, a)
    BY <2>2, <2>3 DEF IsLastPort
  <2>5. StopAt(a) = n
    BY <2>2, <2>3, <2>4, LastPortUnique DEF StopAt
  <2>6. /\ r \in Seq(Protocol) /\ Len(r) = n
        /\ \A i \in 1..n : r[i] = IF i < n THEN a[i] ELSE Adjusted(setting, a[n + n - i])
    <3>1. \A i \in 1..n : r[i] = IF i < n THEN a[i] ELSE Adjusted(setting, a[Origin(i, a)])
      BY <2>1, <2>2, <2>5, AdjustedAt
    <3>2. \A i \in 1..n : ~ (i < n) => Origin(i, a) = n + n - i
      BY <2>5 DEF Origin
    <3>3. r \in Seq(Protocol) /\ Len(r) = n
      BY <2>1, <2>2, AdjustedAt, Zenon
    <3> HIDE DEF r
    <3> QED
      BY <3>1, <3>2, <3>3
  <2> HIDE DEF r
  <2>7. ASSUME NEW i \in 1..n
        PROVE  r[i] = wanted[i]
    <3>1. CASE i = n
      <4>1. n + n - i = n /\ ~ (i < n)
        BY <2>3, <3>1
      <4> QED
        BY <2>2, <2>3, <2>6, <3>1, <4>1
    <3>2. CASE i # n
      <4>1. i < n
        BY <2>3, <3>2
      <4> QED
        BY <2>2, <2>3, <2>6, <3>2, <4>1
    <3> QED
      BY <3>1, <3>2
  <2>8. r = wanted
    <3>1. r \in [1..n -> Protocol]
      BY <2>6
    <3>2. wanted \in [1..n -> Protocol]
      BY <2>1, <2>2, <2>3, AdjustedType
    <3> HIDE DEF wanted
    <3> QED
      BY <2>7, <3>1, <3>2
  <2>9. r[n] = Adjusted(setting, a[n])
    BY <2>2, <2>3, <2>8
  <2>10. r # <<>> /\ IsPort(r[Len(r)])
    <3>1. IsPort(r[n])
      BY <2>1, <2>2, <2>3, <2>9, AdjustedType
    <3> QED
      BY <2>3, <2>6, <3>1
  <2>11. StripPeerId(r) = r
    BY <2>10 DEF StripPeerId, IsPort
  <2> QED
    BY <2>1, <2>8, <2>11, Zenon
<1> QED
  BY <1>1, StartedInvariant, PTL

(* adjust_multiaddr neither loses nor doubles a protocol, whatever the     *)
(* order it leaves them in, and adjusts only the last port.                *)
THEOREM AllProtocolsKept == StartSpec => []ProtocolsKept
<1>1. ASSUME NEW s \in PortOrOffset, NEW a \in Seq(Protocol), NEW p
      PROVE  Cardinality(Occurrences(p, AdjustMultiaddr(s, a)))
               = Cardinality(Occurrences(p, Wanted(s, a)))
  <2> DEFINE n == Len(a)
             r == AdjustMultiaddr(s, a)
             w == Wanted(s, a)
             R == Occurrences(p, r)
             W == Occurrences(p, w)
             f == [i \in R |-> Origin(i, a)]
  <2>1. n \in Nat /\ Len(r) = n
    BY AdjustedAt
  <2>2. Len(w) = n
    BY <2>1 DEF Wanted
  <2>3. R = {i \in 1..n : r[i] = p} /\ W = {i \in 1..n : w[i] = p}
    BY <2>1, <2>2 DEF Occurrences
  <2>4. \A i \in 1..n : /\ Origin(i, a) \in 1..n /\ Origin(Origin(i, a), a) = i
                        /\ r[i] = w[Origin(i, a)]
    BY AdjustedIsWanted, OriginReverses
  <2> HIDE DEF r, w, n, R, W
  <2>5. \A i \in R : i \in 1..n /\ Origin(i, a) \in W
    BY <2>3, <2>4
  <2>6. \A j \in W : Origin(j, a) \in R /\ Origin(Origin(j, a), a) = j
    BY <2>3, <2>4
  <2>7. f \in [R -> W]
    BY <2>5
  <2>8. \A i, j \in R : f[i] = f[j] => i = j
    BY <2>4, <2>5
  <2>9. \A j \in W : \E i \in R : f[i] = j
    BY <2>6
  <2>10. f \in Bijection(R, W)
    BY <2>7, <2>8, <2>9 DEF Bijection, Injection, Surjection, IsInjective
  <2>11. IsFiniteSet(R)
    <3>1. IsFiniteSet(1..n)
      BY <2>1, FS_Interval
    <3>2. R \subseteq 1..n
      BY <2>3
    <3> QED
      BY <3>1, <3>2, FS_Subset, Zenon
  <2>12. ExistsBijection(R, W)
    BY <2>10 DEF ExistsBijection
  <2>13. Cardinality(W) = Cardinality(R)
    BY <2>11, <2>12, FS_Bijection, Zenon
  <2> QED
    BY <2>13, Zenon DEF R, W, r, w
<1>2. StartedInv => ProtocolsKept
  <2> SUFFICES ASSUME StartedInv, network.known PROVE ProtocolsKept
    BY Zenon DEF ProtocolsKept
  <2>1. /\ setting \in PortOrOffset /\ input.given \in Seq(Protocol)
        /\ network.listen = AdjustMultiaddr(setting, input.given)
    BY InputParts DEF StartedInv
  <2>2. \A p : Cardinality(Occurrences(p, network.listen))
                 = Cardinality(Occurrences(p, Wanted(setting, input.given)))
    BY <1>1, <2>1, Zenon
  <2> QED
    BY <2>2, Zenon DEF ProtocolsKept, Wanted
<1> QED
  BY <1>2, StartedInvariant, PTL

(* An offset other than zero moves the port, for every port and every      *)
(* offset, except where the sum saturates.                                 *)
THEOREM OffsetsMovePorts == StartSpec => []OffsetMovesPort
<1>1. StartedInv => OffsetMovesPort
  <2> DEFINE a == input.given
             n == Len(a)
             l == LastPort(a)
             r == AdjustMultiaddr(setting, a)
             from == a[l].value
             to == network.listen[LastPort(network.listen)].value
  <2> SUFFICES ASSUME StartedInv, network.known, setting.kind = "offset",
                      setting.value # 0, l # 0, to = from
               PROVE  from = (IF setting.value > 0 THEN MaxU16 ELSE 0)
    BY DEF OffsetMovesPort
  <2>1. setting \in PortOrOffset /\ network.listen = r
    BY DEF StartedInv
  <2>2. a \in Seq(Protocol)
        /\ \A i \in 1..n : IsPort(a[i]) => a[i].value \in 0..MaxU16
    BY InputParts
  <2> HIDE DEF a
  <2>3. n \in Nat /\ l \in 1..n /\ IsPort(a[l]) /\ StopAt(a) = l
    BY <2>2, LastPortExists DEF IsLastPort, StopAt
  <2>4. a[l] \in Protocol /\ from \in 0..MaxU16
    BY <2>2, <2>3
  <2> HIDE DEF l
  <2>5. /\ r \in Seq(Protocol) /\ Len(r) = n
        /\ \A i \in 1..n : r[i] = IF i < l THEN a[i] ELSE Adjusted(setting, a[Origin(i, a)])
    BY <2>1, <2>2, <2>3, AdjustedAt
  <2>6. n \in 1..n /\ ~ (n < l) /\ Origin(n, a) = l
    BY <2>3 DEF Origin
  <2> HIDE DEF r
  <2>7. r[n] = Adjusted(setting, a[l])
    BY <2>5, <2>6
  <2>8. IsPort(r[n]) /\ r[n].value = AdjustPort(setting, from)
    BY <2>1, <2>3, <2>4, <2>7, AdjustedType
  <2>9. IsLastPort(n, r)
    BY <2>3, <2>5, <2>8 DEF IsLastPort
  <2>10. LastPort(r) = n
    BY <2>5, <2>9, LastPortUnique
  <2>11. AdjustPort(setting, from) = from
    BY <2>1, <2>8, <2>10
  <2>12. setting.value \in Int
    BY <2>1, SettingParts, Ranges
  <2> HIDE DEF from
  <2> QED
    BY <2>4, <2>11, <2>12, Ranges, SMT DEF AdjustPort
<1> QED
  BY <1>1, StartedInvariant, PTL

(* No peer is dialled before every listen address was tried, by a node     *)
(* that is started with its gRPC server already taking requests (node.rs). *)
COROLLARY NodeListensFirst == StartSpec => []ListensBeforeDialling
BY StartRefinesChannel, ListensFirst, PTL

(* The gossip task of a started node is stuck only behind a crowd of       *)
(* requests the gRPC server took before the service runs (node.rs).        *)
COROLLARY NodeWaitsIfCrowded == StartSpec => []WaitsOnlyIfCrowded
BY StartRefinesChannel, WaitsIfCrowded, PTL
=============================================================================
