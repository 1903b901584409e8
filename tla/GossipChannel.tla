--------------------------- MODULE GossipChannel ---------------------------
(***************************************************************************)
(* Start-up of a node's gossip and the channel of orders between the       *)
(* Gossip handles and the GossipService (consensus/src/gossip/mod.rs,      *)
(* consensus/src/node.rs).  Every order is sent through a clone of the     *)
(* handle: one per witness request, one per listen address and one for the *)
(* peers to dial.  The gRPC server takes requests as soon as it is         *)
(* spawned, while the gossip task sends the start-up orders itself before  *)
(* it runs the service that receives them.                                 *)
(***************************************************************************)
EXTENDS Naturals, Sequences, FiniteSets

CONSTANTS
  Requests,    \* the WitnessEvent calls that get as far as a publication
  Addresses,   \* gossip_listen_addresses
  Dialer,      \* the handle the peers to dial are sent through
  Buffer       \* the size given to `channel`: 64 in the code

ASSUME ChannelAssumption ==
  /\ IsFiniteSet(Requests) /\ IsFiniteSet(Addresses)
  /\ Requests \cap Addresses = {}
  /\ Dialer \notin Requests \cup Addresses
  /\ Buffer \in Nat

Senders == Requests \cup Addresses \cup {Dialer}

VARIABLES
  queue,       \* the orders in the channel, each named by its sender
  parked,      \* the senders waiting for room, in the order they parked
  state,       \* state[s]: "idle", "parked" in its send or "sent"
  task,        \* what the gossip task is doing
  tried,       \* the addresses listen_on was called with
  dialled,     \* dial_peers has been called
  connected,   \* gossipsub has a peer to send to
  published,   \* the requests whose message gossipsub accepted
  handled      \* the requests whose message the handler was given

swarmVars == <<tried, dialled, connected, published, handled>>
vars == <<queue, parked, state, task, swarmVars>>

TypeOK ==
  /\ queue \in Seq(Senders) /\ parked \in Seq(Senders)
  /\ state \in [Senders -> {"idle", "parked", "sent"}]
  /\ task \in {"listen", "connect", "run"}
  /\ tried \in SUBSET Addresses
  /\ {dialled, connected} \subseteq BOOLEAN
  /\ published \in SUBSET Requests /\ handled \in SUBSET Requests

Init ==
  /\ queue = <<>> /\ parked = <<>>
  /\ state = [s \in Senders |-> "idle"]
  /\ task = "listen"
  /\ tried = {} /\ published = {} /\ handled = {}
  /\ dialled = FALSE /\ connected = FALSE

-----------------------------------------------------------------------------
(* A channel with room for one order less.                                 *)
MutantEnqueue(s) ==
  /\ state[s] = "idle"
  /\ queue' = Append(queue, s)
  /\ \/ /\ Len(queue) + 1 < Buffer
        /\ state' = [state EXCEPT ![s] = "sent"]
        /\ UNCHANGED parked
     \/ /\ Len(queue) + 1 >= Buffer
        /\ state' = [state EXCEPT ![s] = "parked"]
        /\ parked' = Append(parked, s)

(* futures::channel::mpsc.  A handle that is not parked always gets its    *)
(* order into the channel; if there are then more than Buffer of them it   *)
(* parks, and its send returns when a receive has unparked it.             *)
Enqueue(s) ==
  /\ state[s] = "idle"
  /\ queue' = Append(queue, s)
  /\ \/ /\ Len(queue) < Buffer
        /\ state' = [state EXCEPT ![s] = "sent"]
        /\ UNCHANGED parked
     \/ /\ Len(queue) >= Buffer
        /\ state' = [state EXCEPT ![s] = "parked"]
        /\ parked' = Append(parked, s)

Dequeue ==
  /\ queue # <<>>
  /\ queue' = Tail(queue)
  /\ \/ parked = <<>> /\ UNCHANGED <<parked, state>>
     \/ /\ parked # <<>>
        /\ parked' = Tail(parked)
        /\ state' = [state EXCEPT ![Head(parked)] = "sent"]

-----------------------------------------------------------------------------
(* witness_event's publish, through a clone of the witnesser's handle.     *)
(* Nothing makes it wait for the service to run.                           *)
Publish(r) ==
  /\ Enqueue(r)
  /\ UNCHANGED <<task, swarmVars>>

(* One of the futures under join_all.                                      *)
Listen(a) ==
  /\ task = "listen"
  /\ Enqueue(a)
  /\ UNCHANGED <<task, swarmVars>>

(* The peers are dialled without waiting for the listen orders.            *)
MutantConnectTo ==
  /\ task = "listen"
  /\ Enqueue(Dialer)
  /\ task' = "connect"
  /\ UNCHANGED swarmVars

(* join_all is done, and connect_to sends.                                 *)
ConnectTo ==
  /\ task = "listen"
  /\ \A a \in Addresses : state[a] = "sent"
  /\ Enqueue(Dialer)
  /\ task' = "connect"
  /\ UNCHANGED swarmVars

Run ==
  /\ task = "connect"
  /\ state[Dialer] = "sent"
  /\ task' = "run"
  /\ UNCHANGED <<queue, parked, state, swarmVars>>

-----------------------------------------------------------------------------
(* handle_incoming_order.  Failures are logged, and a message whose        *)
(* publication failed is handled all the same.                             *)

(* A failed publication ends the handling of the order.                    *)
MutantHandleSendMessage(r) ==
  /\ handled' = IF connected THEN handled \cup {r} ELSE handled
  /\ published' = IF connected THEN published \cup {r} ELSE published
  /\ UNCHANGED <<tried, dialled, connected>>

HandleSendMessage(r) ==
  /\ handled' = handled \cup {r}
  /\ published' = IF connected THEN published \cup {r} ELSE published
  /\ UNCHANGED <<tried, dialled, connected>>

HandleListen(a) ==
  /\ tried' = tried \cup {a}
  /\ UNCHANGED <<dialled, connected, published, handled>>

HandleDialPeers ==
  /\ dialled' = TRUE
  /\ UNCHANGED <<tried, connected, published, handled>>

HandleIncomingOrder ==
  /\ task = "run"
  /\ Dequeue
  /\ \/ Head(queue) \in Requests /\ HandleSendMessage(Head(queue))
     \/ Head(queue) \in Addresses /\ HandleListen(Head(queue))
     \/ Head(queue) = Dialer /\ HandleDialPeers
  /\ UNCHANGED task

(* libp2p: a dialled or a dialling peer subscribes to the topic, or the    *)
(* last one is lost.                                                       *)
PeersChange ==
  /\ task = "run"
  /\ \/ ~connected /\ (dialled \/ tried # {})
     \/ connected
  /\ connected' = ~connected
  /\ UNCHANGED <<queue, parked, state, task, tried, dialled, published, handled>>

-----------------------------------------------------------------------------
Next ==
  \/ \E r \in Requests : Publish(r)
  \/ \E a \in Addresses : Listen(a)
  \/ ConnectTo
  \/ Run
  \/ HandleIncomingOrder
  \/ PeersChange

Spec == Init /\ [][Next]_vars

-----------------------------------------------------------------------------
(* The orders reach the service in the order of start-up: no peer is       *)
(* dialled before every listen address was tried, although the sends only  *)
(* wait for room and not for the service (node.rs, the two awaits).        *)
ListensBeforeDialling == dialled => tried = Addresses

Made == {r \in Requests : state[r] # "idle"}

(* Until the service runs nobody receives, so a sender that waits for room *)
(* waits for good.  It takes a crowd of early requests: with the orders of *)
(* start-up, more than the channel was made for (node.rs, the sends        *)
(* precede the receiver; gossip/mod.rs, channel(64)).                      *)
WaitsOnlyIfCrowded ==
  task # "run" /\ parked # <<>> =>
    Cardinality(Made) + Cardinality(Addresses) + 1 > Buffer

(* The gossip task waits for room in the channel it is yet to receive from.*)
Stuck == task # "run" /\ \E s \in Addresses \cup {Dialer} : state[s] = "parked"

(* Every witness request that sent its message returns, and the handler is *)
(* given the message ("EventGossipHandler will then proceed to add the     *)
(* event", events/witness.rs:55).  It does not hold of the code: the       *)
(* gossip task can be stuck.                                               *)
WitnessedEventsHandled ==
  \A r \in Requests :
    state[r] # "idle" ~> r \in handled /\ state[r] = "sent"

(* What does hold: nothing but that keeps a request from returning and its *)
(* message from the handler, and a request made once the service runs is   *)
(* safe, whether or not gossipsub has anybody to send it to                *)
(* (gossip/mod.rs, handle_incoming_order).                                 *)
HandledUnlessStuck ==
  \A r \in Requests :
    state[r] # "idle" ~> (r \in handled /\ state[r] = "sent") \/ Stuck
=============================================================================
