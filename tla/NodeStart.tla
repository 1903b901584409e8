----------------------------- MODULE NodeStart -----------------------------
(***************************************************************************)
(* The start of a node (consensus/src/node.rs): the options are parsed,    *)
(* the gRPC server is spawned, the addresses of the gossip network are     *)
(* derived from those of the Substrate network, and the gossip task sends  *)
(* its first orders and runs.  Trusted clients can have events witnessed   *)
(* as soon as the server is there.  One behaviour follows one multiaddress *)
(* that is both one of the listen addresses and a boot node.               *)
(***************************************************************************)
EXTENDS GossipChannel, NetworkConfig

CONSTANT Inputs    \* what the node is started with

ASSUME InputAssumption ==
  \A i \in Inputs :
    /\ i.text \in Text /\ (i.text.sign = "" => i.text.inner = "")
    /\ i.given \in Seq(Protocol)
    /\ \A n \in 1..Len(i.given) :
         IsPort(i.given[n]) => i.given[n].value \in 0..MaxU16
    /\ {i.checks, i.override} \subseteq BOOLEAN

VARIABLES
  input,     \* text: --gossip-port; given: the multiaddress; override: it is
             \* given as --gossip-bootnodes; checks: the build checks overflow
  setting,   \* gossip_port
  network    \* the addresses the gossip network listens on and dials

startVars == <<input, setting, network>>

Unparsed == [kind |-> "unparsed", value |-> 0]
NoNetwork == [listen |-> <<>>, dial |-> <<>>, known |-> FALSE]

StartInit ==
  /\ Init
  /\ input \in Inputs
  /\ setting = Unparsed
  /\ network = NoNetwork

(* An error or a panic ends the program.                                   *)
ParseOptions ==
  /\ setting = Unparsed
  /\ setting' = FromStr(input.text, input.checks)
  /\ UNCHANGED <<input, network, vars>>

(* server::run has been spawned.  If it cannot bind its addresses its task *)
(* ends, and no requests are made.                                         *)
Serving == setting.kind \in {"port", "offset"}

(* gossip_listen_addresses and gossip_peers                                *)
DeriveAddresses ==
  LET adjusted == AdjustMultiaddr(setting, input.given)
  IN  /\ Serving /\ ~network.known
      /\ network' = [listen |-> adjusted,
                     dial   |-> IF input.override THEN input.given
                                ELSE StripPeerId(adjusted),
                     known  |-> TRUE]
      /\ UNCHANGED <<input, setting, vars>>

(* The gRPC handler of WitnessEvent; an identifier that does not have 32   *)
(* bytes is refused, which leaves no trace.                                *)
ServeRequest(r) == Serving /\ Publish(r) /\ UNCHANGED startVars

(* The gossip task is spawned with the addresses.                          *)
Spawned(A) == network.known /\ A /\ UNCHANGED startVars

StartNext ==
  \/ ParseOptions
  \/ DeriveAddresses
  \/ \E r \in Requests : ServeRequest(r)
  \/ \E a \in Addresses : Spawned(Listen(a))
  \/ Spawned(ConnectTo)
  \/ Spawned(Run)
  \/ Spawned(HandleIncomingOrder)
  \/ Spawned(PeersChange)

(* The main thread gets through `start`, and the gossip task is polled     *)
(* whenever it can move; select! takes a ready branch at random.           *)
StartSpec ==
  /\ StartInit /\ [][StartNext]_<<vars, startVars>>
  /\ WF_<<vars, startVars>>(ParseOptions)
  /\ WF_<<vars, startVars>>(DeriveAddresses)
  /\ \A a \in Addresses : WF_<<vars, startVars>>(Spawned(Listen(a)))
  /\ WF_<<vars, startVars>>(Spawned(ConnectTo))
  /\ WF_<<vars, startVars>>(Spawned(Run))
  /\ WF_<<vars, startVars>>(Spawned(HandleIncomingOrder))

-----------------------------------------------------------------------------
(* A setting survives being printed and parsed again by the same build,    *)
(* the least offset included where negation wraps around; where overflow   *)
(* is checked, printing that one offset panics (config.rs, Display, which  *)
(* clap uses for the default, and FromStr).                                *)
DisplayRoundTrips ==
  setting \in PortOrOffset =>
    IF input.checks /\ setting = LeastOffset
      THEN Display(setting, input.checks) = Panic
      ELSE FromStr(Display(setting, input.checks), input.checks) = setting

EndsInPort == input.given # <<>> /\ IsPort(input.given[Len(input.given)])

(* The common case: an address that ends with its port has that port       *)
(* adjusted and nothing else changed, for listening and for dialling.      *)
AdjustedInPlace ==
  (network.known /\ EndsInPort) =>
    LET n == Len(input.given)
        wanted == [input.given EXCEPT ![n] = Adjusted(setting, @)]
    IN  /\ network.listen = wanted
        /\ ~input.override => network.dial = wanted

Occurrences(p, a) == {i \in 1..Len(a) : a[i] = p}

(* Whatever the order, a listen address keeps each of its protocols as     *)
(* often as it had it, and only its last port is adjusted (adjust_         *)
(* multiaddr stops at the first port it meets).                            *)
ProtocolsKept ==
  network.known =>
    LET a == network.listen
        wanted == [i \in 1..Len(input.given) |->
                     IF i = LastPort(input.given)
                       THEN Adjusted(setting, input.given[i])
                       ELSE input.given[i]]
    IN  \A i \in 1..Len(a), j \in 1..Len(wanted) : \A p \in {a[i], wanted[j]} :
          Cardinality(Occurrences(p, a)) = Cardinality(Occurrences(p, wanted))

(* An offset keeps the gossip port apart from the Substrate port it is     *)
(* derived from, except at the end of the range where it saturates         *)
(* ("so as to not conflict", config.rs).                                   *)
OffsetMovesPort ==
  (network.known /\ setting.kind = "offset" /\ setting.value # 0
     /\ LastPort(input.given) # 0) =>
    LET from == input.given[LastPort(input.given)].value
        to   == network.listen[LastPort(network.listen)].value
    IN  to = from => from = (IF setting.value > 0 THEN MaxU16 ELSE 0)
=============================================================================
