--------------------------- MODULE NetworkConfig ---------------------------
(***************************************************************************)
(* How --gossip-port becomes the addresses of the gossip network           *)
(* (consensus/src/config.rs, and its use in node.rs): the option is parsed *)
(* into a PortOrOffset, which is applied to the listen addresses and to    *)
(* the boot nodes of the Substrate network.                                *)
(***************************************************************************)
EXTENDS Integers, Sequences

MaxU16 == 65535
MinI16 == -32768
MaxI16 == 32767

(* A decimal number with the sign characters in front of it; inner is the  *)
(* sign that i16::from_str gets to see.                                    *)
Text == [sign : {"+", "-", ""}, inner : {"+", "-", ""}, digits : Nat]

Protocol == [name : STRING, value : Nat]

PortOrOffset == [kind : {"port"}, value : 0..MaxU16]
                  \cup [kind : {"offset"}, value : MinI16..MaxI16]
LeastOffset == [kind |-> "offset", value |-> MinI16]
ParseError == [kind |-> "error", value |-> 0]
Panic == [kind |-> "panic", value |-> 0]

-----------------------------------------------------------------------------
(* Negation of an i16: the least one has no negative.                      *)
Negate(i) == IF i = MinI16 THEN MinI16 ELSE -i

(* i16::from_str                                                           *)
SignedValue(inner, digits) == IF inner = "-" THEN -digits ELSE digits

(* A negative offset loses its sign.                                       *)
MutantFromStr(t, checks) ==
  LET i == SignedValue(t.inner, t.digits)
  IN  IF t.sign = ""
      THEN IF t.digits > MaxU16 THEN ParseError
           ELSE [kind |-> "port", value |-> t.digits]
      ELSE IF i \notin MinI16..MaxI16 THEN ParseError
           ELSE [kind |-> "offset", value |-> i]

(* FromStr for PortOrOffset, in a build that checks arithmetic for         *)
(* overflow or in one that does not.                                       *)
FromStr(t, checks) ==
  LET i == SignedValue(t.inner, t.digits)
  IN  IF t.sign = ""
      THEN IF t.digits > MaxU16 THEN ParseError
           ELSE [kind |-> "port", value |-> t.digits]
      ELSE IF i \notin MinI16..MaxI16 THEN ParseError
           ELSE IF t.sign = "+" THEN [kind |-> "offset", value |-> i]
           ELSE IF i = MinI16 /\ checks THEN Panic
           ELSE [kind |-> "offset", value |-> Negate(i)]

(* Display for PortOrOffset, which clap applies to the default value; what *)
(* follows the minus sign is an i16 with a sign of its own.                *)
Display(s, checks) ==
  IF s.kind = "port" THEN [sign |-> "", inner |-> "", digits |-> s.value]
  ELSE IF s.value >= 0 THEN [sign |-> "+", inner |-> "", digits |-> s.value]
  ELSE IF s.value = MinI16 /\ checks THEN Panic
  ELSE IF Negate(s.value) >= 0
       THEN [sign |-> "-", inner |-> "", digits |-> Negate(s.value)]
       ELSE [sign |-> "-", inner |-> "-", digits |-> -Negate(s.value)]

(* A sum that is out of range leaves the port as it is.                    *)
MutantAdjustPort(s, port) ==
  IF s.kind = "port" THEN s.value
  ELSE IF port + s.value \in 0..MaxU16 THEN port + s.value
  ELSE port

(* PortOrOffset::adjust_port, with saturating_add_signed                   *)
AdjustPort(s, port) ==
  IF s.kind = "port" THEN s.value
  ELSE IF port + s.value > MaxU16 THEN MaxU16
  ELSE IF port + s.value < 0 THEN 0
  ELSE port + s.value

-----------------------------------------------------------------------------
IsPort(p) == p.name \in {"tcp", "udp"}
Adjusted(s, p) ==
  IF IsPort(p) THEN [name |-> p.name, value |-> AdjustPort(s, p.value)] ELSE p

(* The index of the last port of an address, 0 if it has none.             *)
LastPort(a) ==
  CHOOSE i \in 0..Len(a) :
    /\ i # 0 => IsPort(a[i])
    /\ \A j \in i+1..Len(a) : ~ IsPort(a[j])

(* The loop goes on after it has adjusted a port.                          *)
MutantPopped(s, a) ==
  [i \in 1..Len(a) |-> Adjusted(s, a[Len(a) + 1 - i])]

(* The protocols the loop of adjust_multiaddr takes off: down to the last  *)
(* port, which it adjusts, or all of them.                                 *)
Popped(s, a) ==
  [i \in 1..Len(a) + 1 - (IF LastPort(a) = 0 THEN 1 ELSE LastPort(a)) |->
     Adjusted(s, a[Len(a) + 1 - i])]

(* Only the last protocol taken off is put back.                           *)
MutantAdjustMultiaddr(s, a) ==
  LET popped == Popped(s, a)
  IN  IF popped = <<>> THEN a
      ELSE Append(SubSeq(a, 1, Len(a) - Len(popped)), popped[Len(popped)])

(* PortOrOffset::adjust_multiaddr.  The protocols are put back in the      *)
(* order in which they were taken off.                                     *)
AdjustMultiaddr(s, a) ==
  SubSeq(a, 1, Len(a) - Len(Popped(s, a))) \o Popped(s, a)

(* "Remove the final /p2p/.. part"                                         *)
StripPeerId(a) ==
  IF a # <<>> /\ a[Len(a)].name = "p2p" THEN SubSeq(a, 1, Len(a) - 1) ELSE a
=============================================================================
