---------------------------- MODULE MCNodeStart ----------------------------
(* NodeStart with a channel of a few orders in place of 64, numbers at the *)
(* edges of their ranges, and the shapes of addresses libp2p networks use. *)
EXTENDS NodeStart

CONSTANTS r1, r2, r3, a1, a2

Digits == {0, 1, 10, 32767, 32768, 65535, 65536}
EdgeTexts ==
  [sign : {"+", "-"}, inner : {"", "+", "-"}, digits : Digits]
    \cup [sign : {""}, inner : {""}, digits : Digits]

Ip == [name |-> "ip4", value |-> 0]
Ws == [name |-> "ws", value |-> 0]
Peer == [name |-> "p2p", value |-> 1]
Tcp(port) == [name |-> "tcp", value |-> port]
Udp(port) == [name |-> "udp", value |-> port]

Shapes(p) == {<<Ip, Tcp(p)>>, <<Ip, Tcp(p), Ws>>, <<Ip, Udp(p), Peer>>,
              <<Ip, Tcp(p), Ws, Peer>>, <<Ip, Tcp(p), Udp(p)>>,
              <<Ip>>, <<Ip, Peer>>, <<>>}

(* The common case, for a run about the channel alone.                     *)
OneInput ==
  {[text |-> [sign |-> "+", inner |-> "", digits |-> 10],
    given |-> <<Ip, Tcp(30333)>>, checks |-> FALSE, override |-> FALSE]}

(* Every text with one address, and every address with a few texts.        *)
MCInputs ==
  [text : EdgeTexts, given : {<<Ip, Tcp(65526)>>}, checks : BOOLEAN,
   override : {FALSE}]
    \cup
  [text : {[sign |-> s, inner |-> "", digits |-> 10] : s \in {"+", "-", ""}},
   given : UNION {Shapes(p) : p \in {1, 30333, 65526, 65535}},
   checks : {FALSE}, override : {FALSE}]
    \cup
  [text : {[sign |-> "+", inner |-> "", digits |-> 10]},
   given : Shapes(30333), checks : {FALSE}, override : {TRUE}]
=============================================================================
