--------------------------- MODULE MCDmdhcpMessage ---------------------------
(***************************************************************************)
(* Messages for DmdhcpMessage: leases with no, an empty, a short and a     *)
(* long hostname; arrays of options around the capacity of their buffer;   *)
(* received messages with every options area of a small alphabet.          *)
(***************************************************************************)
EXTENDS DmdhcpMessage

V4(a, b, c, d) == [family |-> "v4", v4 |-> <<a, b, c, d>>]
Name(n) == [k \in 1..n |-> 97]

MCLeases ==
  {[xid |-> x, offered_ip |-> ip, server_id |-> id, named |-> n >= 0,
    hostname |-> Name(IF n < 0 THEN 0 ELSE n), mac |-> <<2, 0, 0, 0, 0, 255>>] :
     x \in {16909060}, ip \in {AddrNone, V4(10, 0, 0, 255)}, id \in {V4(10, 0, 0, 1)},
     n \in {0 - 1, 0, 3, 255, 300}}

MCHeader(f) ==
  [op |-> BootReply, htype |-> 1, hlen |-> 6, hops |-> 255, xid |-> 2147483647, secs |-> 65535,
   flags |-> 256, ciaddr |-> [family |-> f, v4 |-> <<13, 14, 15, 16>>], yiaddr |-> V4(1, 2, 3, 4),
   siaddr |-> V4(5, 6, 7, 8), giaddr |-> V4(9, 10, 11, 12), chaddr |-> [k \in 1..ChaddrLen |-> k]]

MCOptions ==
  LET some == {Option(1, <<>>), Option(1, <<7>>), Option(2, <<END, 1>>), Option(2, Zero),
               Option(END, <<>>), [code |-> 1, length |-> 1, data |-> Null]}
  IN  {<<>>} \cup {<<o>> : o \in some} \cup {<<o, p>> : o \in some, p \in some}

MCBuilds ==
  {[header |-> MCHeader(f), options |-> o, capacity |-> HeaderLen + n] :
     f \in {"none"}, o \in MCOptions, n \in 0..13}
  \cup {[header |-> MCHeader(f), options |-> <<>>, capacity |-> HeaderLen + n] :
          f \in {"none", "v6"}, n \in {0 - 1, 0, 1}}

MCAreaLen == 5
MCAlphabet == {0, 1, 2, 255}
MCAreas == UNION {[1..n -> MCAlphabet] : n \in 0..MCAreaLen}
             \cup {<<6, n>> \o Name(8) \o <<b>> : n \in {7, 8, 9, 10}, b \in {0, 255}}
MCReply == SubSeq(HeaderBytes(MCHeader("v4")), 1, HeaderLen)
MCReceived ==
  {[bytes |-> b, area |-> a] : b \in {MCReply}, a \in MCAreas}
  \cup {[bytes |-> SubSeq(MCReply, 1, n), area |-> <<>>] : n \in {0, 1, HeaderLen - 1}}
  \cup {[bytes |-> [MCReply EXCEPT ![p] = 3], area |-> <<END>>] :
          p \in {1, HeaderLen - 3, HeaderLen}}
MCCodes == {1, 2, 6, 53}
=============================================================================
