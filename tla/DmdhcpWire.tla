------------------------------ MODULE DmdhcpWire ------------------------------
(***************************************************************************)
(* The fixed DHCP header of dmdhcp_wire.c as bytes: where each field is,   *)
(* how it is written and how it is read back.  A byte string is a sequence *)
(* whose element p + 1 is the byte at offset p.                            *)
(***************************************************************************)
EXTENDS Naturals, Sequences

HeaderLen == 240       \* DMDHCP_FIXED_HEADER_LEN + 4
ChaddrLen == 16
AddrLen == 4           \* DMROUTE_IPV4_ADDR_LEN
Cookie == <<99, 130, 83, 99>>
BootRequest == 1
BootReply == 2

\* What a uint8_t, a uint16_t and a uint32_t hold.
Byte == 0..255
U16 == {n \in Nat : n \div 256 \in Byte}
U32 == {n \in Nat : n \div 16777216 \in Byte}

write_u16_be(v) == <<(v \div 256) % 256, v % 256>>
read_u16_be(b) == b[1] * 256 + b[2]
write_u32_be(v) == <<(v \div 16777216) % 256, (v \div 65536) % 256, (v \div 256) % 256, v % 256>>
read_u32_be(b) == b[1] * 16777216 + b[2] * 65536 + b[3] * 256 + b[4]

\* write_addr(): an address of family none is all zero; read_addr(): always v4.
Zero == <<0, 0, 0, 0>>
AddrBytes(a) == IF a.family = "v4" THEN a.v4 ELSE Zero

\* Mutant: four zero bytes are read as no address.
ReadAddrOrNone(b) == [family |-> IF b = Zero THEN "none" ELSE "v4", v4 |-> b]

ReadAddr(b) == [family |-> "v4", v4 |-> b]

Addrs(h) == {h.ciaddr, h.yiaddr, h.siaddr, h.giaddr}

\* dmdhcp_message_t
Address == [family : {"none", "v4", "v6"}, v4 : [1..AddrLen -> Byte]]
Header ==
  [op : Byte, htype : Byte, hlen : Byte, hops : Byte, xid : U32, secs : U16, flags : U16,
   ciaddr : Address, yiaddr : Address, siaddr : Address, giaddr : Address,
   chaddr : [1..ChaddrLen -> Byte]]

\* Each field with its offset.
Fields(h) ==
  { <<0, <<h.op>>>>, <<1, <<h.htype>>>>, <<2, <<h.hlen>>>>, <<3, <<h.hops>>>>,
    <<4, write_u32_be(h.xid)>>, <<8, write_u16_be(h.secs)>>, <<10, write_u16_be(h.flags)>>,
    <<12, AddrBytes(h.ciaddr)>>, <<16, AddrBytes(h.yiaddr)>>,
    <<20, AddrBytes(h.siaddr)>>, <<24, AddrBytes(h.giaddr)>>, <<28, h.chaddr>>,
    <<HeaderLen - 4, Cookie>> }

Covers(f, p) == p \in f[1] + 1..f[1] + Len(f[2])

\* dmdhcp_build_message(): what no field covers (sname, file) is zero.
HeaderBytes(h) ==
  [p \in 1..HeaderLen |->
     IF \E f \in Fields(h) : Covers(f, p)
       THEN LET f == CHOOSE f \in Fields(h) : Covers(f, p) IN f[2][p - f[1]]
       ELSE 0]

build_error(h, buffer_len) ==
  IF buffer_len < HeaderLen \/ \E a \in Addrs(h) : a.family = "v6" THEN "EINVAL" ELSE "ok"

\* dmdhcp_parse_message(): the error, or the fields.
parse_error(b, length) ==
  IF length < HeaderLen THEN "EINVAL"
  ELSE IF SubSeq(b, HeaderLen - 3, HeaderLen) # Cookie \/ b[1] \notin {BootRequest, BootReply}
         THEN "EPROTO" ELSE "ok"

ParsedHeader(b) ==
  LET at(p, w) == SubSeq(b, p + 1, p + w)
      addr(p) == ReadAddr(at(p, AddrLen))
  IN  [op |-> b[1], htype |-> b[2], hlen |-> b[3], hops |-> b[4], xid |-> read_u32_be(at(4, 4)),
       secs |-> read_u16_be(at(8, 2)), flags |-> read_u16_be(at(10, 2)),
       ciaddr |-> addr(12), yiaddr |-> addr(16), siaddr |-> addr(20), giaddr |-> addr(24),
       chaddr |-> at(28, ChaddrLen)]
=============================================================================
