----------------------- MODULE DmdhcpMessageRoundTrip -----------------------
(***************************************************************************)
(* For every message that is built: what the receiver's code reads back is *)
(* what was written, header and options; and the messages of the client    *)
(* always fit.                                                             *)
(***************************************************************************)
EXTENDS DmdhcpMessageProofs

\* Most leaves are first-order; the others name SMT.
USE Zenon
-----------------------------------------------------------------------------
(* The header.  FieldAt(h, o) is the field at offset o, of Width(o) bytes. *)
Offsets == {0, 1, 2, 3, 4, 8, 10, 12, 16, 20, 24, 28, 236}

Width(o) ==
  IF o <= 3 THEN 1 ELSE IF o \in {8, 10} THEN 2 ELSE IF o = 28 THEN 16 ELSE 4

FieldAt(h, o) ==
  CASE o = 0 -> <<h.op>>
    [] o = 1 -> <<h.htype>>
    [] o = 2 -> <<h.hlen>>
    [] o = 3 -> <<h.hops>>
    [] o = 4 -> write_u32_be(h.xid)
    [] o = 8 -> write_u16_be(h.secs)
    [] o = 10 -> write_u16_be(h.flags)
    [] o = 12 -> AddrBytes(h.ciaddr)
    [] o = 16 -> AddrBytes(h.yiaddr)
    [] o = 20 -> AddrBytes(h.siaddr)
    [] o = 24 -> AddrBytes(h.giaddr)
    [] o = 28 -> h.chaddr
    [] o = 236 -> Cookie

\* A byte string of n bytes.
Bytes(b, n) == b \in Seq(Byte) /\ Len(b) = n

\* A function from 1..n to bytes is a byte string.
LEMMA FunctionIsBytes ==
  ASSUME NEW n \in Nat, NEW b \in [1..n -> Byte]
  PROVE  Bytes(b, n)
<1>1. b = [i \in 1..n |-> b[i]]  OBVIOUS
<1>2. \A i \in 1..n : b[i] \in Byte  OBVIOUS
<1> QED  BY <1>1, <1>2, SMT DEF Bytes

\* write_u16_be() writes two bytes, and read_u16_be() gets the value from them.
LEMMA U16RoundTrip ==
  ASSUME NEW v \in U16
  PROVE  Bytes(write_u16_be(v), 2) /\ read_u16_be(write_u16_be(v)) = v
<1> DEFINE a == v \div 256
           b == v % 256
<1>1. v \in Nat /\ a \in Byte  BY SMT DEF U16
<1>2. b \in Byte /\ v = a * 256 + b /\ a % 256 = a  BY <1>1, SMT DEF Byte
<1>3. write_u16_be(v) = <<a, b>>  BY <1>2 DEF write_u16_be
<1> HIDE DEF a, b
<1>4. Bytes(<<a, b>>, 2)  BY <1>1, <1>2, SMT DEF Bytes
<1>5. read_u16_be(<<a, b>>) = v  BY <1>2, SMT DEF read_u16_be
<1> QED  BY <1>3, <1>4, <1>5

\* write_u32_be() writes four bytes, and read_u32_be() gets the value from them.
LEMMA U32RoundTrip ==
  ASSUME NEW v \in U32
  PROVE  Bytes(write_u32_be(v), 4) /\ read_u32_be(write_u32_be(v)) = v
<1> DEFINE a == v \div 16777216
           b == (v \div 65536) % 256
           c == (v \div 256) % 256
           d == v % 256
<1>1. v \in Nat /\ a \in Byte  BY SMT DEF U32
<1>2. a % 256 = a /\ b \in Byte /\ c \in Byte /\ d \in Byte  BY <1>1, SMT DEF Byte
<1>3. v = (v \div 256) * 256 + d  BY <1>1, SMT
<1>4. v \div 256 \in Nat /\ (v \div 256) = ((v \div 256) \div 256) * 256 + c  BY <1>1, SMT
<1>5. (v \div 256) \div 256 = v \div 65536  BY <1>1, SMT
<1>6. v \div 65536 = ((v \div 65536) \div 256) * 256 + b /\ v \div 65536 \in Nat  BY <1>1, SMT
<1>7. (v \div 65536) \div 256 = a  BY <1>1, SMT
<1>8. v = a * 16777216 + b * 65536 + c * 256 + d
  BY <1>1, <1>3, <1>4, <1>5, <1>6, <1>7, SMT DEF Byte
<1>9. write_u32_be(v) = <<a, b, c, d>>  BY <1>2, SMT DEF write_u32_be
<1> HIDE DEF a, b, c, d
<1>10. Bytes(<<a, b, c, d>>, 4)  BY <1>1, <1>2, SMT DEF Bytes
<1>11. read_u32_be(<<a, b, c, d>>) = v  BY <1>8, SMT DEF read_u32_be
<1> QED  BY <1>9, <1>10, <1>11

\* write_addr() writes four bytes.
LEMMA AddrBytesType ==
  ASSUME NEW a \in Address
  PROVE  Bytes(AddrBytes(a), 4)
<1>1. a.v4 \in [1..4 -> Byte]  BY DEF Address, AddrLen
<1>2. 4 \in Nat  BY SMT
<1>4. Bytes(a.v4, 4)  BY <1>1, <1>2, FunctionIsBytes
<1>3. Bytes(Zero, 4)  BY SMT DEF Zero, Bytes, Byte
<1> QED  BY <1>3, <1>4 DEF AddrBytes

\* Each field of the header has its width.
LEMMA FieldType ==
  ASSUME NEW h \in Header, NEW o \in Offsets
  PROVE  Bytes(FieldAt(h, o), Width(o))
<1>1. /\ h.op \in Byte /\ h.htype \in Byte /\ h.hlen \in Byte /\ h.hops \in Byte
      /\ h.xid \in U32 /\ h.secs \in U16 /\ h.flags \in U16
      /\ h.ciaddr \in Address /\ h.yiaddr \in Address /\ h.siaddr \in Address /\ h.giaddr \in Address
      /\ h.chaddr \in [1..ChaddrLen -> Byte]
  BY DEF Header
<1>2. ASSUME NEW x \in Byte PROVE Bytes(<<x>>, 1)  BY SMT DEF Bytes
<1>3. Bytes(Cookie, 4)  BY SMT DEF Bytes, Cookie, Byte
<1>4. Bytes(h.chaddr, 16)
  <2>1. 16 \in Nat  BY SMT
  <2> QED  BY <1>1, <2>1, FunctionIsBytes DEF ChaddrLen
<1>5. CASE o \in {0, 1, 2, 3}
  <2>1. Width(o) = 1  BY <1>5, SMT DEF Width
  <2>2. FieldAt(h, o) \in {<<h.op>>, <<h.htype>>, <<h.hlen>>, <<h.hops>>}
    BY <1>5, SMT DEF FieldAt
  <2> QED  BY <1>1, <1>2, <2>1, <2>2
<1>6. CASE o = 4
  <2>1. Width(o) = 4 /\ FieldAt(h, o) = write_u32_be(h.xid)  BY <1>6, SMT DEF Width, FieldAt
  <2> QED  BY <1>1, <2>1, U32RoundTrip
<1>7. CASE o \in {8, 10}
  <2>1. Width(o) = 2 /\ FieldAt(h, o) \in {write_u16_be(h.secs), write_u16_be(h.flags)}
    BY <1>7, SMT DEF Width, FieldAt
  <2> QED  BY <1>1, <2>1, U16RoundTrip
<1>8. CASE o \in {12, 16, 20, 24}
  <2>1. Width(o) = 4  BY <1>8, SMT DEF Width
  <2>2. FieldAt(h, o) \in {AddrBytes(h.ciaddr), AddrBytes(h.yiaddr), AddrBytes(h.siaddr),
                           AddrBytes(h.giaddr)}
    BY <1>8, SMT DEF FieldAt
  <2> QED  BY <1>1, <2>1, <2>2, AddrBytesType
<1>9. CASE o = 28
  <2>1. Width(o) = 16 /\ FieldAt(h, o) = h.chaddr  BY <1>9, SMT DEF Width, FieldAt
  <2> QED  BY <1>4, <2>1
<1>10. CASE o = 236
  <2>1. Width(o) = 4 /\ FieldAt(h, o) = Cookie  BY <1>10, SMT DEF Width, FieldAt
  <2> QED  BY <1>3, <2>1
<1> QED  BY <1>5, <1>6, <1>7, <1>8, <1>9, <1>10 DEF Offsets

\* No two fields overlap, and all are inside the header.
LEMMA FieldsApart ==
  ASSUME NEW o \in Offsets, NEW p \in Offsets
  PROVE  /\ o \in Nat /\ o + Width(o) <= HeaderLen
         /\ o # p => o + Width(o) <= p \/ p + Width(p) <= o
BY SMT DEF Offsets, Width, HeaderLen

\* Fields(h) has one field for each offset.
LEMMA FieldsByOffset ==
  ASSUME NEW h
  PROVE  /\ \A f \in Fields(h) : f[1] \in Offsets /\ f = <<f[1], FieldAt(h, f[1])>>
         /\ \A o \in Offsets : <<o, FieldAt(h, o)>> \in Fields(h)
<1>1. /\ FieldAt(h, 0) = <<h.op>> /\ FieldAt(h, 1) = <<h.htype>>
      /\ FieldAt(h, 2) = <<h.hlen>> /\ FieldAt(h, 3) = <<h.hops>>
  BY SMT DEF FieldAt
<1>2. /\ FieldAt(h, 4) = write_u32_be(h.xid) /\ FieldAt(h, 8) = write_u16_be(h.secs)
      /\ FieldAt(h, 10) = write_u16_be(h.flags)
  BY SMT DEF FieldAt
<1>3. /\ FieldAt(h, 12) = AddrBytes(h.ciaddr) /\ FieldAt(h, 16) = AddrBytes(h.yiaddr)
      /\ FieldAt(h, 20) = AddrBytes(h.siaddr) /\ FieldAt(h, 24) = AddrBytes(h.giaddr)
  BY SMT DEF FieldAt
<1>4. FieldAt(h, 28) = h.chaddr /\ FieldAt(h, 236) = Cookie  BY SMT DEF FieldAt
<1>5. HeaderLen - 4 = 236  BY SMT DEF HeaderLen
<1>6. Fields(h) = { <<0, FieldAt(h, 0)>>, <<1, FieldAt(h, 1)>>, <<2, FieldAt(h, 2)>>,
                    <<3, FieldAt(h, 3)>>, <<4, FieldAt(h, 4)>>, <<8, FieldAt(h, 8)>>,
                    <<10, FieldAt(h, 10)>>, <<12, FieldAt(h, 12)>>, <<16, FieldAt(h, 16)>>,
                    <<20, FieldAt(h, 20)>>, <<24, FieldAt(h, 24)>>, <<28, FieldAt(h, 28)>>,
                    <<236, FieldAt(h, 236)>> }
  BY <1>1, <1>2, <1>3, <1>4, <1>5, SMT DEF Fields
<1>8. ASSUME NEW o \in Offsets  PROVE <<o, FieldAt(h, o)>> \in Fields(h)
  BY <1>6, SMT DEF Offsets
<1>7. ASSUME NEW f \in Fields(h)  PROVE f[1] \in Offsets /\ f = <<f[1], FieldAt(h, f[1])>>
  <2>1. PICK o \in Offsets : f = <<o, FieldAt(h, o)>>  BY <1>6, SMT DEF Offsets
  <2>2. f[1] = o  BY <2>1
  <2> QED  BY <2>1, <2>2
<1> QED  BY <1>7, <1>8

\* At a field's bytes, the header has the field.
LEMMA HeaderByte ==
  ASSUME NEW h \in Header, NEW o \in Offsets, NEW i \in 1..Width(o)
  PROVE  HeaderBytes(h)[o + i] = FieldAt(h, o)[i]
<1> DEFINE f == <<o, FieldAt(h, o)>>
           p == o + i
<1>1. f \in Fields(h)  BY FieldsByOffset
<1>2. ASSUME NEW q \in Offsets
      PROVE  Covers(<<q, FieldAt(h, q)>>, p) <=> p \in q + 1..q + Width(q)
  <2>1. Len(FieldAt(h, q)) = Width(q)  BY FieldType DEF Bytes
  <2>2. <<q, FieldAt(h, q)>>[1] = q /\ <<q, FieldAt(h, q)>>[2] = FieldAt(h, q)  OBVIOUS
  <2> QED  BY <2>1, <2>2 DEF Covers
<1>3. /\ o \in Nat /\ o + Width(o) <= HeaderLen
      /\ \A q \in Offsets : /\ q \in Nat
                            /\ o # q => o + Width(o) <= q \/ q + Width(q) <= o
  BY FieldsApart
<1>4. \A q \in Offsets : Width(q) \in Nat  BY SMT DEF Offsets, Width
<1>5. p \in o + 1..o + Width(o) /\ p \in 1..HeaderLen /\ p - o = i
  BY <1>3, <1>4, SMT DEF HeaderLen
<1>6. \A q \in Offsets : p \in q + 1..q + Width(q) => q = o  BY <1>3, <1>4, <1>5, SMT
<1>7. Covers(f, p)  BY <1>2, <1>5
<1>8. ASSUME NEW g \in Fields(h), Covers(g, p)  PROVE g = f
  <2>1. g[1] \in Offsets /\ g = <<g[1], FieldAt(h, g[1])>>  BY FieldsByOffset
  <2>2. g[1] = o  BY <1>2, <1>6, <1>8, <2>1
  <2> QED  BY <2>1, <2>2
<1>9. f[1] = o /\ f[2] = FieldAt(h, o)  OBVIOUS
<1> HIDE DEF f, p
<1>10. (CHOOSE g \in Fields(h) : Covers(g, p)) = f  BY <1>1, <1>7, <1>8
<1>11. HeaderBytes(h)[p] = f[2][p - f[1]]  BY <1>1, <1>5, <1>7, <1>10 DEF HeaderBytes
<1> QED  BY <1>5, <1>9, <1>11 DEF p

\* dmdhcp_build_message() writes HeaderLen bytes.
LEMMA HeaderBytesType ==
  ASSUME NEW h \in Header
  PROVE  Bytes(HeaderBytes(h), HeaderLen)
<1>1. ASSUME NEW p \in 1..HeaderLen  PROVE HeaderBytes(h)[p] \in Byte
  <2>1. CASE \E f \in Fields(h) : Covers(f, p)
    <3>1. PICK f \in Fields(h) : Covers(f, p)  BY <2>1
    <3> DEFINE o == f[1]
    <3>2. o \in Offsets /\ f = <<o, FieldAt(h, o)>>  BY FieldsByOffset
    <3>3. Bytes(FieldAt(h, o), Width(o)) /\ o \in Nat  BY <3>2, FieldType, FieldsApart
    <3>4. Width(o) \in Nat  BY <3>2, SMT DEF Offsets, Width
    <3>5. f[2] = FieldAt(h, o)
      <4>1. <<o, FieldAt(h, o)>>[2] = FieldAt(h, o)  OBVIOUS
      <4> QED  BY <3>2, <4>1
    <3>6. p \in o + 1..o + Width(o)  BY <3>1, <3>3, <3>5 DEF Covers, Bytes
    <3> HIDE DEF o
    <3>7. p - o \in 1..Width(o) /\ o + (p - o) = p  BY <3>3, <3>4, <3>6, SMT
    <3>8. HeaderBytes(h)[p] = FieldAt(h, o)[p - o]  BY <3>2, <3>7, HeaderByte
    <3>9. FieldAt(h, o)[p - o] \in Byte
      <4>1. FieldAt(h, o) \in Seq(Byte) /\ p - o \in 1..Len(FieldAt(h, o))  BY <3>3, <3>7 DEF Bytes
      <4> QED  BY <4>1, ElementOfSeq
    <3> QED  BY <3>8, <3>9
  <2>2. CASE ~ \E f \in Fields(h) : Covers(f, p)
    <3>1. HeaderBytes(h)[p] = 0  BY <2>2 DEF HeaderBytes
    <3>2. 0 \in Byte  BY SMT DEF Byte
    <3> QED  BY <3>1, <3>2
  <2> QED  BY <2>1, <2>2
<1>2. HeaderBytes(h) \in [1..HeaderLen -> Byte]
  <2>1. HeaderBytes(h) = [p \in 1..HeaderLen |-> HeaderBytes(h)[p]]  BY DEF HeaderBytes
  <2> QED  BY <1>1, <2>1
<1>3. HeaderLen \in Nat  BY SMT DEF HeaderLen
<1> QED  BY <1>2, <1>3, FunctionIsBytes

\* Reading Width(o) bytes at offset o gives the field.
LEMMA FieldRead ==
  ASSUME NEW h \in Header, NEW o \in Offsets
  PROVE  SubSeq(HeaderBytes(h), o + 1, o + Width(o)) = FieldAt(h, o)
<1> DEFINE b == HeaderBytes(h)
           c == FieldAt(h, o)
           w == Width(o)
<1>1. b \in Seq(Byte) /\ Len(b) = HeaderLen  BY HeaderBytesType DEF Bytes
<1>2. c \in Seq(Byte) /\ Len(c) = w  BY FieldType DEF Bytes
<1>3. o \in Nat /\ o + w <= HeaderLen /\ w \in Nat /\ w >= 1
  BY FieldsApart, SMT DEF Offsets, Width, HeaderLen
<1>4. \A i \in 1..w : b[o + i] = c[i]  BY HeaderByte
<1> HIDE DEF b, c, w
<1>5. o + 1 \in 1..Len(b) + 1 /\ o + w \in o..Len(b)  BY <1>1, <1>3, SMT DEF HeaderLen
<1>6. /\ SubSeq(b, o + 1, o + w) \in Seq(Byte)
      /\ Len(SubSeq(b, o + 1, o + w)) = w
      /\ \A i \in 1..w : SubSeq(b, o + 1, o + w)[i] = b[o + i]
  BY <1>1, <1>3, <1>5, SMT
<1>7. SubSeq(b, o + 1, o + w) = c  BY <1>2, <1>4, <1>6, SeqEqual
<1> QED  BY <1>7 DEF b, c, w

\* What is read of an address: its bytes, or 0.0.0.0 for none.
ReadBack(a) == [family |-> "v4", v4 |-> IF a.family = "none" THEN Zero ELSE a.v4]

\* The fields at fixed offsets of the header.
LEMMA HeaderFields ==
  ASSUME NEW h \in Header
  PROVE  /\ HeaderBytes(h)[1] = h.op /\ HeaderBytes(h)[2] = h.htype
         /\ HeaderBytes(h)[3] = h.hlen /\ HeaderBytes(h)[4] = h.hops
         /\ SubSeq(HeaderBytes(h), 4 + 1, 4 + 4) = write_u32_be(h.xid)
         /\ SubSeq(HeaderBytes(h), 8 + 1, 8 + 2) = write_u16_be(h.secs)
         /\ SubSeq(HeaderBytes(h), 10 + 1, 10 + 2) = write_u16_be(h.flags)
         /\ SubSeq(HeaderBytes(h), 12 + 1, 12 + 4) = AddrBytes(h.ciaddr)
         /\ SubSeq(HeaderBytes(h), 16 + 1, 16 + 4) = AddrBytes(h.yiaddr)
         /\ SubSeq(HeaderBytes(h), 20 + 1, 20 + 4) = AddrBytes(h.siaddr)
         /\ SubSeq(HeaderBytes(h), 24 + 1, 24 + 4) = AddrBytes(h.giaddr)
         /\ SubSeq(HeaderBytes(h), 28 + 1, 28 + 16) = h.chaddr
         /\ SubSeq(HeaderBytes(h), 236 + 1, 236 + 4) = Cookie
<1>1. HeaderBytes(h)[1] = h.op
  <2>1. 0 \in Offsets /\ 1 \in 1..Width(0) /\ FieldAt(h, 0) = <<h.op>> /\ 0 + 1 = 1
    BY SMT DEF Offsets, Width, FieldAt
  <2>2. HeaderBytes(h)[0 + 1] = FieldAt(h, 0)[1]  BY <2>1, HeaderByte
  <2> QED  BY <2>1, <2>2, SMT
<1>2. HeaderBytes(h)[2] = h.htype
  <2>1. 1 \in Offsets /\ 1 \in 1..Width(1) /\ FieldAt(h, 1) = <<h.htype>> /\ 1 + 1 = 2
    BY SMT DEF Offsets, Width, FieldAt
  <2>2. HeaderBytes(h)[1 + 1] = FieldAt(h, 1)[1]  BY <2>1, HeaderByte
  <2> QED  BY <2>1, <2>2, SMT
<1>3. HeaderBytes(h)[3] = h.hlen
  <2>1. 2 \in Offsets /\ 1 \in 1..Width(2) /\ FieldAt(h, 2) = <<h.hlen>> /\ 2 + 1 = 3
    BY SMT DEF Offsets, Width, FieldAt
  <2>2. HeaderBytes(h)[2 + 1] = FieldAt(h, 2)[1]  BY <2>1, HeaderByte
  <2> QED  BY <2>1, <2>2, SMT
<1>4. HeaderBytes(h)[4] = h.hops
  <2>1. 3 \in Offsets /\ 1 \in 1..Width(3) /\ FieldAt(h, 3) = <<h.hops>> /\ 3 + 1 = 4
    BY SMT DEF Offsets, Width, FieldAt
  <2>2. HeaderBytes(h)[3 + 1] = FieldAt(h, 3)[1]  BY <2>1, HeaderByte
  <2> QED  BY <2>1, <2>2, SMT
<1>5. SubSeq(HeaderBytes(h), 4 + 1, 4 + 4) = write_u32_be(h.xid)
  <2>1. 4 \in Offsets /\ Width(4) = 4 /\ FieldAt(h, 4) = write_u32_be(h.xid)
    BY SMT DEF Offsets, Width, FieldAt
  <2> QED  BY <2>1, FieldRead
<1>6. SubSeq(HeaderBytes(h), 8 + 1, 8 + 2) = write_u16_be(h.secs)
  <2>1. 8 \in Offsets /\ Width(8) = 2 /\ FieldAt(h, 8) = write_u16_be(h.secs)
    BY SMT DEF Offsets, Width, FieldAt
  <2> QED  BY <2>1, FieldRead
<1>7. SubSeq(HeaderBytes(h), 10 + 1, 10 + 2) = write_u16_be(h.flags)
  <2>1. 10 \in Offsets /\ Width(10) = 2 /\ FieldAt(h, 10) = write_u16_be(h.flags)
    BY SMT DEF Offsets, Width, FieldAt
  <2> QED  BY <2>1, FieldRead
<1>8. SubSeq(HeaderBytes(h), 12 + 1, 12 + 4) = AddrBytes(h.ciaddr)
  <2>1. 12 \in Offsets /\ Width(12) = 4 /\ FieldAt(h, 12) = AddrBytes(h.ciaddr)
    BY SMT DEF Offsets, Width, FieldAt
  <2> QED  BY <2>1, FieldRead
<1>9. SubSeq(HeaderBytes(h), 16 + 1, 16 + 4) = AddrBytes(h.yiaddr)
  <2>1. 16 \in Offsets /\ Width(16) = 4 /\ FieldAt(h, 16) = AddrBytes(h.yiaddr)
    BY SMT DEF Offsets, Width, FieldAt
  <2> QED  BY <2>1, FieldRead
<1>10. SubSeq(HeaderBytes(h), 20 + 1, 20 + 4) = AddrBytes(h.siaddr)
  <2>1. 20 \in Offsets /\ Width(20) = 4 /\ FieldAt(h, 20) = AddrBytes(h.siaddr)
    BY SMT DEF Offsets, Width, FieldAt
  <2> QED  BY <2>1, FieldRead
<1>11. SubSeq(HeaderBytes(h), 24 + 1, 24 + 4) = AddrBytes(h.giaddr)
  <2>1. 24 \in Offsets /\ Width(24) = 4 /\ FieldAt(h, 24) = AddrBytes(h.giaddr)
    BY SMT DEF Offsets, Width, FieldAt
  <2> QED  BY <2>1, FieldRead
<1>12. SubSeq(HeaderBytes(h), 28 + 1, 28 + 16) = h.chaddr
  <2>1. 28 \in Offsets /\ Width(28) = 16 /\ FieldAt(h, 28) = h.chaddr
    BY SMT DEF Offsets, Width, FieldAt
  <2> QED  BY <2>1, FieldRead
<1>13. SubSeq(HeaderBytes(h), 236 + 1, 236 + 4) = Cookie
  <2> DEFINE o == 236
  <2>1. o \in Offsets /\ Width(o) = 4 /\ FieldAt(h, o) = Cookie
    BY SMT DEF Offsets, Width, FieldAt
  <2> HIDE DEF o
  <2>2. SubSeq(HeaderBytes(h), o + 1, o + 4) = Cookie  BY <2>1, FieldRead
  <2> QED  BY <2>2 DEF o
<1> QED  BY <1>1, <1>2, <1>3, <1>4, <1>5, <1>6, <1>7, <1>8, <1>9, <1>10, <1>11, <1>12, <1>13

\* dmdhcp_parse_message() reads what dmdhcp_build_message() was given.
LEMMA HeaderReadBack ==
  ASSUME NEW h \in Header, \A a \in Addrs(h) : a.family # "v6"
  PROVE  ParsedHeader(HeaderBytes(h)) =
           [op |-> h.op, htype |-> h.htype, hlen |-> h.hlen, hops |-> h.hops, xid |-> h.xid,
            secs |-> h.secs, flags |-> h.flags, ciaddr |-> ReadBack(h.ciaddr),
            yiaddr |-> ReadBack(h.yiaddr), siaddr |-> ReadBack(h.siaddr),
            giaddr |-> ReadBack(h.giaddr), chaddr |-> h.chaddr]
<1> DEFINE b == HeaderBytes(h)
<1>1. /\ h.xid \in U32 /\ h.secs \in U16 /\ h.flags \in U16
      /\ h.ciaddr \in Address /\ h.yiaddr \in Address /\ h.siaddr \in Address /\ h.giaddr \in Address
  BY DEF Header
<1>2. /\ read_u32_be(SubSeq(b, 4 + 1, 4 + 4)) = h.xid
      /\ read_u16_be(SubSeq(b, 8 + 1, 8 + 2)) = h.secs
      /\ read_u16_be(SubSeq(b, 10 + 1, 10 + 2)) = h.flags
  BY <1>1, HeaderFields, U16RoundTrip, U32RoundTrip
<1>3. ASSUME NEW a \in Address, a \in Addrs(h)  PROVE ReadAddr(AddrBytes(a)) = ReadBack(a)
  <2>1. a.family = "v4" \/ a.family = "none"  BY <1>3 DEF Address
  <2> QED  BY <2>1 DEF ReadAddr, AddrBytes, ReadBack
<1>4. /\ ReadAddr(SubSeq(b, 12 + 1, 12 + 4)) = ReadBack(h.ciaddr)
      /\ ReadAddr(SubSeq(b, 16 + 1, 16 + 4)) = ReadBack(h.yiaddr)
      /\ ReadAddr(SubSeq(b, 20 + 1, 20 + 4)) = ReadBack(h.siaddr)
      /\ ReadAddr(SubSeq(b, 24 + 1, 24 + 4)) = ReadBack(h.giaddr)
  BY <1>1, <1>3, HeaderFields DEF Addrs
<1>5. ParsedHeader(b) =
        [op |-> b[1], htype |-> b[2], hlen |-> b[3], hops |-> b[4],
         xid |-> read_u32_be(SubSeq(b, 4 + 1, 4 + 4)),
         secs |-> read_u16_be(SubSeq(b, 8 + 1, 8 + 2)),
         flags |-> read_u16_be(SubSeq(b, 10 + 1, 10 + 2)),
         ciaddr |-> ReadAddr(SubSeq(b, 12 + 1, 12 + 4)),
         yiaddr |-> ReadAddr(SubSeq(b, 16 + 1, 16 + 4)),
         siaddr |-> ReadAddr(SubSeq(b, 20 + 1, 20 + 4)),
         giaddr |-> ReadAddr(SubSeq(b, 24 + 1, 24 + 4)),
         chaddr |-> SubSeq(b, 28 + 1, 28 + 16)]
  BY DEF ParsedHeader, AddrLen, ChaddrLen
<1> QED  BY <1>2, <1>4, <1>5, HeaderFields

\* A header that was built is accepted when its op is one of the two.
LEMMA HeaderAccepted ==
  ASSUME NEW h \in Header, h.op \in {BootRequest, BootReply}, NEW n \in Nat, n >= HeaderLen
  PROVE  parse_error(HeaderBytes(h), n) = "ok"
<1>1. HeaderLen - 3 = 236 + 1 /\ HeaderLen = 236 + 4 /\ ~(n < HeaderLen)  BY SMT DEF HeaderLen
<1>2. SubSeq(HeaderBytes(h), 236 + 1, 236 + 4) = Cookie /\ HeaderBytes(h)[1] = h.op
  BY HeaderFields
<1>3. SubSeq(HeaderBytes(h), HeaderLen - 3, HeaderLen) = Cookie  BY <1>1, <1>2, SMT
<1> QED  BY <1>1, <1>2, <1>3, SMT DEF parse_error
-----------------------------------------------------------------------------
(* The invariants: the header is what its fields say, and is read back.    *)
HeaderInv ==
  /\ origin \in {"send", "build", "network"}
  /\ bytes \in Seq(Byte)
  /\ origin # "network" => header \in Header
  /\ origin # "network" /\ (step \in {"write", "parse", "find"} \/ Searched) =>
       bytes = HeaderBytes(header) /\ \A a \in Addrs(header) : a.family # "v6"
  /\ Searching \/ Searched => parsed = ParsedHeader(bytes)

\* The rest of the types.
ValueInv ==
  /\ result \in {"ok", "EINVAL", "ENOSPC", "EPROTO", "ENOENT"}
  /\ out \in [code : Byte, length : Byte, data : Nat]

\* The header of each message the client sends.
LEMMA SentHeaderType ==
  ASSUME NEW l \in Leases, NEW m \in Sends(l)
  PROVE  /\ m.header \in Header /\ m.header.op = BootRequest
         /\ \A a \in Addrs(m.header) : a.family # "v6"
<1>1. /\ l.xid \in U32 /\ l.mac \in [1..6 -> Byte] /\ l.offered_ip \in Address
      /\ l.offered_ip.family # "v6"
  BY MessageAssumption
<1>2. AddrNone \in Address /\ AddrNone.family = "none"
  <2>1. Zero \in [1..4 -> Byte]  BY SMT DEF Zero, Byte
  <2> QED  BY <2>1 DEF AddrNone, Address, AddrLen
<1>3. ASSUME NEW c \in Address, c.family # "v6"
      PROVE  /\ SentHeader(l, c) \in Header /\ SentHeader(l, c).op = BootRequest
             /\ \A a \in Addrs(SentHeader(l, c)) : a.family # "v6"
  <2> DEFINE hw == [k \in 1..ChaddrLen |-> IF k <= 6 THEN l.mac[k] ELSE 0]
  <2>1. hw \in [1..ChaddrLen -> Byte]
    <3>1. ASSUME NEW k \in 1..ChaddrLen  PROVE (IF k <= 6 THEN l.mac[k] ELSE 0) \in Byte
      <4>1. k <= 6 => k \in 1..6  BY SMT DEF ChaddrLen
      <4>2. 0 \in Byte  BY SMT DEF Byte
      <4> QED  BY <1>1, <4>1, <4>2
    <3> QED  BY <3>1
  <2>2. 32768 \in U16  BY SMT DEF U16, Byte
  <2>3. 0 \in U16 /\ 0 \in Byte /\ 1 \in Byte /\ 6 \in Byte  BY SMT DEF U16, Byte
  <2> DEFINE flag == 32768
  <2>4. SentHeader(l, c) =
          [op |-> BootRequest, htype |-> 1, hlen |-> 6, hops |-> 0, xid |-> l.xid, secs |-> 0,
           flags |-> flag, ciaddr |-> c, yiaddr |-> AddrNone, siaddr |-> AddrNone,
           giaddr |-> AddrNone, chaddr |-> hw]
    BY SMT DEF SentHeader
  <2>5. flag \in U16  BY <2>2, SMT
  <2> HIDE DEF hw, flag
  <2>6. SentHeader(l, c) \in Header  BY <1>1, <1>2, <2>1, <2>3, <2>4, <2>5, SMT DEF Header, BootRequest
  <2>7. /\ SentHeader(l, c).op = BootRequest /\ SentHeader(l, c).ciaddr = c
        /\ SentHeader(l, c).yiaddr = AddrNone /\ SentHeader(l, c).siaddr = AddrNone
        /\ SentHeader(l, c).giaddr = AddrNone
    BY <2>4, SMT
  <2> QED  BY <1>2, <1>3, <2>6, <2>7 DEF Addrs
<1>4. ASSUME NEW type, NEW c \in {AddrNone, l.offered_ip}, NEW ip, NEW id,
             m = send_message(l, type, c, ip, id)
      PROVE  m.header = SentHeader(l, c) /\ c \in Address /\ c.family # "v6"
  BY <1>1, <1>2, <1>4 DEF send_message
<1>5. \E c \in {AddrNone, l.offered_ip} : m.header = SentHeader(l, c) /\ c \in Address /\ c.family # "v6"
  BY <1>4 DEF Sends
<1> QED  BY <1>3, <1>5

\* The invariants hold when a message is about to be built, or has been received.
LEMMA HeaderInit == Init => HeaderInv /\ ValueInv
<1> SUFFICES ASSUME Init PROVE HeaderInv /\ ValueInv  OBVIOUS
<1>1. result = "ok" /\ out = NotFound /\ parsed = <<>>  BY DEF Init, NotFound
<1>2. ValueInv
  <2>1. 0 \in Byte /\ 0 \in Nat  BY SMT DEF Byte
  <2> QED  BY <1>1, <2>1 DEF ValueInv, NotFound
<1>3. ASSUME NEW o \in {"send", "build"}, NEW m, NEW capacity, InitBuild(o, m, capacity),
             m.header \in Header
      PROVE  HeaderInv
  <2>1. bytes \in Seq(Byte)
    <3>1. bytes = [p \in 1..HeaderLen |-> 0]  BY <1>3 DEF InitBuild
    <3>2. 0 \in Byte /\ HeaderLen \in Nat  BY SMT DEF Byte, HeaderLen
    <3>3. bytes \in [1..HeaderLen -> Byte]  BY <3>1, <3>2
    <3> QED  BY <3>2, <3>3, FunctionIsBytes DEF Bytes
  <2>2. step = "build" /\ origin = o /\ header = m.header  BY <1>3 DEF InitBuild
  <2> QED  BY <1>3, <2>1, <2>2 DEF HeaderInv, Searching, Searched
<1>4. ASSUME NEW m \in Received, InitReceived(m)  PROVE HeaderInv
  <2>1. bytes \in Seq(Byte) /\ origin = "network" /\ step = "parse"
    BY <1>4, MessageAssumption DEF InitReceived
  <2> QED  BY <2>1 DEF HeaderInv, Searching, Searched
<1>5. HeaderInv
  <2>1. CASE \E l \in Leases : \E m \in Sends(l) : InitBuild("send", m, MaxMessageLen)
    BY <1>3, <2>1, SentHeaderType
  <2>2. CASE \E m \in Builds : InitBuild("build", m, m.capacity)
    BY <1>3, <2>2, MessageAssumption
  <2>3. CASE \E m \in Received : InitReceived(m)  BY <1>4, <2>3
  <2> QED  BY <2>1, <2>2, <2>3 DEF Init
<1> QED  BY <1>2, <1>5

\* Only dmdhcp_build_message() writes the header, and only dmdhcp_parse_message() reads it.
LEMMA HeaderStep == Bounds /\ HeaderInv /\ [Next]_vars => HeaderInv'
<1> SUFFICES ASSUME Bounds, HeaderInv, [Next]_vars PROVE HeaderInv'  OBVIOUS
<1>1. CASE build_message
  <2>1. step = "build" /\ parsed' = <<>> /\ UNCHANGED <<origin, header>> /\ origin # "network"
    BY <1>1 DEF build_message, Bounds
  <2>2. CASE build_error(header, length) # "ok"
    <3>1. step' = "done" /\ bytes' = bytes  BY <1>1, <2>2 DEF build_message, Finish
    <3> QED  BY <2>1, <3>1 DEF HeaderInv, Searching, Searched
  <2>3. CASE build_error(header, length) = "ok"
    <3>1. step' = "write" /\ bytes' = HeaderBytes(header)  BY <1>1, <2>3 DEF build_message
    <3>2. header \in Header  BY <2>1 DEF HeaderInv
    <3>3. HeaderBytes(header) \in Seq(Byte)  BY <3>2, HeaderBytesType DEF Bytes
    <3>4. \A a \in Addrs(header) : a.family # "v6"  BY <2>3 DEF build_error
    <3>5. bytes' \in Seq(Byte) /\ origin' # "network" /\ header' \in Header
      BY <2>1, <3>1, <3>2, <3>3
    <3>6. bytes' = HeaderBytes(header') /\ \A a \in Addrs(header') : a.family # "v6"
      BY <2>1, <3>1, <3>4
    <3>7. ~(Searching' \/ Searched')  BY <2>1, <3>1 DEF Searching, Searched
    <3>8. origin' \in {"send", "build", "network"}  BY <2>1 DEF HeaderInv
    <3> QED  BY <3>5, <3>6, <3>7, <3>8 DEF HeaderInv
  <2> QED  BY <2>2, <2>3
<1>2. CASE options_write /\ UNCHANGED headerVars
  <2>1. /\ step = "write" /\ step' \in {"write", "parse", "done"}
        /\ UNCHANGED <<origin, header, bytes, parsed>>
    BY <1>2 DEF options_write, write_refuse, write_option, write_full, write_end, headerVars, Finish
  <2>2. parsed = <<>>  BY <2>1 DEF Bounds
  <2> QED  BY <2>1, <2>2 DEF HeaderInv, Searching, Searched
<1>3. CASE parse_message
  <2>1. step = "parse" /\ UNCHANGED <<origin, header, bytes>> /\ parsed = <<>>
    BY <1>3 DEF parse_message, Bounds
  <2>2. CASE parse_error(bytes, MessageLen) # "ok"
    <3>1. step' = "done" /\ parsed' = parsed  BY <1>3, <2>2 DEF parse_message, Finish
    <3> QED  BY <2>1, <3>1 DEF HeaderInv, Searching, Searched
  <2>3. CASE parse_error(bytes, MessageLen) = "ok"
    <3>1. step' = "find" /\ parsed' = ParsedHeader(bytes)  BY <1>3, <2>3 DEF parse_message
    <3> QED  BY <2>1, <3>1 DEF HeaderInv, Searching, Searched
  <2> QED  BY <2>2, <2>3
<1>4. CASE options_find /\ UNCHANGED headerVars
  <2>1. step = "find" /\ step' \in {"find", "done"} /\ UNCHANGED <<origin, header, bytes, parsed>>
    BY <1>4 DEF options_find, find_exhausted, find_pad, find_end, find_truncated, find_match,
                find_skip, find_iteration, headerVars, Finish
  <2> QED  BY <2>1 DEF HeaderInv, Searching, Searched
<1>5. CASE UNCHANGED vars
  BY <1>5 DEF vars, headerVars, HeaderInv, Searching, Searched
<1> QED  BY <1>1, <1>2, <1>3, <1>4, <1>5 DEF Next

\* What is returned is an error of the code or an option of the buffer.
LEMMA ValueStep == Bounds /\ ValueInv /\ [Next]_vars => ValueInv'
<1> SUFFICES ASSUME Bounds, ValueInv, [Next]_vars PROVE ValueInv'  OBVIOUS
<1>1. CASE build_message
  BY <1>1 DEF build_message, build_error, Finish, optionVars, ValueInv
<1>2. CASE options_write /\ UNCHANGED headerVars
  BY <1>2 DEF options_write, write_refuse, write_option, write_full, write_end, Finish, optionVars, ValueInv
<1>3. CASE parse_message
  BY <1>3 DEF parse_message, parse_error, Finish, optionVars, ValueInv
<1>4. CASE options_find /\ UNCHANGED headerVars
  <2>1. CASE find_match
    <3>1. /\ result' = "ok"
          /\ out' = [code |-> ByteAt(pos), length |-> ByteAt(pos + 1), data |-> pos + 2]
      BY <2>1 DEF find_match, EntryCode, EntryLen, Finish
    <3>2. pos \in Nat /\ buffer \in Seq(Byte)  BY DEF Bounds
    <3>3. pos + 1 \in Nat /\ pos + 2 \in Nat  BY <3>2, SMT
    <3>4. ByteAt(pos) \in Byte /\ ByteAt(pos + 1) \in Byte  BY <3>2, <3>3, ByteAtType
    <3> QED  BY <3>1, <3>3, <3>4 DEF ValueInv
  <2>2. CASE ~find_match
    BY <1>4, <2>2 DEF options_find, find_exhausted, find_pad, find_end, find_truncated, find_skip,
                      find_iteration, Finish, optionVars, ValueInv
  <2> QED  BY <2>1, <2>2
<1>5. CASE UNCHANGED vars  BY <1>5 DEF vars, optionVars, ValueInv
<1> QED  BY <1>1, <1>2, <1>3, <1>4, <1>5 DEF Next

\* Bytes are bytes, and every option of the client has a length its length byte can say, for
\* every hostname, message and capacity.
THEOREM MessageTypeCorrect == Spec => []TypeOK
<1>1. Bounds /\ HeaderInv /\ ValueInv => TypeOK
  BY DEF Bounds, HeaderInv, ValueInv, TypeOK, OptionType
<1> QED  BY <1>1, BoundsInit, BoundsStep, HeaderInit, HeaderStep, ValueStep, PTL DEF Spec

\* dmdhcp_parse_message() returns the fields dmdhcp_build_message() was given, for every header.
THEOREM HeadersComeBack == Spec => []HeaderRoundTrip
<1>1. ASSUME HeaderInv, Searched, origin # "network"
      PROVE  HeaderRoundTrip
  <2>1. header \in Header /\ \A a \in Addrs(header) : a.family # "v6"  BY <1>1 DEF HeaderInv
  <2>2. parsed = ParsedHeader(HeaderBytes(header))  BY <1>1 DEF HeaderInv
  <2> QED  BY <2>1, <2>2, HeaderReadBack DEF HeaderRoundTrip, ReadBack
<1>2. HeaderInv => HeaderRoundTrip  BY <1>1 DEF HeaderRoundTrip
<1> QED  BY <1>2, BoundsInit, BoundsStep, HeaderInit, HeaderStep, PTL DEF Spec
-----------------------------------------------------------------------------
(* The options.  In the area b, the option o is stored from offset p.      *)
Stored(b, p, o) ==
  /\ b[p + 1] = o.code /\ b[p + 2] = o.length
  /\ o.length = Len(o.data) /\ \A i \in 1..o.length : b[p + 2 + i] = o.data[i]

(***************************************************************************)
(* The first n options of os are stored one behind the other: option k     *)
(* from offset s[k], and s[n + 1] is where they end.  Where an option is   *)
(* depends on all before it; s stands for that sum, and each iteration of  *)
(* dmdhcp_options_write() adds one term to it.                             *)
(***************************************************************************)
Layout(b, os, s, n, end) ==
  /\ s \in [1..n + 1 -> 0..end] /\ s[1] = 0 /\ s[n + 1] = end
  /\ \A k \in 1..n : s[k + 1] = s[k] + 2 + os[k].length /\ Stored(b, s[k], os[k])

Plain == \A k \in DOMAIN options : options[k].code \notin {PAD, END}
AllStored(s) == Layout(buffer, options, s, Len(options), options_len - 1)
EndStored == options_len \in 1..Len(buffer) /\ buffer[options_len] = END

\* dmdhcp_options_find() is at option j, and none before it has the code.
AtOption(s, j) == pos = s[j] /\ \A k \in 1..j - 1 : options[k].code # code

WrittenInv ==
  /\ origin # "network" =>
       /\ step = "build" => pos = 0 /\ written = 0
       /\ step = "write" => /\ written \in 0..Len(options)
                            /\ \E s : Layout(buffer, options, s, written, pos)
       /\ step = "parse" => EndStored /\ \E s : AllStored(s)
       /\ step = "find" =>
            /\ EndStored
            /\ \E s : AllStored(s) /\ (Plain => \E j \in 1..Len(options) + 1 : AtOption(s, j))
  /\ RoundTrip

\* Storing b from offset p changes nothing in front of it.
LEMMA OverwriteBytes ==
  ASSUME buffer \in Seq(Byte), NEW p \in Nat, NEW b \in Seq(Byte), p + Len(b) <= Len(buffer)
  PROVE  /\ \A q \in 1..p : Overwrite(p, b)[q] = buffer[q]
         /\ \A i \in 1..Len(b) : Overwrite(p, b)[p + i] = b[i]
<1>1. Len(buffer) \in Nat /\ Len(b) \in Nat  BY LenProperties
<1>2. ASSUME NEW q \in 1..p  PROVE Overwrite(p, b)[q] = buffer[q]
  <2>1. q \in 1..Len(buffer) /\ q \notin p + 1..p + Len(b)  BY <1>1, SMT
  <2> QED  BY <2>1 DEF Overwrite
<1>3. ASSUME NEW i \in 1..Len(b)  PROVE Overwrite(p, b)[p + i] = b[i]
  <2>1. p + i \in 1..Len(buffer) /\ p + i \in p + 1..p + Len(b) /\ (p + i) - p = i  BY <1>1, SMT
  <2> QED  BY <2>1 DEF Overwrite
<1> QED  BY <1>2, <1>3

\* What is stored in front of e stays when only bytes from e on change.
LEMMA StoredKept ==
  ASSUME NEW b, NEW c, NEW e \in Nat, \A q \in 1..e : c[q] = b[q], NEW p \in Nat, NEW o,
         o.length \in Nat, p + 2 + o.length <= e, Stored(b, p, o)
  PROVE  Stored(c, p, o)
<1>1. p + 1 \in 1..e /\ p + 2 \in 1..e  BY SMT
<1>2. ASSUME NEW i \in 1..o.length  PROVE c[p + 2 + i] = o.data[i]
  <2>1. p + 2 + i \in 1..e  BY SMT
  <2> QED  BY <2>1 DEF Stored
<1> QED  BY <1>1, <1>2 DEF Stored

\* An option of the array has the fields of its type.
LEMMA OptionFields ==
  ASSUME NEW os \in Seq(OptionType), NEW k \in 1..Len(os)
  PROVE  /\ os[k] \in OptionType /\ os[k].code \in Byte /\ os[k].length \in Byte
         /\ os[k].length \in Nat /\ os[k].data \in Seq(Byte)
<1>1. os[k] \in OptionType  BY ElementOfSeq
<1>2. os[k].code \in Byte /\ os[k].length \in Byte /\ os[k].data \in Seq(Byte)
  BY <1>1 DEF OptionType
<1>3. Byte \subseteq Nat  BY SMT DEF Byte
<1> QED  BY <1>1, <1>2, <1>3

\* One more option behind the last.
LEMMA LayoutExtended ==
  ASSUME NEW b, NEW c, NEW os \in Seq(OptionType), NEW n \in Nat, n + 1 \in 1..Len(os),
         NEW s, NEW end \in Nat, Layout(b, os, s, n, end), \A q \in 1..end : c[q] = b[q],
         Stored(c, end, os[n + 1])
  PROVE  \E t : Layout(c, os, t, n + 1, end + 2 + os[n + 1].length)
<1> DEFINE e == end + 2 + os[n + 1].length
           t == [k \in 1..(n + 1) + 1 |-> IF k = n + 2 THEN e ELSE s[k]]
<1>1. ASSUME NEW k \in 1..Len(os)  PROVE os[k].length \in Nat  BY OptionFields
<1>2. os[n + 1].length \in Nat  BY <1>1
<1>3. e \in Nat /\ end <= e  BY <1>2, SMT
<1>4. /\ s \in [1..n + 1 -> 0..end] /\ s[1] = 0 /\ s[n + 1] = end
      /\ \A k \in 1..n : s[k + 1] = s[k] + 2 + os[k].length /\ Stored(b, s[k], os[k])
  BY DEF Layout
<1>5. ASSUME NEW k \in 1..n + 1  PROVE t[k] = s[k] /\ s[k] \in 0..end
  <2>1. k \in 1..(n + 1) + 1 /\ k # n + 2  BY SMT
  <2> QED  BY <1>4, <2>1
<1>6. t[n + 2] = e
  <2>1. n + 2 \in 1..(n + 1) + 1  BY SMT
  <2> QED  BY <2>1
<1>7. t \in [1..(n + 1) + 1 -> 0..e]
  <2>1. ASSUME NEW k \in 1..(n + 1) + 1  PROVE (IF k = n + 2 THEN e ELSE s[k]) \in 0..e
    <3>1. CASE k = n + 2  BY <1>3, <3>1, SMT
    <3>2. CASE k # n + 2
      <4>1. k \in 1..n + 1  BY <3>2, SMT
      <4>2. s[k] \in 0..end  BY <1>5, <4>1
      <4> HIDE DEF e
      <4>3. s[k] \in 0..e  BY <1>3, <4>2, SMT
      <4> QED  BY <3>2, <4>3
    <3> QED  BY <3>1, <3>2
  <2> QED  BY <2>1
<1> HIDE DEF t, e
<1>8. t[1] = 0 /\ t[(n + 1) + 1] = e
  <2>1. 1 \in 1..n + 1 /\ (n + 1) + 1 = n + 2  BY SMT
  <2> QED  BY <1>4, <1>5, <1>6, <2>1
<1>9. ASSUME NEW k \in 1..n + 1
      PROVE  t[k + 1] = t[k] + 2 + os[k].length /\ Stored(c, t[k], os[k])
  <2>1. CASE k = n + 1
    <3>1. k + 1 = n + 2 /\ n + 1 \in 1..n + 1  BY <2>1, SMT
    <3>2. t[k] = end /\ t[k + 1] = e  BY <1>4, <1>5, <1>6, <2>1, <3>1
    <3> QED  BY <2>1, <3>2 DEF e
  <2>2. CASE k # n + 1
    <3>1. k \in 1..n /\ k + 1 \in 1..n + 1 /\ k \in 1..Len(os)
      <4>1. Len(os) \in Nat  BY LenProperties
      <4> QED  BY <2>2, <4>1, SMT
    <3>2. t[k] = s[k] /\ t[k + 1] = s[k + 1] /\ s[k] \in 0..end /\ s[k + 1] \in 0..end
      BY <1>5, <3>1
    <3>3. s[k + 1] = s[k] + 2 + os[k].length /\ Stored(b, s[k], os[k])  BY <1>4, <3>1
    <3>4. os[k].length \in Nat  BY <1>1, <3>1
    <3>5. s[k] \in Nat /\ s[k] + 2 + os[k].length <= end  BY <3>2, <3>3, SMT
    <3>6. Stored(c, s[k], os[k])  BY <3>3, <3>4, <3>5, StoredKept
    <3> QED  BY <3>2, <3>3, <3>6
  <2> QED  BY <2>1, <2>2
<1>10. Layout(c, os, t, n + 1, e)  BY <1>7, <1>8, <1>9 DEF Layout
<1> QED  BY <1>10 DEF e

\* The same options, in an area that differs only behind them.
LEMMA LayoutKept ==
  ASSUME NEW b, NEW c, NEW os \in Seq(OptionType), NEW n \in 0..Len(os), NEW s, NEW end \in Nat,
         Layout(b, os, s, n, end), \A q \in 1..end : c[q] = b[q]
  PROVE  Layout(c, os, s, n, end)
<1>1. ASSUME NEW k \in 1..n  PROVE Stored(c, s[k], os[k])
  <2>1. Len(os) \in Nat  BY LenProperties
  <2>2. k \in 1..Len(os) /\ k \in 1..n + 1 /\ k + 1 \in 1..n + 1  BY <2>1, SMT
  <2>3. /\ s[k] \in 0..end /\ s[k + 1] \in 0..end /\ s[k + 1] = s[k] + 2 + os[k].length
        /\ Stored(b, s[k], os[k])
    BY <2>2 DEF Layout
  <2>5. os[k].length \in Nat  BY <2>2, OptionFields
  <2>6. s[k] \in Nat /\ s[k] + 2 + os[k].length <= end  BY <2>3, <2>5, SMT
  <2> QED  BY <2>3, <2>5, <2>6, StoredKept
<1> QED  BY <1>1 DEF Layout

\* An iteration of dmdhcp_options_write() stores one more option.
LEMMA OneMoreStored ==
  ASSUME Bounds, WrittenInv, origin # "network", write_option
  PROVE  \E t : Layout(buffer', options, t, written + 1, pos')
<1>1. /\ step = "write" /\ written < Len(options) /\ ~NoData /\ ~NoSpace
      /\ buffer' = Overwrite(pos, <<Opt.code, Opt.length>> \o Opt.data)
      /\ pos' = pos + 2 + Opt.length
  BY DEF write_option
<1>2. /\ buffer \in Seq(Byte) /\ options \in Seq(OptionType) /\ pos \in Nat /\ written \in Nat
      /\ \A k \in DOMAIN options : OptionOk(options[k])
  BY DEF Bounds
<1>3. Len(options) \in Nat /\ DOMAIN options = 1..Len(options) /\ Len(buffer) \in Nat
  BY <1>2, LenProperties
<1>4. written + 1 \in 1..Len(options)  BY <1>1, <1>2, <1>3, SMT
<1>5. /\ Opt \in OptionType /\ Opt.code \in Byte /\ Opt.length \in Byte
      /\ Opt.length \in Nat /\ Opt.data \in Seq(Byte)
  BY <1>2, <1>4, OptionFields DEF Opt
<1>6. Opt.length = Len(Opt.data)
  <2>1. CASE Opt.data = Null
    <3>1. ~(Opt.length > 0)  BY <1>1, <2>1 DEF NoData
    <3>2. Len(Null) = 0  BY SMT DEF Null
    <3> QED  BY <1>5, <2>1, <3>1, <3>2, SMT
  <2>2. CASE Opt.data # Null
    <3>1. OptionOk(Opt)  BY <1>2, <1>3, <1>4 DEF Opt
    <3> QED  BY <2>2, <3>1 DEF OptionOk
  <2> QED  BY <2>1, <2>2
<1> DEFINE head == <<Opt.code, Opt.length>>
           b == head \o Opt.data
<1>7. head \in Seq(Byte) /\ Len(head) = 2 /\ head[1] = Opt.code /\ head[2] = Opt.length
  BY <1>5, SMT
<1> HIDE DEF head
<1>8. /\ b \in Seq(Byte) /\ Len(b) = 2 + Opt.length
      /\ \A i \in 1..2 + Opt.length : b[i] = IF i <= 2 THEN head[i] ELSE Opt.data[i - 2]
  <2>1. /\ b \in Seq(Byte) /\ Len(b) = Len(head) + Len(Opt.data)
        /\ \A i \in 1..Len(head) + Len(Opt.data) :
             b[i] = IF i <= Len(head) THEN head[i] ELSE Opt.data[i - Len(head)]
    BY <1>5, <1>7, ConcatProperties
  <2> QED  BY <1>6, <1>7, <2>1
<1>9. /\ b[1] = Opt.code /\ b[2] = Opt.length
      /\ \A i \in 1..Opt.length : b[2 + i] = Opt.data[i]
  <2>1. 1 \in 1..2 + Opt.length /\ 2 \in 1..2 + Opt.length /\ 1 <= 2 /\ 2 <= 2  BY <1>5, SMT
  <2>2. ASSUME NEW i \in 1..Opt.length  PROVE b[2 + i] = Opt.data[i]
    <3>1. 2 + i \in 1..2 + Opt.length /\ ~(2 + i <= 2) /\ (2 + i) - 2 = i  BY <1>5, SMT
    <3> QED  BY <1>8, <3>1
  <2> QED  BY <1>7, <1>8, <2>1, <2>2
<1> HIDE DEF b
<1>10. pos + Len(b) <= Len(buffer)  BY <1>1, <1>2, <1>3, <1>5, <1>8, SMT DEF NoSpace
<1>11. /\ \A q \in 1..pos : buffer'[q] = buffer[q]
       /\ \A i \in 1..Len(b) : buffer'[pos + i] = b[i]
  BY <1>1, <1>2, <1>8, <1>10, OverwriteBytes DEF b, head
<1>12. Stored(buffer', pos, Opt)
  <2>1. 1 \in 1..Len(b) /\ 2 \in 1..Len(b)  BY <1>5, <1>8, SMT
  <2>2. ASSUME NEW i \in 1..Opt.length  PROVE buffer'[pos + 2 + i] = Opt.data[i]
    <3>1. 2 + i \in 1..Len(b) /\ pos + (2 + i) = pos + 2 + i  BY <1>2, <1>5, <1>8, SMT
    <3>2. buffer'[pos + (2 + i)] = b[2 + i]  BY <1>11, <3>1
    <3> QED  BY <1>9, <3>1, <3>2
  <2> QED  BY <1>6, <1>9, <1>11, <2>1, <2>2 DEF Stored
<1>13. PICK s : Layout(buffer, options, s, written, pos)  BY <1>1 DEF WrittenInv
<1>14. \E t : Layout(buffer', options, t, written + 1, pos + 2 + options[written + 1].length)
  BY <1>2, <1>4, <1>11, <1>12, <1>13, LayoutExtended DEF Opt
<1> QED  BY <1>1, <1>14 DEF Opt

\* Where dmdhcp_options_find() can be in options that were written: at one of them, whole, or
\* at the END behind them.
LEMMA AtOptionOrEnd ==
  ASSUME Bounds, WrittenInv, origin # "network", step = "find", Plain
  PROVE  \E s : \E j \in 1..Len(options) + 1 :
           /\ AllStored(s) /\ AtOption(s, j) /\ pos < options_len
           /\ \/ /\ j \in 1..Len(options) /\ Stored(buffer, pos, options[j])
                 /\ ByteAt(pos) = options[j].code /\ ByteAt(pos + 1) = options[j].length
                 /\ s[j + 1] = pos + 2 + options[j].length /\ pos + 2 + options[j].length < options_len
              \/ j = Len(options) + 1 /\ ByteAt(pos) = END
<1>1. EndStored /\ \E s : AllStored(s) /\ \E j \in 1..Len(options) + 1 : AtOption(s, j)
  BY DEF WrittenInv
<1>2. PICK s : AllStored(s) /\ \E j \in 1..Len(options) + 1 : AtOption(s, j)  BY <1>1
<1>3. PICK j \in 1..Len(options) + 1 : AtOption(s, j)  BY <1>2
<1>4. /\ buffer \in Seq(Byte) /\ options \in Seq(OptionType) /\ pos \in Nat /\ options_len \in Nat
      /\ options_len <= Len(buffer)
  BY DEF Bounds, Searching
<1>5. Len(options) \in Nat /\ Len(buffer) \in Nat  BY <1>4, LenProperties
<1>6. /\ s \in [1..Len(options) + 1 -> 0..options_len - 1]
      /\ s[Len(options) + 1] = options_len - 1
      /\ \A k \in 1..Len(options) :
           s[k + 1] = s[k] + 2 + options[k].length /\ Stored(buffer, s[k], options[k])
  BY <1>2 DEF AllStored, Layout
<1>7. pos = s[j] /\ s[j] \in 0..options_len - 1  BY <1>3, <1>6 DEF AtOption
<1>8. pos < options_len  BY <1>4, <1>7, SMT
<1>9. CASE j = Len(options) + 1
  <2>1. pos = options_len - 1  BY <1>6, <1>7, <1>9
  <2>2. pos < Len(buffer) /\ pos + 1 = options_len  BY <1>4, <1>5, <2>1, SMT
  <2>3. ByteAt(pos) = END  BY <1>1, <2>2 DEF ByteAt, EndStored
  <2> QED  BY <1>2, <1>3, <1>8, <1>9, <2>3
<1>10. CASE j # Len(options) + 1
  <2>1. j \in 1..Len(options) /\ j + 1 \in 1..Len(options) + 1  BY <1>5, <1>10, SMT
  <2>2. s[j + 1] = pos + 2 + options[j].length /\ Stored(buffer, pos, options[j])
    BY <1>6, <1>7, <2>1
  <2>3. s[j + 1] \in 0..options_len - 1  BY <1>6, <2>1
  <2>4. options[j].length \in Nat  BY <1>4, <2>1, OptionFields
  <2>5. pos + 2 + options[j].length < options_len  BY <1>4, <2>2, <2>3, SMT
  <2>6. pos < Len(buffer) /\ pos + 1 < Len(buffer) /\ (pos + 1) + 1 = pos + 2
    BY <1>4, <1>5, <2>4, <2>5, SMT
  <2>7. ByteAt(pos) = options[j].code /\ ByteAt(pos + 1) = options[j].length
    BY <2>2, <2>6 DEF ByteAt, Stored
  <2> QED  BY <1>2, <1>3, <1>8, <2>1, <2>2, <2>5, <2>7
<1> QED  BY <1>9, <1>10

\* The n bytes behind the first p.
LEMMA SubSeqBytes ==
  ASSUME NEW b \in Seq(Byte), NEW p \in Nat, NEW n \in Nat, p + n <= Len(b)
  PROVE  /\ SubSeq(b, p + 1, p + n) \in Seq(Byte) /\ Len(SubSeq(b, p + 1, p + n)) = n
         /\ \A i \in 1..n : SubSeq(b, p + 1, p + n)[i] = b[p + i]
<1>1. Len(b) \in Nat  BY LenProperties
<1> QED  BY <1>1, SMT

\* An option that is stored is the option that is found.
LEMMA StoredIsFound ==
  ASSUME NEW b \in Seq(Byte), NEW p \in Nat, NEW o \in OptionType, Stored(b, p, o),
         p + 2 + o.length <= Len(b)
  PROVE  o = [code |-> o.code, length |-> o.length,
              data |-> SubSeq(b, p + 2 + 1, p + 2 + o.length)]
<1>1. o.code \in Byte /\ o.length \in Byte /\ o.data \in Seq(Byte)  BY DEF OptionType
<1>2. o.length \in Nat
  <2>1. Byte \subseteq Nat  BY SMT DEF Byte
  <2> QED  BY <1>1, <2>1
<1>3. Len(b) \in Nat  BY LenProperties
<1> DEFINE d == SubSeq(b, p + 2 + 1, p + 2 + o.length)
           n == o.length
<1>4. n \in Nat /\ n = Len(o.data) /\ p + 2 + n <= Len(b)  BY <1>2 DEF Stored
<1>5. d = SubSeq(b, p + 2 + 1, p + 2 + n)  OBVIOUS
<1>6. \A i \in 1..n : b[p + 2 + i] = o.data[i]  BY DEF Stored
<1> HIDE DEF d, n
<1>7. /\ d \in Seq(Byte) /\ Len(d) = n
      /\ \A i \in 1..n : d[i] = b[p + 2 + i]
  <2>1. p + 2 \in Nat  BY SMT
  <2> QED  BY <1>4, <1>5, <2>1, SubSeqBytes
<1>8. d = o.data  BY <1>1, <1>4, <1>6, <1>7, SeqEqual
<1>9. o = [code |-> o.code, length |-> o.length, data |-> o.data]  BY SMT DEF OptionType
<1> QED  BY <1>8, <1>9 DEF d

\* Before anything is written, no option is stored.
LEMMA NothingStored ==
  ASSUME NEW b, NEW os
  PROVE  \E s : Layout(b, os, s, 0, 0)
<1> DEFINE s == [k \in 1..0 + 1 |-> 0]
<1>1. 1 \in 1..0 + 1 /\ 0 + 1 \in 1..0 + 1 /\ 0 \in 0..0  BY SMT
<1>2. \A k \in 1..0 : FALSE  BY SMT
<1>3. Layout(b, os, s, 0, 0)  BY <1>1, <1>2 DEF Layout
<1> QED  BY <1>3

\* dmdhcp_options_find() on options that were written: it goes on from one option to the next,
\* and ends at the first with the code or at the END.
LEMMA FindsWritten ==
  ASSUME Bounds, WrittenInv, origin # "network", step = "find", Plain,
         options_find, UNCHANGED headerVars
  PROVE  \/ /\ step' = "find" /\ UNCHANGED <<buffer, options, options_len, code>>
            /\ \E s : AllStored(s)' /\ \E j \in 1..Len(options) + 1 : AtOption(s, j)'
         \/ step' = "done" /\ RoundTrip' /\ result' \in {"ok", "ENOENT"}
<1>1. PICK s : \E j \in 1..Len(options) + 1 :
           /\ AllStored(s) /\ AtOption(s, j) /\ pos < options_len
           /\ \/ /\ j \in 1..Len(options) /\ Stored(buffer, pos, options[j])
                 /\ ByteAt(pos) = options[j].code /\ ByteAt(pos + 1) = options[j].length
                 /\ s[j + 1] = pos + 2 + options[j].length /\ pos + 2 + options[j].length < options_len
              \/ j = Len(options) + 1 /\ ByteAt(pos) = END
  BY AtOptionOrEnd
<1>2. PICK j \in 1..Len(options) + 1 :
           /\ AllStored(s) /\ AtOption(s, j) /\ pos < options_len
           /\ \/ /\ j \in 1..Len(options) /\ Stored(buffer, pos, options[j])
                 /\ ByteAt(pos) = options[j].code /\ ByteAt(pos + 1) = options[j].length
                 /\ s[j + 1] = pos + 2 + options[j].length /\ pos + 2 + options[j].length < options_len
              \/ j = Len(options) + 1 /\ ByteAt(pos) = END
  BY <1>1
<1>3. /\ buffer \in Seq(Byte) /\ options \in Seq(OptionType) /\ pos \in Nat /\ options_len \in Nat
      /\ options_len <= Len(buffer)
  BY DEF Bounds, Searching
<1>4. Len(options) \in Nat /\ DOMAIN options = 1..Len(options) /\ Len(buffer) \in Nat
  BY <1>3, LenProperties
<1>5. UNCHANGED <<buffer, options, options_len, code, origin>>
  BY DEF options_find, find_exhausted, find_pad, find_end, find_truncated, find_match, find_skip,
         find_iteration, optionVars, written_area, sought, headerVars
<1>6. ~find_exhausted
  <2>1. ~(pos >= options_len)  BY <1>2, <1>3, SMT
  <2> QED  BY <2>1 DEF find_exhausted
<1>7. AllStored(s)' /\ Plain'  BY <1>2, <1>5 DEF AllStored, Plain
<1>8. CASE j = Len(options) + 1
  <2>1. j \notin 1..Len(options)  BY <1>4, <1>8, SMT
  <2>2. ByteAt(pos) = END  BY <1>2, <2>1
  <2>3. PAD # END  BY SMT DEF PAD, END
  <2>4. find_end
    BY <1>6, <2>2, <2>3 DEF options_find, find_pad, find_truncated, find_match, find_skip, EntryCode, IsOption
  <2>5. step' = "done" /\ result' = "ENOENT"  BY <2>4 DEF find_end, Finish
  <2>6. \A k \in DOMAIN options : options[k].code # code
    <3>1. j - 1 = Len(options)  BY <1>4, <1>8, SMT
    <3> QED  BY <1>2, <1>4, <3>1 DEF AtOption
  <2>7. {k \in DOMAIN options' : options'[k].code = code'} = {}  BY <1>5, <2>6
  <2>8. RoundTrip'  BY <2>5, <2>7 DEF RoundTrip
  <2> QED  BY <2>5, <2>8
<1>9. CASE j # Len(options) + 1
  <2>1. /\ j \in 1..Len(options) /\ Stored(buffer, pos, options[j])
        /\ ByteAt(pos) = options[j].code /\ ByteAt(pos + 1) = options[j].length
        /\ s[j + 1] = pos + 2 + options[j].length /\ pos + 2 + options[j].length < options_len
    BY <1>2, <1>9
  <2>2. IsOption  BY <1>4, <2>1 DEF IsOption, EntryCode, Plain
  <2>3. options[j] \in OptionType /\ options[j].length \in Nat  BY <1>3, <2>1, OptionFields
  <2>4. ~Truncated
    <3>1. ~(pos + 1 >= options_len) /\ ~(pos + 2 + options[j].length > options_len)
      BY <1>3, <2>1, <2>3, SMT
    <3> QED  BY <2>1, <3>1 DEF Truncated, LengthMissing, DataMissing, EntryLen
  <2>5. find_match \/ find_skip
    BY <1>6, <2>2, <2>4 DEF options_find, find_pad, find_end, find_truncated, IsOption
  <2>6. CASE find_skip
    <3>1. options[j].code # code /\ pos' = pos + 2 + options[j].length /\ step' = "find"
      BY <2>1, <2>6 DEF find_skip, EntryCode, EntryLen
    <3>2. j + 1 \in 1..Len(options) + 1 /\ \A k \in 1..(j + 1) - 1 : k \in 1..j - 1 \/ k = j
      BY <1>4, <2>1, SMT
    <3>3. \A k \in 1..(j + 1) - 1 : options[k].code # code  BY <1>2, <3>1, <3>2 DEF AtOption
    <3>4. AtOption(s, j + 1)'  BY <1>5, <2>1, <3>1, <3>3 DEF AtOption
    <3> QED  BY <1>5, <1>7, <3>1, <3>2, <3>4
  <2>7. CASE find_match
    <3>1. /\ options[j].code = code /\ step' = "done" /\ result' = "ok"
          /\ out' = [code |-> options[j].code, length |-> options[j].length, data |-> pos + 2]
      BY <2>1, <2>7 DEF find_match, EntryCode, EntryLen, Finish
    <3>2. out'.code = options[j].code /\ out'.length = options[j].length /\ out'.data = pos + 2
      BY <3>1
    <3>3. pos + 2 + options[j].length <= Len(buffer)  BY <1>3, <1>4, <2>1, <2>3, SMT
    <3>4. options[j] = [code |-> options[j].code, length |-> options[j].length,
                        data |-> SubSeq(buffer, pos + 2 + 1, pos + 2 + options[j].length)]
      BY <1>3, <2>1, <2>3, <3>3, StoredIsFound
    <3>5. options'[j] = [code |-> out'.code, length |-> out'.length,
                         data |-> SubSeq(buffer', out'.data + 1, out'.data + out'.length)]
      BY <1>5, <3>2, <3>4
    <3> DEFINE given == {k \in DOMAIN options' : options'[k].code = code'}
    <3>6. j \in given  BY <1>4, <1>5, <2>1, <3>1
    <3>7. ASSUME NEW k \in given, \A i \in given : k <= i  PROVE k = j
      <4>1. k \in 1..Len(options) /\ options[k].code = code  BY <1>4, <1>5
      <4>2. k <= j  BY <3>6, <3>7
      <4>3. k \notin 1..j - 1  BY <1>2, <4>1 DEF AtOption
      <4> QED  BY <1>4, <2>1, <4>1, <4>2, <4>3, SMT
    <3>8. given # {}  BY <3>6
    <3> HIDE DEF given
    <3>9. /\ result' = IF given = {} THEN "ENOENT" ELSE "ok"
          /\ \A k \in given : (\A i \in given : k <= i) =>
               options'[k] = [code |-> out'.code, length |-> out'.length,
                              data |-> SubSeq(buffer', out'.data + 1, out'.data + out'.length)]
      BY <3>1, <3>5, <3>7, <3>8
    <3>10. RoundTrip'  BY <3>9 DEF RoundTrip, given
    <3> QED  BY <3>1, <3>10
  <2> QED  BY <2>5, <2>6, <2>7
<1> QED  BY <1>8, <1>9

\* The invariant holds when a message is about to be built, or has been received.
LEMMA WrittenInit == Init => WrittenInv
<1> SUFFICES ASSUME Init PROVE WrittenInv  OBVIOUS
<1>1. parsed = <<>> /\ pos = 0 /\ written = 0  BY DEF Init
<1>2. step = "build" \/ (step = "parse" /\ origin = "network")
  BY DEF Init, InitBuild, InitReceived
<1> QED  BY <1>1, <1>2 DEF WrittenInv, RoundTrip, Searched

\* Each iteration of the two loops keeps it.
LEMMA WrittenStep == Bounds /\ WrittenInv /\ [Next]_vars => WrittenInv'
<1> SUFFICES ASSUME Bounds, WrittenInv, [Next]_vars PROVE WrittenInv'  OBVIOUS
<1>0. /\ buffer \in Seq(Byte) /\ options \in Seq(OptionType) /\ pos \in Nat /\ written \in Nat
      /\ Len(buffer) \in Nat /\ Len(options) \in Nat
  BY LenProperties DEF Bounds
<1>1. CASE build_message
  <2>1. step = "build" /\ parsed' = <<>> /\ UNCHANGED <<origin, buffer, options, written, pos>>
    BY <1>1 DEF build_message, optionVars, written_area, Bounds
  <2>2. origin # "network" /\ pos = 0 /\ written = 0  BY <2>1 DEF Bounds, WrittenInv
  <2>3. step' \in {"write", "done"}  BY <1>1 DEF build_message, Finish
  <2>4. 0 \in 0..Len(options')  BY <1>0, <2>1, SMT
  <2>5. \E s : Layout(buffer', options', s, written', pos')  BY <2>1, <2>2, NothingStored
  <2>6. written' \in 0..Len(options')  BY <2>1, <2>2, <2>4
  <2>7. RoundTrip'  BY <2>1 DEF RoundTrip, Searched
  <2> QED  BY <2>3, <2>5, <2>6, <2>7 DEF WrittenInv
<1>2. CASE options_write /\ UNCHANGED headerVars
  <2>1. step = "write" /\ UNCHANGED <<origin, parsed, options>> /\ parsed = <<>> /\ origin # "network"
    BY <1>2 DEF options_write, write_refuse, write_option, write_full, write_end, headerVars,
                optionVars, written_area, Bounds
  <2>2. RoundTrip'  BY <2>1 DEF RoundTrip, Searched
  <2>3. CASE write_refuse \/ write_full
    <3>1. step' = "done"  BY <2>3 DEF write_refuse, write_full, Finish
    <3> QED  BY <2>2, <3>1 DEF WrittenInv
  <2>4. CASE write_option
    <3>1. step' = "write" /\ written' = written + 1 /\ written < Len(options)
      BY <2>1, <2>4 DEF write_option
    <3>2. written' \in 0..Len(options')  BY <1>0, <2>1, <3>1, SMT
    <3>3. \E s : Layout(buffer', options', s, written', pos')  BY <2>1, <2>4, <3>1, OneMoreStored
    <3> QED  BY <2>2, <3>1, <3>2, <3>3 DEF WrittenInv
  <2>5. CASE write_end
    <3>1. /\ step' = "parse" /\ written = Len(options) /\ ~NoSpaceForEnd
          /\ buffer' = Overwrite(pos, <<END>>) /\ options_len' = pos + 1
      BY <2>5 DEF write_end
    <3>2. <<END>> \in Seq(Byte) /\ Len(<<END>>) = 1 /\ <<END>>[1] = END  BY SMT DEF END, Byte
    <3>3. pos + 1 <= Len(buffer) /\ 1 \in 1..1 /\ (pos + 1) - 1 = pos
      BY <1>0, <3>1, SMT DEF NoSpaceForEnd
    <3>4. Len(buffer') = Len(buffer)  BY <1>0, <3>1, <3>2, OverwriteType
    <3>5. /\ \A q \in 1..pos : buffer'[q] = buffer[q]
          /\ buffer'[pos + 1] = END
      BY <1>0, <3>1, <3>2, <3>3, OverwriteBytes
    <3>6. EndStored'
      <4>1. pos + 1 \in 1..Len(buffer)  BY <1>0, <3>3, SMT
      <4> QED  BY <3>1, <3>4, <3>5, <4>1 DEF EndStored
    <3>7. PICK s : Layout(buffer, options, s, written, pos)  BY <2>1 DEF WrittenInv
    <3>8. written \in 0..Len(options)  BY <2>1 DEF WrittenInv
    <3>9. Layout(buffer', options, s, written, pos)  BY <1>0, <3>5, <3>7, <3>8, LayoutKept
    <3>10. AllStored(s)'  BY <2>1, <3>1, <3>3, <3>9 DEF AllStored
    <3> QED  BY <2>2, <3>1, <3>6, <3>10 DEF WrittenInv
  <2> QED  BY <1>2, <2>3, <2>4, <2>5 DEF options_write
<1>3. CASE parse_message
  <2>1. step = "parse" /\ UNCHANGED <<origin, buffer, options, code>> /\ parsed = <<>>
    BY <1>3 DEF parse_message, optionVars, written_area, sought, Bounds
  <2>2. CASE parse_error(bytes, MessageLen) # "ok"
    <3>1. step' = "done" /\ parsed' = parsed  BY <1>3, <2>2 DEF parse_message, Finish
    <3> QED  BY <2>1, <3>1 DEF WrittenInv, RoundTrip, Searched
  <2>3. CASE parse_error(bytes, MessageLen) = "ok"
    <3>1. step' = "find" /\ options_len' = MessageLen - HeaderLen /\ pos' = 0
      BY <1>3, <2>3 DEF parse_message
    <3>2. RoundTrip'  BY <3>1 DEF RoundTrip, Searched
    <3>3. CASE origin = "network"  BY <2>1, <3>1, <3>2, <3>3 DEF WrittenInv
    <3>4. CASE origin # "network"
      <4>1. options_len' = options_len
        <5>1. options_len \in Nat /\ HeaderLen \in Nat  BY SMT DEF Bounds, HeaderLen
        <5>2. MessageLen = HeaderLen + options_len  BY <3>4 DEF MessageLen
        <5>3. (HeaderLen + options_len) - HeaderLen = options_len  BY <5>1, SMT
        <5> QED  BY <3>1, <5>2, <5>3
      <4>2. EndStored /\ \E s : AllStored(s)  BY <2>1, <3>4 DEF WrittenInv
      <4>3. EndStored'  BY <2>1, <4>1, <4>2 DEF EndStored
      <4>4. PICK s : AllStored(s)  BY <4>2
      <4>5. AllStored(s)' /\ s[1] = 0  BY <2>1, <4>1, <4>4 DEF AllStored, Layout
      <4>6. 1 \in 1..Len(options) + 1 /\ \A k \in 1..1 - 1 : FALSE  BY <1>0, SMT
      <4>7. AtOption(s, 1)'  BY <3>1, <4>5, <4>6 DEF AtOption
      <4>8. \E t : AllStored(t)' /\ \E j \in 1..Len(options') + 1 : AtOption(t, j)'
        BY <2>1, <4>5, <4>6, <4>7
      <4> QED  BY <3>1, <3>2, <4>3, <4>8 DEF WrittenInv
    <3> QED  BY <3>3, <3>4
  <2> QED  BY <2>2, <2>3
<1>4. CASE options_find /\ UNCHANGED headerVars
  <2>1. /\ step = "find" /\ step' \in {"find", "done"}
        /\ UNCHANGED <<buffer, options, options_len, code, origin, parsed>>
    BY <1>4 DEF options_find, find_exhausted, find_pad, find_end, find_truncated, find_match,
                find_skip, find_iteration, optionVars, written_area, sought, headerVars, Finish
  <2>2. CASE origin = "network"  BY <2>1, <2>2 DEF WrittenInv, RoundTrip
  <2>3. CASE origin # "network" /\ Plain
    <3>1. EndStored  BY <2>1, <2>3 DEF WrittenInv
    <3>2. EndStored'  BY <2>1, <3>1 DEF EndStored
    <3>3. CASE step' = "find"
      <4>1. \E s : AllStored(s)' /\ \E j \in 1..Len(options) + 1 : AtOption(s, j)'
        BY <1>4, <2>1, <2>3, <3>3, FindsWritten
      <4>2. RoundTrip'  BY <3>3 DEF RoundTrip, Searched
      <4> QED  BY <2>1, <3>2, <3>3, <4>1, <4>2 DEF WrittenInv
    <3>4. CASE step' = "done"
      <4>1. RoundTrip'  BY <1>4, <2>1, <2>3, <3>4, FindsWritten
      <4> QED  BY <3>4, <4>1 DEF WrittenInv
    <3> QED  BY <2>1, <3>3, <3>4
  <2>4. CASE origin # "network" /\ ~Plain
    <3>1. ~Plain'  BY <2>1, <2>4 DEF Plain
    <3>2. RoundTrip'  BY <3>1 DEF RoundTrip, Plain
    <3>3. EndStored /\ \E s : AllStored(s)  BY <2>1, <2>4 DEF WrittenInv
    <3>4. EndStored' /\ \E s : AllStored(s)'  BY <2>1, <3>3 DEF EndStored, AllStored
    <3> QED  BY <2>1, <3>1, <3>2, <3>4 DEF WrittenInv
  <2> QED  BY <2>2, <2>3, <2>4
<1>5. CASE UNCHANGED vars
  <2>1. UNCHANGED <<step, result, buffer, pos, options, written, options_len, code, out, origin, parsed>>
    BY <1>5 DEF vars, optionVars, headerVars, written_area, sought
  <2>2. RoundTrip => RoundTrip'  BY <2>1 DEF RoundTrip, Searched
  <2>3. (EndStored => EndStored') /\ Plain' = Plain  BY <2>1 DEF EndStored, Plain
  <2>4. \A s : (AllStored(s) => AllStored(s)') /\ \A j : AtOption(s, j) => AtOption(s, j)'
    BY <2>1 DEF AllStored, AtOption
  <2> QED  BY <2>1, <2>2, <2>3, <2>4 DEF WrittenInv
<1> QED  BY <1>1, <1>2, <1>3, <1>4, <1>5 DEF Next

\* What dmdhcp_options_write() wrote, dmdhcp_options_find() finds, for every array of options
\* and every capacity.
THEOREM OptionsComeBack == Spec => []RoundTrip
<1>1. WrittenInv => RoundTrip  BY DEF WrittenInv
<1> QED  BY <1>1, BoundsInit, BoundsStep, WrittenInit, WrittenStep, PTL DEF Spec
-----------------------------------------------------------------------------
(* The client's own messages.  All options but the hostname are small.     *)
Sized(os) ==
  /\ os \in Seq(OptionType)
  /\ \A k \in 1..Len(os) : os[k].length = Len(os[k].data) /\ os[k].code \notin {PAD, END}

SmallBut(os, h) == \A k \in 1..Len(os) : k # h => os[k].length <= 7

(***************************************************************************)
(* 9 bytes are enough for each option but the hostname, which has at most  *)
(* 248 more: so much of the buffer is used after n of them.                *)
(***************************************************************************)
Used(n, h) == 9 * n + (IF h <= n THEN 248 ELSE 0)

SendInv ==
  origin = "send" =>
    /\ Sized(options) /\ Len(options) <= OptionSlots /\ Len(buffer) = MaxMessageLen - HeaderLen
    /\ header.op = BootRequest /\ \A a \in Addrs(header) : a.family # "v6"
    /\ step \in {"build", "write", "parse"} => length = MaxMessageLen
    /\ length <= MaxMessageLen
    /\ result \notin {"EINVAL", "ENOSPC", "EPROTO"}
    /\ \E h \in 1..OptionSlots + 1 : SmallBut(options, h) /\ (step = "write" => pos <= Used(written, h))

Joined(s, t) ==
  /\ Sized(s \o t) /\ Len(s \o t) = Len(s) + Len(t)
  /\ \A k \in 1..Len(s) : (s \o t)[k] = s[k]
  /\ \A k \in 1..Len(t) : (s \o t)[Len(s) + k] = t[k]

\* Arrays of options one behind the other.
LEMMA SizedConcat ==
  ASSUME NEW s, NEW t, Sized(s), Sized(t)
  PROVE  Joined(s, t)
<1>1. s \in Seq(OptionType) /\ t \in Seq(OptionType)  BY DEF Sized
<1>2. Len(s) \in Nat /\ Len(t) \in Nat  BY <1>1, LenProperties
<1>3. /\ s \o t \in Seq(OptionType) /\ Len(s \o t) = Len(s) + Len(t)
      /\ \A k \in 1..Len(s) + Len(t) : (s \o t)[k] = IF k <= Len(s) THEN s[k] ELSE t[k - Len(s)]
  BY <1>1, ConcatProperties
<1>4. ASSUME NEW k \in 1..Len(s)  PROVE (s \o t)[k] = s[k]
  <2>1. k \in 1..Len(s) + Len(t) /\ k <= Len(s)  BY <1>2, SMT
  <2> QED  BY <1>3, <2>1
<1>5. ASSUME NEW k \in 1..Len(t)  PROVE (s \o t)[Len(s) + k] = t[k]
  <2>1. Len(s) + k \in 1..Len(s) + Len(t) /\ ~(Len(s) + k <= Len(s)) /\ (Len(s) + k) - Len(s) = k
    BY <1>2, SMT
  <2> QED  BY <1>3, <2>1
<1>6. ASSUME NEW k \in 1..Len(s \o t)
      PROVE  (\E i \in 1..Len(s) : (s \o t)[k] = s[i]) \/ (\E i \in 1..Len(t) : (s \o t)[k] = t[i])
  <2>1. k \in 1..Len(s) \/ (k - Len(s) \in 1..Len(t) /\ Len(s) + (k - Len(s)) = k)
    BY <1>2, <1>3, SMT
  <2> QED  BY <1>4, <1>5, <2>1
<1>7. Sized(s \o t)  BY <1>3, <1>6 DEF Sized
<1> QED  BY <1>3, <1>4, <1>5, <1>7 DEF Joined

\* One option of the client.
LEMMA SizedOption ==
  ASSUME NEW c \in Byte, c \notin {PAD, END}, NEW d \in Seq(Byte), Len(d) \in Byte
  PROVE  /\ Sized(<<Option(c, d)>>) /\ Len(<<Option(c, d)>>) = 1
         /\ <<Option(c, d)>>[1].length = Len(d)
<1> DEFINE o == Option(c, d)
<1>1. o \in OptionType /\ o.code = c /\ o.length = Len(d) /\ o.data = d
  BY DEF Option, OptionType
<1> HIDE DEF o
<1>2. <<o>> \in Seq(OptionType) /\ Len(<<o>>) = 1 /\ <<o>>[1] = o  BY <1>1, SMT
<1>3. \A k \in 1..1 : k = 1  BY SMT
<1>4. Sized(<<o>>)  BY <1>1, <1>2, <1>3 DEF Sized
<1> QED  BY <1>1, <1>2, <1>4 DEF o

\* No option at all.
LEMMA SizedEmpty == Sized(<<>>) /\ Len(<<>>) = 0
<1>1. <<>> \in Seq(OptionType) /\ Len(<<>>) = 0 /\ \A k \in 1..0 : FALSE  BY SMT
<1> QED  BY <1>1 DEF Sized

\* At most five options, and only one of them, the hostname, is longer than 7 bytes.
LEMMA SentOptionsFit ==
  ASSUME NEW l \in Leases, NEW m \in Sends(l)
  PROVE  /\ Sized(m.options) /\ Len(m.options) <= OptionSlots
         /\ \E h \in 1..OptionSlots + 1 : SmallBut(m.options, h)
<1> DEFINE Small(s, n) == Sized(s) /\ Len(s) <= n /\ \A k \in 1..Len(s) : s[k].length <= 7
<1>1. ASSUME NEW c \in Byte, c \notin {PAD, END}, NEW d \in Seq(Byte), Len(d) \in 0..7
      PROVE  Small(<<Option(c, d)>>, 1)
  <2>1. (\A x \in 0..7 : x \in Byte /\ x <= 7) /\ 1 <= 1 /\ \A k \in 1..1 : k = 1  BY SMT DEF Byte
  <2>2. Len(d) \in Byte /\ Len(d) <= 7  BY <1>1, <2>1
  <2> DEFINE s == <<Option(c, d)>>
  <2>3. Sized(s) /\ Len(s) = 1 /\ s[1].length = Len(d)  BY <1>1, <2>2, SizedOption
  <2> HIDE DEF s
  <2>4. Small(s, 1)  BY <2>1, <2>2, <2>3
  <2> QED  BY <2>4 DEF s
<1>2. Small(<<>>, 1)
  <2>1. 0 <= 1 /\ \A k \in 1..0 : FALSE  BY SMT
  <2> QED  BY <2>1, SizedEmpty
<1>3. ASSUME NEW c \in Byte, c \notin {PAD, END}, NEW a \in Address, NEW x \in {<<>>, <<a>>}
      PROVE  Small(Given(c, x), 1)
  <2>1. a.v4 \in [1..4 -> Byte]  BY DEF Address, AddrLen
  <2>2. 4 \in Nat /\ 4 \in 0..7  BY SMT
  <2>3. a.v4 \in Seq(Byte) /\ Len(a.v4) \in 0..7  BY <2>1, <2>2, FunctionIsBytes DEF Bytes
  <2>4. CASE x = <<>>
    <3>1. Given(c, x) = <<>>  BY <2>4 DEF Given
    <3> QED  BY <1>2, <3>1
  <2>5. CASE x = <<a>>
    <3>1. <<a>> # <<>> /\ <<a>>[1] = a  BY SMT
    <3>2. Given(c, x) = <<Option(c, a.v4)>>  BY <2>5, <3>1 DEF Given
    <3> QED  BY <1>1, <1>3, <2>3, <3>2
  <2> QED  BY <2>4, <2>5
<1>4. ASSUME NEW s, NEW t, NEW i \in Nat, Small(s, i), Small(t, 1)  PROVE Small(s \o t, i + 1)
  <2>1. /\ Sized(s \o t) /\ Len(s \o t) = Len(s) + Len(t)
        /\ \A k \in 1..Len(s) : (s \o t)[k] = s[k]
        /\ \A k \in 1..Len(t) : (s \o t)[Len(s) + k] = t[k]
    <3>1. Sized(s) /\ Sized(t)  BY <1>4
    <3>2. Joined(s, t)  BY <3>1, SizedConcat
    <3> QED  BY <3>2 DEF Joined
  <2>2. Len(s) \in Nat /\ Len(t) \in Nat /\ Len(s) <= i /\ Len(t) <= 1
    BY <1>4, LenProperties DEF Sized
  <2>3. Len(s) + Len(t) <= i + 1  BY <2>2, SMT
  <2>4. ASSUME NEW k \in 1..Len(s \o t)  PROVE (s \o t)[k].length <= 7
    <3>1. k \in 1..Len(s) \/ (k - Len(s) \in 1..Len(t) /\ Len(s) + (k - Len(s)) = k)
      BY <2>1, <2>2, SMT
    <3> QED  BY <1>4, <2>1, <3>1
  <2> QED  BY <2>1, <2>3, <2>4
<1>5. /\ l.offered_ip \in Address /\ l.server_id \in Address /\ l.hostname \in Seq(Byte)
  BY MessageAssumption
<1>6. Hostname(l.hostname) \in Seq(Byte) /\ Len(Hostname(l.hostname)) \in Byte  BY HostnameType
<1>7. /\ 12 \in Byte /\ 50 \in Byte /\ 53 \in Byte /\ 54 \in Byte /\ 55 \in Byte
      /\ {12, 50, 53, 54, 55} \cap {PAD, END} = {}
      /\ \A type \in {DISCOVER, REQUEST, DECLINE, RELEASE} : <<type>> \in Seq(Byte) /\ Len(<<type>>) \in 0..7
      /\ <<1, 3, 6, 42, 51, 58, 59>> \in Seq(Byte) /\ Len(<<1, 3, 6, 42, 51, 58, 59>>) \in 0..7
  BY SMT DEF Byte, DISCOVER, REQUEST, DECLINE, RELEASE, PAD, END
<1>8. ASSUME NEW type \in {DISCOVER, REQUEST, DECLINE, RELEASE}, NEW c,
             NEW ip \in {<<>>, <<l.offered_ip>>}, NEW id \in {<<>>, <<l.server_id>>},
             m = send_message(l, type, c, ip, id)
      PROVE  /\ Sized(m.options) /\ Len(m.options) <= OptionSlots
             /\ \E h \in 1..OptionSlots + 1 : SmallBut(m.options, h)
  <2> DEFINE a == <<Option(53, <<type>>)>>
             f == a \o Given(50, ip) \o Given(54, id)
             n == IF l.named THEN <<Option(12, Hostname(l.hostname))>> ELSE <<>>
             r == IF type \in {DISCOVER, REQUEST}
                    THEN <<Option(55, <<1, 3, 6, 42, 51, 58, 59>>)>> ELSE <<>>
  <2>1. Small(a, 1)  BY <1>1, <1>7
  <2>2. Small(Given(50, ip), 1) /\ Small(Given(54, id), 1)  BY <1>3, <1>5, <1>7
  <2>3. Small(f, (1 + 1) + 1)
    <3>1. 1 \in Nat /\ 1 + 1 \in Nat  BY SMT
    <3> HIDE DEF Small, a
    <3>2. Small(a \o Given(50, ip), 1 + 1)  BY <1>4, <2>1, <2>2, <3>1
    <3> QED  BY <1>4, <2>2, <3>1, <3>2
  <2>4. Small(r, 1)
    <3> DEFINE d == <<1, 3, 6, 42, 51, 58, 59>>
    <3>1. d \in Seq(Byte) /\ Len(d) \in 0..7 /\ 55 \in Byte /\ 55 \notin {PAD, END}  BY <1>7
    <3> HIDE DEF Small, d
    <3>2. Small(<<Option(55, d)>>, 1)  BY <1>1, <3>1
    <3> QED  BY <1>2, <3>2 DEF d
  <2>5. Sized(n) /\ Len(n) <= 1
    <3>1. 0 <= 1 /\ 1 <= 1  BY SMT
    <3> QED  BY <1>6, <1>7, <3>1, SizedOption, SizedEmpty
  <2>6. m.options = (f \o n) \o r  BY <1>8 DEF send_message
  <2>7. Len(f) \in Nat /\ Len(n) \in Nat /\ Len(r) \in Nat  BY <2>3, <2>4, <2>5, LenProperties DEF Sized
  <2>8. /\ Sized(f) /\ Len(f) <= (1 + 1) + 1 /\ \A k \in 1..Len(f) : f[k].length <= 7
        /\ Sized(r) /\ Len(r) <= 1 /\ \A k \in 1..Len(r) : r[k].length <= 7
    BY <2>3, <2>4
  <2> HIDE DEF f, n, r, Small
  <2>9. /\ Sized(f \o n) /\ Len(f \o n) = Len(f) + Len(n)
        /\ \A k \in 1..Len(f) : (f \o n)[k] = f[k]
    BY <2>5, <2>8, SizedConcat DEF Joined
  <2>10. /\ Sized(m.options) /\ Len(m.options) = (Len(f) + Len(n)) + Len(r)
         /\ \A k \in 1..Len(f) + Len(n) : m.options[k] = (f \o n)[k]
         /\ \A k \in 1..Len(r) : m.options[(Len(f) + Len(n)) + k] = r[k]
    <3> DEFINE g == f \o n
    <3>1. Sized(g) /\ Sized(r) /\ Len(g) = Len(f) + Len(n) /\ m.options = g \o r  BY <2>6, <2>8, <2>9
    <3> HIDE DEF g
    <3>2. Joined(g, r)  BY <3>1, SizedConcat
    <3> QED  BY <3>1, <3>2 DEF g, Joined
  <2>11. Len(m.options) <= OptionSlots /\ Len(f) + 1 \in 1..OptionSlots + 1
    BY <2>5, <2>7, <2>8, <2>10, SMT DEF OptionSlots
  <2>12. ASSUME NEW k \in 1..Len(m.options), k # Len(f) + 1  PROVE m.options[k].length <= 7
    <3>1. CASE k \in 1..Len(f)
      <4>1. k \in 1..Len(f) + Len(n)  BY <2>7, <3>1, SMT
      <4> QED  BY <2>8, <2>9, <2>10, <3>1, <4>1
    <3>2. CASE k \notin 1..Len(f)
      <4> DEFINE i == k - (Len(f) + Len(n))
      <4>1. i \in 1..Len(r) /\ (Len(f) + Len(n)) + i = k
        BY <2>5, <2>7, <2>10, <2>12, <3>2, SMT
      <4> HIDE DEF i
      <4> QED  BY <2>8, <2>10, <4>1
    <3> QED  BY <3>1, <3>2
  <2>13. SmallBut(m.options, Len(f) + 1)  BY <2>12 DEF SmallBut
  <2> QED  BY <2>10, <2>11, <2>13
<1> HIDE DEF Small
<1> QED  BY <1>8 DEF Sends

\* What one more option uses, and that there is always room for it and for the END.
LEMMA UsedFits ==
  ASSUME NEW n \in Nat, NEW h \in 1..OptionSlots + 1, NEW p \in Nat, n <= OptionSlots, p <= Used(n, h)
  PROVE  /\ p + 1 <= MaxMessageLen - HeaderLen
         /\ n < OptionSlots => \A x \in Byte : (n + 1 # h => x <= 7) =>
              p + 2 + x <= Used(n + 1, h) /\ p + 2 + x <= MaxMessageLen - HeaderLen
<1>1. CASE h <= n
  <2>1. h <= n + 1 /\ n + 1 # h  BY <1>1, SMT DEF OptionSlots
  <2>2. p <= 9 * n + 248 /\ Used(n + 1, h) = 9 * (n + 1) + 248  BY <1>1, <2>1, SMT DEF Used
  <2> HIDE DEF Used
  <2> QED  BY <2>1, <2>2, SMT DEF OptionSlots, MaxMessageLen, HeaderLen, Byte
<1>2. CASE h = n + 1
  <2>1. ~(h <= n) /\ h <= n + 1  BY <1>2, SMT
  <2>2. p <= 9 * n /\ Used(n + 1, h) = 9 * (n + 1) + 248  BY <2>1, SMT DEF Used
  <2> QED  BY <2>2, SMT DEF OptionSlots, MaxMessageLen, HeaderLen, Byte
<1>3. CASE ~(h <= n) /\ h # n + 1
  <2>1. ~(h <= n + 1)  BY <1>3, SMT DEF OptionSlots
  <2>2. p <= 9 * n /\ Used(n + 1, h) = 9 * (n + 1)  BY <1>3, <2>1, SMT DEF Used
  <2> QED  BY <1>3, <2>2, SMT DEF OptionSlots, MaxMessageLen, HeaderLen, Byte
<1> QED  BY <1>1, <1>2, <1>3

\* The buffer of send_message() is empty before the options are written.
LEMMA SendInit == Init => SendInv
<1> SUFFICES ASSUME Init, origin = "send" PROVE SendInv  BY DEF SendInv
<1>1. PICK l \in Leases : \E m \in Sends(l) : InitBuild("send", m, MaxMessageLen)
  BY DEF Init, InitBuild, InitReceived
<1>2. PICK m \in Sends(l) : InitBuild("send", m, MaxMessageLen)  BY <1>1
<1>3. /\ options = m.options /\ header = m.header /\ length = MaxMessageLen /\ step = "build"
      /\ buffer = [p \in 1..(IF MaxMessageLen > HeaderLen THEN MaxMessageLen - HeaderLen ELSE 0) |-> 0]
  BY <1>2 DEF InitBuild
<1>4. Len(buffer) = MaxMessageLen - HeaderLen
  <2> DEFINE n == IF MaxMessageLen > HeaderLen THEN MaxMessageLen - HeaderLen ELSE 0
  <2>1. n = MaxMessageLen - HeaderLen /\ n \in Nat  BY SMT DEF MaxMessageLen, HeaderLen
  <2>2. buffer = [p \in 1..n |-> 0]  BY <1>3
  <2> HIDE DEF n
  <2>3. Len(buffer) = n  BY <2>1, <2>2, SMT
  <2> QED  BY <2>1, <2>3
<1>5. MaxMessageLen <= MaxMessageLen  BY SMT DEF MaxMessageLen
<1>6. /\ Sized(options) /\ Len(options) <= OptionSlots
      /\ \E h \in 1..OptionSlots + 1 : SmallBut(options, h)
  BY <1>3, SentOptionsFit
<1>7. header.op = BootRequest /\ \A a \in Addrs(header) : a.family # "v6"  BY <1>3, SentHeaderType
<1>8. result = "ok"  BY DEF Init
<1> QED  BY <1>3, <1>4, <1>5, <1>6, <1>7, <1>8 DEF SendInv

\* No step of a message of the client fails.
LEMMA SendStep == Bounds /\ HeaderInv /\ WrittenInv /\ SendInv /\ [Next]_vars => SendInv'
<1> SUFFICES ASSUME Bounds, HeaderInv, WrittenInv, SendInv, [Next]_vars PROVE SendInv'  OBVIOUS
<1>1. UNCHANGED origin
  BY DEF Next, vars, headerVars, build_message, parse_message
<1> SUFFICES ASSUME origin = "send" PROVE SendInv'  BY <1>1 DEF SendInv
<1>2. /\ Sized(options) /\ Len(options) <= OptionSlots /\ Len(buffer) = MaxMessageLen - HeaderLen
      /\ header.op = BootRequest /\ \A a \in Addrs(header) : a.family # "v6"
      /\ step \in {"build", "write", "parse"} => length = MaxMessageLen
      /\ length <= MaxMessageLen
      /\ result \notin {"EINVAL", "ENOSPC", "EPROTO"}
  BY DEF SendInv
<1>3. PICK h \in 1..OptionSlots + 1 : SmallBut(options, h) /\ (step = "write" => pos <= Used(written, h))
  BY DEF SendInv
<1>4. /\ buffer \in Seq(Byte) /\ options \in Seq(OptionType) /\ pos \in Nat /\ written \in Nat
      /\ options_len \in Nat /\ Len(options) \in Nat /\ DOMAIN options = 1..Len(options)
      /\ origin # "network"
  BY LenProperties DEF Bounds
<1>5. CASE build_message
  <2>1. build_error(header, length) = "ok"
    <3>1. step = "build"  BY <1>5 DEF build_message
    <3>2. ~(MaxMessageLen < HeaderLen)  BY SMT DEF MaxMessageLen, HeaderLen
    <3>3. ~(length < HeaderLen)  BY <1>2, <3>1, <3>2
    <3>4. ~ \E a \in Addrs(header) : a.family = "v6"  BY <1>2
    <3> QED  BY <3>3, <3>4 DEF build_error
  <2>2. /\ step = "build" /\ step' = "write"
        /\ UNCHANGED <<result, buffer, options, written, pos, header, length>>
    BY <1>5, <2>1 DEF build_message, optionVars, written_area
  <2>3. pos = 0 /\ written = 0  BY <1>4, <2>2 DEF WrittenInv
  <2>4. 0 <= Used(0, h)  BY SMT DEF Used, OptionSlots
  <2>5. SmallBut(options', h) /\ pos' <= Used(written', h)  BY <1>3, <2>2, <2>3, <2>4
  <2> QED  BY <1>2, <2>2, <2>5 DEF SendInv
<1>6. CASE options_write /\ UNCHANGED headerVars
  <2>1. step = "write" /\ UNCHANGED <<options, header, length>>
    BY <1>6 DEF options_write, write_refuse, write_option, write_full, write_end, headerVars,
                optionVars, written_area
  <2>2. pos <= Used(written, h) /\ written \in 0..Len(options)
    BY <1>3, <1>4, <2>1 DEF WrittenInv
  <2>3. written <= OptionSlots /\ (written < Len(options) => written < OptionSlots)
    BY <1>2, <1>4, <2>2, SMT DEF OptionSlots
  <2>4. pos + 1 <= MaxMessageLen - HeaderLen  BY <1>4, <2>2, <2>3, UsedFits
  <2>5. ~NoSpaceForEnd
    <3>1. ~(pos + 1 > MaxMessageLen - HeaderLen)  BY <1>4, <2>4, SMT DEF MaxMessageLen, HeaderLen
    <3> QED  BY <1>2, <3>1 DEF NoSpaceForEnd
  <2>6. ASSUME written < Len(options)
        PROVE  ~NoData /\ ~NoSpace /\ pos + 2 + Opt.length <= Used(written + 1, h)
    <3>1. written + 1 \in 1..Len(options)  BY <1>4, <2>6, SMT
    <3>2. Opt \in OptionType /\ Opt.length \in Byte /\ Opt.length \in Nat
      BY <1>4, <3>1, OptionFields DEF Opt, OptionType
    <3>3. Opt.length = Len(Opt.data)  BY <1>2, <3>1 DEF Sized, Opt
    <3>4. written + 1 # h => Opt.length <= 7  BY <1>3, <3>1 DEF SmallBut, Opt
    <3>5. pos + 2 + Opt.length <= Used(written + 1, h) /\ pos + 2 + Opt.length <= MaxMessageLen - HeaderLen
      BY <1>4, <2>2, <2>3, <2>6, <3>2, <3>4, UsedFits
    <3>6. ~NoData
      <4>1. Len(<<>>) = 0 /\ ~(0 > 0)  BY SMT
      <4> QED  BY <3>3, <4>1 DEF NoData, Null
    <3>7. ~NoSpace
      <4>1. ~(pos + 2 + Opt.length > MaxMessageLen - HeaderLen)
        BY <1>4, <3>2, <3>5, SMT DEF MaxMessageLen, HeaderLen
      <4> QED  BY <1>2, <4>1 DEF NoSpace
    <3> QED  BY <3>5, <3>6, <3>7
  <2>7. CASE write_option
    <3>1. /\ step' = "write" /\ pos' = pos + 2 + Opt.length /\ written' = written + 1
          /\ written < Len(options) /\ result' = result
      BY <2>1, <2>7 DEF write_option
    <3>2. pos' <= Used(written', h)  BY <2>6, <3>1
    <3>3. Len(buffer') = Len(buffer)
      <4>1. written + 1 \in 1..Len(options)  BY <1>4, <3>1, SMT
      <4>2. Opt.code \in Byte /\ Opt.length \in Byte /\ Opt.data \in Seq(Byte)
        BY <1>4, <4>1, OptionFields DEF Opt, OptionType
      <4>3. <<Opt.code, Opt.length>> \o Opt.data \in Seq(Byte)  BY <4>2, SMT
      <4> QED  BY <1>4, <2>7, <4>3, OverwriteType DEF write_option
    <3>4. SmallBut(options', h)  BY <1>3, <2>1
    <3> QED  BY <1>2, <2>1, <3>1, <3>2, <3>3, <3>4 DEF SendInv
  <2>8. CASE write_end
    <3>1. step' = "parse" /\ result' = result  BY <2>8 DEF write_end
    <3>2. Len(buffer') = Len(buffer)
      <4>1. <<END>> \in Seq(Byte)  BY SMT DEF END, Byte
      <4> QED  BY <1>4, <2>8, <4>1, OverwriteType DEF write_end
    <3>3. SmallBut(options', h)  BY <1>3, <2>1
    <3> QED  BY <1>2, <2>1, <3>1, <3>2, <3>3 DEF SendInv
  <2>9. ~write_refuse  BY <2>6 DEF write_refuse
  <2>10. ~write_full  BY <2>5 DEF write_full
  <2> QED  BY <1>6, <2>7, <2>8, <2>9, <2>10 DEF options_write
<1>7. CASE parse_message
  <2>1. step = "parse" /\ MessageLen = HeaderLen + options_len  BY <1>4, <1>7 DEF parse_message, MessageLen
  <2>2. /\ MessageLen \in Nat /\ MessageLen >= HeaderLen /\ MessageLen <= MaxMessageLen
    <3>1. options_len <= Len(buffer)  BY <1>4, <2>1 DEF Bounds
    <3> QED  BY <1>2, <1>4, <2>1, <3>1, SMT DEF MaxMessageLen, HeaderLen
  <2>3. parse_error(bytes, MessageLen) = "ok"
    <3>1. bytes = HeaderBytes(header) /\ header \in Header  BY <1>4, <2>1 DEF HeaderInv
    <3> QED  BY <1>2, <2>2, <3>1, HeaderAccepted
  <2>4. step' = "find" /\ length' = MessageLen /\ UNCHANGED <<result, buffer, options, header>>
    BY <1>7, <2>3 DEF parse_message, written_area
  <2>5. SmallBut(options', h)  BY <1>3, <2>4
  <2> QED  BY <1>2, <2>2, <2>4, <2>5 DEF SendInv
<1>8. CASE options_find /\ UNCHANGED headerVars
  <2>1. /\ step = "find" /\ step' \in {"find", "done"} /\ UNCHANGED <<buffer, options, header, length>>
        /\ step' = "find" => result' = result
    BY <1>8 DEF options_find, find_exhausted, find_pad, find_end, find_truncated, find_match,
                find_skip, find_iteration, optionVars, written_area, headerVars, Finish
  <2>2. Plain  BY <1>2, <1>4 DEF Sized, Plain
  <2>3. step' = "done" => result' \in {"ok", "ENOENT"}  BY <1>4, <1>8, <2>1, <2>2, FindsWritten
  <2>4. result' \notin {"EINVAL", "ENOSPC", "EPROTO"}  BY <1>2, <2>1, <2>3
  <2>5. SmallBut(options', h)  BY <1>3, <2>1
  <2> QED  BY <1>2, <2>1, <2>4, <2>5 DEF SendInv
<1>9. CASE UNCHANGED vars
  <2>1. UNCHANGED <<step, result, buffer, pos, options, written, header, length>>
    BY <1>9 DEF vars, optionVars, headerVars, written_area
  <2>2. SmallBut(options', h) /\ (step' = "write" => pos' <= Used(written', h))  BY <1>3, <2>1
  <2> QED  BY <1>2, <2>1, <2>2 DEF SendInv
<1> QED  BY <1>5, <1>6, <1>7, <1>8, <1>9 DEF Next

\* A message of the client has room for its options and its bytes, and is accepted by the code
\* that reads it, for every lease and every hostname.
THEOREM SentMessagesFit == Spec => []SendsFit
<1>1. SendInv => SendsFit  BY DEF SendInv, SendsFit
<1> QED  BY <1>1, BoundsInit, BoundsStep, HeaderInit, HeaderStep, WrittenInit, WrittenStep,
            SendInit, SendStep, PTL DEF Spec
=============================================================================
