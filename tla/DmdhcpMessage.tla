---------------------------- MODULE DmdhcpMessage ----------------------------
(***************************************************************************)
(* A DHCP message from the fields of a lease to bytes and back: the        *)
(* messages dmdhcp_output.c sends, the header of dmdhcp_wire.c and the     *)
(* options of dmdhcp_options.c.  One behaviour is one message: it is sent  *)
(* by the client, or built by a caller of the public API, and then read    *)
(* with the same code a receiver uses; or it has come from the network     *)
(* with any options area at all.                                           *)
(***************************************************************************)
EXTENDS DmdhcpOptions

CONSTANTS
  Leases,      \* what send_message() reads: [xid, offered_ip, server_id, named, hostname, mac]
  Builds,      \* calls of the API: [header, options, capacity]
  Received,    \* from the network: [bytes, area]
  Codes        \* codes looked for

VARIABLES
  origin,      \* where the message comes from: send, build, network
  header,      \* the fields given
  bytes,       \* header and cookie as bytes
  length,      \* capacity while the message is built, then the length of the message
  parsed       \* the fields read back

headerVars == <<origin, header, bytes, length, parsed>>
vars == <<step, result, optionVars, headerVars>>

AddrNone == [family |-> "none", v4 |-> Zero]

\* The data of an option is Null, or its bytes.
OptionOk(o) == o.data = Null \/ o.length = Len(o.data)

\* A lease has no address, or an IPv4 address: dmdhcp_start() takes no other and read_addr()
\* makes no other.
ASSUME MessageAssumption ==
  /\ \A l \in Leases : /\ l.xid \in U32 /\ l.mac \in [1..6 -> Byte]
                       /\ l.offered_ip \in Address /\ l.offered_ip.family # "v6"
                       /\ l.server_id \in Address
                       /\ l.hostname \in Seq(Byte)
  /\ \A m \in Builds :
       /\ m.header \in Header
       /\ m.options \in Seq([code : Byte, length : Byte, data : Seq(Byte)])
       /\ \A k \in DOMAIN m.options : OptionOk(m.options[k])
       /\ m.capacity \in Nat
  /\ \A m \in Received : /\ m.bytes \in Seq(Byte) /\ m.area \in Seq(Byte)
                         /\ Len(m.bytes) <= HeaderLen
-----------------------------------------------------------------------------
(* send_message(), the options it writes and its seven callers *)
\* Mutant: the buffer is meant for the largest packet but not for its header.
MaxMessageLenShort == 512

MaxMessageLen == 576     \* DMDHCP_MAX_MESSAGE_LEN
OptionSlots == 5         \* dmdhcp_option_t options[5]

DISCOVER == 1
REQUEST == 3
DECLINE == 4
RELEASE == 7

Option(c, d) == [code |-> c, length |-> Len(d), data |-> d]
Given(c, addr) == IF addr = <<>> THEN <<>> ELSE <<Option(c, addr[1].v4)>>

\* Mutant: the length is not cut to what a byte holds.
HostnameUncut(name) == name

Hostname(name) == SubSeq(name, 1, IF Len(name) > 255 THEN 255 ELSE Len(name))

SentHeader(l, ciaddr) ==
  [op |-> BootRequest, htype |-> 1, hlen |-> 6, hops |-> 0, xid |-> l.xid, secs |-> 0,
   flags |-> 32768, ciaddr |-> ciaddr, yiaddr |-> AddrNone, siaddr |-> AddrNone,
   giaddr |-> AddrNone, chaddr |-> [k \in 1..ChaddrLen |-> IF k <= 6 THEN l.mac[k] ELSE 0]]

\* The addresses a caller may leave out are sequences of at most one.
send_message(l, type, ciaddr, requested_ip, server_id_option) ==
  [header |-> SentHeader(l, ciaddr),
   options |-> <<Option(53, <<type>>)>>
                 \o Given(50, requested_ip)
                 \o Given(54, server_id_option)
                 \o (IF l.named THEN <<Option(12, Hostname(l.hostname))>> ELSE <<>>)
                 \o (IF type \in {DISCOVER, REQUEST}
                       THEN <<Option(55, <<1, 3, 6, 42, 51, 58, 59>>)>> ELSE <<>>)]

Sends(l) ==
  LET ip == <<l.offered_ip>>
      id == <<l.server_id>>
  IN  { send_message(l, DISCOVER, AddrNone, <<>>, <<>>),
        send_message(l, REQUEST, AddrNone, ip, id),            \* selecting
        send_message(l, REQUEST, AddrNone, ip, <<>>),          \* reboot
        send_message(l, REQUEST, l.offered_ip, <<>>, <<>>),    \* renew and rebind
        send_message(l, DECLINE, AddrNone, ip, id),
        send_message(l, RELEASE, l.offered_ip, <<>>, id) }
-----------------------------------------------------------------------------
(* dmdhcp_build_message() *)
build_message ==
  /\ step = "build"
  /\ IF build_error(header, length) # "ok"
       THEN Finish(build_error(header, length)) /\ UNCHANGED bytes
       ELSE bytes' = HeaderBytes(header) /\ step' = "write" /\ UNCHANGED result
  /\ UNCHANGED <<optionVars, origin, header, length, parsed>>

(* dmdhcp_parse_message(), and the search that follows it in dmdhcp_handle_datagram() *)
MessageLen == IF origin = "network" THEN length ELSE HeaderLen + options_len

parse_message ==
  /\ step = "parse"
  /\ length' = MessageLen
  /\ IF parse_error(bytes, MessageLen) # "ok"
       THEN /\ Finish(parse_error(bytes, MessageLen))
            /\ UNCHANGED <<optionVars, parsed>>
       ELSE /\ parsed' = ParsedHeader(bytes)
            /\ step' = "find"
            /\ options_len' = MessageLen - HeaderLen
            /\ pos' = 0 /\ touched' = 0
            /\ UNCHANGED <<result, written_area, code, out>>
  /\ UNCHANGED <<origin, header, bytes>>
-----------------------------------------------------------------------------
InitBuild(o, m, capacity) ==
  /\ origin = o /\ header = m.header /\ options = m.options
  /\ length = capacity /\ bytes = [p \in 1..HeaderLen |-> 0]
  /\ buffer = [p \in 1..(IF capacity > HeaderLen THEN capacity - HeaderLen ELSE 0) |-> 0]
  /\ step = "build"

InitReceived(m) ==
  /\ origin = "network" /\ header = <<>> /\ options = <<>>
  /\ length = Len(m.bytes) + Len(m.area) /\ bytes = m.bytes
  /\ buffer = m.area
  /\ step = "parse"

Init ==
  /\ \/ \E l \in Leases : \E m \in Sends(l) : InitBuild("send", m, MaxMessageLen)
     \/ \E m \in Builds : InitBuild("build", m, m.capacity)
     \/ \E m \in Received : InitReceived(m)
  /\ code \in Codes
  /\ result = "ok" /\ pos = 0 /\ touched = 0 /\ written = 0 /\ options_len = 0
  /\ out = [code |-> 0, length |-> 0, data |-> 0]
  /\ parsed = <<>>

Next ==
  \/ build_message
  \/ options_write /\ UNCHANGED headerVars
  \/ parse_message
  \/ options_find /\ UNCHANGED headerVars

\* Each call runs to its end on the thread of its caller, without waiting for anything.
Spec == Init /\ [][Next]_vars /\ WF_vars(Next)
-----------------------------------------------------------------------------
\* Types: bytes are bytes and no option is longer than its length byte can say, whatever
\* hostname the application gave.
TypeOK ==
  /\ step \in {"build", "write", "parse", "find", "done"}
  /\ result \in {"ok", "EINVAL", "ENOSPC", "EPROTO", "ENOENT"}
  /\ buffer \in Seq(Byte) /\ bytes \in Seq(Byte)
  /\ options \in Seq([code : Byte, length : Byte, data : Seq(Byte)])
  /\ {pos, touched, written, options_len, length} \subseteq Nat
  /\ out \in [code : Byte, length : Byte, data : Nat]

\* The search of dmdhcp_options_find() has begun, and has ended.
Searching == step = "find"
Searched == step = "done" /\ parsed # <<>>

\* dmdhcp_options_write() stores nothing behind the capacity it was given, whatever the
\* options and whatever the capacity, also when it gives up half-way.
WriteInBounds == ~(Searching \/ Searched) => touched <= Len(buffer)

\* dmdhcp_options_find() looks at no byte behind the end of the options, however they are
\* truncated; what it returns, and every address dmdhcp_option_get_addr_at() takes from
\* it, lies inside them.
FindInBounds ==
  Searching \/ Searched =>
    /\ touched <= options_len /\ options_len <= Len(buffer)
    /\ result = "ok" => out.data + out.length <= options_len
    /\ \A k \in 0..option_addr_count(out) - 1 :
         result = "ok" => option_get_addr_at(out, k) + AddrLen <= options_len

\* The entries of the options, read as RFC 2132 lays them out: the least set that has the
\* first byte and, with a pad or a whole option, what follows it.
WholeOption(p) ==
  /\ p + 1 < options_len /\ ByteAt(p) \notin {PAD, END}
  /\ p + 2 + ByteAt(p + 1) <= options_len
Following(p) == IF ByteAt(p) = PAD THEN p + 1 ELSE p + 2 + ByteAt(p + 1)
HasFollowing(p) == p < options_len /\ (ByteAt(p) = PAD \/ WholeOption(p))
Closed(S) == 0 \in S /\ \A p \in S : HasFollowing(p) => Following(p) \in S
Entries == {p \in 0..options_len : \A S \in SUBSET (0..options_len) : Closed(S) => p \in S}

Hits == {p \in Entries : WholeOption(p) /\ ByteAt(p) = code}
CutShort == {p \in Entries : p < options_len /\ ByteAt(p) \notin {PAD, END} /\ ~WholeOption(p)}

\* What dmdhcp_options_find() says of a received message is what the message says: the
\* first option with the code when there is one, ENOENT when there is none up to the end,
\* EPROTO when the options break off before one was seen.
FindCorrect ==
  Searched /\ origin = "network" =>
    /\ result = "ok" <=> Hits # {}
    /\ result = "ok" => /\ out.data - 2 \in Hits
                        /\ \A p \in Hits : out.data - 2 <= p
                        /\ out.code = code /\ out.length = ByteAt(out.data - 1)
    /\ result = "EPROTO" <=> Hits = {} /\ CutShort # {}

\* An option written by dmdhcp_options_write() is found again by dmdhcp_options_find(),
\* with its length and its bytes, unless another one with the code comes first; a code
\* that was not written is not found.  PAD and END are not codes of options.
RoundTrip ==
  LET given == {k \in DOMAIN options : options[k].code = code}
  IN  /\ Searched /\ origin # "network"
      /\ \A k \in DOMAIN options : options[k].code \notin {PAD, END}
      => /\ result = IF given = {} THEN "ENOENT" ELSE "ok"
         /\ \A k \in given :
              (\A j \in given : k <= j) =>
                options[k] = [code |-> out.code, length |-> out.length,
                              data |-> SubSeq(buffer, out.data + 1, out.data + out.length)]

\* Each field of the header comes back from dmdhcp_parse_message() as it was given to
\* dmdhcp_build_message(); an address of family none comes back as the IPv4 address 0,
\* whatever its bytes are.
HeaderRoundTrip ==
  LET v4(a) == [family |-> "v4", v4 |-> IF a.family = "none" THEN Zero ELSE a.v4]
  IN  Searched /\ origin # "network" =>
        parsed =
          [op |-> header.op, htype |-> header.htype, hlen |-> header.hlen, hops |-> header.hops,
           xid |-> header.xid, secs |-> header.secs, flags |-> header.flags,
           ciaddr |-> v4(header.ciaddr), yiaddr |-> v4(header.yiaddr),
           siaddr |-> v4(header.siaddr), giaddr |-> v4(header.giaddr), chaddr |-> header.chaddr]

\* A message of the state machine always fits its array of options and its buffer, also
\* with the longest hostname: send_message() never fails before the network is reached.
SendsFit ==
  origin = "send" =>
    /\ Len(options) <= OptionSlots
    /\ result \notin {"EINVAL", "ENOSPC", "EPROTO"}
    /\ step = "done" => length <= MaxMessageLen

\* Both loops end: each iteration gets closer to the end of the array or of the options.
Terminates == <>(step = "done")
=============================================================================
