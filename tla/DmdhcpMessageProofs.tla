------------------------- MODULE DmdhcpMessageProofs -------------------------
(***************************************************************************)
(* For every message: the two loops of dmdhcp_options.c stay inside their  *)
(* buffers, and the search returns what the options say.                   *)
(***************************************************************************)
EXTENDS DmdhcpMessage, SequenceTheorems, TLAPS

OptionType == [code : Byte, length : Byte, data : Seq(Byte)]
NotFound == [code |-> 0, length |-> 0, data |-> 0]

\* What FindInBounds says of an option that was found.
Inside ==
  /\ out.data + out.length <= options_len
  /\ \A k \in 0..option_addr_count(out) - 1 : option_get_addr_at(out, k) + AddrLen <= options_len

\* The inductive invariant: types, and where the loop is in each phase.
Bounds ==
  /\ step \in {"build", "write", "parse", "find", "done"}
  /\ buffer \in Seq(Byte) /\ options \in Seq(OptionType)
  /\ \A k \in DOMAIN options : OptionOk(options[k])
  /\ pos \in Nat /\ touched \in Nat /\ written \in Nat /\ options_len \in Nat /\ length \in Nat
  /\ touched <= Len(buffer)
  /\ step \in {"build", "write"} => origin # "network" /\ pos <= Len(buffer)
  /\ step \in {"build", "write", "parse"} => parsed = <<>>
  /\ step # "done" => out = NotFound
  /\ step = "parse" /\ origin # "network" => options_len <= Len(buffer)
  /\ step = "parse" /\ origin = "network" => length <= HeaderLen + Len(buffer)
  /\ step = "find" => pos <= options_len
  /\ Searching \/ Searched => /\ touched <= options_len /\ options_len <= Len(buffer)
                              /\ result = "ok" => Inside
-----------------------------------------------------------------------------
\* Most leaves are first-order; the others name SMT.
USE Zenon

\* Bytes of the buffer, and what is read behind its end, are bytes.
LEMMA ByteAtType ==
  ASSUME buffer \in Seq(Byte), NEW p \in Nat
  PROVE  ByteAt(p) \in Byte
<1>1. CASE p < Len(buffer)
  <2>1. p + 1 \in 1..Len(buffer)  BY <1>1, SMT
  <2> QED  BY <1>1, <2>1, SMT DEF ByteAt
<1>2. CASE ~(p < Len(buffer))  BY <1>2, SMT DEF ByteAt, Byte
<1> QED  BY <1>1, <1>2

\* Storing an option that fits keeps the length of the buffer.
LEMMA OverwriteType ==
  ASSUME buffer \in Seq(Byte), NEW p \in Nat, NEW b \in Seq(Byte)
  PROVE  Overwrite(p, b) \in Seq(Byte) /\ Len(Overwrite(p, b)) = Len(buffer)
<1> DEFINE f(q) == IF q \in p + 1..p + Len(b) THEN b[q - p] ELSE buffer[q]
<1>1. ASSUME NEW q \in 1..Len(buffer) PROVE f(q) \in Byte
  <2>1. CASE q \in p + 1..p + Len(b)
    <3>1. q - p \in 1..Len(b)  BY <2>1, SMT
    <3> QED  BY <2>1, <3>1, SMT
  <2>2. CASE q \notin p + 1..p + Len(b)  BY <2>2, SMT
  <2> QED  BY <2>1, <2>2
<1>2. Len(buffer) \in Nat  BY SMT
<1> HIDE DEF f
<1>3. [q \in 1..Len(buffer) |-> f(q)] \in Seq(Byte) /\ Len([q \in 1..Len(buffer) |-> f(q)]) = Len(buffer)
  BY <1>1, <1>2, SMT
<1> QED  BY <1>3 DEF Overwrite, f

\* A hostname is cut to what a length byte can say.
LEMMA HostnameType ==
  ASSUME NEW l \in Leases
  PROVE  Hostname(l.hostname) \in Seq(Byte) /\ Len(Hostname(l.hostname)) \in Byte
<1> DEFINE n == IF Len(l.hostname) > 255 THEN 255 ELSE Len(l.hostname)
<1>1. l.hostname \in Seq(Byte)  BY MessageAssumption
<1>2. Len(l.hostname) \in Nat  BY <1>1, LenProperties
<1>3. n \in 0..Len(l.hostname) /\ n \in Byte
  <2>1. ASSUME NEW x \in Nat
        PROVE  /\ (IF x > 255 THEN 255 ELSE x) \in 0..x
               /\ (IF x > 255 THEN 255 ELSE x) \in Byte
    BY SMT DEF Byte
  <2> QED  BY <1>2, <2>1
<1>4. Hostname(l.hostname) = SubSeq(l.hostname, 1, n)  BY DEF Hostname
<1> HIDE DEF n
<1>5. SubSeq(l.hostname, 1, n) \in Seq(Byte) /\ Len(SubSeq(l.hostname, 1, n)) = n
  BY <1>1, <1>3, SubSeqProperties, SMT
<1> QED  BY <1>3, <1>4, <1>5

\* The seven senders build arrays of well-formed options.
LEMMA SentOptionsType ==
  ASSUME NEW l \in Leases, NEW m \in Sends(l)
  PROVE  /\ m.options \in Seq(OptionType)
         /\ \A k \in DOMAIN m.options : OptionOk(m.options[k])
<1> DEFINE Fine(s) == s \in Seq(OptionType) /\ \A k \in DOMAIN s : OptionOk(s[k])
<1>1. ASSUME NEW c \in Byte, NEW d \in Seq(Byte), Len(d) \in Byte
      PROVE  Fine(<<Option(c, d)>>)
  BY <1>1, SMT DEF Option, OptionType, OptionOk
<1>2. ASSUME NEW s, NEW t, Fine(s), Fine(t)  PROVE Fine(s \o t)
  BY <1>2, SMT
<1>3. Fine(<<>>)  BY SMT
<1>4. ASSUME NEW c \in Byte, NEW a \in Address  PROVE Fine(Given(c, <<a>>)) /\ Fine(Given(c, <<>>))
  <2>1. a.v4 \in [1..4 -> Byte]  BY DEF Address, AddrLen
  <2>2. a.v4 \in Seq(Byte) /\ Len(a.v4) = 4
    <3>1. a.v4 = [i \in 1..4 |-> a.v4[i]]  BY <2>1
    <3>2. \A i \in 1..4 : a.v4[i] \in Byte  BY <2>1
    <3> QED  BY <3>1, <3>2, SMT
  <2>3. Given(c, <<>>) = <<>>  BY DEF Given
  <2>4. Given(c, <<a>>) = <<Option(c, a.v4)>>
    <3>1. <<a>> # <<>>  OBVIOUS
    <3> QED  BY <3>1 DEF Given
  <2>5. 4 \in Byte  BY SMT DEF Byte
  <2> HIDE DEF Fine
  <2> QED  BY <2>2, <2>3, <2>4, <2>5, <1>1, <1>3
<1>5. Hostname(l.hostname) \in Seq(Byte) /\ Len(Hostname(l.hostname)) \in Byte  BY HostnameType
<1>6. l.offered_ip \in Address /\ l.server_id \in Address  BY MessageAssumption
<1>7. /\ 12 \in Byte /\ 50 \in Byte /\ 53 \in Byte /\ 54 \in Byte /\ 55 \in Byte
      /\ \A type \in {DISCOVER, REQUEST, DECLINE, RELEASE} : <<type>> \in Seq(Byte) /\ Len(<<type>>) \in Byte
      /\ <<1, 3, 6, 42, 51, 58, 59>> \in Seq(Byte) /\ Len(<<1, 3, 6, 42, 51, 58, 59>>) \in Byte
  BY SMT DEF Byte, DISCOVER, REQUEST, DECLINE, RELEASE
<1> HIDE DEF Fine
<1>8. ASSUME NEW type \in {DISCOVER, REQUEST, DECLINE, RELEASE}, NEW c,
             NEW ip \in {<<>>, <<l.offered_ip>>}, NEW id \in {<<>>, <<l.server_id>>}
      PROVE  Fine(send_message(l, type, c, ip, id).options)
  <2> DEFINE a == <<Option(53, <<type>>)>>
             n == IF l.named THEN <<Option(12, Hostname(l.hostname))>> ELSE <<>>
             r == IF type \in {DISCOVER, REQUEST}
                    THEN <<Option(55, <<1, 3, 6, 42, 51, 58, 59>>)>> ELSE <<>>
  <2>1. Fine(a)  BY <1>1, <1>7
  <2>2. Fine(Given(50, ip)) /\ Fine(Given(54, id))  BY <1>4, <1>6, <1>7
  <2>3. Fine(n)  BY <1>1, <1>3, <1>5, <1>7
  <2>4. Fine(r)  BY <1>1, <1>3, <1>7
  <2>5. send_message(l, type, c, ip, id).options = a \o Given(50, ip) \o Given(54, id) \o n \o r
    BY DEF send_message
  <2> HIDE DEF a, n, r
  <2> QED  BY <2>1, <2>2, <2>3, <2>4, <2>5, <1>2
<1>9. Fine(m.options)  BY <1>8 DEF Sends
<1> QED  BY <1>9 DEF Fine

\* The invariant holds when a message is about to be built, or has been received.
LEMMA BoundsInit == Init => Bounds
<1> SUFFICES ASSUME Init PROVE Bounds  OBVIOUS
<1> USE DEF HeaderLen, NotFound
<1>1. ASSUME NEW o \in {"send", "build"}, NEW m, NEW capacity \in Nat, InitBuild(o, m, capacity),
             m.options \in Seq(OptionType), \A k \in DOMAIN m.options : OptionOk(m.options[k])
      PROVE  Bounds
  <2> DEFINE n == IF capacity > HeaderLen THEN capacity - HeaderLen ELSE 0
  <2>1. n \in Nat  BY SMT
  <2>2. buffer = [p \in 1..n |-> 0]  BY <1>1 DEF InitBuild
  <2> HIDE DEF n
  <2>3. buffer \in Seq(Byte) /\ Len(buffer) \in Nat  BY <2>1, <2>2, SMT DEF Byte
  <2>4. step = "build" /\ parsed = <<>> /\ origin # "network" /\ options = m.options /\ length \in Nat
    BY <1>1 DEF InitBuild, Init
  <2>5. pos = 0 /\ touched = 0 /\ written = 0 /\ options_len = 0 /\ out = NotFound
    BY DEF Init
  <2> QED  BY <1>1, <2>3, <2>4, <2>5, SMT DEF Bounds, Searching, Searched
<1>2. ASSUME NEW m \in Received, InitReceived(m)  PROVE Bounds
  <2>1. buffer \in Seq(Byte) /\ bytes \in Seq(Byte) /\ Len(bytes) <= HeaderLen
    BY <1>2, MessageAssumption DEF InitReceived
  <2>2. Len(buffer) \in Nat /\ Len(bytes) \in Nat  BY <2>1, SMT
  <2>3. length \in Nat /\ length <= HeaderLen + Len(buffer)
    <3>1. length = Len(bytes) + Len(buffer)  BY <1>2 DEF InitReceived
    <3> QED  BY <2>1, <2>2, <3>1, SMT
  <2>4. options = <<>> /\ step = "parse" /\ parsed = <<>> /\ origin = "network"
    BY <1>2 DEF InitReceived, Init
  <2>5. pos = 0 /\ touched = 0 /\ written = 0 /\ options_len = 0 /\ out = NotFound
    BY DEF Init
  <2> QED  BY <2>1, <2>2, <2>3, <2>4, <2>5, SMT DEF Bounds, Searching, Searched
<1>3. CASE \E l \in Leases : \E m \in Sends(l) : InitBuild("send", m, MaxMessageLen)
  BY <1>1, <1>3, SentOptionsType, SMT DEF MaxMessageLen
<1>4. CASE \E m \in Builds : InitBuild("build", m, m.capacity)
  BY <1>1, <1>4, MessageAssumption DEF OptionType
<1> QED  BY <1>2, <1>3, <1>4 DEF Init

\* Each iteration keeps the bounds: it tests before it reads or stores.
LEMMA BoundsStep == Bounds /\ [Next]_vars => Bounds'
<1> SUFFICES ASSUME Bounds, [Next]_vars PROVE Bounds'  OBVIOUS
<1> USE DEF NotFound, Searching, Searched
<1>0. Len(buffer) \in Nat  BY SMT DEF Bounds
<1>1. CASE build_message
  BY <1>0, <1>1 DEF build_message, optionVars, written_area, sought, Bounds, Finish, Inside
<1>2. CASE write_refuse /\ UNCHANGED headerVars
  BY <1>0, <1>2 DEF write_refuse, headerVars, optionVars, written_area, sought, Bounds, Finish, Inside
<1>3. CASE write_full /\ UNCHANGED headerVars
  BY <1>0, <1>3 DEF write_full, headerVars, optionVars, written_area, sought, Bounds, Finish, Inside
<1>4. CASE write_option /\ UNCHANGED headerVars
  <2>1. written + 1 \in DOMAIN options  BY <1>4, SMT DEF write_option, Bounds
  <2>2. Opt \in OptionType /\ OptionOk(Opt)  BY <2>1, SMT DEF Opt, Bounds
  <2>9. Opt.code \in Byte /\ Opt.length \in Byte /\ Opt.data \in Seq(Byte)
    BY <2>2 DEF OptionType
  <2>3. Opt.length \in Nat
    <3>1. Byte \subseteq Nat  BY SMT DEF Byte
    <3> QED  BY <2>9, <3>1
  <2>4. <<Opt.code, Opt.length>> \o Opt.data \in Seq(Byte)  BY <2>9, SMT
  <2>5. buffer' \in Seq(Byte) /\ Len(buffer') = Len(buffer)
    BY <1>4, <2>4, OverwriteType DEF write_option, Bounds
  <2>6. pos' \in Nat /\ touched' = pos' /\ pos' <= Len(buffer)
    BY <1>0, <1>4, <2>3, SMT DEF write_option, NoSpace, Bounds
  <2>7. /\ step' = "write" /\ options' = options /\ written' = written + 1 /\ out' = out
        /\ options_len' = options_len /\ length' = length /\ origin' = origin /\ parsed' = parsed
    BY <1>4 DEF write_option, headerVars, sought
  <2>8. parsed = <<>> /\ origin # "network" /\ out = NotFound  BY <1>4 DEF write_option, Bounds
  <2> QED  BY <1>0, <2>5, <2>6, <2>7, <2>8, SMT DEF Bounds
<1>5. CASE write_end /\ UNCHANGED headerVars
  <2>1. <<END>> \in Seq(Byte)  BY SMT DEF END, Byte
  <2>2. buffer' \in Seq(Byte) /\ Len(buffer') = Len(buffer)
    BY <1>5, <2>1, OverwriteType DEF write_end, Bounds
  <2>3. touched' = pos + 1 /\ options_len' = pos + 1 /\ pos \in Nat /\ pos + 1 <= Len(buffer)
    BY <1>0, <1>5, SMT DEF write_end, NoSpaceForEnd, Bounds
  <2>4. /\ step' = "parse" /\ options' = options /\ written' = written /\ out' = out
        /\ pos' = pos /\ length' = length /\ origin' = origin /\ parsed' = parsed
    BY <1>5 DEF write_end, headerVars
  <2>5. parsed = <<>> /\ origin # "network" /\ out = NotFound  BY <1>5 DEF write_end, Bounds
  <2> QED  BY <1>0, <2>2, <2>3, <2>4, <2>5, SMT DEF Bounds
<1>6. CASE parse_message
  <2>1. MessageLen \in Nat /\ MessageLen <= HeaderLen + Len(buffer)
    BY <1>0, <1>6, SMT DEF parse_message, MessageLen, Bounds, HeaderLen
  <2>2. CASE parse_error(bytes, MessageLen) # "ok"
    BY <1>6, <2>1, <2>2 DEF parse_message, optionVars, written_area, sought, Bounds, Finish
  <2>3. CASE parse_error(bytes, MessageLen) = "ok"
    <3>1. MessageLen >= HeaderLen  BY <2>1, <2>3, SMT DEF parse_error, HeaderLen
    <3>2. options_len' \in Nat /\ options_len' <= Len(buffer)
      BY <1>0, <1>6, <2>1, <2>3, <3>1, SMT DEF parse_message, HeaderLen
    <3>3. /\ step' = "find" /\ pos' = 0 /\ touched' = 0 /\ length' = MessageLen
          /\ buffer' = buffer /\ options' = options /\ written' = written /\ out' = out
      BY <1>6, <2>3 DEF parse_message, written_area
    <3>4. out' = NotFound  BY <1>6, <3>3 DEF parse_message, Bounds
    <3>5. Inside'
      BY <3>2, <3>4, SMT DEF Inside, option_addr_count, option_get_addr_at, AddrLen
    <3> QED  BY <1>0, <2>1, <3>2, <3>3, <3>4, <3>5, SMT DEF Bounds
  <2> QED  BY <2>2, <2>3
<1>7. CASE options_find /\ UNCHANGED headerVars
  <2>1. /\ pos \in Nat /\ touched \in Nat /\ options_len \in Nat /\ pos <= options_len
        /\ options_len <= Len(buffer) /\ touched <= options_len /\ out = NotFound
    BY <1>7 DEF options_find, find_exhausted, find_pad, find_end, find_truncated, find_match,
                find_skip, find_iteration, Bounds
  <2>2. EntryLen \in Nat
    <3>1. EntryLen \in Byte  BY <2>1, ByteAtType, SMT DEF EntryLen, Bounds
    <3> QED  BY <3>1, SMT DEF Byte
  <2>3. UNCHANGED <<buffer, options, written, options_len, length, parsed, origin>>
    BY <1>7 DEF options_find, find_exhausted, find_pad, find_end, find_truncated, find_match,
                find_skip, find_iteration, headerVars, optionVars, written_area, sought
  <2>4. touched' \in Nat /\ touched' <= options_len
    BY <1>7, <2>1, SMT DEF options_find, find_exhausted, find_pad, find_end, find_truncated, find_match,
                find_skip, find_iteration, LengthMissing, optionVars
  <2>5. CASE find_pad \/ find_skip
    <3>1. step' = "find" /\ out' = out /\ result' = result
      BY <2>5 DEF find_pad, find_skip, find_iteration
    <3>2. pos' \in Nat /\ pos' <= options_len
      BY <2>1, <2>2, <2>5, SMT DEF find_pad, find_skip, find_iteration, Truncated, DataMissing
    <3>3. Inside'
      BY <2>1, <2>3, <3>1, SMT DEF Inside, option_addr_count, option_get_addr_at, AddrLen
    <3> QED  BY <2>1, <2>3, <2>4, <3>1, <3>2, <3>3, SMT DEF Bounds
  <2>6. CASE find_exhausted \/ find_end \/ find_truncated
    <3>1. step' = "done" /\ pos' = pos /\ result' # "ok"
      BY <2>6 DEF find_exhausted, find_end, find_truncated, Finish, optionVars
    <3> QED  BY <2>1, <2>3, <2>4, <3>1, SMT DEF Bounds
  <2>7. CASE find_match
    <3>1. /\ step' = "done" /\ pos' = pos
          /\ out' = [code |-> EntryCode, length |-> EntryLen, data |-> pos + 2]
          /\ pos + 2 + EntryLen <= options_len
      BY <2>1, <2>2, <2>7, SMT DEF find_match, Finish, Truncated, DataMissing
    <3>2. \A k \in 0..(EntryLen \div 4) - 1 : pos + 2 + k * 4 + 4 <= options_len
      BY <2>1, <2>2, <3>1, SMT
    <3>3. Inside'
      BY <2>1, <2>2, <2>3, <3>1, <3>2 DEF Inside, option_addr_count, option_get_addr_at, AddrLen
    <3> QED  BY <2>1, <2>3, <2>4, <3>1, <3>3, SMT DEF Bounds
  <2> QED  BY <1>7, <2>5, <2>6, <2>7 DEF options_find
<1>8. CASE UNCHANGED vars
  BY <1>8 DEF vars, headerVars, optionVars, written_area, sought, Bounds, Inside
<1> QED  BY <1>1, <1>2, <1>3, <1>4, <1>5, <1>6, <1>7, <1>8 DEF Next, options_write

\* Everything dmdhcp_options_write() stores is inside its buffer, for every array of options
\* and every capacity.
THEOREM WritesStayInside == Spec => []WriteInBounds
<1>1. Bounds => WriteInBounds  BY DEF Bounds, WriteInBounds
<1> QED  BY <1>1, BoundsInit, BoundsStep, PTL DEF Spec

\* Everything dmdhcp_options_find() reads, the option it returns and the addresses in it are
\* inside the options, for every message.
THEOREM FindsStayInside == Spec => []FindInBounds
<1>1. Bounds => FindInBounds  BY DEF Bounds, FindInBounds, Inside
<1> QED  BY <1>1, BoundsInit, BoundsStep, PTL DEF Spec
-----------------------------------------------------------------------------
\* The search has passed the entries before pos: none of them ends it, and pos is one.
Passed ==
  /\ pos \in Entries
  /\ \A p \in Entries : p < pos => /\ HasFollowing(p) /\ Following(p) <= pos
                                   /\ ~(WholeOption(p) /\ ByteAt(p) = code)

FindInv == (step = "find" => Passed) /\ FindCorrect

\* What follows an entry of the options is an entry, behind it and not behind their end.
LEMMA EntriesClosed ==
  ASSUME Bounds, Searching \/ Searched
  PROVE  /\ Entries \subseteq 0..options_len /\ 0 \in Entries
         /\ \A p \in Entries : HasFollowing(p) =>
              Following(p) \in Entries /\ Following(p) > p
<1>1. options_len \in Nat /\ buffer \in Seq(Byte)  BY DEF Bounds
<1>2. ASSUME NEW p \in 0..options_len, HasFollowing(p)
      PROVE  Following(p) \in 0..options_len /\ Following(p) > p
  <2>1. ByteAt(p + 1) \in Byte  BY <1>1, ByteAtType, SMT
  <2>2. ByteAt(p + 1) \in Nat  BY <2>1, SMT DEF Byte
  <2> QED  BY <1>1, <1>2, <2>2, SMT DEF HasFollowing, Following, WholeOption
<1>3. Entries \subseteq 0..options_len  BY DEF Entries
<1>4. 0 \in Entries  BY <1>1, SMT DEF Entries, Closed
<1>5. ASSUME NEW p \in Entries, HasFollowing(p)  PROVE Following(p) \in Entries
  <2>1. Following(p) \in 0..options_len  BY <1>2, <1>3, <1>5
  <2>2. ASSUME NEW S \in SUBSET (0..options_len), Closed(S)  PROVE Following(p) \in S
    <3>1. p \in S  BY <2>2 DEF Entries
    <3> QED  BY <1>5, <2>2, <3>1 DEF Closed
  <2> QED  BY <2>1, <2>2 DEF Entries
<1> QED  BY <1>2, <1>3, <1>4, <1>5

\* They are the least such set.
LEMMA EntriesLeast ==
  ASSUME NEW S \in SUBSET (0..options_len), Closed(S)
  PROVE  Entries \subseteq S
BY DEF Entries

\* Between the entry the search is at and what it goes on to, there is no entry.
LEMMA NothingBetween ==
  ASSUME Bounds, step = "find", Passed, HasFollowing(pos), NEW p \in Entries, p > pos
  PROVE  p >= Following(pos)
<1> DEFINE S == {q \in Entries : q <= pos \/ q >= Following(pos)}
<1>1. /\ Entries \subseteq 0..options_len /\ 0 \in Entries /\ pos \in Entries
      /\ \A q \in Entries : HasFollowing(q) => Following(q) \in Entries /\ Following(q) > q
  BY EntriesClosed DEF Passed, Searching
<1>2. \A q \in Entries : q \in Nat  BY <1>1, SMT DEF Bounds
<1>3. Closed(S)
  <2>1. 0 \in S  BY <1>1, <1>2, SMT
  <2>2. ASSUME NEW q \in S, HasFollowing(q)  PROVE Following(q) \in S
    <3>1. q \in Entries /\ Following(q) \in Entries /\ Following(q) > q  BY <1>1, <2>2
    <3>2. CASE q < pos  BY <3>1, <3>2 DEF Passed
    <3>3. CASE q = pos  BY <1>2, <3>1, <3>3, SMT
    <3>4. CASE q > pos
      <4>1. q >= Following(pos)  BY <1>1, <1>2, <2>2, <3>4, SMT
      <4>2. q \in Nat /\ Following(q) \in Nat /\ Following(pos) \in Nat  BY <1>1, <1>2, <3>1
      <4> QED  BY <3>1, <4>1, <4>2, SMT
    <3> QED  BY <1>1, <1>2, <3>1, <3>2, <3>3, <3>4, SMT
  <2> QED  BY <2>1, <2>2 DEF Closed
<1>4. S \in SUBSET (0..options_len)  BY <1>1
<1>5. p \in S  BY <1>3, <1>4, EntriesLeast
<1> QED  BY <1>1, <1>2, <1>5, SMT

\* Behind an entry that nothing follows, there is none.
LEMMA NothingBehind ==
  ASSUME Bounds, step = "find", Passed, ~HasFollowing(pos)
  PROVE  \A p \in Entries : p <= pos
<1> DEFINE S == {q \in Entries : q <= pos}
<1>1. /\ Entries \subseteq 0..options_len /\ 0 \in Entries /\ pos \in Entries
      /\ \A q \in Entries : HasFollowing(q) => Following(q) \in Entries /\ Following(q) > q
  BY EntriesClosed DEF Passed, Searching
<1>2. \A q \in Entries : q \in Nat  BY <1>1, SMT DEF Bounds
<1>3. Closed(S)
  <2>1. 0 \in S  BY <1>1, <1>2, SMT
  <2>2. ASSUME NEW q \in S, HasFollowing(q)  PROVE Following(q) \in S
    <3>1. q # pos  BY <2>2
    <3>2. q < pos  BY <1>1, <1>2, <3>1, SMT
    <3> QED  BY <1>1, <2>2, <3>2 DEF Passed
  <2> QED  BY <2>1, <2>2 DEF Closed
<1>4. S \in SUBSET (0..options_len)  BY <1>1
<1> QED  BY <1>3, <1>4, EntriesLeast

\* What the options say depends on their bytes and on the code.
LEMMA SearchStable ==
  ASSUME UNCHANGED <<buffer, options_len, code>>
  PROVE  /\ Entries' = Entries /\ Hits' = Hits /\ CutShort' = CutShort
         /\ \A p : ByteAt(p)' = ByteAt(p) /\ HasFollowing(p)' = HasFollowing(p)
                   /\ Following(p)' = Following(p) /\ WholeOption(p)' = WholeOption(p)
<1>1. UNCHANGED <<buffer, options_len, code>>  OBVIOUS
<1>2. \A p : ByteAt(p)' = ByteAt(p)  BY <1>1 DEF ByteAt
<1>3. \A p : WholeOption(p)' = WholeOption(p)  BY <1>1, <1>2 DEF WholeOption
<1>4. \A p : Following(p)' = Following(p)  BY <1>2 DEF Following
<1>5. \A p : HasFollowing(p)' = HasFollowing(p)  BY <1>1, <1>2, <1>3 DEF HasFollowing
<1>6. \A S : Closed(S)' = Closed(S)  BY <1>4, <1>5 DEF Closed
<1>7. Entries' = Entries  BY <1>1, <1>6 DEF Entries
<1>8. Hits' = Hits  BY <1>1, <1>2, <1>3, <1>7 DEF Hits
<1>9. CutShort' = CutShort  BY <1>1, <1>2, <1>3, <1>7 DEF CutShort
<1> QED  BY <1>2, <1>3, <1>4, <1>5, <1>7, <1>8, <1>9

\* Each iteration passes one entry, or ends the search with what the entry says.
LEMMA FindStep == Bounds /\ FindInv /\ [Next]_vars => FindInv'
<1> SUFFICES ASSUME Bounds, FindInv, [Next]_vars PROVE FindInv'  OBVIOUS
<1> USE DEF Searched
<1>1. CASE build_message \/ (options_write /\ UNCHANGED headerVars)
  <2>1. step' # "find" /\ parsed' = <<>>
    BY <1>1 DEF build_message, options_write, write_refuse, write_full, write_option, write_end,
                headerVars, Finish, Bounds
  <2> QED  BY <2>1 DEF FindInv, FindCorrect
<1>2. CASE parse_message
  <2>1. CASE parse_error(bytes, MessageLen) # "ok"
    <3>1. step' = "done" /\ parsed' = <<>>  BY <1>2, <2>1 DEF parse_message, Finish, Bounds
    <3> QED  BY <3>1 DEF FindInv, FindCorrect
  <2>2. CASE parse_error(bytes, MessageLen) = "ok"
    <3>1. step' = "find" /\ pos' = 0  BY <1>2, <2>2 DEF parse_message
    <3>2. Bounds'  BY BoundsStep
    <3>3. 0 \in Entries' /\ \A p \in Entries' : ~(p < 0)
      BY <3>2, SMT DEF Entries, Closed, Bounds
    <3>4. Passed'  BY <3>1, <3>3 DEF Passed
    <3> QED  BY <3>1, <3>4 DEF FindInv, FindCorrect
  <2> QED  BY <2>1, <2>2
<1>3. CASE options_find /\ UNCHANGED headerVars
  <2> USE DEF find_exhausted, find_pad, find_end, find_truncated, find_match, find_skip, find_iteration
  <2>1. step = "find" /\ UNCHANGED <<buffer, options_len, code, origin>>
    BY <1>3 DEF options_find, optionVars, headerVars, written_area, sought
  <2>2. Passed /\ pos \in Nat /\ options_len \in Nat /\ pos <= options_len /\ out \in [code : Byte, length : Byte, data : Nat]
    BY <2>1, SMT DEF FindInv, Bounds, NotFound, Byte
  <2>3. /\ Entries' = Entries /\ Hits' = Hits /\ CutShort' = CutShort
        /\ \A p : ByteAt(p)' = ByteAt(p) /\ HasFollowing(p)' = HasFollowing(p)
                  /\ Following(p)' = Following(p) /\ WholeOption(p)' = WholeOption(p)
    BY <2>1, SearchStable
  <2>4. Entries \subseteq 0..options_len /\ \A p \in Entries : p \in Nat
    BY <2>1, <2>2, EntriesClosed, SMT DEF Searching
  <2>6. \A p \in Nat : ByteAt(p) \in Nat
    <3>1. Byte \subseteq Nat  BY SMT DEF Byte
    <3> QED  BY <3>1, ByteAtType DEF Bounds
  <2>5. CASE find_pad \/ find_skip
    <3>1. HasFollowing(pos) /\ pos' = Following(pos) /\ ~(WholeOption(pos) /\ ByteAt(pos) = code)
      <4>1. CASE find_pad
        BY <4>1 DEF EntryCode, HasFollowing, Following, WholeOption
      <4>2. CASE find_skip
        <5>1. ByteAt(pos + 1) \in Nat  BY <2>2, <2>6, SMT
        <5> QED  BY <2>2, <4>2, <5>1, SMT DEF EntryCode, EntryLen, IsOption, Truncated, LengthMissing,
                    DataMissing, HasFollowing, Following, WholeOption
      <4> QED  BY <2>5, <4>1, <4>2
    <3>2. pos' \in Entries /\ pos < pos'
      BY <2>1, <2>2, <3>1, EntriesClosed DEF Passed, Searching
    <3>3. ASSUME NEW p \in Entries, p < pos'
          PROVE  HasFollowing(p) /\ Following(p) <= pos' /\ ~(WholeOption(p) /\ ByteAt(p) = code)
      <4>1. p <= pos  BY <2>1, <2>2, <2>4, <3>1, <3>2, <3>3, NothingBetween, SMT
      <4>2. CASE p = pos  BY <2>4, <3>1, <3>2, <4>2, SMT
      <4>3. CASE p < pos
        <5>1. HasFollowing(p) /\ Following(p) <= pos /\ ~(WholeOption(p) /\ ByteAt(p) = code)
          BY <2>2, <4>3 DEF Passed
        <5>2. Following(p) \in Nat  BY <2>1, <2>4, <5>1, EntriesClosed DEF Searching
        <5> QED  BY <2>2, <2>4, <3>2, <5>1, <5>2, SMT
      <4> QED  BY <2>2, <2>4, <4>1, <4>2, <4>3, SMT
    <3>4. Passed'  BY <2>1, <2>3, <3>2, <3>3 DEF Passed
    <3>5. step' = "find"  BY <2>1, <2>5
    <3> QED  BY <3>4, <3>5 DEF FindInv, FindCorrect
  <2>7. CASE find_match
    <3>1. /\ step' = "done" /\ result' = "ok"
          /\ out'.data = pos + 2 /\ out'.code = ByteAt(pos) /\ out'.length = ByteAt(pos + 1)
          /\ ByteAt(pos) = code
      BY <2>7 DEF EntryCode, EntryLen, Finish
    <3>2. WholeOption(pos)
      <4>1. ByteAt(pos + 1) \in Nat  BY <2>2, <2>6, SMT
      <4> QED  BY <2>2, <2>7, <4>1, SMT DEF EntryCode, EntryLen, IsOption, Truncated, LengthMissing,
                  DataMissing, WholeOption
    <3>3. pos \in Hits  BY <2>2, <3>1, <3>2 DEF Hits, Passed
    <3>4. \A p \in Hits : pos <= p  BY <2>2, <2>4, SMT DEF Hits, Passed
    <3>5. out'.data - 2 = pos /\ out'.data - 1 = pos + 1  BY <2>2, <3>1, SMT
    <3> QED  BY <2>1, <2>3, <3>1, <3>3, <3>4, <3>5 DEF FindInv, FindCorrect
  <2>8. CASE find_exhausted \/ find_end \/ find_truncated
    <3>1. step' = "done" /\ result' # "ok"  BY <2>8 DEF Finish
    <3>2. ~HasFollowing(pos) /\ ~WholeOption(pos)
      <4>1. CASE find_exhausted  BY <2>2, <4>1, SMT DEF HasFollowing, WholeOption
      <4>2. CASE find_end  BY <4>2, SMT DEF EntryCode, HasFollowing, WholeOption, PAD, END
      <4>3. CASE find_truncated
        <5>1. ByteAt(pos + 1) \in Nat  BY <2>2, <2>6, SMT
        <5> QED  BY <2>2, <4>3, <5>1, SMT DEF EntryCode, EntryLen, IsOption, Truncated, LengthMissing,
                    DataMissing, HasFollowing, WholeOption
      <4> QED  BY <2>8, <4>1, <4>2, <4>3
    <3>3. \A p \in Entries : p < pos \/ p = pos
      BY <2>1, <2>2, <2>4, <3>2, NothingBehind, SMT
    <3>4. Hits = {}  BY <2>2, <3>2, <3>3 DEF Hits, Passed
    <3>5. CutShort = IF result' = "EPROTO" THEN {pos} ELSE {}
      <4>1. \A p \in Entries : p < pos => p \notin CutShort
        BY <2>2 DEF Passed, HasFollowing, CutShort
      <4>2. pos \in CutShort <=> result' = "EPROTO"
        BY <2>2, <2>8, <3>2, SMT DEF CutShort, EntryCode, IsOption, Finish, Passed
      <4>3. CutShort \subseteq Entries  BY DEF CutShort
      <4> QED  BY <3>3, <4>1, <4>2, <4>3
    <3> QED  BY <2>1, <2>3, <3>1, <3>4, <3>5 DEF FindInv, FindCorrect
  <2> QED  BY <1>3, <2>5, <2>7, <2>8 DEF options_find
<1>4. CASE UNCHANGED vars
  <2>1. UNCHANGED <<step, result, buffer, options_len, code, origin, out, parsed, pos>>
    BY <1>4 DEF vars, optionVars, headerVars, written_area, sought
  <2>2. /\ Entries' = Entries /\ Hits' = Hits /\ CutShort' = CutShort
        /\ \A p : ByteAt(p)' = ByteAt(p) /\ HasFollowing(p)' = HasFollowing(p)
                  /\ Following(p)' = Following(p) /\ WholeOption(p)' = WholeOption(p)
    BY <2>1, SearchStable
  <2>3. Passed => Passed'  BY <2>1, <2>2 DEF Passed
  <2>4. FindCorrect => FindCorrect'  BY <2>1, <2>2 DEF FindCorrect, Searched
  <2> QED  BY <2>1, <2>3, <2>4 DEF FindInv
<1> QED  BY <1>1, <1>2, <1>3, <1>4 DEF Next

\* dmdhcp_options_find() returns the first option with the code, and the right error when
\* there is none, for every received message.
THEOREM FindsWhatIsThere == Spec => []FindCorrect
<1>1. Init => FindInv
  BY DEF Init, InitBuild, InitReceived, FindInv, FindCorrect, Searched
<1>2. FindInv => FindCorrect  BY DEF FindInv
<1> QED  BY <1>1, <1>2, BoundsInit, BoundsStep, FindStep, PTL DEF Spec
=============================================================================
