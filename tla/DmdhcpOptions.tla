---------------------------- MODULE DmdhcpOptions ----------------------------
(***************************************************************************)
(* The two loops of dmdhcp_options.c over an options area, one action per  *)
(* iteration: dmdhcp_options_write() fills it from an array of options,    *)
(* dmdhcp_options_find() looks a code up in it.  touched records the end   *)
(* of what the loop has read or written.                                   *)
(***************************************************************************)
EXTENDS DmdhcpWire

PAD == 0
END == 255

VARIABLES
  step,         \* what is being done: build, write, parse, find, done
  result,       \* of the last operation: ok, EINVAL, ENOSPC, EPROTO, ENOENT
  buffer,       \* the options area
  pos,
  touched,
  options,      \* write: the array of options, [code, length, data]; data may be Null
  written,      \* write: how many of them are in the buffer
  options_len,  \* find: length of the area
  code,         \* find: the code looked for
  out           \* find: the option found, its data given by an offset

written_area == <<buffer, options, written>>
sought == <<options_len, code>>
optionVars == <<written_area, sought, pos, touched, out>>

Null == <<>>
Finish(r) == step' = "done" /\ result' = r

\* What is behind the end of the area is not ours; it reads as some byte.
ByteAt(p) == IF p < Len(buffer) THEN buffer[p + 1] ELSE 0

\* The bytes b written from offset p.
Overwrite(p, b) ==
  [q \in 1..Len(buffer) |-> IF q \in p + 1..p + Len(b) THEN b[q - p] ELSE buffer[q]]
-----------------------------------------------------------------------------
(* dmdhcp_options_write(), with the length of the buffer as its capacity *)
Opt == options[written + 1]
NoData == Opt.data = Null /\ Opt.length > 0

\* Mutant: code and length take no space.
NoSpaceForData == pos + Opt.length > Len(buffer)
NoSpace == pos + 2 + Opt.length > Len(buffer)

write_refuse ==
  /\ step = "write" /\ written < Len(options)
  /\ NoData \/ NoSpace
  /\ Finish(IF NoData THEN "EINVAL" ELSE "ENOSPC")
  /\ UNCHANGED optionVars

\* Mutant: code and length are written and the data is not.
write_option_empty ==
  /\ step = "write" /\ written < Len(options)
  /\ ~NoData /\ ~NoSpace
  /\ buffer' = Overwrite(pos, <<Opt.code, Opt.length>>)
  /\ pos' = pos + 2 + Opt.length
  /\ touched' = pos + 2 + Opt.length
  /\ written' = written + 1
  /\ UNCHANGED <<step, result, options, sought, out>>

write_option ==
  /\ step = "write" /\ written < Len(options)
  /\ ~NoData /\ ~NoSpace
  /\ buffer' = Overwrite(pos, <<Opt.code, Opt.length>> \o Opt.data)
  /\ pos' = pos + 2 + Opt.length
  /\ touched' = pos + 2 + Opt.length
  /\ written' = written + 1
  /\ UNCHANGED <<step, result, options, sought, out>>

NoSpaceForEnd == pos + 1 > Len(buffer)

write_full ==
  /\ step = "write" /\ written = Len(options) /\ NoSpaceForEnd
  /\ Finish("ENOSPC")
  /\ UNCHANGED optionVars

\* *out_len is set only here.
write_end ==
  /\ step = "write" /\ written = Len(options) /\ ~NoSpaceForEnd
  /\ buffer' = Overwrite(pos, <<END>>)
  /\ touched' = pos + 1
  /\ options_len' = pos + 1
  /\ step' = "parse"
  /\ UNCHANGED <<result, pos, options, written, code, out>>

options_write == write_refuse \/ write_option \/ write_full \/ write_end
-----------------------------------------------------------------------------
(* dmdhcp_options_find() *)
find_exhausted ==
  /\ step = "find" /\ pos >= options_len
  /\ Finish("ENOENT")
  /\ UNCHANGED optionVars

\* The test of the code, of the length byte, and of the data, each before it is read.
EntryCode == ByteAt(pos)
EntryLen == ByteAt(pos + 1)
IsOption == EntryCode \notin {PAD, END}

\* Mutants: the last byte is taken for a length; data up to the end is refused.
LengthMissingLate == pos + 1 > options_len
DataMissingEarly == pos + 2 + ByteAt(pos + 1) >= options_len

LengthMissing == pos + 1 >= options_len
DataMissing == pos + 2 + EntryLen > options_len
Truncated == LengthMissing \/ DataMissing

\* An iteration that looks at the entry at pos.
find_iteration ==
  /\ step = "find" /\ pos < options_len
  /\ touched' = IF IsOption /\ ~LengthMissing THEN pos + 2 ELSE pos + 1
  /\ UNCHANGED <<written_area, sought>>

\* Mutant: a pad is not passed over.
find_pad_again ==
  /\ find_iteration /\ EntryCode = PAD
  /\ UNCHANGED <<pos, step, result, out>>

find_pad ==
  /\ find_iteration /\ EntryCode = PAD
  /\ pos' = pos + 1
  /\ UNCHANGED <<step, result, out>>

find_end ==
  /\ find_iteration /\ EntryCode = END
  /\ Finish("ENOENT")
  /\ UNCHANGED <<pos, out>>

find_truncated ==
  /\ find_iteration /\ IsOption /\ Truncated
  /\ Finish("EPROTO")
  /\ UNCHANGED <<pos, out>>

find_match ==
  /\ find_iteration /\ IsOption /\ ~Truncated /\ EntryCode = code
  /\ out' = [code |-> EntryCode, length |-> EntryLen, data |-> pos + 2]
  /\ Finish("ok")
  /\ UNCHANGED pos

find_skip ==
  /\ find_iteration /\ IsOption /\ ~Truncated /\ EntryCode # code
  /\ pos' = pos + 2 + EntryLen
  /\ UNCHANGED <<step, result, out>>

options_find ==
  find_exhausted \/ find_pad \/ find_end \/ find_truncated \/ find_match \/ find_skip
-----------------------------------------------------------------------------
(* dmdhcp_option_addr_count(), and where dmdhcp_option_get_addr_at() reads *)
option_addr_count(opt) == opt.length \div AddrLen
option_get_addr_at(opt, k) == opt.data + k * AddrLen
=============================================================================
