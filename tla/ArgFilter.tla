----------------------------- MODULE ArgFilter -----------------------------
(***************************************************************************)
(* The argument filters (-f) of one call: how add_filter of                *)
(* src/config/filter.rs encodes a rule, and how the filter operations of   *)
(* read_args (ebpf/utils.h) decide whether the event is skipped.  Of the   *)
(* other operations only the save of a text matters here: its length stays *)
(* in op_ctx->str_len.                                                     *)
(*                                                                         *)
(* A rule is a record [kind, num, str]: str is a string, the four bytes of *)
(* an address, or the digits after bx:.  An argument is a record           *)
(* [kind, reg, mem, status]: its register, the eight bytes of a buffer or  *)
(* the text of a string, and what became of that text: saved, unreadable,  *)
(* or without room in the event.  PointArg::get_op_list gives every filter *)
(* of an argument that is read on this side of the call one operation, by  *)
(* the kind of the argument; a rule of kind "none" is an index that no     *)
(* filter has.                                                             *)
(*                                                                         *)
(* A 64-bit number is the sequence of its eight bytes, the lowest first.   *)
(***************************************************************************)
EXTENDS Naturals, Sequences, SequencesExt

CONSTANTS Rules,      \* the rules of the -f options
          Placements, \* the rules on arguments that a call may have
          Lengths,    \* what texts without a filter leave in str_len
          MaxOps      \* most filters of one point

(* A text has no NUL, neither in an argument of the command line nor as    *)
(* bpf_probe_read_str leaves it in the event.  The string of w: on a       *)
(* buffer is short, since a shift by 64 bits is undefined in C.            *)
TextType == Seq(Nat \ {0})

ASSUME ArgFilterAssumption ==
  /\ MaxOps \in Nat /\ Lengths \subseteq Nat
  /\ \A r \in Rules :
       /\ r.kind \in {"eq", "gt", "lt", "addr", "bx", "w", "b", "none"}
       /\ r.kind \in {"eq", "gt", "lt"} => r.num \in Nat
       /\ r.kind \in {"w", "b"} => r.str \in TextType /\ Len(r.str) <= 256
       /\ r.kind = "addr" => r.str \in Seq(Nat) /\ Len(r.str) = 4
       /\ r.kind = "bx" => r.str \in Seq(Nat)
  /\ \A pl \in Placements :
       /\ pl[1] \in Rules
       /\ pl[2].kind \in {"scalar", "buffer", "string"}
       /\ pl[2].status \in {"saved", "unreadable", "no room"}
       /\ pl[2].kind = "scalar" => pl[2].reg \in Nat
       /\ pl[2].kind = "buffer" => pl[2].mem \in Seq(Nat) /\ Len(pl[2].mem) = 8
       /\ pl[1].kind = "w" /\ pl[2].kind = "buffer" => Len(pl[1].str) < 64
       /\ pl[2].kind = "string" => pl[2].mem \in TextType
       /\ pl[2].status = "unreadable" => pl[2].mem = <<>>

VARIABLES ops,      \* the filter operations of the point: <<rule, argument>>
          next,     \* op_key_index
          str_len,  \* the length of the last text that was saved, with its NUL
          match_blacklist, match_whitelist, apply_filter, skip_flag,
          pc        \* "read" until read_args returns

vars == <<ops, next, str_len, match_blacklist, match_whitelist, apply_filter,
          skip_flag, pc>>

-----------------------------------------------------------------------------
(* Numbers and digits.                                                     *)
Zero == [i \in 1..8 |-> 0]

(* parse_num: decimal, or octal after a leading 0; below 2^31 here.  The   *)
(* digits that it takes.                                                   *)
Base(digits) == IF digits[1] = 0 /\ Len(digits) > 1 THEN 8 ELSE 10
IsNum(digits) == digits # <<>> /\ \A i \in 1..Len(digits) : digits[i] < Base(digits)
parse_num(digits) == FoldLeft(LAMBDA n, x : n * Base(digits) + x, 0, digits)

(* The byte of n that counts 256^k.                                        *)
Byte(n, k) == IF k > 3 THEN 0 ELSE (n \div 256^k) % 256

to_be_bytes(n) == [i \in 1..8 |-> Byte(n, 8 - i)]

(* num >> bits, for whole bytes, and num & (0xffffffffffffffff >> bits).   *)
Shifted(num, bits) == [i \in 1..8 |-> IF i + bits \div 8 > 8 THEN 0 ELSE num[i + bits \div 8]]
Masked(num, bits) ==
  [i \in 1..8 |-> IF 8 * i <= 64 - bits THEN num[i]
                  ELSE IF 8 * i >= 72 - bits THEN 0
                  ELSE num[i] % 2^(72 - bits - 8 * i)]

-----------------------------------------------------------------------------
(* add_filter: the rules it takes (hex::decode and parse_num both read the *)
(* digits of bx), and the arg_filter_t that they become.                   *)
Accepted(rule) ==
  rule.kind = "bx" => Len(rule.str) % 2 = 0 /\ Len(rule.str) <= 16 /\ IsNum(rule.str)

FilterType(rule) ==
  CASE rule.kind = "eq" -> "equal"
    [] rule.kind = "gt" -> "greater"
    [] rule.kind = "lt" -> "less"
    [] rule.kind \in {"addr", "bx", "w"} -> "white"
    [] rule.kind = "b" -> "black"
    [] OTHER -> "unknown"

Encoded(num_val, len, str_val) ==
  [num_val |-> num_val, str_len |-> len, str_val |-> str_val]

(* Faulty: bx keeps the bytes where from_le_bytes has put them.            *)
add_filter_unshifted(rule) ==
  CASE rule.kind = "addr" -> Encoded(rule.str \o <<0, 0, 0, 0>>, 0, <<>>)
    [] rule.kind = "bx" ->
         Encoded(to_be_bytes(parse_num(rule.str)), 64 - 4 * Len(rule.str), <<>>)
    [] rule.kind \in {"w", "b"} -> Encoded(Zero, Len(rule.str), rule.str)
    [] OTHER -> Encoded(Zero, 0, <<>>)

add_filter(rule) ==
  CASE rule.kind = "addr" -> Encoded(rule.str \o <<0, 0, 0, 0>>, 0, <<>>)
    [] rule.kind = "bx" ->
         LET len == 64 - 4 * Len(rule.str)
         IN  Encoded(Shifted(to_be_bytes(parse_num(rule.str)), len), len, <<>>)
    [] rule.kind \in {"w", "b"} -> Encoded(Zero, Len(rule.str), rule.str)
    [] OTHER -> Encoded(Zero, 0, <<>>)

(* OP_FILTER_BUFFER: num_val against the eight bytes at the argument, of   *)
(* which str_len masks some bits away.                                     *)
BufferMatch(filter, arg) == filter.num_val = Masked(arg.mem, filter.str_len)

(* OP_FILTER_STRING is the comparison of StringMatch, with no other CPU    *)
(* around: str_len bytes are read again, into a key of zeros.  What lies   *)
(* behind a text is taken for zeros.                                       *)
At(str, i) == IF i <= Len(str) THEN str[i] ELSE 0

TextMatch(filter, arg, len) ==
  /\ len >= filter.str_len
  /\ \A i \in 1..filter.str_len : At(arg.mem, i) = At(filter.str_val, i)

(* OP_FILTER_VALUE: the register is out of the rule's range.               *)
ValueRejected(rule, arg) ==
  \/ FilterType(rule) = "equal" /\ rule.num # arg.reg
  \/ FilterType(rule) = "greater" /\ rule.num <= arg.reg
  \/ FilterType(rule) = "less" /\ rule.num >= arg.reg

-----------------------------------------------------------------------------
(* Once a text has found no room, no later one does.                       *)
RoomShrinks(list) ==
  \A i, j \in 1..Len(list) : i < j /\ list[i][2].status = "no room" => list[j][2].status # "saved"

Init ==
  /\ ops \in {l \in BoundedSeq({pl \in Placements : Accepted(pl[1])}, MaxOps) : RoomShrinks(l)}
  /\ next = 1
  /\ str_len \in Lengths
  /\ match_blacklist = FALSE
  /\ match_whitelist = FALSE
  /\ apply_filter = FALSE
  /\ skip_flag = FALSE
  /\ pc = "read"

Rule == ops[next][1]
Arg == ops[next][2]
Filter == add_filter(Rule)

(* The operation at op_key_index is for an argument of kind k, and its     *)
(* filter is found in the map arg_filter.                                  *)
Filters(k) ==
  /\ pc = "read"
  /\ next <= Len(ops)
  /\ ~match_blacklist
  /\ Arg.kind = k
  /\ Rule.kind # "none"
  /\ next' = next + 1
  /\ UNCHANGED <<ops, skip_flag, pc>>

FilterValue ==
  /\ Filters("scalar")
  /\ match_blacklist' = ValueRejected(Rule, Arg)
  /\ UNCHANGED <<str_len, match_whitelist, apply_filter>>

(* Faulty: the last whitelist filter decides alone.                        *)
FilterBufferLast ==
  /\ Filters("buffer")
  /\ IF FilterType(Rule) = "white"
     THEN apply_filter' = TRUE /\ match_whitelist' = BufferMatch(Filter, Arg)
     ELSE UNCHANGED <<apply_filter, match_whitelist>>
  /\ UNCHANGED <<str_len, match_blacklist>>

FilterBuffer ==
  /\ Filters("buffer")
  /\ IF FilterType(Rule) = "white"
     THEN /\ apply_filter' = TRUE
          /\ match_whitelist' = (match_whitelist \/ BufferMatch(Filter, Arg))
     ELSE UNCHANGED <<apply_filter, match_whitelist>>
  /\ UNCHANGED <<str_len, match_blacklist>>

(* OP_SAVE_STRING, of which only str_len is kept, and the filter.          *)
FilterString ==
  /\ Filters("string")
  /\ str_len' = IF Arg.status = "saved" THEN Len(Arg.mem) + 1 ELSE str_len
  /\ LET match == TextMatch(Filter, Arg, str_len')
     IN  /\ apply_filter' = (apply_filter \/ FilterType(Rule) = "white")
         /\ match_whitelist' = (match_whitelist \/ (FilterType(Rule) = "white" /\ match))
         /\ match_blacklist' = (FilterType(Rule) = "black" /\ match)

(* The lookup of the filter gives NULL: read_args returns at once.         *)
FilterMissing ==
  /\ pc = "read"
  /\ next <= Len(ops)
  /\ ~match_blacklist
  /\ Rule.kind = "none"
  /\ pc' = "missing"
  /\ UNCHANGED <<ops, next, str_len, match_blacklist, match_whitelist, apply_filter,
                 skip_flag>>

(* After the last operation, or after the first blacklist match.           *)
Decide ==
  /\ pc = "read"
  /\ next > Len(ops) \/ match_blacklist
  /\ skip_flag' = (match_blacklist \/ (apply_filter /\ ~match_whitelist))
  /\ pc' = "done"
  /\ UNCHANGED <<ops, next, str_len, match_blacklist, match_whitelist, apply_filter>>

Next == FilterValue \/ FilterBuffer \/ FilterString \/ FilterMissing \/ Decide

Spec == Init /\ [][Next]_vars

-----------------------------------------------------------------------------
(* What a rule asks for, in the words of add_filter: an argument that is   *)
(* equal to NUM, greater, or less; a buffer that starts with the bytes.    *)
AsksNumber(kind, num, reg) ==
  \/ kind = "eq" /\ reg = num
  \/ kind = "gt" /\ reg > num
  \/ kind = "lt" /\ reg < num

StartsWith(bytes, arg) == \A i \in 1..Len(bytes) : arg.mem[i] = bytes[i]

(* Where the code takes a rule otherwise.  gt and lt are exchanged.  The   *)
(* digits of bx, hexadecimal in the words of add_filter, are a decimal     *)
(* number, or an octal one after a 0, in as many bytes as there are pairs  *)
(* of digits, the highest first: what was meant only below 8.  An address  *)
(* is followed by four zeros.                                              *)
Taken(kind) == CASE kind = "gt" -> "lt" [] kind = "lt" -> "gt" [] OTHER -> kind

TakenBytes(rule) ==
  IF rule.kind = "addr" THEN rule.str \o <<0, 0, 0, 0>>
  ELSE LET n == Len(rule.str) \div 2
       IN  [i \in 1..n |-> Byte(parse_num(rule.str), n - i)]

(* A string on a buffer, which add_filter does not speak of, is taken for  *)
(* zeros, but for a few bits.                                              *)
SaysBuffer(rule, arg) ==
  \/ rule.kind \in {"addr", "bx"} /\ StartsWith(TakenBytes(rule), arg)
  \/ rule.kind = "w" /\ Masked(arg.mem, Len(rule.str)) = Zero

(* A text starts with the string of the rule; one that cannot be read has  *)
(* no start.  A rule that is no string has an empty one, which any text    *)
(* matches, unless bx asks for zeros.                                      *)
SaysText(rule, arg) ==
  IF rule.kind = "bx" THEN Len(rule.str) = 16
  ELSE rule.kind \in {"w", "b"} => IsPrefix(rule.str, arg.mem)

Rejects(op) ==
  \/ /\ op[2].kind = "scalar" /\ op[1].kind \in {"eq", "gt", "lt"}
     /\ ~AsksNumber(Taken(op[1].kind), op[1].num, op[2].reg)
  \/ op[2].kind = "string" /\ FilterType(op[1]) = "black" /\ SaysText(op[1], op[2])

Applies(op) == op[2].kind \in {"buffer", "string"} /\ FilterType(op[1]) = "white"

Says(op) ==
  \/ op[2].kind = "buffer" /\ SaysBuffer(op[1], op[2])
  \/ op[2].kind = "string" /\ SaysText(op[1], op[2])

(* Here the length of another text decides: a text without room, and bx on *)
(* a text that cannot be read.                                             *)
Stale(op) ==
  \/ op[2].status = "no room"
  \/ op[1].kind = "bx" /\ op[2].status = "unreadable"

(* The filters that read_args gets to: it returns at the first one that it *)
(* does not find.                                                          *)
Reached == {i \in DOMAIN ops : \A j \in 1..i : ops[j][1].kind # "none"}

(* The verdict is what the rules say, in whatever order the arguments and  *)
(* their filters come, in spite of the early end of the loop               *)
(* (utils.h:344-346): a call is skipped iff some filter rejects it, or     *)
(* there are whitelist filters and none of them matches.  Only a filter    *)
(* that is not found changes that: those behind it are not asked, and      *)
(* without one that rejects the call it is reported.  The length that an   *)
(* earlier text has left behind decides nothing, but for Stale.            *)
VerdictFollowsRules ==
  pc \in {"done", "missing"} /\ (\A op \in Range(ops) : ~Stale(op)) =>
    (skip_flag <=> \/ \E i \in Reached : Rejects(ops[i])
                   \/ /\ Reached = DOMAIN ops
                      /\ \E i \in Reached : Applies(ops[i])
                      /\ \A i \in Reached : Applies(ops[i]) => ~Says(ops[i]))
=============================================================================
