----------------------------- MODULE ParseArgs -----------------------------
(***************************************************************************)
(* The reader of an event's arguments: render_point_args of                *)
(* src/event/render.rs and parse_value of src/argtype/parse.rs, which walk *)
(* with a cursor (src/contract/args.rs) over the pieces that read_args has *)
(* saved.  The texts they print are left out; what counts is where the     *)
(* cursor stands after each argument.                                      *)
(*                                                                         *)
(* A position is the number of the next piece, or Lost: the reader fails,  *)
(* or goes on in the middle of a piece and prints what is not there.       *)
(* words is the memory of the program: the reader finds what was there in  *)
(* the struct that was copied.                                             *)
(***************************************************************************)
EXTENDS ArgTypes, FiniteSetsExt

MAX_IOV_COUNT == 6
Lost == 0

Fewer(m, n) == IF m < n THEN m ELSE n

(* What the piece at a position must be for a read of the cursor to take   *)
(* exactly it: next_raw_borrow(8); next_length_prefixed; a header and then *)
(* the length found, which has to be 0 or the size of the type (unless     *)
(* that is 0); a header and then a fixed number of bytes, whatever it says.*)
IsRaw(pieces, p)      == p \in DOMAIN pieces /\ pieces[p].kind = "raw"
IsPrefixed(pieces, p) == p \in DOMAIN pieces /\ pieces[p].kind = "bytes"
IsSized(pieces, p, size) ==
  IsPrefixed(pieces, p) /\ (size = 0 \/ pieces[p].len \in {0, size})
IsFixed(pieces, p, size) == IsPrefixed(pieces, p) /\ pieces[p].len = size

Next1(ok, p) == IF ok THEN p + 1 ELSE Lost

(* count pairs of an iovec and the bytes it points to.                     *)
ParsePairs(pieces, p, count) ==
  LET n == Fewer(count, MAX_IOV_COUNT)
  IN IF \A i \in 0..(n - 1) : /\ IsFixed(pieces, p + 2 * i, SIZEOF_IOVEC)
                              /\ IsPrefixed(pieces, p + 2 * i + 1)
     THEN p + 2 * n ELSE Lost

(* "iovec": the count is a raw piece, whose value it is.                   *)
ParseIovec(pieces, p) ==
  IF IsRaw(pieces, p) THEN ParsePairs(pieces, p + 1, pieces[p].at) ELSE Lost

(* "msghdr": the struct, the control bytes, iovlen pairs.                  *)
ParseMsghdr(pieces, p, words) ==
  IF IsFixed(pieces, p, SIZEOF_MSGHDR) /\ IsPrefixed(pieces, p + 1)
  THEN ParsePairs(pieces, p + 2, Word(words, pieces[p].at + 24)) ELSE Lost

(* "string_array": pairs of a pointer and its text, up to the end mark or  *)
(* a null pointer, 32 at most.                                             *)
ParseStringArray(pieces, p) ==
  LET raw(i)   == p + 2 * (i - 1)
      text(i)  == raw(i) + 1
      is(i)    == IsRaw(pieces, raw(i)) /\ text(i) \in DOMAIN pieces
                    /\ pieces[text(i)].kind \in {"bytes", "end"}
      stops(i) == pieces[text(i)].kind = "end" \/ pieces[raw(i)].at = 0
      ends     == {i \in 1..MAX_LOOP_COUNT : is(i) /\ stops(i)}
      last     == IF ends = {} THEN MAX_LOOP_COUNT ELSE Min(ends)
  IN IF \A i \in 1..last : is(i) THEN p + 2 * last ELSE Lost

(* parse_struct dispatches on the exact name of the type.  A dirent is     *)
(* read as a pollfd, 8 bytes of its 280.                                   *)
ParseStruct(type, pieces, p, words) ==
  CASE type.name = "iovec"        -> ParseIovec(pieces, p)
    [] type.name = "msghdr"       -> ParseMsghdr(pieces, p, words)
    [] type.name = "string_array" -> ParseStringArray(pieces, p)
    [] type.name = "dirent"       -> Next1(IsFixed(pieces, p, 0), p)
    [] OTHER                      -> Next1(IsSized(pieces, p, type.size), p)

ParsePlain(type, pieces, p, words) ==
  CASE type.base \in {"NUM", "POINTER"}   -> p
    [] type.base \in {"STRING", "BUFFER"} -> Next1(IsPrefixed(pieces, p), p)
    [] type.base = "ARRAY"                -> Next1(IsSized(pieces, p, type.size), p)
    [] type.base = "STRUCT"               -> ParseStruct(type, pieces, p, words)

(* A pointer to another type: the eight bytes, then that type.             *)
ParseValue(type, pieces, p, words) ==
  IF type.child = <<>> THEN ParsePlain(type, pieces, p, words)
  ELSE IF IsPrefixed(pieces, p)
       THEN ParsePlain(type.child[1], pieces, p + 1, words) ELSE Lost

(* One argument: the value of its register, then more of it if it is read  *)
(* on this side of the call.                                               *)
ParseArg(arg, side, pieces, p, words) ==
  IF ~IsRaw(pieces, p) THEN Lost
  ELSE IF arg.point \in {"all", side} THEN ParseValue(arg.type, pieces, p + 1, words)
  ELSE p + 1

(* All of them: where the reader stands in the end.                        *)
ParseArgs(args, side, pieces, words) ==
  LET pos[i \in 0..Len(args)] ==
        IF i = 0 THEN 1
        ELSE IF pos[i - 1] = Lost THEN Lost
        ELSE ParseArg(args[i], side, pieces, pos[i - 1], words)
  IN pos[Len(args)]
=============================================================================
