--------------------------- MODULE ArgFilterProofs ---------------------------
(***************************************************************************)
(* Proofs about the argument filters of one call, for any rules, arguments *)
(* and number of filters.                                                  *)
(***************************************************************************)
EXTENDS ArgFilter, SequenceTheorems, TLAPS

(* What the filters of a call are made of.                                 *)
LEMMA PlacementTypes ==
  ASSUME NEW pl \in Placements
  PROVE  LET r == pl[1]
             a == pl[2]
         IN /\ r.kind \in {"eq", "gt", "lt", "addr", "bx", "w", "b", "none"}
            /\ r.kind \in {"eq", "gt", "lt"} => r.num \in Nat
            /\ r.kind \in {"w", "b"} => r.str \in TextType
            /\ r.kind = "addr" => r.str \in Seq(Nat) /\ Len(r.str) = 4
            /\ r.kind = "bx" => r.str \in Seq(Nat)
            /\ a.kind \in {"scalar", "buffer", "string"}
            /\ a.status \in {"saved", "unreadable", "no room"}
            /\ a.kind = "scalar" => a.reg \in Nat
            /\ a.kind = "buffer" => a.mem \in Seq(Nat) /\ Len(a.mem) = 8
            /\ a.kind = "string" => a.mem \in TextType
            /\ a.status = "unreadable" => a.mem = <<>>
BY ArgFilterAssumption, Zenon

(* A sequence of eight is what its elements make it.                       *)
LEMMA EightBytes ==
  ASSUME NEW m \in Seq(Nat), Len(m) = 8
  PROVE  m = [i \in 1..8 |-> m[i]]
  OBVIOUS

(* A rule with n pairs of digits keeps the highest bytes of its number, in *)
(* their order, and compares them with the first n bytes at the argument.  *)
LEMMA BxAgrees ==
  ASSUME NEW rule, NEW arg, rule.kind = "bx", rule.str \in Seq(Nat), Accepted(rule),
         arg.mem \in Seq(Nat), Len(arg.mem) = 8
  PROVE  BufferMatch(add_filter(rule), arg) <=> StartsWith(TakenBytes(rule), arg)
<1> DEFINE n == Len(rule.str) \div 2
           v == parse_num(rule.str)
           bits == 64 - 4 * Len(rule.str)
<1>1. n \in 0..8 /\ Len(rule.str) = 2 * n
  <2> DEFINE L == Len(rule.str)
  <2>1. L % 2 = 0 /\ L <= 16
    BY Zenon DEF Accepted
  <2>2. L \in Nat
    OBVIOUS
  <2> HIDE DEF L
  <2>3. L \div 2 \in 0..8 /\ L = 2 * (L \div 2)
    BY <2>1, <2>2
  <2> QED
    BY <2>3 DEF L
<1>2. bits = 64 - 8 * n /\ bits \div 8 = 8 - n
  <2> HIDE DEF n
  <2>1. bits = 64 - 8 * n
    BY <1>1
  <2>2. (64 - 8 * n) \div 8 = 8 - n
    BY <1>1
  <2> QED
    BY <2>1, <2>2
<1> HIDE DEF n, v, bits
<1>3. add_filter(rule) = Encoded(Shifted(to_be_bytes(v), bits), bits, <<>>)
  BY DEF add_filter, v, bits
<1>4. \A i \in 1..8 : Shifted(to_be_bytes(v), bits)[i] = IF i > n THEN 0 ELSE Byte(v, n - i)
  <2> TAKE i \in 1..8
  <2>1. Shifted(to_be_bytes(v), bits)[i]
          = IF i + (8 - n) > 8 THEN 0 ELSE to_be_bytes(v)[i + (8 - n)]
    BY <1>2 DEF Shifted
  <2>2. CASE i > n
    BY <1>1, <2>1, <2>2
  <2>3. CASE ~(i > n)
    <3>1. i + (8 - n) \in 1..8 /\ 8 - (i + (8 - n)) = n - i /\ ~(i + (8 - n) > 8)
      BY <1>1, <2>3
    <3>2. to_be_bytes(v)[i + (8 - n)] = Byte(v, n - i)
      BY <3>1, Zenon DEF to_be_bytes
    <3> QED
      BY <2>1, <2>3, <3>1, <3>2
  <2> QED
    BY <2>2, <2>3
<1>5. \A i \in 1..8 : Masked(arg.mem, bits)[i] = IF i > n THEN 0 ELSE arg.mem[i]
  <2> TAKE i \in 1..8
  <2>1. CASE i > n
    BY <1>1, <1>2, <2>1 DEF Masked
  <2>2. CASE ~(i > n)
    BY <1>1, <1>2, <2>2 DEF Masked
  <2> QED
    BY <2>1, <2>2
<1> DEFINE sh == Shifted(to_be_bytes(v), bits)
           ma == Masked(arg.mem, bits)
<1>6. sh = ma <=> \A i \in 1..8 : sh[i] = ma[i]
  BY DEF Shifted, Masked
<1> HIDE DEF sh, ma
<1>7. (\A i \in 1..8 : sh[i] = ma[i]) <=> \A i \in 1..n : arg.mem[i] = Byte(v, n - i)
  <2>1. \A i \in 1..n : i \in 1..8 /\ ~(i > n)
    BY <1>1
  <2>2. \A i \in 1..8 : i > n \/ i \in 1..n
    BY <1>1
  <2> QED
    BY <1>4, <1>5, <2>1, <2>2 DEF sh, ma
<1>8. BufferMatch(add_filter(rule), arg) <=> sh = ma
  BY <1>3 DEF BufferMatch, Encoded, sh, ma
<1>9. StartsWith(TakenBytes(rule), arg) <=> \A i \in 1..n : arg.mem[i] = Byte(v, n - i)
  <2>1. TakenBytes(rule) = [i \in 1..n |-> Byte(v, n - i)]
    BY DEF TakenBytes, n, v
  <2>2. n \in Nat
    BY <1>1
  <2>3. Len(TakenBytes(rule)) = n
    BY <2>1, <2>2
  <2> QED
    BY <2>1, <2>3 DEF StartsWith
<1> QED
  BY <1>6, <1>7, <1>8, <1>9

(* The bytes of an address, and the four zeros behind them.                *)
LEMMA FourZeros ==
  ASSUME NEW str \in Seq(Nat), Len(str) = 4
  PROVE  str \o <<0, 0, 0, 0>> \in Seq(Nat) /\ Len(str \o <<0, 0, 0, 0>>) = 8
<1> DEFINE zeros == <<0, 0, 0, 0>>
<1>1. zeros \in Seq(Nat) /\ Len(zeros) = 4
  OBVIOUS
<1> HIDE DEF zeros
<1>2. str \o zeros \in Seq(Nat) /\ Len(str \o zeros) = Len(str) + Len(zeros)
  BY <1>1, ConcatProperties, Zenon
<1> QED
  BY <1>1, <1>2 DEF zeros

(* A whitelist filter on a buffer matches when its rule says so.           *)
LEMMA BufferAgrees ==
  ASSUME NEW op \in Placements, Accepted(op[1]), op[2].kind = "buffer",
         FilterType(op[1]) = "white"
  PROVE  BufferMatch(add_filter(op[1]), op[2]) <=> SaysBuffer(op[1], op[2])
<1> DEFINE rule == op[1]
           arg == op[2]
<1>1. arg.mem \in Seq(Nat) /\ Len(arg.mem) = 8
  BY PlacementTypes
<1>2. rule.kind \in {"addr", "bx", "w"}
  BY PlacementTypes DEF FilterType
<1>3. CASE rule.kind = "addr"
  <2>1. add_filter(rule) = Encoded(rule.str \o <<0, 0, 0, 0>>, 0, <<>>)
    BY <1>3 DEF add_filter
  <2>2. Masked(arg.mem, 0) = arg.mem
    <3>1. Masked(arg.mem, 0) = [i \in 1..8 |-> arg.mem[i]]
      BY DEF Masked
    <3> QED
      BY <1>1, <3>1, EightBytes
  <2>3. BufferMatch(add_filter(rule), arg) <=> rule.str \o <<0, 0, 0, 0>> = arg.mem
    <3> DEFINE f == add_filter(rule)
    <3>1. f.num_val = rule.str \o <<0, 0, 0, 0>> /\ f.str_len = 0
      BY <2>1 DEF Encoded
    <3> HIDE DEF f
    <3>2. BufferMatch(f, arg) <=> f.num_val = Masked(arg.mem, f.str_len)
      BY Zenon DEF BufferMatch
    <3>3. BufferMatch(f, arg) <=> rule.str \o <<0, 0, 0, 0>> = arg.mem
      BY <2>2, <3>1, <3>2, Zenon
    <3> QED
      BY <3>3 DEF f
  <2>4. SaysBuffer(rule, arg) <=> arg.mem = rule.str \o <<0, 0, 0, 0>>
    <3> DEFINE bytes == rule.str \o <<0, 0, 0, 0>>
    <3>6. TakenBytes(rule) = bytes
      BY <1>3, Zenon DEF TakenBytes
    <3>7. rule.kind # "w"
      BY <1>3
    <3>8. SaysBuffer(rule, arg) <=> StartsWith(TakenBytes(rule), arg)
      BY <1>3, <3>7, Zenon DEF SaysBuffer
    <3>1. SaysBuffer(rule, arg) <=> StartsWith(bytes, arg)
      BY <3>6, <3>8, Zenon
    <3>2. rule.str \in Seq(Nat) /\ Len(rule.str) = 4
      BY <1>3, PlacementTypes
    <3>3. bytes \in Seq(Nat) /\ Len(bytes) = 8
      BY <3>2, FourZeros, Zenon
    <3> HIDE DEF bytes
    <3>4. arg.mem = bytes <=> \A i \in 1..8 : arg.mem[i] = bytes[i]
      BY <1>1, <3>3, EightBytes
    <3>5. StartsWith(bytes, arg) <=> \A i \in 1..8 : arg.mem[i] = bytes[i]
      BY <3>3 DEF StartsWith
    <3> QED
      BY <3>1, <3>4, <3>5 DEF bytes
  <2> QED
    BY <2>3, <2>4
<1>4. CASE rule.kind = "bx"
  <2>1. SaysBuffer(rule, arg) <=> StartsWith(TakenBytes(rule), arg)
    BY <1>4 DEF SaysBuffer
  <2> QED
    BY <1>1, <1>4, <2>1, BxAgrees, PlacementTypes
<1>5. CASE rule.kind = "w"
  <2>1. add_filter(rule) = Encoded(Zero, Len(rule.str), rule.str)
    BY <1>5 DEF add_filter
  <2> QED
    BY <1>5, <2>1 DEF BufferMatch, SaysBuffer, Encoded
<1> QED
  BY <1>2, <1>3, <1>4, <1>5

-----------------------------------------------------------------------------
(* Texts.  A text begins with a string when none of the bytes up to the    *)
(* string's length tells them apart: a text that is too short has a NUL    *)
(* there, and the string has none.                                         *)
LEMMA StringAgrees ==
  ASSUME NEW str \in TextType, NEW mem \in TextType
  PROVE  (\A i \in 1..Len(str) : At(mem, i) = At(str, i)) <=> IsPrefix(str, mem)
<1> USE DEF TextType
<1>1. ASSUME \A i \in 1..Len(str) : At(mem, i) = At(str, i)
      PROVE  IsPrefix(str, mem)
  <2>1. \A i \in 1..Len(str) : At(str, i) = str[i] /\ str[i] # 0
    BY DEF At
  <2>2. Len(str) <= Len(mem)
    <3> SUFFICES ASSUME Len(mem) < Len(str) PROVE FALSE
      OBVIOUS
    <3>1. Len(str) \in 1..Len(str) /\ At(mem, Len(str)) = 0
      BY DEF At
    <3> QED
      BY <1>1, <2>1, <3>1
  <2>3. \A i \in 1..Len(str) : str[i] = mem[i]
    BY <1>1, <2>1, <2>2 DEF At
  <2>4. SubSeq(str, 1, Len(str)) = SubSeq(mem, 1, Len(str))
    BY <2>2, <2>3
  <2> QED
    BY <2>2, <2>4 DEF IsPrefix
<1>2. ASSUME IsPrefix(str, mem), NEW i \in 1..Len(str)
      PROVE  At(mem, i) = At(str, i)
  <2>1. Len(str) <= Len(mem) /\ SubSeq(str, 1, Len(str)) = SubSeq(mem, 1, Len(str))
    BY <1>2 DEF IsPrefix
  <2>2. SubSeq(str, 1, Len(str))[i] = str[i] /\ SubSeq(mem, 1, Len(str))[i] = mem[i]
    BY <2>1
  <2> QED
    BY <2>1, <2>2 DEF At
<1> QED
  BY <1>1, <1>2

(* What a rule on a text becomes.                                          *)
LEMMA TextFilter ==
  ASSUME NEW rule, FilterType(rule) \in {"white", "black"}
  PROVE  LET f == add_filter(rule)
         IN  \/ rule.kind = "addr" /\ f.str_len = 0
             \/ rule.kind = "bx" /\ f.str_len = 64 - 4 * Len(rule.str) /\ f.str_val = <<>>
             \/ rule.kind \in {"w", "b"} /\ f.str_len = Len(rule.str) /\ f.str_val = rule.str
<1>1. rule.kind \in {"addr", "bx", "w", "b"}
  BY DEF FilterType
<1>2. CASE rule.kind = "addr"
  BY <1>2 DEF add_filter, Encoded
<1>3. CASE rule.kind = "bx"
  BY <1>3 DEF add_filter, Encoded
<1>4. CASE rule.kind \in {"w", "b"}
  BY <1>4 DEF add_filter, Encoded
<1> QED
  BY <1>1, <1>2, <1>3, <1>4

(* A filter on a text whose length is known, or that has none, matches     *)
(* when its rule says so.                                                  *)
LEMMA TextAgrees ==
  ASSUME NEW op \in Placements, Accepted(op[1]), op[2].kind = "string",
         FilterType(op[1]) \in {"white", "black"}, ~Stale(op),
         NEW len \in Nat, op[2].status = "saved" => len = Len(op[2].mem) + 1
  PROVE  TextMatch(add_filter(op[1]), op[2], len) <=> SaysText(op[1], op[2])
<1> DEFINE rule == op[1]
           arg == op[2]
           f == add_filter(rule)
<1>1. arg.mem \in TextType /\ arg.status \in {"saved", "unreadable"}
  BY PlacementTypes DEF Stale
<1>2. /\ arg.status = "unreadable" => arg.mem = <<>> /\ rule.kind # "bx"
      /\ rule.kind \in {"w", "b"} => rule.str \in TextType
      /\ rule.kind = "bx" => rule.str \in Seq(Nat)
  BY PlacementTypes DEF Stale
<1>3. Len(arg.mem) \in Nat /\ (arg.mem = <<>> => Len(arg.mem) = 0)
  BY <1>1 DEF TextType
<1>4. TextMatch(f, arg, len)
        <=> len >= f.str_len /\ \A i \in 1..f.str_len : At(arg.mem, i) = At(f.str_val, i)
  BY Zenon DEF TextMatch
<1>5. CASE rule.kind = "addr" /\ f.str_len = 0
  <2>1. SaysText(rule, arg)
    BY <1>5 DEF SaysText
  <2> QED
    BY <1>4, <1>5, <2>1
<1>6. CASE rule.kind = "bx" /\ f.str_len = 64 - 4 * Len(rule.str) /\ f.str_val = <<>>
  <2> DEFINE L == Len(rule.str)
             M == Len(arg.mem)
  <2>1. L % 2 = 0 /\ L <= 16
    BY <1>6, Zenon DEF Accepted
  <2>2. L \in Nat /\ f.str_len = 64 - 4 * L
    BY <1>2, <1>6
  <2>3. len = M + 1 /\ M \in Nat
    BY <1>1, <1>2, <1>3, <1>6
  <2>4. SaysText(rule, arg) <=> L = 16
    BY <1>6, Zenon DEF SaysText
  <2>5. \A i \in 1..M : At(arg.mem, i) # 0
    BY <1>1 DEF At, TextType
  <2>6. \A i \in Nat : At(f.str_val, i) = IF i <= 0 THEN <<>>[i] ELSE 0
    BY <1>6 DEF At
  <2> SUFFICES TextMatch(f, arg, len) <=> SaysText(rule, arg)
    OBVIOUS
  <2> HIDE DEF L, M, f
  <2>7. CASE L = 16
    BY <1>4, <2>2, <2>4, <2>7
  <2>8. CASE L # 16
    <3>1. f.str_len >= 8
      BY <2>1, <2>2, <2>8
    <3>2. SUFFICES ASSUME len >= f.str_len, At(arg.mem, 1) = At(f.str_val, 1) PROVE FALSE
      BY <1>4, <2>2, <2>4, <2>8, <3>1
    <3>3. 1 \in 1..M
      BY <2>2, <2>3, <3>1, <3>2
    <3> QED
      BY <2>5, <2>6, <3>2, <3>3
  <2> QED
    BY <2>7, <2>8
<1>7. CASE rule.kind \in {"w", "b"} /\ f.str_len = Len(rule.str) /\ f.str_val = rule.str
  <2>1. SaysText(rule, arg) <=> IsPrefix(rule.str, arg.mem)
    BY <1>7, Zenon DEF SaysText
  <2>2. (\A i \in 1..f.str_len : At(arg.mem, i) = At(f.str_val, i)) <=> IsPrefix(rule.str, arg.mem)
    BY <1>1, <1>2, <1>7, StringAgrees
  <2>3. IsPrefix(rule.str, arg.mem) => Len(rule.str) <= Len(arg.mem)
    BY Zenon DEF IsPrefix
  <2>4. Len(rule.str) \in Nat
    BY <1>2, <1>7 DEF TextType
  <2>5. Len(arg.mem) <= len
    BY <1>1, <1>2, <1>3
  <2>6. IsPrefix(rule.str, arg.mem) => len >= f.str_len
    BY <1>3, <1>7, <2>3, <2>4, <2>5
  <2> QED
    BY <1>4, <2>1, <2>2, <2>6
<1> QED
  BY <1>5, <1>6, <1>7, TextFilter

-----------------------------------------------------------------------------
(* A number in a register: the filter keeps what the rule that it takes    *)
(* asks for, and any number if the rule is about none.                     *)
LEMMA NumberAgrees ==
  ASSUME NEW op \in Placements, op[2].kind = "scalar"
  PROVE  ValueRejected(op[1], op[2]) <=> Rejects(op)
<1>1. /\ op[2].reg \in Nat
      /\ op[1].kind \in {"eq", "gt", "lt", "addr", "bx", "w", "b", "none"}
      /\ op[1].kind \in {"eq", "gt", "lt"} => op[1].num \in Nat
  BY PlacementTypes
<1>2. CASE op[1].kind \in {"eq", "gt", "lt"}
  BY <1>1, <1>2 DEF Rejects, ValueRejected, FilterType, Taken, AsksNumber
<1>3. CASE op[1].kind \notin {"eq", "gt", "lt"}
  <2>1. FilterType(op[1]) \notin {"equal", "greater", "less"}
    BY <1>1, <1>3 DEF FilterType
  <2> QED
    BY <1>3, <2>1 DEF Rejects, ValueRejected
<1> QED
  BY <1>2, <1>3

-----------------------------------------------------------------------------
(* The loop.  After some filters, without a length that is left over: the  *)
(* flags say what the rules of these filters say of their arguments.       *)
Filtered == {pl \in Placements : Accepted(pl[1])}
Seen == 1..(next - 1)
FlagType ==
  /\ ops \in Seq(Filtered)
  /\ next \in 1..(Len(ops) + 1)
  /\ str_len \in Nat
  /\ match_blacklist \in BOOLEAN
  /\ match_whitelist \in BOOLEAN
  /\ apply_filter \in BOOLEAN
  /\ skip_flag \in BOOLEAN
NothingStale == \A op \in Range(ops) : ~Stale(op)
FlagsFollowRules ==
  NothingStale =>
    /\ match_blacklist <=> \E i \in Seen : Rejects(ops[i])
    /\ apply_filter <=> \E i \in Seen : Applies(ops[i])
    /\ match_whitelist <=> \E i \in Seen : Applies(ops[i]) /\ Says(ops[i])
AllFound == \A i \in Seen : ops[i][1].kind # "none"
Decided ==
  /\ pc = "done" =>
       /\ next > Len(ops) \/ match_blacklist
       /\ skip_flag <=> match_blacklist \/ (apply_filter /\ ~match_whitelist)
  /\ pc = "missing" => next <= Len(ops) /\ ops[next][1].kind = "none" /\ ~match_blacklist
  /\ pc # "done" => ~skip_flag

FilterInv == FlagType /\ FlagsFollowRules /\ AllFound /\ Decided

LEMMA SomeFilter ==
  ASSUME FlagType, next <= Len(ops)
  PROVE  /\ next \in 1..Len(ops)
         /\ ops[next] \in Placements /\ Accepted(ops[next][1])
         /\ NothingStale => ~Stale(ops[next])
<1>1. next \in 1..Len(ops)
  BY DEF FlagType
<1>2. ops[next] \in Filtered /\ ops[next] \in Range(ops)
  BY <1>1 DEF FlagType, Range
<1> QED
  BY <1>1, <1>2 DEF Filtered, NothingStale

(* A filter operation adds the answer of its rule to the flags.            *)
LEMMA OneMoreFilter ==
  ASSUME FlagType, FilterValue \/ FilterBuffer \/ FilterString
  PROVE  /\ next \in 1..Len(ops) /\ ~match_blacklist
         /\ ops' = ops /\ next' = next + 1 /\ pc = "read" /\ pc' = pc /\ skip_flag' = skip_flag
         /\ FlagType'
         /\ NothingStale =>
              /\ match_blacklist' <=> Rejects(ops[next])
              /\ apply_filter' <=> apply_filter \/ Applies(ops[next])
              /\ match_whitelist' <=> match_whitelist \/ (Applies(ops[next]) /\ Says(ops[next]))
<1> DEFINE op == ops[next]
<1>1. next <= Len(ops)
  BY DEF FilterValue, FilterBuffer, FilterString, Filters
<1>2. op \in Placements /\ Accepted(op[1]) /\ (NothingStale => ~Stale(op)) /\ next \in 1..Len(ops)
  BY <1>1, SomeFilter
<1>3. /\ ops' = ops /\ next' = next + 1 /\ pc = "read" /\ pc' = pc /\ skip_flag' = skip_flag
      /\ ~match_blacklist
  BY DEF FilterValue, FilterBuffer, FilterString, Filters
<1>4. next' \in 1..(Len(ops) + 1)
  BY <1>2, <1>3
<1>5. /\ ops \in Seq(Filtered) /\ str_len \in Nat /\ match_blacklist \in BOOLEAN
      /\ match_whitelist \in BOOLEAN /\ apply_filter \in BOOLEAN /\ skip_flag \in BOOLEAN
  BY DEF FlagType
<1> DEFINE Typed == str_len' \in Nat /\ match_blacklist' \in BOOLEAN
                    /\ match_whitelist' \in BOOLEAN /\ apply_filter' \in BOOLEAN
           Agreed == /\ match_blacklist' <=> Rejects(op)
                     /\ apply_filter' <=> apply_filter \/ Applies(op)
                     /\ match_whitelist' <=> match_whitelist \/ (Applies(op) /\ Says(op))
<1>6. ASSUME FilterValue PROVE Typed /\ (NothingStale => Agreed)
  <2>1. op[2].kind = "scalar" /\ match_blacklist' = ValueRejected(op[1], op[2])
        /\ UNCHANGED <<str_len, match_whitelist, apply_filter>>
    BY <1>6 DEF FilterValue, Filters, Rule, Arg
  <2>2. ValueRejected(op[1], op[2]) \in BOOLEAN
    BY Zenon DEF ValueRejected
  <2>3. Rejects(op) <=> ValueRejected(op[1], op[2])
    BY <1>2, <2>1, NumberAgrees
  <2>4. ~Applies(op)
    BY <2>1 DEF Applies
  <2> QED
    BY <1>5, <2>1, <2>2, <2>3, <2>4
<1>7. ASSUME FilterBuffer PROVE Typed /\ (NothingStale => Agreed)
  <2>1. op[2].kind = "buffer" /\ UNCHANGED <<str_len, match_blacklist>>
    BY <1>7 DEF FilterBuffer, Filters, Arg
  <2>2. ~Rejects(op) /\ (Applies(op) <=> FilterType(op[1]) = "white")
    BY <2>1 DEF Rejects, Applies
  <2>3. CASE FilterType(op[1]) = "white"
    <3>1. apply_filter' = TRUE
          /\ match_whitelist' = (match_whitelist \/ BufferMatch(add_filter(op[1]), op[2]))
      BY <1>7, <2>3 DEF FilterBuffer, Rule, Arg, Filter
    <3>2. BufferMatch(add_filter(op[1]), op[2]) <=> SaysBuffer(op[1], op[2])
      BY <1>2, <2>1, <2>3, BufferAgrees
    <3>3. Says(op) <=> SaysBuffer(op[1], op[2])
      BY <2>1 DEF Says
    <3> QED
      BY <1>3, <1>5, <2>1, <2>2, <2>3, <3>1, <3>2, <3>3
  <2>4. CASE FilterType(op[1]) # "white"
    <3>1. UNCHANGED <<apply_filter, match_whitelist>>
      BY <1>7, <2>4 DEF FilterBuffer, Rule
    <3> QED
      BY <1>3, <1>5, <2>1, <2>2, <2>4, <3>1
  <2> QED
    BY <2>3, <2>4
<1>8. ASSUME FilterString PROVE Typed /\ (NothingStale => Agreed)
  <2> DEFINE match == TextMatch(add_filter(op[1]), op[2], str_len')
             type == FilterType(op[1])
  <2>1. /\ op[2].kind = "string"
        /\ str_len' = IF op[2].status = "saved" THEN Len(op[2].mem) + 1 ELSE str_len
        /\ apply_filter' = (apply_filter \/ type = "white")
        /\ match_whitelist' = (match_whitelist \/ (type = "white" /\ match))
        /\ match_blacklist' = (type = "black" /\ match)
    BY <1>8 DEF FilterString, Filters, Rule, Arg, Filter
  <2>2. op[2].mem \in TextType
    BY <1>2, <2>1, PlacementTypes
  <2>3. str_len' \in Nat
    BY <1>5, <2>1, <2>2 DEF TextType
  <2>4. Typed
    BY <1>5, <2>1, <2>3
  <2>5. ASSUME ~Stale(op), type \in {"white", "black"}
        PROVE  match <=> SaysText(op[1], op[2])
    BY <1>2, <2>1, <2>3, <2>5, TextAgrees
  <2>6. /\ Rejects(op) <=> type = "black" /\ SaysText(op[1], op[2])
        /\ Applies(op) <=> type = "white"
        /\ Says(op) <=> SaysText(op[1], op[2])
    BY <2>1 DEF Rejects, Applies, Says
  <2> HIDE DEF match, type
  <2>7. ~Stale(op) => Agreed
    BY <2>1, <2>5, <2>6
  <2> QED
    BY <1>2, <2>4, <2>7
<1>9. Typed /\ (NothingStale => Agreed)
  BY <1>6, <1>7, <1>8
<1>10. FlagType'
  BY <1>3, <1>4, <1>5, <1>9 DEF FlagType
<1> QED
  BY <1>2, <1>3, <1>9, <1>10

LEMMA FilterKeeps ==
  ASSUME FilterInv, FilterValue \/ FilterBuffer \/ FilterString
  PROVE  FilterInv'
<1>1. FlagType /\ FlagsFollowRules
  BY DEF FilterInv
<1>2. /\ next \in 1..Len(ops) /\ ~match_blacklist
      /\ ops' = ops /\ next' = next + 1 /\ pc = "read" /\ pc' = pc /\ FlagType'
  BY <1>1, OneMoreFilter
<1>3. Seen' = Seen \cup {next}
  BY <1>1, <1>2 DEF Seen, FlagType
<1>4. NothingStale' = NothingStale
  BY <1>2 DEF NothingStale
<1>5. \A i \in Seen' : ops'[i] = ops[i]
  BY <1>2
<1>6. ASSUME NothingStale
      PROVE  /\ match_blacklist' <=> \E i \in Seen' : Rejects(ops[i])
             /\ apply_filter' <=> \E i \in Seen' : Applies(ops[i])
             /\ match_whitelist' <=> \E i \in Seen' : Applies(ops[i]) /\ Says(ops[i])
  <2>1. /\ match_blacklist' <=> Rejects(ops[next])
        /\ apply_filter' <=> apply_filter \/ Applies(ops[next])
        /\ match_whitelist' <=> match_whitelist \/ (Applies(ops[next]) /\ Says(ops[next]))
    BY <1>1, <1>6, OneMoreFilter
  <2>2. /\ match_blacklist <=> \E i \in Seen : Rejects(ops[i])
        /\ apply_filter <=> \E i \in Seen : Applies(ops[i])
        /\ match_whitelist <=> \E i \in Seen : Applies(ops[i]) /\ Says(ops[i])
    BY <1>1, <1>6, Zenon DEF FlagsFollowRules
  <2> QED
    BY <1>2, <1>3, <2>1, <2>2, Zenon
<1>7. FlagsFollowRules'
  BY <1>2, <1>4, <1>6, Zenon DEF FlagsFollowRules
<1>8. Decided'
  BY <1>1, <1>2, OneMoreFilter DEF FilterInv, Decided
<1>9. ops[next][1].kind # "none"
  BY DEF FilterValue, FilterBuffer, FilterString, Filters, Rule
<1>10. AllFound'
  BY <1>3, <1>5, <1>9 DEF FilterInv, AllFound
<1> QED
  BY <1>2, <1>7, <1>8, <1>10 DEF FilterInv

LEMMA FilterStarts == Init => FilterInv
<1> SUFFICES ASSUME Init PROVE FilterInv
  OBVIOUS
<1>1. ops \in Seq(Filtered)
  BY DEF Init, BoundedSeq, SeqOf, Filtered
<1>2. FlagType
  <2>1. str_len \in Nat
    BY ArgFilterAssumption DEF Init
  <2>2. next \in 1..(Len(ops) + 1)
    BY <1>1 DEF Init
  <2> QED
    BY <1>1, <2>1, <2>2 DEF Init, FlagType
<1>3. Seen = {}
  BY DEF Init, Seen
<1>4. FlagsFollowRules
  BY <1>3 DEF Init, FlagsFollowRules
<1>5. Decided /\ AllFound
  BY <1>3 DEF Init, Decided, AllFound
<1> QED
  BY <1>2, <1>4, <1>5 DEF FilterInv

LEMMA FilterInvInductive == FilterInv /\ [Next]_vars => FilterInv'
<1> SUFFICES ASSUME FilterInv, [Next]_vars PROVE FilterInv'
  OBVIOUS
<1>1. CASE FilterValue \/ FilterBuffer \/ FilterString
  BY <1>1, FilterKeeps
<1>2. CASE FilterMissing \/ Decide \/ UNCHANGED vars
  <2>1. UNCHANGED <<ops, next, str_len, match_blacklist, match_whitelist, apply_filter>>
    BY <1>2 DEF FilterMissing, Decide, vars
  <2>2. FlagType' /\ FlagsFollowRules' /\ AllFound'
    <3>1. skip_flag' \in BOOLEAN
      BY <1>2 DEF FilterInv, FlagType, FilterMissing, Decide, vars
    <3> QED
      BY <2>1, <3>1 DEF FilterInv, FlagType, FlagsFollowRules, NothingStale, Seen, AllFound
  <2>3. Decided'
    BY <1>2 DEF FilterInv, FlagType, Decided, FilterMissing, Decide, vars, Rule
  <2> QED
    BY <2>2, <2>3 DEF FilterInv
<1> QED
  BY <1>1, <1>2 DEF Next

(* What the flags say once the loop has ended is what all rules say: the   *)
(* loop ends early only when a rule has rejected the call, and then the    *)
(* others have nothing to add, or when a filter is not found.              *)
LEMMA VerdictOfFlags ==
  ASSUME FilterInv
  PROVE  VerdictFollowsRules
<1> SUFFICES ASSUME pc \in {"done", "missing"}, NothingStale
             PROVE  skip_flag <=> \/ \E i \in Reached : Rejects(ops[i])
                                  \/ /\ Reached = DOMAIN ops
                                     /\ \E i \in Reached : Applies(ops[i])
                                     /\ \A i \in Reached : Applies(ops[i]) => ~Says(ops[i])
  BY Zenon DEF VerdictFollowsRules, NothingStale
<1>1. /\ match_blacklist <=> \E i \in Seen : Rejects(ops[i])
      /\ apply_filter <=> \E i \in Seen : Applies(ops[i])
      /\ match_whitelist <=> \E i \in Seen : Applies(ops[i]) /\ Says(ops[i])
  BY Zenon DEF FilterInv, FlagsFollowRules
<1>2. /\ pc = "done" => /\ next > Len(ops) \/ match_blacklist
                        /\ skip_flag <=> match_blacklist \/ (apply_filter /\ ~match_whitelist)
      /\ pc = "missing" => next <= Len(ops) /\ ops[next][1].kind = "none" /\ ~match_blacklist /\ ~skip_flag
  BY DEF FilterInv, Decided
<1>3. /\ next \in 1..(Len(ops) + 1) /\ Len(ops) \in Nat /\ DOMAIN ops = 1..Len(ops)
      /\ Seen \subseteq DOMAIN ops
  BY DEF FilterInv, FlagType, Seen
<1>4. \A i \in Seen : i \in Reached
  <2> SUFFICES ASSUME NEW i \in Seen PROVE i \in Reached
    OBVIOUS
  <2>1. i \in DOMAIN ops /\ \A j \in 1..i : j \in Seen
    BY <1>3 DEF Seen
  <2> QED
    BY <2>1 DEF FilterInv, AllFound, Reached
<1>5. Reached \subseteq DOMAIN ops
  BY DEF Reached
<1>6. CASE pc = "done" /\ match_blacklist
  BY <1>1, <1>2, <1>4, <1>6, Zenon
<1>7. CASE pc = "done" /\ ~match_blacklist
  <2>1. Seen = DOMAIN ops
    BY <1>2, <1>3, <1>7 DEF Seen
  <2>2. Reached = Seen
    BY <1>4, <1>5, <2>1
  <2> QED
    BY <1>1, <1>2, <1>7, <2>1, <2>2, Zenon
<1>8. CASE pc = "missing"
  <2>1. next \in DOMAIN ops /\ ops[next][1].kind = "none"
    BY <1>2, <1>3, <1>8
  <2>2. Reached = Seen
    <3>1. ASSUME NEW i \in Reached PROVE i \in Seen
      <4>1. i \in 1..Len(ops) /\ ~(next \in 1..i)
        BY <1>3, <2>1 DEF Reached
      <4> QED
        BY <1>3, <4>1 DEF Seen
    <3> QED
      BY <1>4, <3>1
  <2>3. next \notin Reached
    BY <1>3, <2>2 DEF Seen
  <2> QED
    BY <1>1, <1>2, <1>8, <2>1, <2>2, <2>3, Zenon
<1> QED
  BY <1>6, <1>7, <1>8

(* The inductive invariant of the loop of read_args (utils.h:44-342).      *)
THEOREM FlagsAreRules == Spec => []FilterInv
<1> QED
  BY FilterStarts, FilterInvInductive, PTL DEF Spec

(* A call is skipped exactly when the rules up to the first filter that is *)
(* not found say so (utils.h:344-353), in whatever order they come, for    *)
(* any number of filters, any texts, buffers, numbers and rules.           *)
THEOREM VerdictIsRules == Spec => []VerdictFollowsRules
<1> QED
  BY FlagsAreRules, VerdictOfFlags, PTL
=============================================================================
