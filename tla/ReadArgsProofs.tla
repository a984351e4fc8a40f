--------------------------- MODULE ReadArgsProofs ---------------------------
(***************************************************************************)
(* For every table of calls, whatever the operations of its points are:    *)
(* the state has its types and the event buffer is never overrun; and for  *)
(* all types and read_op expressions the operations of an argument end     *)
(* outside of loops, which therefore never reach into the next argument.   *)
(* For every table of readable calls, the reader finds in each event the   *)
(* pieces that the program saved for the call.  For every table whose      *)
(* vectors of iovecs have the types that argtype makes, each vector is     *)
(* saved in order, every iovec followed by its own bytes.                  *)
(***************************************************************************)
EXTENDS ArgStream, WellFoundedInduction, TLAPS

(* What is known of the call that is reported.                             *)
LEMMA CallTypes ==
  ASSUME NEW c \in Calls
  PROVE  /\ c.side \in Sides
         /\ c.ops \in Seq(Operations)
         /\ \A r \in DOMAIN c.regs : c.regs[r] \in Nat
         /\ \A a \in DOMAIN c.mem : c.mem[a] \in Nat
         /\ \A a \in DOMAIN c.text : c.text[a] \in 1..MAX_STRING_SIZE
BY ReadArgsAssumption, Zenon

LEMMA WordType ==
  ASSUME NEW f, \A x \in DOMAIN f : f[x] \in Nat, NEW a
  PROVE  Word(f, a) \in Nat
BY DEF Word

LEMMA LeastType ==
  ASSUME NEW m \in Nat, NEW n \in Nat
  PROVE  Least(m, n) \in Nat /\ Least(m, n) <= m /\ Least(m, n) <= n
BY DEF Least

LEMMA SkipType == "SKIP" \in Codes /\ "NONE" \in Codes /\ Op("SKIP") \in Operations
<1>1. "SKIP" \in Codes /\ "NONE" \in Codes
  BY DEF Codes, RegisterCodes
<1>. QED BY <1>1 DEF Op, Operations

(* What the fields of a context are.                                       *)
LEMMA ContextFields ==
  ASSUME NEW c \in Contexts
  PROVE  /\ c.op \in Operations /\ c.op.code \in Codes /\ c.op.pre \in Codes
         /\ c.op.post \in Codes /\ c.op.value \in Nat
         /\ c.post_code \in Codes /\ c.op_key_index \in Nat
         /\ c.reg_index \in Nat /\ c.reg_value \in Nat
         /\ c.pointer_value \in Nat /\ c.tmp_value \in Int
         /\ c.read_addr \in Int /\ c.read_len \in Nat
         /\ c.loop_count \in 0..MAX_LOOP_COUNT
         /\ c.break_count \in 0..MAX_LOOP_COUNT
         /\ c.loop_index \in Nat
         /\ c.apply_filter \in BOOLEAN /\ c.match_whitelist \in BOOLEAN
BY DEF Contexts, Operations

-----------------------------------------------------------------------------
(* Fetching and the operations on registers keep the context well typed.   *)
LEMMA FetchType ==
  ASSUME TypeOK
  PROVE  Fetched \in Contexts
<1>1. call.ops \in Seq(Operations) /\ ctx \in Contexts
  BY CallTypes DEF TypeOK
<1>2. ctx.op_key_index \in Nat
  BY <1>1, ContextFields
<1>3. NextOp \in Operations
  <2>1. CASE ctx.op_key_index < Len(ops)
    BY <1>1, <1>2, <2>1 DEF NextOp, ListedOp, ops
  <2>2. CASE ~(ctx.op_key_index < Len(ops))
    BY <2>2, SkipType DEF NextOp, ListedOp
  <2>. QED BY <2>1, <2>2
<1>4. NextOp.post \in Codes
  BY <1>3 DEF Operations
<1>5. CASE HasPost
  BY <1>1, <1>5, SkipType DEF Fetched, Contexts
<1>6. CASE ~HasPost
  <2>1. ctx.op_key_index + 1 \in Nat
    BY <1>2
  <2>. QED BY <1>1, <1>3, <1>4, <1>6, <2>1 DEF Fetched, Contexts
<1>. QED BY <1>5, <1>6

LEMMA EffectType ==
  ASSUME NEW c \in Contexts, NEW code \in RegisterCodes, RegValue(c) \in Nat
  PROVE  Effect(code, c) \in Contexts
<1>1. RegIndex(c) \in Nat
  BY ContextFields DEF RegIndex
<1>2. \A n \in Nat : /\ Least(n, MAX_LOOP_COUNT) \in 0..MAX_LOOP_COUNT
                       /\ Least(c.read_len, n) \in Nat
  BY ContextFields DEF MAX_LOOP_COUNT, Least
<1>3. c.read_len * c.op.value \in Nat
  BY ContextFields
<1>4. /\ c.read_addr + c.op.value \in Int /\ c.read_addr - c.op.value \in Int
      /\ c.read_addr + c.reg_value \in Int /\ c.read_addr - c.reg_value \in Int
      /\ c.read_addr + 20 \in Int /\ c.reg_value \in Int /\ c.pointer_value \in Int
      /\ 0 \in 0..MAX_LOOP_COUNT
  BY ContextFields DEF MAX_LOOP_COUNT
<1>5. CASE code = "NONE"
  BY <1>5, ContextFields DEF Effect, Contexts
<1>6. CASE code = "RESET_CTX"
  <2>. DEFINE d == [c EXCEPT !.break_count = 0, !.reg_index = 0, !.read_addr = 0]
  <2>1. d \in Contexts
    <3>1. 0 \in 0..MAX_LOOP_COUNT /\ 0 \in Nat /\ 0 \in Int
      BY <1>4
    <3>. QED BY <3>1 DEF Contexts
  <2>2. [d EXCEPT !.read_len = 0, !.reg_value = 0, !.pointer_value = 0] \in Contexts
    <3>. HIDE DEF d
    <3>. QED BY <2>1 DEF Contexts
  <2>3. Effect(code, c) = [d EXCEPT !.read_len = 0, !.reg_value = 0, !.pointer_value = 0]
    BY <1>6 DEF Effect, Contexts
  <2>. QED BY <2>2, <2>3
<1>7. CASE code = "SET_REG_INDEX"
  BY <1>7, ContextFields DEF Effect, Contexts
<1>8. CASE code = "SET_READ_LEN"
  BY <1>8, ContextFields DEF Effect, Contexts
<1>9. CASE code = "SET_READ_LEN_REG_VALUE"
  BY <1>9, <1>2, ContextFields DEF Effect, Contexts
<1>10. CASE code = "SET_READ_LEN_POINTER_VALUE"
  BY <1>10, <1>2, ContextFields DEF Effect, Contexts
<1>11. CASE code = "SET_READ_COUNT"
  BY <1>11, <1>3, ContextFields DEF Effect, Contexts
<1>12. CASE code = "ADD_OFFSET"
  BY <1>12, <1>4, ContextFields DEF Effect, Contexts
<1>13. CASE code = "SUB_OFFSET"
  BY <1>13, <1>4, ContextFields DEF Effect, Contexts
<1>14. CASE code = "MOVE_REG_VALUE"
  BY <1>14, <1>4, ContextFields DEF Effect, Contexts
<1>15. CASE code = "MOVE_POINTER_VALUE"
  BY <1>15, <1>4, ContextFields DEF Effect, Contexts
<1>16. CASE code = "MOVE_TMP_VALUE"
  BY <1>16, ContextFields DEF Effect, Contexts
<1>17. CASE code = "SET_TMP_VALUE"
  BY <1>17, ContextFields DEF Effect, Contexts
<1>18. CASE code = "SET_BREAK_COUNT"
  BY <1>18, <1>2, ContextFields DEF Effect, Contexts
<1>19. CASE code = "SET_BREAK_COUNT_REG_VALUE"
  BY <1>19, <1>2, ContextFields DEF Effect, Contexts
<1>20. CASE code = "SET_BREAK_COUNT_POINTER_VALUE"
  BY <1>20, <1>2, ContextFields DEF Effect, Contexts
<1>21. CASE code = "ADD_REG"
  BY <1>21, <1>4, ContextFields DEF Effect, Contexts
<1>22. CASE code = "SUB_REG"
  BY <1>22, <1>4, ContextFields DEF Effect, Contexts
<1>23. CASE code = "READ_REG"
  BY <1>23, <1>1, ContextFields DEF Effect, Contexts
<1>24. CASE code = "READ_IL2CPP_STRING"
  BY <1>24, <1>4, ContextFields DEF Effect, Contexts
<1>. QED
  BY <1>5, <1>6, <1>7, <1>8, <1>9, <1>10, <1>11, <1>12, <1>13, <1>14,
     <1>15, <1>16, <1>17, <1>18, <1>19, <1>20, <1>21, <1>22, <1>23, <1>24
  DEF RegisterCodes

-----------------------------------------------------------------------------
(* Saving: what is saved has its type, and fits.                           *)
LEMMA SavedType ==
  ASSUME NEW b \in Buffers, NEW size \in Nat, NEW piece \in Pieces
  PROVE  /\ Saved(b, size, piece) \in Buffers
         /\ Saved(b, size, piece).off = b.off + size
<1>1. b.off + size \in Nat /\ b.pieces \in Seq(Pieces)
  BY DEF Buffers
<1>2. Append(b.pieces, piece) \in Seq(Pieces)
  BY <1>1
<1>. QED BY <1>1, <1>2 DEF Saved, Buffers

LEMMA NoRoomType ==
  ASSUME NEW b \in Buffers
  PROVE  NoRoom(b) \in Buffers /\ NoRoom(b).off = b.off /\ b.off \in Nat
BY DEF NoRoom, Buffers

LEMMA RawSaved ==
  ASSUME NEW b \in Buffers, NEW value \in Int
  PROVE  /\ save_to_submit_buf(b, value) \in Buffers
         /\ b.off <= ARGS_BUF_SIZE
              => save_to_submit_buf(b, value).off <= ARGS_BUF_SIZE
<1>1. Piece("raw", 8, 8, value) \in Pieces
  BY DEF Piece, Pieces, MAX_STRING_SIZE
<1>2. /\ Saved(b, 9, Piece("raw", 8, 8, value)) \in Buffers
      /\ Saved(b, 9, Piece("raw", 8, 8, value)).off = b.off + 9
  BY <1>1, SavedType
<1>3. NoRoom(b) \in Buffers /\ NoRoom(b).off = b.off /\ b.off \in Nat
  BY NoRoomType
<1>4. CASE HasRoom(b, MAX_ELEMENT_SIZE + 1)
  <2>1. b.off + 9 <= ARGS_BUF_SIZE
    BY <1>3, <1>4 DEF HasRoom, ARGS_BUF_SIZE, MAX_ELEMENT_SIZE
  <2>. QED BY <1>2, <1>4, <2>1 DEF save_to_submit_buf
<1>5. CASE ~HasRoom(b, MAX_ELEMENT_SIZE + 1)
  BY <1>3, <1>5 DEF save_to_submit_buf
<1>. QED BY <1>4, <1>5

LEMMA BytesSaved ==
  ASSUME NEW b \in Buffers, NEW kind \in {"bytes", "end"},
         NEW len \in 0..MAX_BYTES_ARR_SIZE, NEW want \in Nat, NEW at \in Int
  PROVE  /\ save_bytes_to_buf(b, kind, len, want, at) \in Buffers
         /\ b.off <= ARGS_BUF_SIZE
              => save_bytes_to_buf(b, kind, len, want, at).off <= ARGS_BUF_SIZE
<1>1. Piece(kind, len, want, at) \in Pieces
  BY DEF Piece, Pieces, MAX_STRING_SIZE, MAX_BYTES_ARR_SIZE
<1>2. len + 5 \in Nat
  OBVIOUS
<1>3. /\ Saved(b, len + 5, Piece(kind, len, want, at)) \in Buffers
      /\ Saved(b, len + 5, Piece(kind, len, want, at)).off = b.off + (len + 5)
  BY <1>1, <1>2, SavedType
<1>4. NoRoom(b) \in Buffers /\ NoRoom(b).off = b.off /\ b.off \in Nat
  BY NoRoomType
<1>5. CASE HasRoom(b, MAX_BYTES_ARR_SIZE + 5)
  <2>1. b.off + (len + 5) <= ARGS_BUF_SIZE
    BY <1>4, <1>5 DEF HasRoom, ARGS_BUF_SIZE, MAX_BYTES_ARR_SIZE
  <2>. QED BY <1>3, <1>5, <2>1 DEF save_bytes_to_buf
<1>6. CASE ~HasRoom(b, MAX_BYTES_ARR_SIZE + 5)
  BY <1>4, <1>6 DEF save_bytes_to_buf
<1>. QED BY <1>5, <1>6

LEMMA TextSaved ==
  ASSUME call \in Calls, NEW b \in Buffers, NEW code, NEW a \in Int,
         CanSaveText(b, code, a)
  PROVE  /\ SaveText(b, code, a) \in Buffers
         /\ SaveText(b, code, a).off <= ARGS_BUF_SIZE
<1>1. CASE IsWide(code)
  <2>1. TextLen(code, a) = 512 /\ HasRoom(b, MAX_BYTES_ARR_SIZE + 5)
    BY <1>1 DEF TextLen, CanSaveText
  <2>2. Piece("bytes", 512, 512, a) \in Pieces
    BY DEF Piece, Pieces, MAX_STRING_SIZE
  <2>3. /\ Saved(b, 517, Piece("bytes", 512, 512, a)) \in Buffers
        /\ Saved(b, 517, Piece("bytes", 512, 512, a)).off = b.off + 517
    BY <2>2, SavedType
  <2>. QED
    BY <2>1, <2>3, NoRoomType
    DEF SaveText, HasRoom, ARGS_BUF_SIZE, MAX_BYTES_ARR_SIZE
<1>2. CASE ~IsWide(code)
  <2>1. TextLen(code, a) = call.text[a] /\ a \in DOMAIN call.text
    BY <1>2 DEF TextLen, CanSaveText
  <2>2. PICK n \in 1..MAX_STRING_SIZE : n = call.text[a]
    BY <2>1, CallTypes
  <2>3. HasRoom(b, MAX_STRING_SIZE + 5)
    BY <1>2 DEF CanSaveText
  <2>4. n \in Nat /\ n <= 16384 /\ n + 5 \in Nat
    BY DEF MAX_STRING_SIZE
  <2>5. Piece("bytes", n, n, a) \in Pieces
    BY <2>4 DEF Piece, Pieces, MAX_STRING_SIZE
  <2>6. /\ Saved(b, n + 5, Piece("bytes", n, n, a)) \in Buffers
        /\ Saved(b, n + 5, Piece("bytes", n, n, a)).off = b.off + (n + 5)
    BY <2>4, <2>5, SavedType
  <2>7. SaveText(b, code, a) = Saved(b, n + 5, Piece("bytes", n, n, a))
    BY <2>1, <2>2 DEF SaveText
  <2>. QED
    BY <2>3, <2>4, <2>6, <2>7, NoRoomType DEF HasRoom, ARGS_BUF_SIZE, MAX_STRING_SIZE
<1>. QED BY <1>1, <1>2

-----------------------------------------------------------------------------
(* The invariant: NeverOverruns does not need more than the types.         *)
IInv == TypeOK /\ NeverOverruns

LEMMA InitIInv == Init => IInv
<1>. SUFFICES ASSUME Init PROVE IInv
  OBVIOUS
<1>1. ctx \in Contexts
  BY SkipType DEF Init, FreshCtx, Contexts, MAX_LOOP_COUNT
<1>2. steps \in 0..MaxOpCount(side)
  BY DEF Init, MaxOpCount
<1>3. buf \in Buffers /\ NeverOverruns
  BY DEF Init, Buffers, NeverOverruns, ARGS_BUF_SIZE
<1>4. faulted \in Seq(Operations) /\ Len(faulted) <= MaxFaults
  BY ReadArgsAssumption DEF Init, ReadArgsAssumption
<1>. QED BY <1>1, <1>2, <1>3, <1>4 DEF Init, IInv, TypeOK

(* What every turn of the loop leaves as it should be.                     *)
LEMMA TurnType ==
  ASSUME TypeOK, NEW codes, Turn(codes)
  PROVE  call' = call /\ call' \in Calls /\ steps' \in (0..MaxOpCount(side))'
<1>1. MaxOpCount(side) \in Nat /\ MaxOpCount(side)' = MaxOpCount(side)
  BY DEF Turn, MaxOpCount, side
<1>. QED BY <1>1 DEF TypeOK, Turn

LEMMA FaultType ==
  ASSUME TypeOK, NEW fault \in BOOLEAN, NoFault \/ MayFault(fault)
  PROVE  faulted' \in Seq(Operations) /\ Len(faulted') <= MaxFaults
<1>1. Fetched.op \in Operations
  BY FetchType, ContextFields
<1>2. MaxFaults \in Nat /\ faulted \in Seq(Operations) /\ Len(faulted) <= MaxFaults
  BY ReadArgsAssumption DEF ReadArgsAssumption, TypeOK
<1>3. CASE fault /\ MayFault(fault)
  BY <1>1, <1>2, <1>3 DEF MayFault
<1>4. CASE ~fault \/ NoFault
  BY <1>2, <1>4 DEF MayFault, NoFault
<1>. QED BY <1>3, <1>4

(* The words of memory and the registers are numbers.                      *)
LEMMA WordsType ==
  ASSUME TypeOK, NEW a
  PROVE  Word(call.mem, a) \in Nat /\ Word(call.regs, a) \in Nat
BY CallTypes, WordType DEF TypeOK

-----------------------------------------------------------------------------
(* The steps, one lemma each.                                              *)
LEMMA RegisterStepIInv == ASSUME IInv, RegisterStep PROVE IInv'
<1>1. ctx' \in Contexts
  <2>1. Fetched \in Contexts /\ RegValue(Fetched) \in Nat
    BY FetchType, WordsType DEF IInv, RegValue
  <2>2. Code \in RegisterCodes
    BY DEF RegisterStep, Turn
  <2>. QED BY <2>1, <2>2, EffectType DEF RegisterStep
<1>2. buf' = buf /\ phase' = phase
  BY DEF RegisterStep
<1>3. call' \in Calls /\ steps' \in (0..MaxOpCount(side))'
  BY TurnType DEF IInv, RegisterStep
<1>4. faulted' \in Seq(Operations) /\ Len(faulted') <= MaxFaults
  BY FaultType DEF IInv, RegisterStep
<1>. QED BY <1>1, <1>2, <1>3, <1>4 DEF IInv, TypeOK, NeverOverruns

LEMMA ReadPointerIInv == ASSUME IInv, ReadPointer PROVE IInv'
<1>1. PICK fault \in BOOLEAN :
        /\ MayFault(fault)
        /\ ctx' = [Fetched EXCEPT !.pointer_value =
                     IF fault THEN 0 ELSE Word(call.mem, PointerAddr(Fetched))]
  BY DEF ReadPointer
<1>2. ctx' \in Contexts
  <2>1. Fetched \in Contexts /\ Word(call.mem, PointerAddr(Fetched)) \in Nat
    BY FetchType, WordsType DEF IInv
  <2>2. PICK v \in Nat : ctx' = [Fetched EXCEPT !.pointer_value = v]
    BY <1>1, <2>1
  <2>. QED BY <2>1, <2>2 DEF Contexts
<1>3. buf' = buf /\ phase' = phase
  BY DEF ReadPointer
<1>4. call' \in Calls /\ steps' \in (0..MaxOpCount(side))'
  BY TurnType DEF IInv, ReadPointer
<1>5. faulted' \in Seq(Operations) /\ Len(faulted') <= MaxFaults
  BY <1>1, FaultType DEF IInv
<1>. QED BY <1>2, <1>3, <1>4, <1>5 DEF IInv, TypeOK, NeverOverruns

LEMMA ReadStdStringIInv == ASSUME IInv, ReadStdString PROVE IInv'
<1>1. Fetched \in Contexts /\ Fetched.read_addr \in Int
  BY FetchType, ContextFields DEF IInv
<1>2. PICK a \in Int, fault \in BOOLEAN :
        /\ ctx' = [Fetched EXCEPT !.read_addr = a]
        /\ NoFault \/ MayFault(fault)
  <2>1. Fetched.read_addr + 1 \in Int /\ 0 \in Int
          /\ Word(call.mem, Fetched.read_addr + 16) \in Int
    BY <1>1, WordsType DEF IInv
  <2>. QED BY <2>1 DEF ReadStdString
<1>3. ctx' \in Contexts
  BY <1>1, <1>2 DEF Contexts
<1>4. buf' = buf /\ phase' = phase
  BY DEF ReadStdString
<1>5. call' \in Calls /\ steps' \in (0..MaxOpCount(side))'
  BY TurnType DEF IInv, ReadStdString
<1>6. faulted' \in Seq(Operations) /\ Len(faulted') <= MaxFaults
  BY <1>2, FaultType DEF IInv
<1>. QED BY <1>3, <1>4, <1>5, <1>6 DEF IInv, TypeOK, NeverOverruns

LEMMA ForBreakIInv == ASSUME IInv, ForBreak PROVE IInv'
<1>. DEFINE c == Fetched
            at == IF c.loop_count = 0 THEN c.op_key_index ELSE c.loop_index
<1>1. c \in Contexts /\ at \in Nat
  BY FetchType, ContextFields DEF IInv
<1>2. ctx' \in Contexts
  <2>. HIDE DEF c, at
  <2>1. c.loop_count \in 0..MAX_LOOP_COUNT /\ c.break_count \in 0..MAX_LOOP_COUNT
    BY <1>1, ContextFields
  <2>2. CASE c.loop_count >= c.break_count
    <3>1. ctx' = [c EXCEPT !.loop_count = 0, !.break_count = 0, !.loop_index = 0]
      BY <2>2 DEF ForBreak, c
    <3>2. 0 \in 0..MAX_LOOP_COUNT /\ 0 \in Nat
      BY DEF MAX_LOOP_COUNT
    <3>. QED BY <1>1, <3>1, <3>2 DEF Contexts
  <2>3. CASE ~(c.loop_count >= c.break_count)
    <3>1. ctx' = [c EXCEPT !.loop_count = c.loop_count + 1,
                           !.loop_index = at, !.op_key_index = at]
      BY <2>3 DEF ForBreak, c, at
    <3>2. c.loop_count + 1 \in 0..MAX_LOOP_COUNT
      BY <2>1, <2>3 DEF MAX_LOOP_COUNT
    <3>. QED BY <1>1, <3>1, <3>2 DEF Contexts
  <2>. QED BY <2>2, <2>3
<1>3. buf' = buf /\ phase' = phase
  BY DEF ForBreak
<1>4. call' \in Calls /\ steps' \in (0..MaxOpCount(side))'
  BY TurnType DEF IInv, ForBreak
<1>5. faulted' \in Seq(Operations) /\ Len(faulted') <= MaxFaults
  BY FaultType DEF IInv, ForBreak
<1>. QED BY <1>2, <1>3, <1>4, <1>5 DEF IInv, TypeOK, NeverOverruns

LEMMA SaveRawIInv == ASSUME IInv, SaveRaw PROVE IInv'
<1>1. ctx \in Contexts /\ buf \in Buffers /\ buf.off <= ARGS_BUF_SIZE
  BY DEF IInv, TypeOK, NeverOverruns
<1>2. PICK value \in Int : buf' = save_to_submit_buf(buf, value)
  <2>1. ctx.read_addr \in Int /\ ctx.reg_value \in Int /\ ctx.pointer_value \in Int
    BY <1>1, ContextFields
  <2>2. Code \in {"SAVE_ADDR", "SAVE_REG", "SAVE_POINTER"}
    BY DEF SaveRaw, Turn
  <2>. QED BY <2>1, <2>2 DEF SaveRaw
<1>3. buf' \in Buffers /\ buf'.off <= ARGS_BUF_SIZE
  BY <1>1, <1>2, RawSaved
<1>4. ctx' \in Contexts /\ phase' = phase
  BY FetchType DEF IInv, SaveRaw
<1>5. call' \in Calls /\ steps' \in (0..MaxOpCount(side))'
  BY TurnType DEF IInv, SaveRaw
<1>6. faulted' \in Seq(Operations) /\ Len(faulted') <= MaxFaults
  BY FaultType DEF IInv, SaveRaw
<1>. QED BY <1>3, <1>4, <1>5, <1>6 DEF IInv, TypeOK, NeverOverruns

LEMMA SaveStructIInv == ASSUME IInv, SaveStruct PROVE IInv'
<1>. DEFINE c == Fetched
            many == IF c.op.pre = "SET_READ_COUNT" THEN c.read_len * c.op.value
                    ELSE c.read_len
            n == Least(many, MAX_BYTES_ARR_SIZE)
<1>1. c \in Contexts /\ c.read_addr \in Int /\ buf \in Buffers /\ buf.off <= ARGS_BUF_SIZE
  BY FetchType, ContextFields DEF IInv, TypeOK, NeverOverruns
<1>2. n \in 0..MAX_BYTES_ARR_SIZE /\ n \in Nat
  <2>1. many \in Nat
    <3>1. c.read_len \in Nat /\ c.op.value \in Nat
      BY <1>1, ContextFields
    <3>2. c.read_len * c.op.value \in Nat
      BY <3>1
    <3>. QED BY <3>1, <3>2
  <2>. HIDE DEF many
  <2>. QED BY <2>1 DEF Least, MAX_BYTES_ARR_SIZE
<1>3. PICK fault \in BOOLEAN :
        /\ MayFault(fault)
        /\ buf' = save_bytes_to_buf(buf, "bytes",
                    IF fault \/ c.read_addr = 0 THEN 0 ELSE n, n, c.read_addr)
  BY DEF SaveStruct
<1>4. ctx' = [c EXCEPT !.read_len = n] /\ phase' = phase
  BY DEF SaveStruct
<1>. HIDE DEF c, many, n
<1>5. buf' \in Buffers /\ buf'.off <= ARGS_BUF_SIZE
  <2>. DEFINE len == IF fault \/ c.read_addr = 0 THEN 0 ELSE n
  <2>1. len \in 0..MAX_BYTES_ARR_SIZE
    BY <1>2 DEF MAX_BYTES_ARR_SIZE
  <2>2. buf' = save_bytes_to_buf(buf, "bytes", len, n, c.read_addr)
    BY <1>3
  <2>. HIDE DEF len
  <2>. QED BY <1>1, <1>2, <2>1, <2>2, BytesSaved
<1>6. ctx' \in Contexts
  BY <1>1, <1>2, <1>4 DEF Contexts
<1>7. call' \in Calls /\ steps' \in (0..MaxOpCount(side))'
  BY TurnType DEF IInv, SaveStruct
<1>8. faulted' \in Seq(Operations) /\ Len(faulted') <= MaxFaults
  BY <1>3, FaultType DEF IInv
<1>. QED BY <1>4, <1>5, <1>6, <1>7, <1>8 DEF IInv, TypeOK, NeverOverruns

(* An empty piece always has the size it needs.                            *)
LEMMA EmptySaved ==
  ASSUME NEW b \in Buffers, b.off <= ARGS_BUF_SIZE,
         NEW kind \in {"bytes", "end"}, NEW at \in Int
  PROVE  /\ save_bytes_to_buf(b, kind, 0, 0, at) \in Buffers
         /\ save_bytes_to_buf(b, kind, 0, 0, at).off <= ARGS_BUF_SIZE
<1>1. 0 \in 0..MAX_BYTES_ARR_SIZE /\ 0 \in Nat
  BY DEF MAX_BYTES_ARR_SIZE
<1>. QED BY <1>1, BytesSaved

LEMMA SaveStringIInv == ASSUME IInv, SaveString PROVE IInv'
<1>1. /\ call \in Calls /\ ctx \in Contexts /\ ctx.read_addr \in Int
      /\ buf \in Buffers /\ buf.off <= ARGS_BUF_SIZE
  BY ContextFields DEF IInv, TypeOK, NeverOverruns
<1>2. PICK fault \in BOOLEAN :
        /\ MayFault(fault)
        /\ buf' = IF ~fault /\ CanSaveText(buf, Code, ctx.read_addr)
                  THEN SaveText(buf, Code, ctx.read_addr)
                  ELSE save_bytes_to_buf(buf, "bytes", 0, 0, ctx.read_addr)
  BY DEF SaveString
<1>3. buf' \in Buffers /\ buf'.off <= ARGS_BUF_SIZE
  <2>1. CASE ~fault /\ CanSaveText(buf, Code, ctx.read_addr)
    BY <1>1, <1>2, <2>1, TextSaved
  <2>2. CASE ~(~fault /\ CanSaveText(buf, Code, ctx.read_addr))
    BY <1>1, <1>2, <2>2, EmptySaved
  <2>. QED BY <2>1, <2>2
<1>4. ctx' \in Contexts /\ phase' = phase
  BY FetchType DEF IInv, SaveString
<1>5. call' \in Calls /\ steps' \in (0..MaxOpCount(side))'
  BY TurnType DEF IInv, SaveString
<1>6. faulted' \in Seq(Operations) /\ Len(faulted') <= MaxFaults
  BY <1>2, FaultType DEF IInv
<1>. QED BY <1>3, <1>4, <1>5, <1>6 DEF IInv, TypeOK, NeverOverruns

LEMMA SavePtrStringIInv == ASSUME IInv, SavePtrString PROVE IInv'
<1>1. /\ call \in Calls /\ Fetched \in Contexts
      /\ buf \in Buffers /\ buf.off <= ARGS_BUF_SIZE
  BY FetchType DEF IInv, TypeOK, NeverOverruns
<1>2. PICK ptr \in Nat, broken \in {"none", "pointer", "text"} :
        LET b == save_to_submit_buf(buf, ptr)
        IN /\ MayFault(broken # "none")
           /\ IF broken # "text" /\ CanSaveText(b, Code, ptr)
              THEN buf' = SaveText(b, Code, ptr) /\ ctx' = Fetched
              ELSE /\ buf' = save_bytes_to_buf(b, "end", 0, 0, ptr)
                   /\ ctx' = [Fetched EXCEPT !.loop_count = Fetched.break_count]
  <2>1. Word(call.mem, Fetched.read_addr) \in Nat /\ 0 \in Nat
    BY WordsType DEF IInv
  <2>. QED BY <2>1 DEF SavePtrString
<1>. DEFINE b == save_to_submit_buf(buf, ptr)
<1>3. b \in Buffers /\ b.off <= ARGS_BUF_SIZE
  BY <1>1, RawSaved
<1>4. buf' \in Buffers /\ buf'.off <= ARGS_BUF_SIZE /\ ctx' \in Contexts
  <2>1. CASE broken # "text" /\ CanSaveText(b, Code, ptr)
    <3>1. buf' = SaveText(b, Code, ptr) /\ ctx' = Fetched
      BY <1>2, <2>1
    <3>. HIDE DEF b
    <3>. QED BY <1>1, <1>3, <2>1, <3>1, TextSaved
  <2>2. CASE ~(broken # "text" /\ CanSaveText(b, Code, ptr))
    <3>1. /\ buf' = save_bytes_to_buf(b, "end", 0, 0, ptr)
          /\ ctx' = [Fetched EXCEPT !.loop_count = Fetched.break_count]
      BY <1>2, <2>2
    <3>2. Fetched.break_count \in 0..MAX_LOOP_COUNT
      BY <1>1, ContextFields
    <3>3. ctx' \in Contexts
      BY <1>1, <3>1, <3>2 DEF Contexts
    <3>. HIDE DEF b
    <3>. QED BY <1>3, <3>1, <3>3, EmptySaved
  <2>. QED BY <2>1, <2>2
<1>5. phase' = phase
  BY DEF SavePtrString
<1>6. call' \in Calls /\ steps' \in (0..MaxOpCount(side))'
  BY TurnType DEF IInv, SavePtrString
<1>7. faulted' \in Seq(Operations) /\ Len(faulted') <= MaxFaults
  <2>1. (broken # "none") \in BOOLEAN
    OBVIOUS
  <2>. QED BY <1>2, <2>1, FaultType DEF IInv
<1>. QED BY <1>4, <1>5, <1>6, <1>7 DEF IInv, TypeOK, NeverOverruns

LEMMA ApplyFilterIInv == ASSUME IInv, ApplyFilter PROVE IInv'
<1>1. ctx' \in Contexts
  <2>1. Fetched \in Contexts
    BY FetchType DEF IInv
  <2>2. PICK f \in BOOLEAN, m \in BOOLEAN :
          ctx' = [Fetched EXCEPT !.apply_filter = f, !.match_whitelist = m]
    BY <2>1, ContextFields DEF ApplyFilter
  <2>. QED BY <2>1, <2>2 DEF Contexts
<1>2. buf' = buf /\ phase' \in {"read", "sent", "skipped"}
  BY DEF ApplyFilter
<1>3. call' \in Calls /\ steps' \in (0..MaxOpCount(side))'
  BY TurnType DEF IInv, ApplyFilter
<1>4. faulted' \in Seq(Operations) /\ Len(faulted') <= MaxFaults
  BY FaultType DEF IInv, ApplyFilter
<1>. QED BY <1>1, <1>2, <1>3, <1>4 DEF IInv, TypeOK, NeverOverruns

(* The event is sent as it is, or with the value returned behind it.       *)
LEMMA SubmittedType ==
  ASSUME IInv
  PROVE  Submitted \in Buffers /\ Submitted.off <= ARGS_BUF_SIZE
BY RawSaved DEF IInv, TypeOK, NeverOverruns, Submitted

LEMMA GivesUpIInv == ASSUME IInv, GivesUp PROVE IInv'
<1>1. buf' \in Buffers /\ buf'.off <= ARGS_BUF_SIZE /\ phase' = "sent"
  BY SubmittedType DEF GivesUp
<1>2. ctx' \in Contexts
  BY FetchType DEF IInv, GivesUp
<1>3. call' \in Calls /\ steps' \in (0..MaxOpCount(side))'
  BY TurnType DEF IInv, GivesUp
<1>4. faulted' \in Seq(Operations) /\ Len(faulted') <= MaxFaults
  BY FaultType DEF IInv, GivesUp
<1>. QED BY <1>1, <1>2, <1>3, <1>4 DEF IInv, TypeOK, NeverOverruns

LEMMA ReadEndsIInv == ASSUME IInv, ReadEnds PROVE IInv'
<1>1. buf' \in Buffers /\ buf'.off <= ARGS_BUF_SIZE
  BY SubmittedType DEF ReadEnds, IInv, TypeOK, NeverOverruns
<1>2. phase' \in {"sent", "skipped"} /\ UNCHANGED <<call, ctx, steps, faulted>>
  BY DEF ReadEnds
<1>3. (MaxOpCount(side))' = MaxOpCount(side)
  BY <1>2 DEF MaxOpCount, side
<1>. QED BY <1>1, <1>2, <1>3 DEF IInv, TypeOK, NeverOverruns

LEMMA NextIInv == ASSUME IInv, [Next]_vars PROVE IInv'
<1>1. CASE UNCHANGED vars
  <2>1. (MaxOpCount(side))' = MaxOpCount(side)
    BY <1>1 DEF vars, MaxOpCount, side
  <2>. QED BY <1>1, <2>1 DEF vars, IInv, TypeOK, NeverOverruns
<1>2. CASE Next
  BY <1>2, RegisterStepIInv, ReadPointerIInv, ReadStdStringIInv, ForBreakIInv,
     SaveRawIInv, SaveStructIInv, SaveStringIInv, SavePtrStringIInv,
     ApplyFilterIInv, GivesUpIInv, ReadEndsIInv DEF Next
<1>. QED BY <1>1, <1>2

LEMMA InvariantHolds == Spec => []IInv
BY InitIInv, NextIInv, PTL DEF Spec

-----------------------------------------------------------------------------
(* For any calls, with any operations: the state of read_args stays within *)
(* its types; the loop counters of op_ctx_t, bytes, never pass 32, nor the *)
(* turns MAX_OP_COUNT.                                                     *)
THEOREM TypeCorrect == Spec => []TypeOK
BY InvariantHolds, PTL DEF IInv

(* For any calls, with any operations, lengths and failing accesses: the   *)
(* saves of buffer.h never write behind the end of the event buffer.       *)
THEOREM BufferIsNeverOverrun == Spec => []NeverOverruns
BY InvariantHolds, PTL DEF IInv

-----------------------------------------------------------------------------
(* How a list of lists is put together, by an induction over numbers.      *)

LEMMA LeastExists ==
  ASSUME NEW T \in SUBSET Nat, T # {}
  PROVE  \E m \in T : \A n \in T : m <= n
<1> DEFINE R == OpToRel(<, Nat)
<1>1. IsWellFoundedOn(R, Nat)
  BY NatLessThanWellFounded, Zenon
<1> HIDE DEF R
<1>2. \E x \in T : \A y \in T : ~(<<y, x>> \in R)
  BY <1>1, WFMin, Zenon
<1>3. \A x, y \in Nat : <<y, x>> \in R <=> y < x
  BY DEF R, OpToRel
<1>4. PICK m \in T : \A n \in T : ~(<<n, m>> \in R)
  BY <1>2
<1>5. \A n \in T : ~(n < m)
  BY <1>3, <1>4
<1> HIDE <1>4, <1>3
<1>6. \A n \in T : n \in Nat /\ m \in Nat
  OBVIOUS
<1>7. \A n \in T : m <= n
  BY <1>5, <1>6
<1> QED
  BY <1>7, Zenon

(* Induction up to n, over a set of numbers.                               *)
LEMMA UpTo ==
  ASSUME NEW n \in Nat, NEW T, 0 \in T, \A k \in 0..(n - 1) : k \in T => k + 1 \in T
  PROVE  \A k \in 0..n : k \in T
<1>1. SUFFICES ASSUME {k \in 0..n : k \notin T} # {} PROVE FALSE
  OBVIOUS
<1>2. PICK m \in {k \in 0..n : k \notin T} : \A k \in {k \in 0..n : k \notin T} : m <= k
  <2>1. {k \in 0..n : k \notin T} \in SUBSET Nat
    OBVIOUS
  <2> QED
    BY <1>1, <2>1, LeastExists
<1>3. m - 1 \in 0..(n - 1) /\ (m - 1) + 1 = m
  BY <1>2
<1>4. m - 1 \in T
  BY <1>2, <1>3
<1> QED
  BY <1>2, <1>3, <1>4

-----------------------------------------------------------------------------
(* FlattenSeq, one sequence after the other: f has what has been put       *)
(* together so far.                                                        *)
Chain(lists, n, f) ==
  f = [i \in 1..n |-> IF i = 1 THEN lists[i] ELSE f[i - 1] \o lists[i]]

Flat(lists, n) == FlattenSeq(SubSeq(lists, 1, n))

LEMMA ChainStep ==
  ASSUME NEW lists, NEW n \in Nat, NEW f, Chain(lists, n, f)
  PROVE  \E g : Chain(lists, n + 1, g)
<1> DEFINE last == IF n = 0 THEN lists[1] ELSE f[n] \o lists[n + 1]
           g == [i \in 1..(n + 1) |-> IF i = n + 1 THEN last ELSE f[i]]
           h == [i \in 1..(n + 1) |-> IF i = 1 THEN lists[i] ELSE g[i - 1] \o lists[i]]
<1>1. \A i \in 1..n : f[i] = IF i = 1 THEN lists[i] ELSE f[i - 1] \o lists[i]
  BY DEF Chain
<1>2. ASSUME NEW i \in 1..(n + 1) PROVE g[i] = IF i = 1 THEN lists[i] ELSE g[i - 1] \o lists[i]
  <2>1. CASE i = n + 1 /\ n = 0
    BY <2>1
  <2>2. CASE i = n + 1 /\ n # 0
    <3>1. n \in 1..(n + 1) /\ n # n + 1 /\ i # 1 /\ i - 1 = n
      BY <2>2
    <3>2. g[n] = f[n]
      BY <3>1
    <3>3. g[i] = f[n] \o lists[n + 1]
      BY <2>2
    <3> HIDE DEF g
    <3> QED
      BY <2>2, <3>1, <3>2, <3>3
  <2>3. CASE i # n + 1
    <3>1. i \in 1..n /\ g[i] = f[i]
      BY <2>3
    <3>2. i # 1 => i - 1 \in 1..(n + 1) /\ i - 1 # n + 1
      BY <3>1
    <3>3. i # 1 => g[i - 1] = f[i - 1]
      BY <3>2
    <3> HIDE DEF g
    <3> QED
      BY <1>1, <3>1, <3>3
  <2> QED
    BY <2>1, <2>2, <2>3
<1>3. g = h
  <2> HIDE DEF last
  <2>1. DOMAIN g = 1..(n + 1) /\ g = [i \in 1..(n + 1) |-> g[i]]
    OBVIOUS
  <2>2. \A i \in 1..(n + 1) : g[i] = h[i]
    BY <1>2
  <2> HIDE DEF g
  <2> QED
    BY <2>1, <2>2
<1> QED
  BY <1>3 DEF Chain

LEMMA ChainExists ==
  ASSUME NEW lists, NEW n \in Nat
  PROVE  \E f : Chain(lists, n, f)
<1> DEFINE T == {k \in 0..n : \E f : Chain(lists, k, f)}
<1>1. 0 \in T
  <2>1. Chain(lists, 0, <<>>)
    BY DEF Chain
  <2> QED
    BY <2>1
<1>2. \A k \in 0..(n - 1) : k \in T => k + 1 \in T
  <2>1. \A k \in 0..(n - 1) : k \in Nat /\ k + 1 \in 0..n
    OBVIOUS
  <2> QED
    BY <2>1, ChainStep
<1> HIDE DEF T
<1>3. n \in T
  BY <1>1, <1>2, UpTo
<1> QED
  BY <1>3 DEF T

(* Two of them agree as far as their sequences do.                         *)
LEMMA ChainsAgree ==
  ASSUME NEW l, NEW m, NEW n \in Nat, NEW k \in Nat, NEW f, NEW g, n <= k,
         Chain(l, n, f), Chain(m, k, g), \A i \in 1..n : l[i] = m[i]
  PROVE  \A i \in 1..n : f[i] = g[i]
<1> DEFINE T == {j \in 0..n : j > 0 => f[j] = g[j]}
<1>1. 0 \in T
  OBVIOUS
<1>2. ASSUME NEW j \in 0..(n - 1), j \in T PROVE j + 1 \in T
  <2>1. j + 1 \in 1..n /\ j + 1 \in 1..k /\ j + 1 > 0 /\ j + 1 \in 0..n
    OBVIOUS
  <2>2. f[j + 1] = IF j + 1 = 1 THEN l[j + 1] ELSE f[(j + 1) - 1] \o l[j + 1]
    BY <2>1 DEF Chain
  <2>3. g[j + 1] = IF j + 1 = 1 THEN m[j + 1] ELSE g[(j + 1) - 1] \o m[j + 1]
    BY <2>1 DEF Chain
  <2>4. l[j + 1] = m[j + 1]
    BY <2>1
  <2>5. CASE j = 0
    BY <2>1, <2>2, <2>3, <2>4, <2>5
  <2>6. CASE j > 0
    <3>1. f[j] = g[j] /\ (j + 1) - 1 = j /\ j + 1 # 1
      BY <1>2, <2>6
    <3>2. f[j + 1] = f[j] \o l[j + 1] /\ g[j + 1] = g[j] \o m[j + 1]
      BY <2>2, <2>3, <3>1
    <3> QED
      BY <2>1, <2>4, <3>1, <3>2
  <2> QED
    BY <2>5, <2>6
<1> HIDE DEF T
<1>3. \A j \in 0..n : j \in T
  BY <1>1, <1>2, UpTo
<1> QED
  BY <1>3 DEF T

LEMMA FlatIsChain ==
  ASSUME NEW S, NEW lists \in Seq(S), NEW f, Chain(lists, Len(lists), f),
         NEW n \in 1..Len(lists)
  PROVE  Flat(lists, n) = f[n]
<1> DEFINE g == CHOOSE x : Chain(SubSeq(lists, 1, n), n, x)
<1>0. PICK front : front = SubSeq(lists, 1, n)
  OBVIOUS
<1>1. Len(front) = n /\ n \in Nat /\ n # 0 /\ n <= Len(lists) /\ Len(lists) \in Nat
  BY <1>0
<1>2. \A i \in 1..n : front[i] = lists[i]
  BY <1>0
<1>3. PICK h : Chain(front, n, h) /\ Flat(lists, n) = h[n]
  <2>1. Chain(front, n, g)
    BY <1>0, <1>1, ChainExists
  <2>2. Flat(lists, n) = g[n]
    BY <1>0, <1>1 DEF Flat, FlattenSeq, Chain
  <2> QED
    BY <2>1, <2>2
<1>4. \A i \in 1..n : h[i] = f[i]
  <2>1. PICK k \in Nat : k = Len(lists)
    BY <1>1
  <2>2. n \in Nat /\ n <= k /\ Chain(front, n, h) /\ Chain(lists, k, f)
    BY <1>1, <1>3, <2>1
  <2>3. \A l, x, y : \A i, j \in Nat :
          i <= j /\ Chain(l, i, x) /\ Chain(lists, j, y) /\ (\A t \in 1..i : l[t] = lists[t])
            => \A t \in 1..i : x[t] = y[t]
    BY ONLY ChainsAgree
  <2> QED
    BY <1>2, <2>2, <2>3
<1> QED
  BY <1>1, <1>3, <1>4

(* What FlattenSeq does, sequence by sequence.                             *)
LEMMA FlatSteps ==
  ASSUME NEW S, NEW lists \in Seq(Seq(S))
  PROVE  /\ Flat(lists, 0) = <<>>
         /\ Flat(lists, Len(lists)) = FlattenSeq(lists)
         /\ \A n \in 0..Len(lists) : Flat(lists, n) \in Seq(S)
         /\ \A n \in 0..(Len(lists) - 1) :
              Flat(lists, n + 1) = Flat(lists, n) \o lists[n + 1]
<1>1. Len(lists) \in Nat
  OBVIOUS
<1>2. PICK f : Chain(lists, Len(lists), f)
  BY <1>1, ChainExists
<1>3. \A n \in 1..Len(lists) : Flat(lists, n) = f[n]
  BY <1>2, FlatIsChain
<1>4. Flat(lists, 0) = <<>>
  <2>1. SubSeq(lists, 1, 0) = <<>> /\ Len(<<>>) = 0
    OBVIOUS
  <2> QED
    BY <2>1 DEF Flat, FlattenSeq
<1>5. ASSUME NEW n \in 0..(Len(lists) - 1)
      PROVE  Flat(lists, n + 1) = Flat(lists, n) \o lists[n + 1]
  <2>1. n + 1 \in 1..Len(lists) /\ (n + 1) - 1 = n /\ lists[n + 1] \in Seq(S)
    OBVIOUS
  <2>2. Flat(lists, n + 1) = IF n + 1 = 1 THEN lists[n + 1] ELSE f[(n + 1) - 1] \o lists[n + 1]
    BY <1>2, <1>3, <2>1 DEF Chain
  <2>3. CASE n = 0
    <3>1. Flat(lists, n + 1) = lists[n + 1]
      BY <2>2, <2>3
    <3>2. <<>> \o lists[n + 1] = lists[n + 1]
      BY <2>1
    <3> QED
      BY <1>4, <2>3, <3>1, <3>2
  <2>4. CASE n # 0
    <3>1. n \in 1..Len(lists) /\ n + 1 # 1
      BY <2>4
    <3> QED
      BY <1>3, <2>1, <2>2, <3>1
  <2> QED
    BY <2>3, <2>4
<1>6. \A n \in 0..Len(lists) : Flat(lists, n) \in Seq(S)
  <2> DEFINE T == {n \in 0..Len(lists) : Flat(lists, n) \in Seq(S)}
  <2>1. 0 \in T
    <3>1. <<>> \in Seq(S) /\ 0 \in 0..Len(lists)
      BY <1>1
    <3> QED
      BY <1>4, <3>1
  <2>2. ASSUME NEW n \in 0..(Len(lists) - 1), n \in T PROVE n + 1 \in T
    <3>1. lists[n + 1] \in Seq(S) /\ n + 1 \in 0..Len(lists) /\ Flat(lists, n) \in Seq(S)
      BY <2>2
    <3>2. Flat(lists, n) \o lists[n + 1] \in Seq(S)
      BY <3>1
    <3> QED
      BY <1>5, <3>1, <3>2
  <2> HIDE DEF T
  <2>3. \A n \in 0..Len(lists) : n \in T
    BY <1>1, <2>1, <2>2, UpTo
  <2> QED
    BY <2>3 DEF T
<1>7. Flat(lists, Len(lists)) = FlattenSeq(lists)
  <2>1. SubSeq(lists, 1, Len(lists)) = lists
    OBVIOUS
  <2> QED
    BY <2>1 DEF Flat
<1> QED
  BY <1>4, <1>5, <1>6, <1>7

-----------------------------------------------------------------------------
(* A position of a list is outside of any loop, behind the operations that *)
(* set its count, or in its body.  Passes says how an operation moves on.  *)
Marks == {"out", "armed", "in"}

Passes(op, from, to) ==
  \/ LoopFree(op) /\ (to = from \/ (from = "out" /\ to = "armed"))
  \/ Counts(op) /\ from # "in" /\ to = "armed"
  \/ Stops(op) /\ from = "in" /\ to = "in"
  \/ op = Op("FOR_BREAK") /\ from # "in" /\ to = "in"
  \/ op = Op("FOR_BREAK") /\ from = "in" /\ to = "out"

Walks(list, r) ==
  /\ r \in [0..Len(list) -> Marks] /\ r[0] = "out" /\ r[Len(list)] = "out"
  /\ \A k \in 1..Len(list) : Passes(list[k], r[k - 1], r[k])

LEMMA LoopWalks ==
  ASSUME NEW list \in Seq(Operations), OneLoop(list)
  PROVE  \E r : Walks(list, r)
<1>1. CASE \A k \in DOMAIN list : LoopFree(list[k])
  <2> DEFINE r == [k \in 0..Len(list) |-> "out"]
  <2>1. \A k \in 1..Len(list) : k - 1 \in 0..Len(list) /\ k \in 0..Len(list) /\ k \in DOMAIN list
    OBVIOUS
  <2>2. \A k \in 1..Len(list) : r[k - 1] = "out" /\ r[k] = "out"
    BY <2>1
  <2>3. r \in [0..Len(list) -> Marks] /\ r[0] = "out" /\ r[Len(list)] = "out"
    BY DEF Marks
  <2> HIDE DEF r
  <2>4. Walks(list, r)
    BY <1>1, <2>1, <2>2, <2>3 DEF Walks, Passes
  <2> QED
    BY <2>4
<1>2. CASE ~\A k \in DOMAIN list : LoopFree(list[k])
  <2>1. PICK head \in DOMAIN list, tail \in DOMAIN list :
          /\ head < tail
          /\ list[head] = Op("FOR_BREAK") /\ list[tail] = Op("FOR_BREAK")
          /\ \A k \in DOMAIN list \ {head, tail} :
               \/ LoopFree(list[k])
               \/ Counts(list[k]) /\ k < head
               \/ Stops(list[k]) /\ head < k /\ k < tail
    BY <1>2 DEF OneLoop
  <2> DEFINE r == [k \in 0..Len(list) |-> CASE k = 0 -> "out"
                                            [] 0 < k /\ k < head -> "armed"
                                            [] head <= k /\ k < tail -> "in"
                                            [] OTHER -> "out"]
  <2>2. /\ head \in 1..Len(list) /\ tail \in 1..Len(list) /\ head < tail
        /\ head \in Nat /\ tail \in Nat /\ Len(list) \in Nat
    BY <2>1
  <2>3. ASSUME NEW k \in 0..Len(list)
        PROVE  /\ k = 0 => r[k] = "out"
               /\ 0 < k /\ k < head => r[k] = "armed"
               /\ head <= k /\ k < tail => r[k] = "in"
               /\ tail <= k => r[k] = "out"
               /\ r[k] \in Marks
    BY <2>2 DEF Marks
  <2>4. r \in [0..Len(list) -> Marks] /\ r[0] = "out" /\ r[Len(list)] = "out"
    <3>1. DOMAIN r = 0..Len(list) /\ r = [k \in 0..Len(list) |-> r[k]]
      OBVIOUS
    <3> HIDE DEF r
    <3> QED
      BY <2>2, <2>3, <3>1
  <2> HIDE DEF r
  <2>5. ASSUME NEW k \in 1..Len(list) PROVE Passes(list[k], r[k - 1], r[k])
    <3>1. k \in 0..Len(list) /\ k - 1 \in 0..Len(list) /\ k \in DOMAIN list
      BY <2>2
    <3>2. CASE k < head
      <4>1. r[k] = "armed" /\ r[k - 1] \in {"out", "armed"}
        BY <2>2, <2>3, <3>1, <3>2
      <4>2. LoopFree(list[k]) \/ Counts(list[k])
        BY <2>1, <2>2, <3>1, <3>2
      <4> QED
        BY <4>1, <4>2 DEF Passes
    <3>3. CASE k = head
      <4>1. r[k] = "in" /\ r[k - 1] # "in"
        BY <2>2, <2>3, <3>1, <3>3
      <4> QED
        BY <2>1, <3>3, <4>1 DEF Passes
    <3>4. CASE head < k /\ k < tail
      <4>1. r[k] = "in" /\ r[k - 1] = "in"
        BY <2>2, <2>3, <3>1, <3>4
      <4>2. LoopFree(list[k]) \/ Stops(list[k])
        BY <2>1, <2>2, <3>1, <3>4
      <4> QED
        BY <4>1, <4>2 DEF Passes
    <3>5. CASE k = tail
      <4>1. r[k] = "out" /\ r[k - 1] = "in"
        BY <2>2, <2>3, <3>1, <3>5
      <4> QED
        BY <2>1, <3>5, <4>1 DEF Passes
    <3>6. CASE tail < k
      <4>1. r[k] = "out" /\ r[k - 1] = "out"
        BY <2>2, <2>3, <3>1, <3>6
      <4>2. LoopFree(list[k])
        BY <2>1, <2>2, <3>1, <3>6
      <4> QED
        BY <4>1, <4>2 DEF Passes
    <3> QED
      BY <2>2, <3>2, <3>3, <3>4, <3>5, <3>6
  <2>6. Walks(list, r)
    BY <2>4, <2>5 DEF Walks
  <2> QED
    BY <2>6
<1> QED
  BY <1>1, <1>2

(* A list behind another.                                                  *)
LEMMA WalksOn ==
  ASSUME NEW l \in Seq(Operations), NEW m \in Seq(Operations), NEW r, NEW q,
         Walks(l, r), Walks(m, q)
  PROVE  \E w : Walks(l \o m, w) /\ \A k \in 0..Len(l) : w[k] = r[k]
<1> DEFINE w == [k \in 0..Len(l \o m) |-> IF k <= Len(l) THEN r[k] ELSE q[k - Len(l)]]
<1>1. Len(l \o m) = Len(l) + Len(m) /\ Len(l) \in Nat /\ Len(m) \in Nat
  OBVIOUS
<1>2. \A k \in 0..Len(l) : k \in 0..Len(l \o m) /\ w[k] = r[k]
  BY <1>1
<1>3. ASSUME NEW k \in 0..Len(m) PROVE w[Len(l) + k] = q[k] /\ Len(l) + k \in 0..Len(l \o m)
  <2>1. Len(l) + k \in 0..Len(l \o m)
    BY <1>1
  <2>2. CASE k = 0
    <3>1. w[Len(l)] = r[Len(l)] /\ Len(l) + k = Len(l)
      BY <1>1, <1>2, <2>2
    <3> HIDE DEF w
    <3> QED
      BY <2>1, <2>2, <3>1 DEF Walks
  <2>3. CASE k # 0
    <3>1. ~(Len(l) + k <= Len(l)) /\ (Len(l) + k) - Len(l) = k
      BY <1>1, <2>3
    <3> QED
      BY <2>1, <3>1
  <2> QED
    BY <2>2, <2>3
<1>4. w \in [0..Len(l \o m) -> Marks]
  <2>1. ASSUME NEW k \in 0..Len(l \o m) PROVE w[k] \in Marks
    <3>1. CASE k <= Len(l)
      <4>1. k \in 0..Len(l)
        BY <1>1, <3>1
      <4> HIDE DEF w
      <4> QED
        BY <1>2, <4>1 DEF Walks
    <3>2. CASE ~(k <= Len(l))
      <4>1. k - Len(l) \in 0..Len(m) /\ Len(l) + (k - Len(l)) = k
        BY <1>1, <3>2
      <4> HIDE DEF w
      <4> QED
        BY <1>3, <4>1 DEF Walks
    <3> QED
      BY <3>1, <3>2
  <2>2. w = [k \in 0..Len(l \o m) |-> w[k]]
    OBVIOUS
  <2> HIDE DEF w
  <2> QED
    BY <2>1, <2>2
<1> HIDE DEF w
<1>5. w[0] = "out" /\ w[Len(l \o m)] = "out"
  <2>1. 0 \in 0..Len(l) /\ Len(m) \in 0..Len(m)
    BY <1>1
  <2> QED
    BY <1>1, <1>2, <1>3, <2>1 DEF Walks
<1>6. ASSUME NEW k \in 1..Len(l \o m) PROVE Passes((l \o m)[k], w[k - 1], w[k])
  <2>1. CASE k <= Len(l)
    <3>1. k \in 1..Len(l) /\ k \in 0..Len(l) /\ k - 1 \in 0..Len(l)
      BY <1>1, <2>1
    <3>2. (l \o m)[k] = l[k]
      BY <3>1
    <3> QED
      BY <1>2, <3>1, <3>2 DEF Walks
  <2>2. CASE ~(k <= Len(l))
    <3> DEFINE j == k - Len(l)
    <3>1. j \in 1..Len(m) /\ j \in 0..Len(m) /\ j - 1 \in 0..Len(m)
      BY <1>1, <2>2
    <3>2. Len(l) + j = k /\ Len(l) + (j - 1) = k - 1
      BY <1>1
    <3>3. (l \o m)[k] = m[j]
      BY <1>1, <2>2
    <3> HIDE DEF j
    <3>4. w[k] = q[j] /\ w[k - 1] = q[j - 1]
      BY <1>3, <3>1, <3>2
    <3> QED
      BY <3>1, <3>3, <3>4 DEF Walks
  <2> QED
    BY <2>1, <2>2
<1>7. Walks(l \o m, w)
  BY <1>4, <1>5, <1>6 DEF Walks
<1> QED
  BY <1>2, <1>7

LEMMA FreeWalks ==
  ASSUME NEW list \in Seq(Operations), \A k \in DOMAIN list : LoopFree(list[k])
  PROVE  \E r : Walks(list, r)
BY LoopWalks DEF OneLoop

LEMMA BothWalk ==
  ASSUME NEW l \in Seq(Operations), NEW m \in Seq(Operations),
         \E r : Walks(l, r), \E q : Walks(m, q)
  PROVE  \E w : Walks(l \o m, w)
BY WalksOn

-----------------------------------------------------------------------------
(* The operations of the arguments of a point.                             *)

LEMMA FilterOpsWalk ==
  ASSUME NEW arg, arg.filters \in Seq(Nat), NEW code \in FilterCodes
  PROVE  FilterOps(arg, code) \in Seq(Operations) /\ \E r : Walks(FilterOps(arg, code), r)
<1>1. code \in Codes /\ "SKIP" \in Codes /\ code \notin LoopCodes /\ "SKIP" \notin LoopCodes
  BY DEF FilterCodes, Codes, LoopCodes, CountCodes, StopCodes
<1>2. ASSUME NEW n \in Nat
      PROVE  OpValue(code, n) \in Operations /\ LoopFree(OpValue(code, n))
  BY <1>1 DEF OpValue, Op, Operations, LoopFree
<1>3. /\ DOMAIN FilterOps(arg, code) = DOMAIN arg.filters
      /\ \A k \in DOMAIN arg.filters : FilterOps(arg, code)[k] = OpValue(code, arg.filters[k])
  BY DEF FilterOps
<1>4. FilterOps(arg, code) \in Seq(Operations)
  <2>1. \A k \in DOMAIN arg.filters : OpValue(code, arg.filters[k]) \in Operations
    BY <1>2
  <2>2. DOMAIN arg.filters = 1..Len(arg.filters) /\ Len(arg.filters) \in Nat
    OBVIOUS
  <2> QED
    BY <2>1, <2>2 DEF FilterOps
<1>5. \A k \in DOMAIN FilterOps(arg, code) : LoopFree(FilterOps(arg, code)[k])
  BY <1>2, <1>3
<1> QED
  BY <1>4, <1>5, FreeWalks

LEMMA AddressWalks ==
  ASSUME NEW reg \in Nat
  PROVE  LET list == <<add_read_save_reg(reg), Op("MOVE_REG_VALUE")>>
         IN list \in Seq(Operations) /\ \E r : Walks(list, r)
<1> DEFINE x == add_read_save_reg(reg)
           y == Op("MOVE_REG_VALUE")
<1>1. x \in Operations /\ y \in Operations
  BY DEF add_read_save_reg, ReadReg, Op, Operations, Codes, RegisterCodes
<1>2. LoopFree(x) /\ LoopFree(y)
  BY DEF add_read_save_reg, ReadReg, Op, LoopFree, LoopCodes, CountCodes, StopCodes
<1> HIDE DEF x, y
<1>3. <<x, y>> \in Seq(Operations) /\ \A k \in DOMAIN <<x, y>> : LoopFree(<<x, y>>[k])
  BY <1>1, <1>2
<1>4. \E r : Walks(<<x, y>>, r)
  BY <1>3, FreeWalks
<1> QED
  BY <1>3, <1>4 DEF x, y

(* What an argument adds to the list of its point ends outside of loops.   *)
LEMMA ArgWalks ==
  ASSUME NEW list, ArgsOfPoint(list), NEW i \in DOMAIN list, NEW where
  PROVE  /\ get_op_list(list[i], where) \in Seq(Operations)
         /\ \E r : Walks(get_op_list(list[i], where), r)
<1> DEFINE arg == list[i]
           None == <<>>
           address == IF arg.extra # <<>> THEN arg.extra
                      ELSE <<add_read_save_reg(arg.reg), Op("MOVE_REG_VALUE")>>
           values == IF IsText(arg) \/ IsBuffer(arg) THEN None
                     ELSE FilterOps(arg, "FILTER_VALUE")
           content == CASE IsText(arg)   -> FilterOps(arg, "FILTER_STRING")
                        [] IsBuffer(arg) -> FilterOps(arg, "FILTER_BUFFER")
                        [] OTHER         -> None
           more == IF read_more(arg, where) THEN arg.type.ops \o content ELSE None
<1>1. /\ arg.reg \in Nat /\ arg.filters \in Seq(Nat)
      /\ arg.type.ops \in Seq(Operations) /\ OneLoop(arg.type.ops)
      /\ arg.extra \in Seq(Operations)
      /\ \A k \in DOMAIN arg.extra : LoopFree(arg.extra[k])
  BY DEF ArgsOfPoint
<1>2. None \in Seq(Operations) /\ \E r : Walks(None, r)
  <2>1. None \in Seq(Operations) /\ DOMAIN None = {}
    OBVIOUS
  <2> QED
    BY <2>1, FreeWalks
<1>3. get_op_list(arg, where)
        = IF arg.reg = REG_ARM64_MAX THEN None ELSE address \o values \o more
  BY DEF get_op_list
<1> HIDE DEF arg, None
<1>4. address \in Seq(Operations) /\ \E r : Walks(address, r)
  BY <1>1, FreeWalks, AddressWalks
<1>5. values \in Seq(Operations) /\ \E r : Walks(values, r)
  BY <1>1, <1>2, FilterOpsWalk DEF FilterCodes
<1>6. content \in Seq(Operations) /\ \E r : Walks(content, r)
  BY <1>1, <1>2, FilterOpsWalk DEF FilterCodes
<1>7. more \in Seq(Operations) /\ \E r : Walks(more, r)
  <2> HIDE DEF content
  <2>1. \E r : Walks(arg.type.ops, r)
    BY <1>1, LoopWalks
  <2>2. arg.type.ops \o content \in Seq(Operations)
    BY <1>1, <1>6
  <2>3. \E r : Walks(arg.type.ops \o content, r)
    BY <1>1, <1>6, <2>1, BothWalk
  <2> QED
    BY <1>2, <2>2, <2>3
<1> HIDE DEF address, values, more
<1>8. address \o values \in Seq(Operations) /\ \E r : Walks(address \o values, r)
  BY <1>4, <1>5, BothWalk
<1>9. address \o values \o more \in Seq(Operations) /\ \E r : Walks(address \o values \o more, r)
  <2> DEFINE front == address \o values
  <2>1. front \in Seq(Operations) /\ \E r : Walks(front, r)
    BY <1>8
  <2> HIDE DEF front
  <2>2. front \o more \in Seq(Operations) /\ \E r : Walks(front \o more, r)
    BY <1>7, <2>1, BothWalk
  <2> QED
    BY <2>2 DEF front
<1> QED
  BY <1>2, <1>3, <1>9 DEF arg

(* The whole list: between two arguments it is outside of loops.           *)
LEMMA FlatWalks ==
  ASSUME NEW lists \in Seq(Seq(Operations)), \A i \in DOMAIN lists : \E r : Walks(lists[i], r)
  PROVE  \E w : /\ Walks(FlattenSeq(lists), w)
                /\ \A i \in 0..Len(lists) : w[Len(Flat(lists, i))] = "out"
<1> DEFINE Upto(n, w) == /\ Walks(Flat(lists, n), w)
                         /\ \A i \in 0..n : /\ Len(Flat(lists, i)) <= Len(Flat(lists, n))
                                            /\ w[Len(Flat(lists, i))] = "out"
           T == {n \in 0..Len(lists) : \E w : Upto(n, w)}
<1>1. /\ Flat(lists, 0) = <<>>
      /\ Flat(lists, Len(lists)) = FlattenSeq(lists)
      /\ \A n \in 0..Len(lists) : Flat(lists, n) \in Seq(Operations)
      /\ \A n \in 0..(Len(lists) - 1) : Flat(lists, n + 1) = Flat(lists, n) \o lists[n + 1]
  BY FlatSteps
<1>2. 0 \in T
  <2>1. <<>> \in Seq(Operations) /\ DOMAIN <<>> = {} /\ Len(<<>>) = 0
    OBVIOUS
  <2>2. PICK w : Walks(<<>>, w)
    BY <2>1, FreeWalks
  <2>3. Upto(0, w)
    BY <1>1, <2>1, <2>2 DEF Walks
  <2> HIDE DEF Upto
  <2> QED
    BY <2>3
<1>3. ASSUME NEW n \in 0..(Len(lists) - 1), n \in T PROVE n + 1 \in T
  <2> DEFINE now == Flat(lists, n)
             next == Flat(lists, n + 1)
  <2>1. PICK w : Upto(n, w)
    BY <1>3
  <2>2. n + 1 \in DOMAIN lists /\ n \in 0..Len(lists) /\ n + 1 \in 0..Len(lists)
    OBVIOUS
  <2>3. now \in Seq(Operations) /\ next \in Seq(Operations) /\ next = now \o lists[n + 1]
    BY <1>1, <2>2
  <2>4. lists[n + 1] \in Seq(Operations) /\ \E q : Walks(lists[n + 1], q)
    BY <2>2
  <2> HIDE DEF now, next
  <2>5. Walks(now, w) /\ \A i \in 0..n : Len(Flat(lists, i)) <= Len(now) /\ w[Len(Flat(lists, i))] = "out"
    BY <2>1 DEF now
  <2>6. PICK v : Walks(next, v) /\ \A k \in 0..Len(now) : v[k] = w[k]
    <3>1. PICK q : Walks(lists[n + 1], q)
      BY <2>4
    <3> QED
      BY <2>3, <2>4, <2>5, <3>1, WalksOn
  <2>7. Len(now) <= Len(next)
    BY <2>3, <2>4
  <2>8. ASSUME NEW i \in 0..(n + 1)
        PROVE  Len(Flat(lists, i)) <= Len(next) /\ v[Len(Flat(lists, i))] = "out"
    <3>1. CASE i = n + 1
      <4>1. Flat(lists, i) = next
        BY <3>1 DEF next
      <4> QED
        BY <2>3, <2>6, <4>1 DEF Walks
    <3>2. CASE i # n + 1
      <4>1. i \in 0..n /\ i \in 0..Len(lists)
        BY <3>2
      <4>2. Len(Flat(lists, i)) \in Nat /\ Len(now) \in Nat /\ Len(next) \in Nat
        BY <1>1, <2>3, <4>1
      <4>3. Len(Flat(lists, i)) <= Len(now) /\ w[Len(Flat(lists, i))] = "out"
        BY <2>5, <4>1
      <4>4. Len(Flat(lists, i)) \in 0..Len(now)
        BY <4>2, <4>3
      <4> QED
        BY <2>6, <2>7, <4>2, <4>3, <4>4
    <3> QED
      BY <3>1, <3>2
  <2>9. Upto(n + 1, v)
    BY <2>6, <2>8 DEF next
  <2> HIDE DEF Upto
  <2> QED
    BY <2>2, <2>9
<1> HIDE DEF T
<1>4. Len(lists) \in T
  <2>1. PICK m \in Nat : m = Len(lists)
    OBVIOUS
  <2>2. 0 \in T /\ \A n \in 0..(m - 1) : n \in T => n + 1 \in T
    BY <1>2, <1>3, <2>1
  <2>3. \A n \in 0..m : n \in T
    BY <2>2, UpTo
  <2> QED
    BY <2>1, <2>3
<1> QED
  BY <1>1, <1>4 DEF T

(* The operations of a point, as far as they go, with the ends of its      *)
(* arguments outside of loops.                                             *)
Marked(c, r) ==
  /\ \A k \in 0..Len(c.ops) : r[k] \in Marks
  /\ r[0] = "out"
  /\ \A k \in 1..Len(c.ops) : Passes(c.ops[k], r[k - 1], r[k])
  /\ \A e \in c.ends : e \in 0..Len(c.ops) => r[e] = "out"

LEMMA PointIsMarked ==
  ASSUME NEW c \in Calls
  PROVE  \E r : Marked(c, r)
<1> DEFINE lists == ArgOps(c.args, c.side)
           all == FlattenSeq(lists)
           n == IF Len(all) < MaxOpCount(c.side) THEN Len(all) ELSE MaxOpCount(c.side)
<1>1. /\ ArgsOfPoint(c.args)
      /\ c.ops = SubSeq(all, 1, n)
      /\ c.ends = {Len(Flat(lists, i)) : i \in DOMAIN lists}
  <2>1. ArgsOfPoint(c.args) /\ c.ops = PointOps(c.args, c.side) /\ c.ends = ArgEnds(c.args, c.side)
    BY ArgStreamAssumption
  <2>2. c.ops = SubSeq(all, 1, n)
    BY <2>1 DEF PointOps
  <2>3. DOMAIN lists = DOMAIN c.args
    BY DEF ArgOps
  <2>4. \A i : ArgEnd(c.args, c.side, i) = Len(Flat(lists, i))
    BY DEF ArgEnd, Flat
  <2> HIDE DEF lists
  <2> QED
    BY <2>1, <2>2, <2>3, <2>4 DEF ArgEnds
<1>2. /\ lists \in Seq(Seq(Operations)) /\ DOMAIN lists = 1..Len(lists)
      /\ \A i \in DOMAIN lists : \E r : Walks(lists[i], r)
  <2>1. DOMAIN c.args = 1..Len(c.args) /\ Len(c.args) \in Nat
    BY <1>1 DEF ArgsOfPoint
  <2>2. \A i \in DOMAIN c.args : /\ get_op_list(c.args[i], c.side) \in Seq(Operations)
                                 /\ \E r : Walks(get_op_list(c.args[i], c.side), r)
    BY <1>1, ArgWalks
  <2>3. /\ DOMAIN lists = DOMAIN c.args
        /\ \A i \in DOMAIN c.args : lists[i] = get_op_list(c.args[i], c.side)
    BY DEF ArgOps
  <2>4. lists \in Seq(Seq(Operations))
    BY <2>1, <2>2 DEF ArgOps
  <2> HIDE DEF lists
  <2> QED
    BY <2>2, <2>3, <2>4
<1> HIDE DEF lists
<1>3. PICK w : /\ Walks(all, w)
               /\ \A i \in 0..Len(lists) : w[Len(Flat(lists, i))] = "out"
  BY <1>2, FlatWalks
<1>4. all \in Seq(Operations)
  <2>1. /\ Flat(lists, Len(lists)) = all
        /\ \A i \in 0..Len(lists) : Flat(lists, i) \in Seq(Operations)
    BY <1>2, FlatSteps
  <2>2. Len(lists) \in 0..Len(lists)
    BY <1>2
  <2> QED
    BY <2>1, <2>2
<1>5. n \in 0..Len(all) /\ Len(all) \in Nat
  <2>1. MaxOpCount(c.side) \in Nat /\ Len(all) \in Nat
    BY <1>4 DEF MaxOpCount
  <2> HIDE DEF all
  <2> QED
    BY <2>1
<1> HIDE DEF all, n
<1>6. Len(c.ops) = n /\ \A k \in 1..n : c.ops[k] = all[k]
  BY <1>1, <1>4, <1>5
<1>7. \A k \in 0..n : w[k] \in Marks
  BY <1>3, <1>5 DEF Walks
<1>8. \A k \in 1..n : Passes(c.ops[k], w[k - 1], w[k])
  BY <1>3, <1>5, <1>6 DEF Walks
<1>9. \A e \in c.ends : w[e] = "out"
  <2>1. \A i \in DOMAIN lists : i \in 0..Len(lists)
    BY <1>2
  <2> QED
    BY <1>1, <1>3, <2>1
<1>10. Marked(c, w)
  BY <1>3, <1>6, <1>7, <1>8, <1>9 DEF Marked, Walks
<1> QED
  BY <1>10

-----------------------------------------------------------------------------
(* The types of ArgTypes.                                                  *)

(* The operations of the types, and of those that read an address.         *)
LEMMA OpsOfTypes ==
  ASSUME NEW n \in Nat
  PROVE  /\ \A op \in {Op("SAVE_STRING"), Op("SAVE_STRING16"), Op("READ_IL2CPP_STRING"),
                       Op("READ_STD_STRING"), Op("SAVE_STRUCT"), Op("SET_TMP_VALUE"),
                       Op("MOVE_TMP_VALUE"), Op("READ_POINTER"), Op("MOVE_POINTER_VALUE"),
                       Op("SAVE_REG"), Op("ADD_REG"), Op("SUB_REG"), Op("SAVE_ADDR"),
                       OpValue("ADD_OFFSET", n), OpValue("SUB_OFFSET", n), set_read_len(n),
                       save_struct(n), build_read_reg_len(n), build_read_ptr_len(n),
                       build_read_ptr_addr(n), add_read_move_reg(n)} :
              op \in Operations /\ LoopFree(op)
         /\ \A op \in {OpValue("SET_BREAK_COUNT", n), build_read_reg_break_count(n),
                       build_read_ptr_break_count(n)} : op \in Operations /\ Counts(op)
         /\ \A op \in {Op("SAVE_PTR_STRING"), Op("SAVE_PTR_STRING16")} :
              op \in Operations /\ Stops(op)
         /\ Op("FOR_BREAK") \in Operations
<1> USE DEF Op, OpValue, OpThen, ReadReg, ReadPtr, Operations, Codes, RegisterCodes,
            LoopCodes, CountCodes, StopCodes
<1>1. \A op \in {Op("SAVE_STRING"), Op("SAVE_STRING16"), Op("READ_IL2CPP_STRING"),
                 Op("READ_STD_STRING"), Op("SAVE_STRUCT"), Op("SET_TMP_VALUE"),
                 Op("MOVE_TMP_VALUE"), Op("READ_POINTER"), Op("MOVE_POINTER_VALUE"),
                 Op("SAVE_REG"), Op("ADD_REG"), Op("SUB_REG"), Op("SAVE_ADDR")} :
        op \in Operations /\ LoopFree(op)
  BY DEF LoopFree
<1>2. \A op \in {OpValue("ADD_OFFSET", n), OpValue("SUB_OFFSET", n), set_read_len(n),
                 save_struct(n)} : op \in Operations /\ LoopFree(op)
  BY DEF LoopFree, set_read_len, save_struct
<1>3. \A op \in {build_read_reg_len(n), build_read_ptr_len(n),
                 build_read_ptr_addr(n), add_read_move_reg(n)} : op \in Operations /\ LoopFree(op)
  BY DEF LoopFree, build_read_reg_len, build_read_ptr_len, build_read_ptr_addr, add_read_move_reg
<1>4. \A op \in {OpValue("SET_BREAK_COUNT", n), build_read_reg_break_count(n),
                 build_read_ptr_break_count(n)} : op \in Operations /\ Counts(op)
  BY DEF Counts, build_read_reg_break_count, build_read_ptr_break_count
<1>5. \A op \in {Op("SAVE_PTR_STRING"), Op("SAVE_PTR_STRING16")} : op \in Operations /\ Stops(op)
  BY DEF Stops
<1>6. Op("FOR_BREAK") \in Operations
  OBVIOUS
<1> HIDE DEF Op, OpValue, OpThen, ReadReg, ReadPtr, Operations, Codes, RegisterCodes,
            LoopCodes, CountCodes, StopCodes
<1> QED
  BY <1>1, <1>2, <1>3, <1>4, <1>5, <1>6

Free(list) == list \in Seq(Operations) /\ \A k \in DOMAIN list : LoopFree(list[k])
Fits(list) == list \in Seq(Operations) /\ OneLoop(list)

LEMMA FreeFits == ASSUME NEW list, Free(list) PROVE Fits(list)
BY DEF Free, Fits, OneLoop

LEMMA FreeJoined ==
  ASSUME NEW l, NEW m, Free(l), Free(m)
  PROVE  Free(l \o m)
<1>1. l \in Seq(Operations) /\ m \in Seq(Operations) /\ l \o m \in Seq(Operations)
  BY DEF Free
<1>2. ASSUME NEW k \in DOMAIN (l \o m) PROVE LoopFree((l \o m)[k])
  <2>1. CASE k <= Len(l)
    BY <1>1, <2>1 DEF Free
  <2>2. CASE ~(k <= Len(l))
    <3>1. k - Len(l) \in DOMAIN m /\ (l \o m)[k] = m[k - Len(l)]
      BY <1>1, <2>2
    <3> QED
      BY <3>1 DEF Free
  <2> QED
    BY <2>1, <2>2
<1> QED
  BY <1>1, <1>2 DEF Free

LEMMA FreeThenFits ==
  ASSUME NEW l, NEW m, Free(l), Fits(m)
  PROVE  Fits(l \o m)
<1>1. l \in Seq(Operations) /\ m \in Seq(Operations) /\ l \o m \in Seq(Operations)
  BY DEF Free, Fits
<1>2. CASE \A k \in DOMAIN m : LoopFree(m[k])
  BY <1>1, <1>2, FreeJoined, FreeFits DEF Free
<1>3. CASE ~\A k \in DOMAIN m : LoopFree(m[k])
  <2>1. PICK head \in DOMAIN m, tail \in DOMAIN m :
          /\ head < tail
          /\ m[head] = Op("FOR_BREAK") /\ m[tail] = Op("FOR_BREAK")
          /\ \A k \in DOMAIN m \ {head, tail} :
               \/ LoopFree(m[k])
               \/ Counts(m[k]) /\ k < head
               \/ Stops(m[k]) /\ head < k /\ k < tail
    BY <1>3 DEF Fits, OneLoop
  <2> DEFINE n == Len(l)
             list == l \o m
  <2>2. /\ n \in Nat /\ head \in 1..Len(m) /\ tail \in 1..Len(m) /\ Len(m) \in Nat
        /\ DOMAIN list = 1..(n + Len(m))
    BY <1>1, <2>1
  <2>3. \A k \in 1..n : list[k] = l[k] /\ LoopFree(l[k])
    BY <1>1 DEF Free
  <2>4. \A k \in 1..Len(m) : list[n + k] = m[k] /\ k \in DOMAIN m
    BY <1>1
  <2> HIDE DEF n, list
  <2>5. /\ n + head \in DOMAIN list /\ n + tail \in DOMAIN list /\ n + head < n + tail
        /\ list[n + head] = Op("FOR_BREAK") /\ list[n + tail] = Op("FOR_BREAK")
    BY <2>1, <2>2, <2>4
  <2>6. ASSUME NEW k \in DOMAIN list \ {n + head, n + tail}
        PROVE  \/ LoopFree(list[k])
               \/ Counts(list[k]) /\ k < n + head
               \/ Stops(list[k]) /\ n + head < k /\ k < n + tail
    <3>1. CASE k <= n
      BY <2>2, <2>3, <3>1
    <3>2. CASE ~(k <= n)
      <4>1. PICK j \in 1..Len(m) : k = n + j
        <5>1. k - n \in 1..Len(m) /\ k = n + (k - n)
          BY <2>2, <3>2
        <5> QED
          BY <5>1
      <4>2. list[k] = m[j] /\ j \in DOMAIN m \ {head, tail}
        BY <2>4, <4>1
      <4>3. /\ j < head => k < n + head
            /\ head < j => n + head < k
            /\ j < tail => k < n + tail
        BY <2>2, <4>1
      <4> QED
        BY <2>1, <4>2, <4>3
    <3> QED
      BY <3>1, <3>2
  <2>7. OneLoop(list)
    BY <2>5, <2>6 DEF OneLoop
  <2> QED
    BY <1>1, <2>7 DEF Fits, list
<1> QED
  BY <1>2, <1>3

(* A loop behind the operations that set its count.                        *)
LEMMA LoopFits ==
  ASSUME NEW l \in Seq(Operations), NEW body \in Seq(Operations),
         \A k \in DOMAIN l : LoopFree(l[k]) \/ Counts(l[k]),
         \A k \in DOMAIN body : LoopFree(body[k]) \/ Stops(body[k])
  PROVE  Fits(l \o Loop(body))
<1> DEFINE fb == Op("FOR_BREAK")
           n == Len(l)
           b == Len(body)
           loop == <<fb>> \o body \o <<fb>>
           list == l \o loop
<1>1. n \in Nat /\ b \in Nat /\ fb \in Operations
  BY OpsOfTypes
<1> HIDE DEF fb
<1>2. /\ <<fb>> \o body \in Seq(Operations) /\ Len(<<fb>> \o body) = b + 1
      /\ (<<fb>> \o body)[1] = fb
      /\ \A k \in 1..b : (<<fb>> \o body)[k + 1] = body[k]
  BY <1>1
<1>3. /\ loop \in Seq(Operations) /\ Len(loop) = b + 2
      /\ loop[1] = fb /\ loop[b + 2] = fb
      /\ \A k \in 1..b : loop[k + 1] = body[k]
  <2> DEFINE front == <<fb>> \o body
  <2> HIDE DEF front
  <2>1. front \in Seq(Operations) /\ Len(front) = b + 1 /\ front[1] = fb
        /\ \A k \in 1..b : front[k + 1] = body[k]
    BY <1>2 DEF front
  <2>2. /\ front \o <<fb>> \in Seq(Operations) /\ Len(front \o <<fb>>) = b + 2
        /\ (front \o <<fb>>)[1] = fb /\ (front \o <<fb>>)[b + 2] = fb
        /\ \A k \in 1..b : (front \o <<fb>>)[k + 1] = front[k + 1]
    BY <1>1, <2>1
  <2> QED
    BY <2>1, <2>2 DEF front
<1> HIDE DEF loop
<1>4. /\ list \in Seq(Operations) /\ DOMAIN list = 1..(n + b + 2)
      /\ list[n + 1] = fb /\ list[n + b + 2] = fb
      /\ \A k \in 1..n : list[k] = l[k] /\ k \in DOMAIN l
      /\ \A k \in 1..b : list[n + k + 1] = body[k] /\ k \in DOMAIN body
  <2>1. list \in Seq(Operations) /\ DOMAIN list = 1..(n + b + 2)
    <3>1. list \in Seq(Operations) /\ DOMAIN list = 1..(n + Len(loop))
      <4>1. loop \in Seq(Operations)
        BY <1>3
      <4> QED
        BY <4>1
    <3> HIDE DEF list, n, b
    <3>2. n + Len(loop) = n + b + 2
      BY <1>1, <1>3
    <3> QED
      BY <3>1, <3>2
  <2>2. \A k \in 1..(b + 2) : list[n + k] = loop[k]
    BY <1>1, <1>3
  <2>3. \A k \in 1..n : list[k] = l[k] /\ k \in DOMAIN l
    BY <1>1, <1>3
  <2> HIDE DEF list
  <2>4. list[n + 1] = fb /\ list[n + (b + 2)] = fb
    BY <1>1, <1>3, <2>2
  <2>5. ASSUME NEW k \in 1..b PROVE list[n + k + 1] = body[k] /\ k \in DOMAIN body
    <3>1. k + 1 \in 1..(b + 2) /\ n + k + 1 = n + (k + 1) /\ k \in DOMAIN body
      BY <1>1
    <3> QED
      BY <1>3, <2>2, <3>1
  <2> QED
    BY <1>1, <2>1, <2>3, <2>4, <2>5
<1> HIDE DEF list, n, b
<1>5. ASSUME NEW k \in DOMAIN list \ {n + 1, n + b + 2}
      PROVE  \/ LoopFree(list[k])
             \/ Counts(list[k]) /\ k < n + 1
             \/ Stops(list[k]) /\ n + 1 < k /\ k < n + b + 2
  <2>1. CASE k <= n
    <3>1. k \in 1..n /\ k < n + 1
      BY <1>1, <1>4, <2>1
    <3> QED
      BY <1>4, <3>1
  <2>2. CASE ~(k <= n)
    <3>1. PICK j \in 1..b : k = n + j + 1
      <4>1. k - n - 1 \in 1..b /\ k = n + (k - n - 1) + 1
        BY <1>1, <1>4, <2>2
      <4> QED
        BY <4>1
    <3>2. n + 1 < k /\ k < n + b + 2
      BY <1>1, <3>1
    <3> QED
      BY <1>4, <3>1, <3>2
  <2> QED
    BY <2>1, <2>2
<1>6. n + 1 \in DOMAIN list /\ n + b + 2 \in DOMAIN list /\ n + 1 < n + b + 2
  BY <1>1, <1>4
<1>7. OneLoop(list)
  BY <1>4, <1>5, <1>6 DEF OneLoop, fb
<1> QED
  BY <1>4, <1>7 DEF Fits, Loop, list, loop, fb

(* Two sequences put together, element by element.                         *)
LEMMA JoinedSeqs ==
  ASSUME NEW S, NEW s \in Seq(S), NEW t \in Seq(S)
  PROVE  /\ s \o t \in Seq(S) /\ Len(s \o t) = Len(s) + Len(t)
         /\ \A i \in 1..Len(s) : (s \o t)[i] = s[i]
         /\ \A i \in 1..Len(t) : (s \o t)[Len(s) + i] = t[i]
OBVIOUS
LEMMA SameSeq ==
  ASSUME NEW S, NEW s \in Seq(S), NEW t \in Seq(S), Len(s) = Len(t),
         \A i \in 1..Len(s) : s[i] = t[i]
  PROVE  s = t
OBVIOUS
(* A loop of two operations behind the one that sets its count.            *)
LEMMA LoopOfTwo ==
  ASSUME NEW S, NEW a \in S, NEW b \in S, NEW c \in S, NEW d \in S
  PROVE  <<a>> \o (<<b>> \o <<c, d>> \o <<b>>) = <<a, b, c, d, b>>
<1>1. /\ <<a>> \in Seq(S) /\ Len(<<a>>) = 1 /\ <<a>>[1] = a
      /\ <<b>> \in Seq(S) /\ Len(<<b>>) = 1 /\ <<b>>[1] = b
  OBVIOUS
<1>2. <<c, d>> \in Seq(S) /\ Len(<<c, d>>) = 2 /\ <<c, d>>[1] = c /\ <<c, d>>[2] = d
  OBVIOUS
<1>3. /\ <<a, b, c, d, b>> \in Seq(S) /\ Len(<<a, b, c, d, b>>) = 5
      /\ <<a, b, c, d, b>>[1] = a /\ <<a, b, c, d, b>>[2] = b
      /\ <<a, b, c, d, b>>[3] = c /\ <<a, b, c, d, b>>[4] = d
      /\ <<a, b, c, d, b>>[5] = b
  OBVIOUS
<1>4. PICK one, two, three, five :
        one = <<a>> /\ two = <<b>> /\ three = <<c, d>> /\ five = <<a, b, c, d, b>>
  OBVIOUS
<1>5. \A s \in Seq(S) : \A t \in Seq(S) :
         /\ s \o t \in Seq(S) /\ Len(s \o t) = Len(s) + Len(t)
         /\ \A i \in 1..Len(s) : (s \o t)[i] = s[i]
         /\ \A i \in 1..Len(t) : (s \o t)[Len(s) + i] = t[i]
  BY JoinedSeqs
<1>6. \A s \in Seq(S) : \A t \in Seq(S) :
         Len(s) = Len(t) /\ (\A i \in 1..Len(s) : s[i] = t[i]) => s = t
  BY SameSeq
<1>7. PICK u : u = two \o three
  OBVIOUS
<1>8. u \in Seq(S) /\ Len(u) = 3 /\ u[1] = b /\ u[2] = c /\ u[3] = d
  BY <1>1, <1>2, <1>4, <1>5, <1>7
<1>9. PICK v : v = u \o two
  OBVIOUS
<1>10. v \in Seq(S) /\ Len(v) = 4 /\ v[1] = b /\ v[2] = c /\ v[3] = d /\ v[4] = b
  <2>0. /\ u \o two \in Seq(S) /\ Len(u \o two) = Len(u) + Len(two)
        /\ \A i \in 1..Len(u) : (u \o two)[i] = u[i]
        /\ \A i \in 1..Len(two) : (u \o two)[Len(u) + i] = two[i]
    BY <1>1, <1>4, <1>5, <1>8, Zenon
  <2>1. v \in Seq(S) /\ Len(v) = 4
    BY <1>1, <1>4, <1>8, <1>9, <2>0
  <2>2. \A i \in 1..3 : v[i] = u[i]
    BY <1>1, <1>4, <1>8, <1>9, <2>0
  <2>3. \A i \in 1..1 : v[3 + i] = two[i]
    BY <1>1, <1>4, <1>8, <1>9, <2>0
  <2>4. 1 \in 1..1 /\ 3 + 1 = 4 /\ 1 \in 1..3 /\ 2 \in 1..3 /\ 3 \in 1..3
    OBVIOUS
  <2> QED
    BY <1>1, <1>4, <1>8, <2>1, <2>2, <2>3, <2>4
<1>11. PICK w : w = one \o v
  OBVIOUS
<1>12. /\ w \in Seq(S) /\ Len(w) = 5
       /\ w[1] = a /\ w[2] = b /\ w[3] = c /\ w[4] = d /\ w[5] = b
  <2>0. /\ one \o v \in Seq(S) /\ Len(one \o v) = Len(one) + Len(v)
        /\ \A i \in 1..Len(one) : (one \o v)[i] = one[i]
        /\ \A i \in 1..Len(v) : (one \o v)[Len(one) + i] = v[i]
    BY <1>1, <1>4, <1>5, <1>10, Zenon
  <2>1. w \in Seq(S) /\ Len(w) = 5 /\ w[1] = a
    BY <1>1, <1>4, <1>10, <1>11, <2>0
  <2>2. \A i \in 1..4 : w[1 + i] = v[i]
    BY <1>1, <1>4, <1>10, <1>11, <2>0
  <2>3. /\ 1 + 1 = 2 /\ 1 + 2 = 3 /\ 1 + 3 = 4 /\ 1 + 4 = 5
        /\ 1 \in 1..4 /\ 2 \in 1..4 /\ 3 \in 1..4 /\ 4 \in 1..4
    OBVIOUS
  <2> QED
    BY <1>10, <2>1, <2>2, <2>3
<1>13. w = five
  <2>1. \A i \in 1..5 : i = 1 \/ i = 2 \/ i = 3 \/ i = 4 \/ i = 5
    OBVIOUS
  <2>2. \A i \in 1..5 : w[i] = five[i]
    BY <1>3, <1>4, <1>12, <2>1
  <2> QED
    BY <1>3, <1>4, <1>6, <1>12, <2>2
<1> QED
  BY <1>4, <1>7, <1>9, <1>11, <1>13, Zenon
(* What every call assumes of its types: each type of argtype (ArgTypes)   *)
(* registers operations with at most one loop, whatever sizes, registers   *)
(* and pointees it is given.                                               *)
THEOREM TypesHaveOneLoop ==
  ASSUME NEW n \in Nat, NEW name, NEW t, "ops" \in DOMAIN t, Fits(t.ops)
  PROVE  \A type \in {NumType, PtrType, StringType, String16Type, Il2cppType, StdType,
                         BufferLenType(n), BufferRegType(n), StructType(name, n), ArrayType(n),
                         PointerType(t), HexOf(t), StringArrayType, String16ArrayType,
                         IovecType, IovecRegType(n), MsghdrType} : Fits(type.ops)
<1> DEFINE None == <<>>
<1>0. None \in Seq(Operations) /\ DOMAIN None = {}
  OBVIOUS
<1>1. ASSUME NEW op \in Operations, LoopFree(op)
      PROVE  Free(<<op>>)
  BY <1>1 DEF Free
<1>2. ASSUME NEW op \in Operations, LoopFree(op), NEW list, Free(list)
      PROVE  Free(<<op>> \o list)
  BY <1>1, <1>2, FreeJoined
<1>3. Fits(NumType.ops) /\ Fits(PtrType.ops)
  <2>1. NumType.ops = None /\ PtrType.ops = None
    BY DEF NumType, PtrType, Type
  <2> QED
    BY <1>0, <2>1 DEF Fits, OneLoop
<1>4. ASSUME NEW a \in Operations, NEW b \in Operations, LoopFree(a), LoopFree(b)
      PROVE  Free(<<a, b>>)
  BY <1>4 DEF Free
<1>5. /\ Fits(StringType.ops) /\ Fits(String16Type.ops) /\ Fits(Il2cppType.ops)
      /\ Fits(StdType.ops)
  <2>1. /\ StringType.ops = <<Op("SAVE_STRING")>> /\ String16Type.ops = <<Op("SAVE_STRING16")>>
        /\ Il2cppType.ops = <<Op("READ_IL2CPP_STRING"), Op("SAVE_STRING16")>>
        /\ StdType.ops = <<Op("READ_STD_STRING"), Op("SAVE_STRING")>>
    BY DEF StringType, String16Type, Il2cppType, StdType, Type
  <2> QED
    BY <1>1, <1>4, <2>1, OpsOfTypes, FreeFits
<1>6. /\ Fits(BufferLenType(n).ops) /\ Fits(StructType(name, n).ops) /\ Fits(ArrayType(n).ops)
      /\ Fits(BufferRegType(n).ops)
  <2>1. /\ BufferLenType(n).ops = <<set_read_len(n), Op("SAVE_STRUCT")>>
        /\ StructType(name, n).ops = <<set_read_len(n), Op("SAVE_STRUCT")>>
        /\ ArrayType(n).ops = <<save_struct(n)>>
        /\ BufferRegType(n).ops
             = <<set_read_len(MAX_BUF_READ_SIZE), build_read_reg_len(n), Op("SAVE_STRUCT")>>
    BY DEF BufferLenType, BufferRegType, StructType, ArrayType, Type
  <2>2. MAX_BUF_READ_SIZE \in Nat
    BY DEF MAX_BUF_READ_SIZE
  <2>3. Free(<<set_read_len(MAX_BUF_READ_SIZE), build_read_reg_len(n), Op("SAVE_STRUCT")>>)
    <3> DEFINE a == set_read_len(MAX_BUF_READ_SIZE)
               b == build_read_reg_len(n)
               c == Op("SAVE_STRUCT")
    <3>1. /\ a \in Operations /\ b \in Operations /\ c \in Operations
          /\ LoopFree(a) /\ LoopFree(b) /\ LoopFree(c)
      BY <2>2, OpsOfTypes
    <3> HIDE DEF a, b, c
    <3>2. Free(<<a, b, c>>)
      BY <3>1 DEF Free
    <3> QED
      BY <3>2 DEF a, b, c
  <2> QED
    BY <1>1, <1>4, <2>1, <2>3, OpsOfTypes, FreeFits
<1>7. Fits(PointerType(t).ops)
  <2>1. PointerType(t).ops = <<save_struct(8)>> \o t.ops
    BY DEF PointerType, Type
  <2>2. Free(<<save_struct(8)>>)
    BY <1>1, OpsOfTypes
  <2> QED
    BY <2>1, <2>2, FreeThenFits
<1>8. Fits(HexOf(t).ops)
  BY DEF HexOf
<1>9. Fits(StringArrayType.ops) /\ Fits(String16ArrayType.ops)
  <2> DEFINE count == OpValue("SET_BREAK_COUNT", MAX_LOOP_COUNT)
             next == OpValue("ADD_OFFSET", 8)
             all(save) == <<count>> \o Loop(<<save, next>>)
  <2>1. MAX_LOOP_COUNT \in Nat /\ 8 \in Nat
    BY DEF MAX_LOOP_COUNT
  <2>2. /\ count \in Operations /\ Counts(count) /\ next \in Operations /\ LoopFree(next)
        /\ Op("FOR_BREAK") \in Operations
    BY <2>1, OpsOfTypes
  <2>3. StringArrayType.ops = all(Op("SAVE_PTR_STRING"))
    BY DEF StringArrayType, Type
  <2> HIDE DEF count, next
  <2>4. ASSUME NEW save \in Operations
        PROVE  all(save) = <<count, Op("FOR_BREAK"), save, next, Op("FOR_BREAK")>>
    <3> DEFINE fb == Op("FOR_BREAK")
    <3>1. fb \in Operations
      BY <2>2
    <3> HIDE DEF fb
    <3>2. <<count>> \o (<<fb>> \o <<save, next>> \o <<fb>>) = <<count, fb, save, next, fb>>
      BY <2>2, <3>1, LoopOfTwo
    <3> QED
      BY <2>2, <3>1, <3>2 DEF Loop, fb
  <2>5. String16ArrayType.ops = all(Op("SAVE_PTR_STRING16"))
    <3>1. String16ArrayType.ops = [StringArrayType.ops EXCEPT ![3] = Op("SAVE_PTR_STRING16")]
      BY DEF String16ArrayType, StringArrayType, Type
    <3>2. Op("SAVE_PTR_STRING") \in Operations /\ Op("SAVE_PTR_STRING16") \in Operations
      BY <2>1, OpsOfTypes
    <3> HIDE DEF all
    <3> QED
      BY <2>3, <2>4, <3>1, <3>2
  <2>6. ASSUME NEW save \in Operations, Stops(save) PROVE Fits(all(save))
    <3>1. /\ <<count>> \in Seq(Operations) /\ <<save, next>> \in Seq(Operations)
          /\ \A k \in DOMAIN <<count>> : Counts(<<count>>[k])
          /\ \A k \in DOMAIN <<save, next>> : LoopFree(<<save, next>>[k]) \/ Stops(<<save, next>>[k])
      BY <2>2, <2>6
    <3> QED
      BY <3>1, LoopFits
  <2> HIDE DEF all
  <2> QED
    BY <2>1, <2>3, <2>5, <2>6, OpsOfTypes
<1>10. Free(iovec_ops)
  <2> DEFINE a == set_read_len(SIZEOF_IOVEC)
             b == Op("SAVE_STRUCT")
             c == set_read_len(MAX_BUF_READ_SIZE)
             d == build_read_ptr_len(8)
             e == Op("READ_POINTER")
             f == Op("MOVE_POINTER_VALUE")
  <2>1. SIZEOF_IOVEC \in Nat /\ MAX_BUF_READ_SIZE \in Nat /\ 8 \in Nat
    BY DEF SIZEOF_IOVEC, MAX_BUF_READ_SIZE
  <2>2. \A op \in {a, b, c, d, e, f} : op \in Operations /\ LoopFree(op)
    BY <2>1, OpsOfTypes
  <2> HIDE DEF a, b, c, d, e, f
  <2>3. Free(<<a, b, c, d, e, f, b>>)
    BY <2>2 DEF Free
  <2> QED
    BY <2>3 DEF iovec_ops, a, b, c, d, e, f
<1>11. ASSUME NEW l \in Seq(Operations), \A k \in DOMAIN l : LoopFree(l[k]) \/ Counts(l[k])
       PROVE  Fits(l \o IovecLoop)
  <2> DEFINE a == Op("SET_TMP_VALUE")
             b == Op("MOVE_TMP_VALUE")
             c == OpValue("ADD_OFFSET", SIZEOF_IOVEC)
             body == <<a>> \o iovec_ops \o <<b, c>>
  <2>1. SIZEOF_IOVEC \in Nat
    BY DEF SIZEOF_IOVEC
  <2>2. \A op \in {a, b, c} : op \in Operations /\ LoopFree(op)
    BY <2>1, OpsOfTypes
  <2>3. IovecLoop = Loop(body)
    BY DEF IovecLoop
  <2> HIDE DEF a, b, c
  <2>4. Free(<<a>> \o iovec_ops) /\ Free(<<b, c>>)
    BY <1>1, <1>4, <1>10, <2>2, FreeJoined
  <2>5. Free(body)
    BY <2>4, FreeJoined
  <2> HIDE DEF body
  <2> QED
    BY <1>11, <2>3, <2>5, LoopFits DEF Free
<1>12. Fits(IovecType.ops) /\ Fits(IovecRegType(n).ops)
  <2>1. /\ IovecType.ops = iovec_ops
        /\ IovecRegType(n).ops = <<build_read_reg_break_count(n), Op("SAVE_REG")>> \o IovecLoop
    BY DEF IovecType, IovecRegType, Type
  <2> DEFINE a == build_read_reg_break_count(n)
             b == Op("SAVE_REG")
  <2>2. a \in Operations /\ Counts(a) /\ b \in Operations /\ LoopFree(b)
    BY OpsOfTypes
  <2> HIDE DEF a, b
  <2>3. /\ <<a, b>> \in Seq(Operations)
        /\ \A k \in DOMAIN <<a, b>> : LoopFree(<<a, b>>[k]) \/ Counts(<<a, b>>[k])
    BY <2>2
  <2>4. Fits(<<a, b>> \o IovecLoop)
    BY <1>11, <2>3
  <2> QED
    BY <1>10, <2>1, <2>4, FreeFits DEF a, b
<1>13. Fits(MsghdrType.ops)
  <2> DEFINE a == set_read_len(SIZEOF_MSGHDR)
             b == Op("SAVE_STRUCT")
             c == Op("SET_TMP_VALUE")
             d == set_read_len(MAX_BUF_READ_SIZE)
             e == build_read_ptr_len(40)
             f == build_read_ptr_addr(32)
             g == Op("MOVE_TMP_VALUE")
             h == build_read_ptr_break_count(24)
             i == build_read_ptr_addr(16)
             pre == <<a, b, c, d, e, f, b, g, h, i>>
  <2>1. MsghdrType.ops = pre \o IovecLoop
    BY DEF MsghdrType, Type
  <2>2. SIZEOF_MSGHDR \in Nat /\ MAX_BUF_READ_SIZE \in Nat /\ 40 \in Nat /\ 32 \in Nat
        /\ 24 \in Nat /\ 16 \in Nat
    BY DEF SIZEOF_MSGHDR, MAX_BUF_READ_SIZE
  <2>3. \A op \in {a, b, c, d, e, f, g, i} : op \in Operations /\ LoopFree(op)
    BY <2>2, OpsOfTypes
  <2>4. h \in Operations /\ Counts(h)
    BY <2>2, OpsOfTypes
  <2> HIDE DEF a, b, c, d, e, f, g, h, i
  <2>5. pre \in Seq(Operations) /\ \A k \in DOMAIN pre : LoopFree(pre[k]) \/ Counts(pre[k])
    BY <2>3, <2>4
  <2> HIDE DEF pre
  <2> QED
    BY <1>11, <2>1, <2>5
<1> QED
  BY <1>3, <1>5, <1>6, <1>7, <1>8, <1>9, <1>12, <1>13

Terms == [kind : {"first", "+reg", "-reg", "+", "-", "."}, n : Nat]

(* And so for compile_read_op: the operations of a read_op expression have *)
(* nothing to do with loops.                                               *)
THEOREM ReadOpHasNoLoop ==
  ASSUME NEW terms \in Seq(Terms)
  PROVE  Free(ReadOp(terms))
<1> DEFINE lists == [i \in DOMAIN terms |-> ReadOpTerm(terms[i])]
<1>1. ASSUME NEW a \in Operations, NEW b \in Operations, LoopFree(a), LoopFree(b)
      PROVE  Free(<<a>>) /\ Free(<<a, b>>)
  BY <1>1 DEF Free
<1>2. ASSUME NEW i \in DOMAIN terms PROVE Free(ReadOpTerm(terms[i]))
  <2>1. terms[i] \in Terms
    OBVIOUS
  <2>2. PICK kind \in {"first", "+reg", "-reg", "+", "-", "."}, n \in Nat :
          terms[i].kind = kind /\ terms[i].n = n
    BY <2>1 DEF Terms
  <2>3. \A op \in {add_read_move_reg(n), Op("ADD_REG"), Op("SUB_REG"), OpValue("ADD_OFFSET", n),
                   OpValue("SUB_OFFSET", n), Op("READ_POINTER"), Op("MOVE_POINTER_VALUE")} :
          op \in Operations /\ LoopFree(op)
    BY OpsOfTypes
  <2>4. /\ Free(<<add_read_move_reg(n)>>)
        /\ Free(<<add_read_move_reg(n), Op("ADD_REG")>>)
        /\ Free(<<add_read_move_reg(n), Op("SUB_REG")>>)
        /\ Free(<<OpValue("ADD_OFFSET", n)>>) /\ Free(<<OpValue("SUB_OFFSET", n)>>)
        /\ Free(<<Op("READ_POINTER"), Op("MOVE_POINTER_VALUE")>>)
    BY <1>1, <2>3
  <2> QED
    BY <2>2, <2>4 DEF ReadOpTerm
<1>3. lists \in Seq(Seq(Operations)) /\ DOMAIN lists = 1..Len(lists) /\ Len(lists) \in Nat
  <2>1. \A i \in DOMAIN terms : ReadOpTerm(terms[i]) \in Seq(Operations)
    BY <1>2 DEF Free
  <2>2. DOMAIN terms = 1..Len(terms) /\ Len(terms) \in Nat
    OBVIOUS
  <2>3. lists \in Seq(Seq(Operations))
    BY <2>1, <2>2
  <2> HIDE DEF lists
  <2> QED
    BY <2>3
<1>4. \A i \in DOMAIN lists : Free(lists[i])
  BY <1>2
<1> HIDE DEF lists
<1>5. PICK n \in Nat : n = Len(lists)
  BY <1>3
<1>6. /\ Flat(lists, 0) = <<>> /\ Flat(lists, n) = FlattenSeq(lists)
      /\ \A k \in 0..(n - 1) : Flat(lists, k + 1) = Flat(lists, k) \o lists[k + 1]
  BY <1>3, <1>5, FlatSteps
<1>7. Free(FlattenSeq(lists))
  <2> DEFINE T == {k \in 0..n : Free(Flat(lists, k))}
  <2>1. 0 \in T
    <3> DEFINE none == <<>>
    <3>1. none \in Seq(Operations) /\ DOMAIN none = {}
      OBVIOUS
    <3>2. Flat(lists, 0) = none /\ 0 \in 0..n
      BY <1>6
    <3> HIDE DEF none
    <3>3. Free(none)
      BY <3>1 DEF Free
    <3> QED
      BY <3>2, <3>3
  <2>2. ASSUME NEW k \in 0..(n - 1), k \in T PROVE k + 1 \in T
    <3>1. k + 1 \in 0..n /\ k + 1 \in DOMAIN lists
      BY <1>3, <1>5
    <3> QED
      BY <1>4, <1>6, <2>2, <3>1, FreeJoined
  <2> HIDE DEF T
  <2>3. \A k \in 0..n : k \in T
    BY <2>1, <2>2, UpTo
  <2>4. n \in 0..n
    OBVIOUS
  <2>5. n \in T
    BY <2>3, <2>4
  <2> QED
    BY <1>6, <2>5 DEF T
<1>8. Free(<<Op("SAVE_ADDR")>>)
  <2>1. 0 \in Nat
    OBVIOUS
  <2>2. Op("SAVE_ADDR") \in Operations /\ LoopFree(Op("SAVE_ADDR"))
    BY <2>1, OpsOfTypes
  <2> QED
    BY <1>1, <2>2
<1> QED
  BY <1>7, <1>8, FreeJoined DEF ReadOp, lists

-----------------------------------------------------------------------------
(* The state of read_args along a marked list.                             *)

(* Where read_args is in its list: a post operation still to come is that  *)
(* of the operation fetched last, or the NONE of the zeroed op_ctx.        *)
Placed(list, c) ==
  /\ c.op_key_index \in 0..Len(list)
  /\ \/ c.post_code = "SKIP"
     \/ c.op_key_index = 0 /\ c.post_code = "NONE"
     \/ c.op_key_index # 0 /\ c.post_code = list[c.op_key_index].post

(* What the counters of op_ctx say of a loop: nothing, or the turn that    *)
(* runs and a place in the body of the loop to return to.                  *)
Closed(c) == c.loop_count = 0 /\ c.break_count = 0 /\ c.loop_index = 0
Running(list, r, c) ==
  /\ 1 <= c.loop_count /\ c.loop_count <= c.break_count
  /\ c.loop_index \in 0..Len(list) /\ r[c.loop_index] = "in"

Kept(list, r, c) ==
  /\ r[c.op_key_index] = "out" => Closed(c)
  /\ r[c.op_key_index] = "armed" => c.loop_count = 0 /\ c.loop_index = 0
  /\ r[c.op_key_index] = "in" => Closed(c) \/ Running(list, r, c)

LoopInv(r) == Marked(call, r) /\ Placed(ops, ctx) /\ Kept(ops, r, ctx)

SameLoop(c, d) ==
  /\ c.op_key_index = d.op_key_index /\ c.post_code = d.post_code
  /\ c.loop_count = d.loop_count /\ c.break_count = d.break_count
  /\ c.loop_index = d.loop_index

(* What the operation that is executed next may do to the loop.            *)
Quiet(r, c) == Code \notin LoopCodes /\ Kept(ops, r, c)
Counting(r, c) == /\ Code \in CountCodes /\ r[c.op_key_index] = "armed"
                  /\ c.loop_count = 0 /\ c.loop_index = 0
Stopping(r, c) == /\ Code \in StopCodes /\ r[c.op_key_index] = "in"
                  /\ Kept(ops, r, c)
Turning(r, c) ==
  /\ Code = "FOR_BREAK" /\ c.post_code = "SKIP"
  /\ \/ r[c.op_key_index] = "in" /\ c.loop_count = 0 /\ c.loop_index = 0
     \/ r[c.op_key_index] = "out" /\ (Closed(c) \/ Running(ops, r, c))

LEMMA Fetching ==
  ASSUME TypeOK, NEW r, LoopInv(r), Code # "SKIP"
  PROVE  /\ Placed(ops, Fetched)
         /\ \/ Quiet(r, Fetched) \/ Counting(r, Fetched)
            \/ Stopping(r, Fetched) \/ Turning(r, Fetched)
<1> DEFINE k == ctx.op_key_index
<1>1. /\ ops \in Seq(Operations) /\ ctx \in Contexts /\ k \in Nat
      /\ ctx.loop_count \in Nat /\ ctx.break_count \in Nat /\ ctx.loop_index \in Nat
  <2>1. ctx.loop_count \in 0..MAX_LOOP_COUNT /\ ctx.break_count \in 0..MAX_LOOP_COUNT
    BY ContextFields DEF TypeOK
  <2>2. ops \in Seq(Operations) /\ ctx \in Contexts
    BY CallTypes DEF TypeOK, ops
  <2>3. ctx.loop_count \in Nat /\ ctx.break_count \in Nat
    BY <2>1 DEF MAX_LOOP_COUNT
  <2> QED
    BY <2>2, <2>3, ContextFields
<1>2. /\ k \in 0..Len(ops) /\ r[k] \in Marks
      /\ \A j \in 1..Len(ops) : Passes(ops[j], r[j - 1], r[j])
      /\ r[0] = "out" /\ Kept(ops, r, ctx)
  BY DEF LoopInv, Marked, Placed, ops
<1>3. CASE HasPost
  <2>1. /\ Code = ctx.post_code /\ Fetched = [ctx EXCEPT !.post_code = "SKIP"]
        /\ SameLoop([Fetched EXCEPT !.post_code = ctx.post_code], ctx)
        /\ Fetched.post_code = "SKIP"
    BY <1>1, <1>3 DEF Code, Fetched, SameLoop, Contexts
  <2>2. Fetched.op_key_index = k /\ Placed(ops, Fetched)
    BY <1>1, <1>2, <2>1 DEF Placed, Contexts
  <2>3. /\ Fetched.loop_count = ctx.loop_count /\ Fetched.break_count = ctx.break_count
        /\ Fetched.loop_index = ctx.loop_index
    BY <1>1, <2>1 DEF Contexts
  <2>4. Kept(ops, r, Fetched)
    BY <1>2, <2>2, <2>3 DEF Kept, Closed, Running
  <2>5. CASE Code = "NONE"
    <3>1. "NONE" \notin LoopCodes
      BY DEF LoopCodes, CountCodes, StopCodes
    <3> QED
      BY <2>2, <2>4, <2>5, <3>1 DEF Quiet
  <2>6. CASE Code # "NONE"
    <3>1. k # 0 /\ Code = ops[k].post /\ k \in 1..Len(ops)
      BY <1>1, <1>2, <1>3, <2>1, <2>6 DEF LoopInv, Placed, HasPost
    <3>2. Passes(ops[k], r[k - 1], r[k])
      BY <1>2, <3>1
    <3>3. Code \notin LoopCodes \/ (Code \in CountCodes /\ r[k] = "armed")
      <4>1. CASE Code \in LoopCodes
        <5>1. ops[k] # Op("FOR_BREAK")
          BY <1>3, <2>1, <3>1 DEF Op, HasPost
        <5>2. Counts(ops[k]) /\ r[k] = "armed"
          BY <3>1, <3>2, <4>1, <5>1 DEF Passes, LoopFree, Stops
        <5> QED
          BY <3>1, <4>1, <5>2 DEF Counts
      <4> QED
        BY <4>1
    <3>4. CASE Code \in CountCodes /\ r[k] = "armed"
      BY <1>2, <2>2, <2>3, <3>4 DEF Counting, Kept
    <3> QED
      BY <2>2, <2>4, <3>3, <3>4 DEF Quiet
  <2> QED
    BY <2>2, <2>5, <2>6
<1>4. CASE ~HasPost
  <2>1. k < Len(ops)
    BY <1>4 DEF Code, NextOp, ListedOp, Op
  <2> DEFINE n == k + 1
  <2>2. n \in 1..Len(ops) /\ n \in Nat /\ n # 0 /\ n - 1 = k
    BY <1>1, <2>1
  <2>3. NextOp = ops[n] /\ Code = ops[n].code
    BY <1>4, <2>1 DEF Code, NextOp, ListedOp
  <2>4. /\ Fetched.op_key_index = n /\ Fetched.post_code = ops[n].post
        /\ Fetched.loop_count = ctx.loop_count /\ Fetched.break_count = ctx.break_count
        /\ Fetched.loop_index = ctx.loop_index
    BY <1>1, <1>4, <2>3 DEF Fetched, Contexts
  <2> HIDE DEF n
  <2>5. Placed(ops, Fetched)
    BY <2>2, <2>4 DEF Placed
  <2>6. Passes(ops[n], r[k], r[n])
    BY <1>2, <2>2
  <2>7. CASE LoopFree(ops[n]) /\ (r[n] = r[k] \/ (r[k] = "out" /\ r[n] = "armed"))
    <3>1. Kept(ops, r, Fetched)
      BY <1>2, <2>4, <2>7 DEF Kept, Closed, Running
    <3> QED
      BY <2>3, <2>5, <2>7, <3>1 DEF Quiet, LoopFree
  <2>8. CASE Counts(ops[n]) /\ r[k] # "in" /\ r[n] = "armed"
    <3>1. Fetched.loop_count = 0 /\ Fetched.loop_index = 0
      BY <1>2, <2>4, <2>8 DEF Kept, Closed, Marks
    <3>2. Kept(ops, r, Fetched)
      BY <2>4, <2>8, <3>1 DEF Kept
    <3>3. Code \notin LoopCodes \/ Code \in CountCodes
      BY <2>3, <2>8 DEF Counts
    <3> QED
      BY <2>4, <2>5, <2>8, <3>1, <3>2, <3>3 DEF Quiet, Counting
  <2>9. CASE Stops(ops[n]) /\ r[k] = "in" /\ r[n] = "in"
    <3>1. Kept(ops, r, Fetched)
      BY <1>2, <2>4, <2>9 DEF Kept, Closed, Running
    <3> QED
      BY <2>3, <2>4, <2>5, <2>9, <3>1 DEF Stopping, Stops
  <2>10. CASE ops[n] = Op("FOR_BREAK") /\ r[k] # "in" /\ r[n] = "in"
    <3>1. Fetched.loop_count = 0 /\ Fetched.loop_index = 0
      BY <1>2, <2>4, <2>10 DEF Kept, Closed, Marks
    <3>2. Code = "FOR_BREAK" /\ Fetched.post_code = "SKIP"
      BY <2>3, <2>4, <2>10 DEF Op
    <3> QED
      BY <2>4, <2>5, <2>10, <3>1, <3>2 DEF Turning
  <2>11. CASE ops[n] = Op("FOR_BREAK") /\ r[k] = "in" /\ r[n] = "out"
    <3>1. Closed(Fetched) \/ Running(ops, r, Fetched)
      BY <1>2, <2>4, <2>11 DEF Kept, Closed, Running
    <3>2. Code = "FOR_BREAK" /\ Fetched.post_code = "SKIP"
      BY <2>3, <2>4, <2>11 DEF Op
    <3> QED
      BY <2>4, <2>5, <2>11, <3>1, <3>2 DEF Turning
  <2> QED
    BY <2>6, <2>7, <2>8, <2>9, <2>10, <2>11 DEF Passes
<1> QED
  BY <1>3, <1>4

LEMMA SameKept ==
  ASSUME NEW list, NEW r, NEW c, NEW d, SameLoop(c, d)
  PROVE  /\ Placed(list, c) => Placed(list, d)
         /\ Kept(list, r, c) => Kept(list, r, d)
BY DEF SameLoop, Placed, Kept, Closed, Running

-----------------------------------------------------------------------------
(* The steps.  Most leave the loop to where fetching has brought it.       *)
LEMMA StaysQuiet ==
  ASSUME TypeOK, NEW r, LoopInv(r), call' = call,
         Quiet(r, Fetched) \/ Stopping(r, Fetched), Code # "SKIP", SameLoop(Fetched, ctx')
  PROVE  LoopInv(r)'
<1>1. Placed(ops, Fetched) /\ Kept(ops, r, Fetched)
  BY Fetching DEF Quiet, Stopping
<1>2. Placed(ops, ctx') /\ Kept(ops, r, ctx')
  BY <1>1, SameKept
<1> QED
  BY <1>2 DEF LoopInv, ops

LEMMA InitLoop == Init => \E r : LoopInv(r)
<1> SUFFICES ASSUME Init PROVE \E r : LoopInv(r)
  OBVIOUS
<1>1. PICK r : Marked(call, r)
  BY PointIsMarked DEF Init
<1>2. /\ ctx.op_key_index = 0 /\ ctx.post_code = "NONE" /\ ctx.loop_count = 0
      /\ ctx.break_count = 0 /\ ctx.loop_index = 0
  BY DEF Init, FreshCtx
<1>3. Len(ops) \in Nat
  BY CallTypes DEF Init, ops
<1>4. Placed(ops, ctx) /\ Kept(ops, r, ctx)
  BY <1>2, <1>3 DEF Placed, Kept, Closed
<1> QED
  BY <1>1, <1>4 DEF LoopInv

(* Codes that are not about loops.                                         *)
LEMMA OtherCodes ==
  /\ \A code \in LoopCodes : \/ code \in CountCodes \/ code \in StopCodes
                             \/ code = "FOR_BREAK" \/ code = "RESET_CTX"
  /\ CountCodes \subseteq RegisterCodes /\ "RESET_CTX" \in RegisterCodes
  /\ (RegisterCodes \cup FilterCodes) \cap (StopCodes \cup {"FOR_BREAK", "SKIP"}) = {}
  /\ {"SKIP", "NONE", "READ_REG"} \cap LoopCodes = {} /\ FilterCodes \cap LoopCodes = {}
BY DEF LoopCodes, CountCodes, StopCodes, RegisterCodes, FilterCodes

LEMMA RegisterStepLoop ==
  ASSUME TypeOK, NEW r, LoopInv(r), RegisterStep
  PROVE  LoopInv(r)'
<1> DEFINE c == Fetched
<1>1. /\ Code \in RegisterCodes /\ Code # "SKIP" /\ call' = call /\ ctx' = Effect(Code, c)
      /\ Code \notin StopCodes /\ Code # "FOR_BREAK"
  BY OtherCodes DEF RegisterStep, Turn
<1>2. c \in Contexts
  BY FetchType
<1>3. Placed(ops, c) /\ (Quiet(r, c) \/ Counting(r, c))
  BY <1>1, Fetching DEF Stopping, Turning
<1> HIDE DEF c
<1>4. CASE Quiet(r, c)
  <2>1. Code \in RegisterCodes \ LoopCodes
    BY <1>1, <1>4 DEF Quiet
  <2>2. SameLoop(c, Effect(Code, c))
    BY <1>2, <2>1 DEF SameLoop, Effect, RegisterCodes, LoopCodes, CountCodes, Contexts
  <2> QED
    BY <1>1, <1>4, <2>2, StaysQuiet DEF c
<1>5. CASE Counting(r, c)
  <2>1. Code \in CountCodes
    BY <1>5 DEF Counting
  <2>2. /\ ctx'.op_key_index = c.op_key_index /\ ctx'.post_code = c.post_code
        /\ ctx'.loop_count = c.loop_count /\ ctx'.loop_index = c.loop_index
    BY <1>1, <1>2, <2>1 DEF Effect, CountCodes, Contexts
  <2>3. Placed(ops, ctx')
    BY <1>3, <2>2 DEF Placed
  <2>4. Kept(ops, r, ctx')
    BY <1>5, <2>2 DEF Counting, Kept
  <2> QED
    BY <1>1, <2>3, <2>4 DEF LoopInv, ops
<1> QED
  BY <1>3, <1>4, <1>5

(* The head of a loop enters its body, its end leaves it or goes back to   *)
(* the place that the head has noted.                                      *)
LEMMA ForBreakLoop ==
  ASSUME TypeOK, NEW r, LoopInv(r), ForBreak
  PROVE  LoopInv(r)'
<1> DEFINE c == Fetched
           at == IF c.loop_count = 0 THEN c.op_key_index ELSE c.loop_index
<1>1. Code = "FOR_BREAK" /\ call' = call
  BY DEF ForBreak, Turn
<1>2. c \in Contexts /\ c.op_key_index \in Nat
  BY FetchType, ContextFields
<1>3. c.loop_count \in Nat /\ c.break_count \in Nat
  <2>1. c.loop_count \in 0..MAX_LOOP_COUNT /\ c.break_count \in 0..MAX_LOOP_COUNT
    BY <1>2, ContextFields
  <2> QED
    BY <2>1 DEF MAX_LOOP_COUNT
<1>4. Placed(ops, c) /\ Turning(r, c)
  <2>1. ~Quiet(r, c) /\ ~Counting(r, c) /\ ~Stopping(r, c)
    BY <1>1 DEF Quiet, Counting, Stopping, LoopCodes, CountCodes, StopCodes
  <2> QED
    BY <1>1, <2>1, Fetching
<1>5. ctx' = IF c.loop_count >= c.break_count
             THEN [c EXCEPT !.loop_count = 0, !.break_count = 0, !.loop_index = 0]
             ELSE [c EXCEPT !.loop_count = c.loop_count + 1,
                            !.loop_index = at, !.op_key_index = at]
  BY DEF ForBreak
<1> HIDE DEF c, at
<1>6. CASE c.loop_count >= c.break_count
  <2>1. /\ ctx'.op_key_index = c.op_key_index /\ ctx'.post_code = c.post_code
        /\ Closed(ctx')
    BY <1>2, <1>5, <1>6 DEF Contexts, Closed
  <2>2. Placed(ops, ctx') /\ Kept(ops, r, ctx')
    BY <1>4, <2>1 DEF Placed, Kept, Closed
  <2> QED
    BY <1>1, <2>2 DEF LoopInv, ops
<1>7. CASE ~(c.loop_count >= c.break_count)
  <2>1. /\ ctx'.op_key_index = at /\ ctx'.post_code = c.post_code
        /\ ctx'.loop_count = c.loop_count + 1 /\ ctx'.break_count = c.break_count
        /\ ctx'.loop_index = at
    BY <1>2, <1>5, <1>7 DEF Contexts
  <2>2. at \in 0..Len(ops) /\ r[at] = "in"
    <3>1. CASE c.loop_count = 0
      <4>1. ~Closed(c) /\ ~Running(ops, r, c)
        BY <1>3, <1>7, <3>1 DEF Closed, Running
      <4> QED
        BY <1>4, <3>1, <4>1 DEF Turning, Placed, at
    <3>2. CASE c.loop_count # 0
      BY <1>4, <3>2 DEF Turning, Closed, Running, at
    <3> QED
      BY <3>1, <3>2
  <2>3. Placed(ops, ctx')
    BY <1>4, <2>1, <2>2 DEF Turning, Placed
  <2>4. Running(ops, r, ctx')
    BY <1>3, <1>7, <2>1, <2>2 DEF Running
  <2>5. Kept(ops, r, ctx')
    BY <2>1, <2>2, <2>4 DEF Kept
  <2> QED
    BY <1>1, <2>3, <2>5 DEF LoopInv, ops
<1> QED
  BY <1>6, <1>7

(* A string that is not there stops the loop it is read in: a loop whose   *)
(* count is 0 stays closed.                                                *)
LEMMA SavePtrStringLoop ==
  ASSUME TypeOK, NEW r, LoopInv(r), SavePtrString
  PROVE  LoopInv(r)'
<1> DEFINE c == Fetched
<1>1. /\ Code \in {"SAVE_PTR_STRING", "SAVE_PTR_STRING16"} /\ call' = call
      /\ ctx' = c \/ ctx' = [c EXCEPT !.loop_count = c.break_count]
  BY DEF SavePtrString, Turn
<1>2. c \in Contexts
  BY FetchType
<1>3. Placed(ops, c) /\ Stopping(r, c) /\ Code # "SKIP"
  <2>1. ~Quiet(r, c) /\ ~Counting(r, c) /\ ~Turning(r, c) /\ Code # "SKIP"
    BY <1>1 DEF Quiet, Counting, Turning, LoopCodes, CountCodes, StopCodes
  <2> QED
    BY <2>1, Fetching
<1>4. CASE ctx' = c
  BY <1>1, <1>3, <1>4, StaysQuiet DEF SameLoop
<1>5. CASE ctx' = [c EXCEPT !.loop_count = c.break_count]
  <2> HIDE DEF c
  <2>1. /\ ctx'.op_key_index = c.op_key_index /\ ctx'.post_code = c.post_code
        /\ ctx'.loop_count = c.break_count /\ ctx'.break_count = c.break_count
        /\ ctx'.loop_index = c.loop_index
    BY <1>2, <1>5 DEF Contexts
  <2>2. Placed(ops, ctx')
    BY <1>3, <2>1 DEF Placed
  <2>3. c.loop_count \in Nat /\ c.break_count \in Nat
    <3>1. c.loop_count \in 0..MAX_LOOP_COUNT /\ c.break_count \in 0..MAX_LOOP_COUNT
      BY <1>2, ContextFields
    <3> QED
      BY <3>1 DEF MAX_LOOP_COUNT
  <2>4. Closed(ctx') \/ Running(ops, r, ctx')
    BY <1>3, <2>1, <2>3 DEF Stopping, Kept, Closed, Running
  <2>5. Kept(ops, r, ctx')
    BY <1>3, <2>1, <2>4 DEF Stopping, Kept
  <2> QED
    BY <1>1, <2>2, <2>5 DEF LoopInv, ops
<1> QED
  BY <1>1, <1>4, <1>5

LEMMA OtherStepsLoop ==
  ASSUME TypeOK, NEW r, LoopInv(r),
         ReadPointer \/ ReadStdString \/ SaveRaw \/ SaveStruct \/ SaveString
           \/ ApplyFilter \/ GivesUp
  PROVE  LoopInv(r)'
<1> DEFINE c == Fetched
<1>1. c \in Contexts
  BY FetchType
<1>2. Code \notin LoopCodes /\ Code # "SKIP" /\ call' = call
  <2>1. \E codes : /\ Turn(codes)
                   /\ codes \cap (LoopCodes \cup {"SKIP"}) = {}
    <3>1. \A codes \in {{"READ_POINTER"}, {"READ_STD_STRING"},
                        {"SAVE_ADDR", "SAVE_REG", "SAVE_POINTER"}, {"SAVE_STRUCT"},
                        {"SAVE_STRING", "SAVE_STRING16"}, FilterCodes,
                        {"READ_REG"} \cup FilterCodes} :
            codes \cap (LoopCodes \cup {"SKIP"}) = {}
      BY DEF LoopCodes, CountCodes, StopCodes, FilterCodes
    <3> QED
      BY <3>1 DEF ReadPointer, ReadStdString, SaveRaw, SaveStruct, SaveString,
                  ApplyFilter, GivesUp
  <2> QED
    BY <2>1 DEF Turn
<1>3. Quiet(r, c)
  BY <1>2, Fetching DEF Counting, Stopping, Turning, LoopCodes
<1>4. SameLoop(c, ctx')
  <2>1. CASE SaveRaw \/ SaveString \/ GivesUp
    BY <2>1 DEF SaveRaw, SaveString, GivesUp, SameLoop
  <2>2. CASE ReadPointer
    <3>1. PICK v : ctx' = [c EXCEPT !.pointer_value = v]
      BY <2>2 DEF ReadPointer
    <3> HIDE DEF c
    <3> QED
      BY <1>1, <3>1 DEF Contexts, SameLoop
  <2>3. CASE ReadStdString
    <3>1. PICK v : ctx' = [c EXCEPT !.read_addr = v]
      BY <2>3 DEF ReadStdString
    <3> HIDE DEF c
    <3> QED
      BY <1>1, <3>1 DEF Contexts, SameLoop
  <2>4. CASE SaveStruct
    <3>1. PICK v : ctx' = [c EXCEPT !.read_len = v]
      BY <2>4 DEF SaveStruct
    <3> HIDE DEF c
    <3> QED
      BY <1>1, <3>1 DEF Contexts, SameLoop
  <2>5. CASE ApplyFilter
    <3>1. PICK v, w : ctx' = [c EXCEPT !.apply_filter = v, !.match_whitelist = w]
      BY <2>5 DEF ApplyFilter
    <3> HIDE DEF c
    <3> QED
      BY <1>1, <3>1 DEF Contexts, SameLoop
  <2> QED
    BY <2>1, <2>2, <2>3, <2>4, <2>5
<1> QED
  BY <1>2, <1>3, <1>4, StaysQuiet

LEMMA NextLoop ==
  ASSUME IInv, NEW r, LoopInv(r), [Next]_vars
  PROVE  LoopInv(r)'
<1>1. CASE ReadEnds \/ UNCHANGED vars
  <2>1. call' = call /\ ctx' = ctx
    BY <1>1 DEF ReadEnds, vars
  <2> QED
    BY <2>1 DEF LoopInv, ops
<1>2. CASE RegisterStep
  BY <1>2, RegisterStepLoop DEF IInv
<1>3. CASE ForBreak
  BY <1>3, ForBreakLoop DEF IInv
<1>4. CASE SavePtrString
  BY <1>4, SavePtrStringLoop DEF IInv
<1>5. CASE ReadPointer \/ ReadStdString \/ SaveRaw \/ SaveStruct \/ SaveString
             \/ ApplyFilter \/ GivesUp
  BY <1>5, OtherStepsLoop DEF IInv
<1> QED
  BY <1>1, <1>2, <1>3, <1>4, <1>5 DEF Next

(* Where an argument ends a loop is closed, unless its post operation is   *)
(* still to come.                                                          *)
LEMMA LoopsMeans ==
  ASSUME IInv, NEW r, LoopInv(r)
  PROVE  LoopsClosed
<1> SUFFICES ASSUME ctx.op_key_index \in call.ends
             PROVE  ctx.loop_count = 0 /\ ctx.break_count = 0 /\ ctx.loop_index = 0
  BY DEF LoopsClosed
<1>1. r[ctx.op_key_index] = "out"
  BY DEF LoopInv, Marked, Placed, ops
<1> QED
  BY <1>1 DEF LoopInv, Kept, Closed

(* For any calls whose types have at most one loop: no loop reaches into   *)
(* the next argument; where the operations of an argument end, op_ctx is   *)
(* as FOR_BREAK leaves it, whatever lengths, failing reads and strings cut *)
(* short the loop has met.                                                 *)
THEOREM LoopsAreClosed == Spec => []LoopsClosed
<1> DEFINE Inv == \E r : LoopInv(r)
<1>1. Init => Inv
  BY InitLoop
<1>2. IInv /\ Inv /\ [Next]_vars => Inv'
  BY NextLoop
<1>3. IInv /\ Inv => LoopsClosed
  BY LoopsMeans
<1> QED
  BY <1>1, <1>2, <1>3, InvariantHolds, PTL DEF Spec

-----------------------------------------------------------------------------
(* What the reader makes of pieces to which more are added.                *)

Grows(ps, qs) == \A k \in DOMAIN ps : k \in DOMAIN qs /\ qs[k] = ps[k]

LEMMA GrowsByOne ==
  ASSUME NEW S, NEW ps \in Seq(S), NEW x \in S
  PROVE  /\ Grows(ps, Append(ps, x)) /\ Append(ps, x) \in Seq(S)
         /\ Len(Append(ps, x)) = Len(ps) + 1 /\ Append(ps, x)[Len(ps) + 1] = x
         /\ Len(ps) \in Nat /\ DOMAIN ps = 1..Len(ps)
BY DEF Grows

(* The least of a set, when it is known.                                   *)
LEMMA MinIs ==
  ASSUME NEW S \in SUBSET Nat, NEW m \in S, \A n \in S : m <= n
  PROVE  Min(S) = m
<1>1. \A x \in S : (\A y \in S : x <= y) => x = m
  OBVIOUS
<1> QED
  BY <1>1 DEF Min

(* A string array: the j-th pair of a pointer and its text.                *)
HasString(ps, p, j) ==
  /\ IsRaw(ps, p + 2 * (j - 1)) /\ p + 2 * (j - 1) + 1 \in DOMAIN ps
  /\ ps[p + 2 * (j - 1) + 1].kind \in {"bytes", "end"}
IsLast(ps, p, j) ==
  ps[p + 2 * (j - 1) + 1].kind = "end" \/ ps[p + 2 * (j - 1)].at = 0

LEMMA StringsAreRead ==
  ASSUME NEW ps, NEW p, NEW n \in 1..MAX_LOOP_COUNT,
         \A j \in 1..n : HasString(ps, p, j),
         \A j \in 1..n : j < n => ~IsLast(ps, p, j),
         n = MAX_LOOP_COUNT \/ IsLast(ps, p, n)
  PROVE  ParseStringArray(ps, p) = p + 2 * n
<1> DEFINE ends == {i \in 1..MAX_LOOP_COUNT : HasString(ps, p, i) /\ IsLast(ps, p, i)}
           last == IF ends = {} THEN MAX_LOOP_COUNT ELSE Min(ends)
<1>1. ParseStringArray(ps, p)
        = IF \A i \in 1..last : HasString(ps, p, i) THEN p + 2 * last ELSE Lost
  BY DEF ParseStringArray, HasString, IsLast
<1>2. n \in Nat /\ n <= MAX_LOOP_COUNT /\ MAX_LOOP_COUNT \in Nat /\ n \in 1..n
  BY DEF MAX_LOOP_COUNT
<1>3. \A i \in ends : n <= i
  <2>1. ASSUME NEW i \in ends, i < n PROVE FALSE
    <3>1. i \in 1..n /\ IsLast(ps, p, i)
      BY <1>2, <2>1
    <3> QED
      BY <2>1, <3>1
  <2> QED
    BY <1>2, <2>1
<1>4. last = n
  <2>1. CASE IsLast(ps, p, n)
    <3>1. n \in ends /\ ends \in SUBSET Nat
      BY <1>2, <2>1
    <3> HIDE DEF ends
    <3>2. Min(ends) = n
      BY <1>3, <3>1, MinIs
    <3> QED
      BY <3>1, <3>2
  <2>2. CASE ~IsLast(ps, p, n)
    <3>1. n = MAX_LOOP_COUNT
      BY <2>2
    <3>2. \A i \in ends : i = n
      BY <1>2, <1>3, <3>1
    <3>3. ends = {}
      BY <2>2, <3>2
    <3> QED
      BY <3>1, <3>3
  <2> QED
    BY <2>1, <2>2
<1> HIDE DEF last
<1> QED
  BY <1>1, <1>4

LEMMA StringsThatAreRead ==
  ASSUME NEW ps, NEW p, ParseStringArray(ps, p) # Lost
  PROVE  \E n \in 1..MAX_LOOP_COUNT :
           /\ ParseStringArray(ps, p) = p + 2 * n
           /\ \A j \in 1..n : HasString(ps, p, j)
           /\ \A j \in 1..n : j < n => ~IsLast(ps, p, j)
           /\ n = MAX_LOOP_COUNT \/ IsLast(ps, p, n)
<1> DEFINE ends == {i \in 1..MAX_LOOP_COUNT : HasString(ps, p, i) /\ IsLast(ps, p, i)}
           last == IF ends = {} THEN MAX_LOOP_COUNT ELSE Min(ends)
<1>1. ParseStringArray(ps, p)
        = IF \A i \in 1..last : HasString(ps, p, i) THEN p + 2 * last ELSE Lost
  BY DEF ParseStringArray, HasString, IsLast
<1>2. last \in 1..MAX_LOOP_COUNT /\ (last = MAX_LOOP_COUNT \/ IsLast(ps, p, last))
        /\ \A i \in ends : last <= i
  <2>1. CASE ends = {}
    BY <2>1 DEF MAX_LOOP_COUNT
  <2>2. CASE ends # {}
    <3>1. ends \in SUBSET Nat
      OBVIOUS
    <3>2. PICK m \in ends : \A i \in ends : m <= i
      <4> HIDE DEF ends
      <4> QED
        BY <2>2, <3>1, LeastExists
    <3>3. Min(ends) = m
      <4> HIDE DEF ends
      <4> QED
        BY <3>1, <3>2, MinIs
    <3>4. last = m
      BY <2>2, <3>3
    <3> HIDE DEF last
    <3> QED
      BY <3>2, <3>4
  <2> QED
    BY <2>1, <2>2
<1>3. \A i \in 1..last : HasString(ps, p, i)
  BY <1>1
<1> HIDE DEF last
<1>4. ASSUME NEW j \in 1..last, j < last PROVE ~IsLast(ps, p, j)
  <2>1. j \in 1..MAX_LOOP_COUNT
    BY <1>2 DEF MAX_LOOP_COUNT
  <2>2. j \notin ends
    BY <1>2, <1>4
  <2> QED
    BY <1>3, <2>1, <2>2
<1> QED
  BY <1>1, <1>2, <1>3, <1>4

LEMMA StringsStayRead ==
  ASSUME NEW ps, NEW qs, Grows(ps, qs), NEW p, ParseStringArray(ps, p) # Lost
  PROVE  ParseStringArray(qs, p) = ParseStringArray(ps, p)
<1>1. PICK n \in 1..MAX_LOOP_COUNT :
           /\ ParseStringArray(ps, p) = p + 2 * n
           /\ \A j \in 1..n : HasString(ps, p, j)
           /\ \A j \in 1..n : j < n => ~IsLast(ps, p, j)
           /\ n = MAX_LOOP_COUNT \/ IsLast(ps, p, n)
  BY StringsThatAreRead
<1>2. \A j : HasString(ps, p, j) =>
               HasString(qs, p, j) /\ (IsLast(qs, p, j) <=> IsLast(ps, p, j))
  BY DEF Grows, HasString, IsLast, IsRaw
<1>3. n \in 1..n
  OBVIOUS
<1>4. ParseStringArray(qs, p) = p + 2 * n
  BY <1>1, <1>2, <1>3, StringsAreRead
<1> QED
  BY <1>1, <1>4

LEMMA PairsStayRead ==
  ASSUME NEW ps, NEW qs, Grows(ps, qs), NEW p, NEW n, ParsePairs(ps, p, n) # Lost
  PROVE  ParsePairs(qs, p, n) = ParsePairs(ps, p, n)
<1>1. \A j : /\ IsPrefixed(ps, j) => IsPrefixed(qs, j)
             /\ IsFixed(ps, j, SIZEOF_IOVEC) => IsFixed(qs, j, SIZEOF_IOVEC)
  BY DEF Grows, IsPrefixed, IsFixed
<1> QED
  BY <1>1 DEF ParsePairs

BaseKnown(type) == type.base \in {"NUM", "POINTER", "STRING", "BUFFER", "ARRAY", "STRUCT"}

LEMMA PlainStaysRead ==
  ASSUME NEW ps, NEW qs, Grows(ps, qs), NEW p, NEW type, NEW words, BaseKnown(type),
         ParsePlain(type, ps, p, words) # Lost
  PROVE  ParsePlain(type, qs, p, words) = ParsePlain(type, ps, p, words)
<1>1. \A j, s : /\ IsRaw(ps, j) => IsRaw(qs, j) /\ qs[j] = ps[j]
                /\ IsPrefixed(ps, j) => IsPrefixed(qs, j) /\ qs[j] = ps[j]
                /\ IsFixed(ps, j, s) => IsFixed(qs, j, s) /\ qs[j] = ps[j]
                /\ IsSized(ps, j, s) => IsSized(qs, j, s)
  BY DEF Grows, IsRaw, IsPrefixed, IsFixed, IsSized
<1>2. CASE type.base \in {"NUM", "POINTER"}
  BY <1>2 DEF ParsePlain
<1>3. CASE type.base \in {"STRING", "BUFFER"}
  BY <1>1, <1>3 DEF ParsePlain, Next1
<1>4. CASE type.base = "ARRAY"
  BY <1>1, <1>4 DEF ParsePlain, Next1
<1>5. CASE type.base = "STRUCT"
  <2>1. /\ ParsePlain(type, ps, p, words) = ParseStruct(type, ps, p, words)
        /\ ParsePlain(type, qs, p, words) = ParseStruct(type, qs, p, words)
    BY <1>5 DEF ParsePlain
  <2>2. CASE type.name = "iovec"
    <3>1. /\ ParseStruct(type, ps, p, words) = ParseIovec(ps, p)
          /\ ParseStruct(type, qs, p, words) = ParseIovec(qs, p)
      BY <2>2 DEF ParseStruct
    <3>2. IsRaw(ps, p) /\ ParsePairs(ps, p + 1, ps[p].at) # Lost
      BY <2>1, <3>1 DEF ParseIovec
    <3> QED
      BY <1>1, <2>1, <3>1, <3>2, PairsStayRead DEF ParseIovec
  <2>3. CASE type.name = "msghdr"
    <3>1. /\ ParseStruct(type, ps, p, words) = ParseMsghdr(ps, p, words)
          /\ ParseStruct(type, qs, p, words) = ParseMsghdr(qs, p, words)
      BY <2>3 DEF ParseStruct
    <3>2. /\ IsFixed(ps, p, SIZEOF_MSGHDR) /\ IsPrefixed(ps, p + 1)
          /\ ParsePairs(ps, p + 2, Word(words, ps[p].at + 24)) # Lost
      BY <2>1, <3>1 DEF ParseMsghdr
    <3> QED
      BY <1>1, <2>1, <3>1, <3>2, PairsStayRead DEF ParseMsghdr
  <2>4. CASE type.name = "string_array"
    <3>1. /\ ParseStruct(type, ps, p, words) = ParseStringArray(ps, p)
          /\ ParseStruct(type, qs, p, words) = ParseStringArray(qs, p)
      BY <2>4 DEF ParseStruct
    <3> QED
      BY <2>1, <3>1, StringsStayRead
  <2>5. CASE type.name \notin {"iovec", "msghdr", "string_array"}
    BY <1>1, <2>1, <2>5 DEF ParseStruct, Next1
  <2> QED
    BY <2>2, <2>3, <2>4, <2>5
<1> QED
  BY <1>2, <1>3, <1>4, <1>5 DEF BaseKnown

BasesKnown(type) ==
  IF type.child = <<>> THEN BaseKnown(type) ELSE BaseKnown(type.child[1])

LEMMA ArgStaysRead ==
  ASSUME NEW ps, NEW qs, Grows(ps, qs), NEW p, NEW arg, NEW where, NEW words,
         BasesKnown(arg.type), ParseArg(arg, where, ps, p, words) # Lost
  PROVE  ParseArg(arg, where, qs, p, words) = ParseArg(arg, where, ps, p, words)
<1>1. \A j : /\ IsRaw(ps, j) => IsRaw(qs, j)
             /\ IsPrefixed(ps, j) => IsPrefixed(qs, j)
  BY DEF Grows, IsRaw, IsPrefixed
<1>2. IsRaw(ps, p) /\ IsRaw(qs, p)
  BY <1>1 DEF ParseArg
<1>3. CASE ~(arg.point \in {"all", where})
  BY <1>2, <1>3 DEF ParseArg
<1>4. CASE arg.point \in {"all", where}
  <2>1. /\ ParseArg(arg, where, ps, p, words) = ParseValue(arg.type, ps, p + 1, words)
        /\ ParseArg(arg, where, qs, p, words) = ParseValue(arg.type, qs, p + 1, words)
    BY <1>2, <1>4 DEF ParseArg
  <2>2. CASE arg.type.child = <<>>
    BY <2>1, <2>2, PlainStaysRead DEF ParseValue, BasesKnown
  <2>3. CASE arg.type.child # <<>>
    BY <1>1, <2>1, <2>3, PlainStaysRead DEF ParseValue, BasesKnown
  <2> QED
    BY <2>2, <2>3
<1> QED
  BY <1>3, <1>4

-----------------------------------------------------------------------------
(* The first n arguments of the call w have been read when the reader      *)
(* stands at q.                                                            *)
Reading(w, n, ps, pos) ==
  /\ pos[0] = 1
  /\ \A k \in 1..n :
       /\ pos[k] # Lost
       /\ pos[k] = ParseArg(w.args[k], w.side, ps, pos[k - 1], w.mem)
Reads(w, n, ps, q) == \E pos : Reading(w, n, ps, pos) /\ pos[n] = q

LEMMA ReadsNone == ASSUME NEW w, NEW ps PROVE Reads(w, 0, ps, 1)
<1> DEFINE pos == [k \in 0..0 |-> 1]
<1>1. Reading(w, 0, ps, pos) /\ pos[0] = 1
  BY DEF Reading
<1> QED
  BY <1>1 DEF Reads

LEMMA ReadsNext ==
  ASSUME NEW w, NEW n \in Nat, NEW ps, NEW p, Reads(w, n, ps, p),
         NEW q, q # Lost, ParseArg(w.args[n + 1], w.side, ps, p, w.mem) = q
  PROVE  Reads(w, n + 1, ps, q)
<1>1. PICK pos : Reading(w, n, ps, pos) /\ pos[n] = p
  BY DEF Reads
<1> DEFINE new == [k \in 0..(n + 1) |-> IF k = n + 1 THEN q ELSE pos[k]]
<1>2. new[0] = 1
  BY <1>1 DEF Reading
<1>3. ASSUME NEW k \in 1..(n + 1)
      PROVE  new[k] # Lost /\ new[k] = ParseArg(w.args[k], w.side, ps, new[k - 1], w.mem)
  <2>1. CASE k = n + 1
    <3>1. k \in 0..(n + 1) /\ k - 1 = n /\ n \in 0..(n + 1) /\ n # n + 1
      BY <2>1
    <3>2. new[k] = q /\ new[k - 1] = p
      BY <1>1, <2>1, <3>1
    <3> HIDE DEF new
    <3> QED
      BY <2>1, <3>2
  <2>2. CASE k # n + 1
    <3>1. k \in 1..n /\ k \in 0..(n + 1) /\ k - 1 \in 0..(n + 1) /\ k - 1 # n + 1
      BY <2>2
    <3>2. new[k] = pos[k] /\ new[k - 1] = pos[k - 1]
      BY <2>2, <3>1
    <3> HIDE DEF new
    <3> QED
      BY <1>1, <3>1, <3>2 DEF Reading
  <2> QED
    BY <2>1, <2>2
<1>4. new[n + 1] = q
  OBVIOUS
<1> HIDE DEF new
<1> QED
  BY <1>2, <1>3, <1>4 DEF Reads, Reading

LEMMA StaysRead ==
  ASSUME NEW w, NEW n, NEW ps, NEW qs, Grows(ps, qs), NEW q, Reads(w, n, ps, q),
         \A k \in 1..n : BasesKnown(w.args[k].type)
  PROVE  Reads(w, n, qs, q)
<1>1. PICK pos : Reading(w, n, ps, pos) /\ pos[n] = q
  BY DEF Reads
<1>2. \A k \in 1..n : ParseArg(w.args[k], w.side, qs, pos[k - 1], w.mem) = pos[k]
  BY <1>1, ArgStaysRead DEF Reading
<1>3. Reading(w, n, qs, pos)
  BY <1>1, <1>2 DEF Reading
<1> QED
  BY <1>1, <1>3 DEF Reads

LEMMA AllRead ==
  ASSUME NEW w, NEW n \in Nat, n = Len(w.args), NEW ps, NEW q, Reads(w, n, ps, q)
  PROVE  ParseArgs(w.args, w.side, ps, w.mem) = q
<1>1. PICK pos : Reading(w, n, ps, pos) /\ pos[n] = q
  BY DEF Reads
<1> DEFINE g == [i \in 0..n |-> pos[i]]
<1>2. \A i \in 0..n : g[i] = pos[i]
  OBVIOUS
<1>3. \A i \in 0..n : g[i] = IF i = 0 THEN 1
                              ELSE IF g[i - 1] = Lost THEN Lost
                              ELSE ParseArg(w.args[i], w.side, ps, g[i - 1], w.mem)
  <2>1. ASSUME NEW i \in 0..n, i # 0
        PROVE  g[i - 1] # Lost /\ g[i] = ParseArg(w.args[i], w.side, ps, g[i - 1], w.mem)
    <3>1. i \in 1..n /\ i - 1 \in 0..n /\ (i - 1 = 0 \/ i - 1 \in 1..n)
      BY <2>1
    <3>2. g[i] = pos[i] /\ g[i - 1] = pos[i - 1]
      BY <1>2, <3>1
    <3>3. pos[i - 1] # Lost
      BY <1>1, <3>1 DEF Reading, Lost
    <3> HIDE DEF g
    <3> QED
      BY <1>1, <3>1, <3>2, <3>3 DEF Reading
  <2>2. g[0] = 1
    BY <1>1 DEF Reading
  <2> HIDE DEF g
  <2> QED
    BY <2>1, <2>2
<1>4. g = [i \in 0..n |-> IF i = 0 THEN 1
                          ELSE IF g[i - 1] = Lost THEN Lost
                          ELSE ParseArg(w.args[i], w.side, ps, g[i - 1], w.mem)]
  <2>1. g = [i \in 0..n |-> g[i]]
    OBVIOUS
  <2> HIDE DEF g
  <2> QED
    BY <1>3, <2>1
<1>5. g[n] = q
  BY <1>1
<1> HIDE DEF g
<1>6. PICK h : /\ h = [i \in 0..n |-> IF i = 0 THEN 1
                                      ELSE IF h[i - 1] = Lost THEN Lost
                                      ELSE ParseArg(w.args[i], w.side, ps, h[i - 1], w.mem)]
               /\ ParseArgs(w.args, w.side, ps, w.mem) = h[n]
  BY <1>4 DEF ParseArgs
<1>7. \A i \in 0..n : h[i] = IF i = 0 THEN 1
                              ELSE IF h[i - 1] = Lost THEN Lost
                              ELSE ParseArg(w.args[i], w.side, ps, h[i - 1], w.mem)
  BY <1>6
<1> DEFINE T == {i \in 0..n : h[i] = g[i]}
<1>8. 0 \in T
  <2>1. 0 \in 0..n
    OBVIOUS
  <2> QED
    BY <1>3, <1>7, <2>1
<1>9. ASSUME NEW k \in 0..(n - 1), k \in T PROVE k + 1 \in T
  <2>1. k + 1 \in 0..n /\ k + 1 # 0 /\ (k + 1) - 1 = k
    OBVIOUS
  <2>2. h[k] = g[k]
    BY <1>9
  <2>3. h[k + 1] = g[k + 1]
    BY <1>3, <1>7, <2>1, <2>2
  <2> QED
    BY <2>1, <2>3
<1> HIDE DEF T
<1>10. n \in T
  <2>1. \A k \in 0..n : k \in T
    BY <1>8, <1>9, UpTo
  <2> QED
    BY <2>1
<1> QED
  BY <1>5, <1>6, <1>10 DEF T

-----------------------------------------------------------------------------
(* The stages of an argument, by what has been executed of its operations. *)

Label(i, at) == [arg |-> i, at |-> at]

Value(w, i)    == Word(w.regs, w.args[i].reg)
Count(w, i)    == Word(w.mem, Value(w, i) + 24)
More(w, i)     == read_more(w.args[i], w.side)
IsMsghdr(w, i) == w.args[i].type = MsghdrType
Within(w, i)   == LET type == w.args[i].type
                  IN IF type.child = <<>> THEN type ELSE type.child[1]
HasStrings(w, i) ==
  Within(w, i).base = "STRUCT" /\ Within(w, i).name = "string_array"

(* Piece f is the value of argument i; its content starts at piece p.      *)
Begun(w, i, ps, f) ==
  f \in 1..Len(ps) /\ Reads(w, i - 1, ps, f) /\ ps[f].kind = "raw"
Ahead(w, i, ps, p) ==
  /\ More(w, i)
  /\ \E f \in 1..Len(ps) :
       /\ Begun(w, i, ps, f)
       /\ IF w.args[i].type.child = <<>> THEN p = f + 1
          ELSE p = f + 2 /\ f + 1 \in 1..Len(ps) /\ ps[f + 1].kind = "bytes"

(* A msghdr and its control bytes, then n iovecs and what they point to.   *)
Header(w, i, ps, p) ==
  Ahead(w, i, ps, p) /\ IsFixed(ps, p, SIZEOF_MSGHDR) /\ ps[p].at = Value(w, i)
Control(w, i, ps, p) == Header(w, i, ps, p) /\ IsPrefixed(ps, p + 1)
Iovecs(ps, p, n) ==
  \A j \in 0..(n - 1) : /\ IsFixed(ps, p + 2 + 2 * j, SIZEOF_IOVEC)
                        /\ IsPrefixed(ps, p + 2 + 2 * j + 1)

(* In a loop: the turn that runs, and where its body starts.               *)
Turns(w, r, i, at, c, count) ==
  /\ 1 <= c.loop_count /\ c.loop_count <= count /\ c.break_count = count
  /\ c.loop_index \in 0..Len(w.ops) /\ r[c.loop_index] = Label(i, at)
Strings(ps, p, n) == \A j \in 1..n : HasString(ps, p, j) /\ ~IsLast(ps, p, j)

LastPair(c, ps, p, n) ==
  \/ IsLast(ps, p, n) /\ c.loop_count = MAX_LOOP_COUNT
  \/ ~IsLast(ps, p, n) /\ c.loop_count = n

Straight(w, i, at, c, ps) ==
  /\ Closed(c)
  /\ \/ at = "start" /\ Reads(w, i - 1, ps, Len(ps) + 1)
     \/ at = "value" /\ Reads(w, i - 1, ps, Len(ps) + 1) /\ c.reg_value = Value(w, i)
     \/ at = "saved" /\ Begun(w, i, ps, Len(ps)) /\ c.reg_value = Value(w, i)
     \/ /\ at = "valued" /\ Begun(w, i, ps, Len(ps))
        /\ IsMsghdr(w, i) => c.read_addr = Value(w, i)
     \/ /\ at \in {"ready", "sized"} /\ Ahead(w, i, ps, Len(ps) + 1)
        /\ IsMsghdr(w, i) => c.read_addr = Value(w, i)
        /\ at = "sized" => c.read_len = Within(w, i).size
     \/ /\ at \in {"struct", "kept"} /\ Header(w, i, ps, Len(ps))
        /\ at = "struct" => c.read_addr = Value(w, i)
        /\ at = "kept" => c.tmp_value = Value(w, i)
     \/ /\ at \in {"control", "back", "counted"}
        /\ \E p \in 1..Len(ps) : Control(w, i, ps, p) /\ Len(ps) = p + 1
        /\ at = "control" => c.tmp_value = Value(w, i)
        /\ at = "back" => c.read_addr = Value(w, i)
        /\ at = "counted" => c.pointer_value = Count(w, i)

Looping(w, r, i, at, c, ps) ==
  \/ /\ at = "armed" /\ Ahead(w, i, ps, Len(ps) + 1)
     /\ c.loop_count = 0 /\ c.loop_index = 0 /\ c.break_count = MAX_LOOP_COUNT
  \/ /\ at = "body" /\ Turns(w, r, i, "body", c, MAX_LOOP_COUNT)
     /\ \E p \in 1..(Len(ps) + 1) :
          /\ Ahead(w, i, ps, p) /\ Len(ps) = p + 2 * (c.loop_count - 1) - 1
          /\ Strings(ps, p, c.loop_count - 1)
  \/ /\ at = "next" /\ Turns(w, r, i, "body", c, MAX_LOOP_COUNT)
     /\ \E p \in 1..Len(ps), n \in 1..MAX_LOOP_COUNT :
          /\ Ahead(w, i, ps, p) /\ Len(ps) = p + 2 * n - 1
          /\ Strings(ps, p, n - 1) /\ HasString(ps, p, n) /\ LastPair(c, ps, p, n)
  \/ /\ at = "bound" /\ Count(w, i) \in 1..MAX_IOV_COUNT
     /\ c.loop_count = 0 /\ c.loop_index = 0 /\ c.break_count = Count(w, i)
     /\ \E p \in 1..Len(ps) : Control(w, i, ps, p) /\ Len(ps) = p + 1
  \/ /\ at \in {"vbody", "vlen", "viov", "vnext"} /\ Count(w, i) \in 1..MAX_IOV_COUNT
     /\ Turns(w, r, i, "vbody", c, Count(w, i))
     /\ at = "vlen" => c.read_len = SIZEOF_IOVEC
     /\ \E p \in 1..Len(ps) :
          /\ Control(w, i, ps, p)
          /\ IF at = "vnext" THEN /\ Iovecs(ps, p, c.loop_count)
                                  /\ Len(ps) = p + 1 + 2 * c.loop_count
             ELSE Iovecs(ps, p, c.loop_count - 1)
          /\ at \in {"vbody", "vlen"} => Len(ps) = p + 1 + 2 * (c.loop_count - 1)
          /\ at = "viov" => /\ Len(ps) = p + 2 + 2 * (c.loop_count - 1)
                            /\ IsFixed(ps, Len(ps), SIZEOF_IOVEC)

Holds(w, r, a, c, ps) ==
  /\ a.arg \in 1..(Len(w.args) + 1)
  /\ a.at # "start" => a.arg \in 1..Len(w.args)
  /\ Straight(w, a.arg, a.at, c, ps) \/ Looping(w, r, a.arg, a.at, c, ps)

(* What a stage leaves to be read without an operation.                    *)
Entails(w, a, b) ==
  \/ b = a
  \/ /\ a.at = "valued" /\ b = Label(a.arg, "ready")
     /\ More(w, a.arg) /\ w.args[a.arg].type.child = <<>>
  \/ /\ a.at = "valued" /\ b = Label(a.arg + 1, "start")
     /\ \/ ~More(w, a.arg)
        \/ IsNumber(w.args[a.arg].type) /\ w.args[a.arg].type.child = <<>>
  \/ /\ a.at = "ready" /\ b = Label(a.arg + 1, "start")
     /\ IsNumber(Within(w, a.arg))

(* What the codes do that leave a stage as it is.                          *)
LenCodes  == {"SET_READ_LEN", "SET_READ_LEN_REG_VALUE", "SET_READ_LEN_POINTER_VALUE"}
AddrCodes == {"ADD_OFFSET", "SUB_OFFSET", "ADD_REG", "SUB_REG", "MOVE_REG_VALUE",
              "MOVE_POINTER_VALUE", "MOVE_TMP_VALUE", "READ_IL2CPP_STRING",
              "READ_STD_STRING"}
Leaves(w, code, a) ==
  \/ code \in FilterCodes \cup {"NONE"}
  \/ code \in LenCodes /\ a.at \in {"start", "valued", "ready", "kept", "viov"}
  \/ code \in AddrCodes /\ \/ a.at \in {"start", "kept", "bound", "next", "viov", "vnext"}
                           \/ a.at = "ready" /\ ~IsMsghdr(w, a.arg)
  \/ code = "READ_REG" /\ a.at \in {"start", "ready"}
  \/ code = "READ_POINTER" /\ a.at \in {"start", "kept", "bound", "viov"}
  \/ code = "SET_TMP_VALUE" /\ a.at = "vbody"

(* What they do that go on to the next one.                                *)
Moves(w, code, op, a, b) ==
  LET i == a.arg
      From(at, to) == a.at = at /\ b = Label(i, to)
  IN \/ /\ code = "READ_REG" /\ From("start", "value") /\ i \in 1..Len(w.args)
        /\ op.pre = "SET_REG_INDEX" /\ op.value = w.args[i].reg
     \/ code = "MOVE_REG_VALUE" /\ From("saved", "valued")
     \/ /\ code = "SET_READ_LEN" /\ From("ready", "sized")
        /\ op.value = Within(w, i).size
     \/ code = "SET_READ_LEN" /\ From("vbody", "vlen") /\ op.value = SIZEOF_IOVEC
     \/ code = "SET_TMP_VALUE" /\ From("struct", "kept")
     \/ code = "MOVE_TMP_VALUE" /\ From("control", "back")
     \/ /\ code = "SET_BREAK_COUNT_POINTER_VALUE" /\ From("counted", "bound")
        /\ IsMsghdr(w, i)
     \/ /\ code = "SET_BREAK_COUNT" /\ From("ready", "armed")
        /\ op.value = MAX_LOOP_COUNT
Points(w, code, op, a, b) ==
  /\ code = "READ_POINTER" /\ a.at = "back" /\ b = Label(a.arg, "counted")
  /\ op.pre = "ADD_OFFSET" /\ op.value = 24
  /\ op.post = "SET_BREAK_COUNT_POINTER_VALUE"
Saves(w, code, op, a, b) ==
  LET i == a.arg
      From(at, to) == a.at = at /\ b = Label(i, to)
      Ends(at) == a.at = at /\ b = Label(i + 1, "start")
      Struct == code = "SAVE_STRUCT" /\ op.pre # "SET_READ_COUNT"
  IN \/ code = "SAVE_REG" /\ From("value", "saved")
     \/ /\ code = "SAVE_ADDR" /\ From("start", "valued") /\ i \in 1..Len(w.args)
        /\ ~IsMsghdr(w, i)
     \/ Struct /\ From("valued", "ready") /\ More(w, i) /\ w.args[i].type.child # <<>>
     \/ Struct /\ Ends("ready") /\ AnyLength(Within(w, i))
     \/ /\ Struct /\ Ends("sized") /\ HasSize(Within(w, i))
        /\ Within(w, i).size \in 0..MAX_BUF_READ_SIZE
     \/ Struct /\ From("sized", "struct") /\ IsMsghdr(w, i)
     \/ Struct /\ From("kept", "control")
     \/ Struct /\ From("vlen", "viov")
     \/ Struct /\ From("viov", "vnext")
     \/ code \in {"SAVE_STRING", "SAVE_STRING16"} /\ Ends("ready") /\ AnyLength(Within(w, i))
     \/ code = "SAVE_PTR_STRING" /\ From("body", "next")
Turned(w, code, op, a, b) ==
  LET i == a.arg
  IN /\ code = "FOR_BREAK"
     /\ \/ a.at = "armed" /\ b = Label(i, "body")
        \/ a.at = "next" /\ b = Label(i + 1, "start") /\ HasStrings(w, i)
        \/ a.at = "bound" /\ b = Label(i, "vbody")
        \/ a.at = "vnext" /\ b = Label(i + 1, "start") /\ IsMsghdr(w, i)

Does(w, code, op, a, b) ==
  \/ Leaves(w, code, a) /\ b = a
  \/ Moves(w, code, op, a, b)
  \/ Points(w, code, op, a, b)
  \/ Saves(w, code, op, a, b)
  \/ Turned(w, code, op, a, b)

(* An operation, its code and then its post code.                          *)
Goes(w, op, a, b) ==
  /\ op.code = "FOR_BREAK" => op.post = "SKIP"
  /\ op.code = "READ_REG" => op.post # "SKIP"
  /\ op.post \notin {"FOR_BREAK", "READ_REG"}
  /\ \E e, m : /\ Entails(w, a, e) /\ Does(w, op.code, op, e, m)
               /\ IF op.post = "SKIP" THEN m = b ELSE Does(w, op.post, op, m, b)

(* A list of operations that goes from one stage to another.               *)
Along(w, list, r) == \A k \in 1..Len(list) : Goes(w, list[k], r[k - 1], r[k])
Route(w, list, a, b) ==
  /\ list \in Seq(Operations)
  /\ \E r : Entails(w, a, r[0]) /\ Along(w, list, r) /\ Entails(w, r[Len(list)], b)

LEMMA EntailsAll ==
  ASSUME NEW w, NEW a, NEW b, NEW c, Entails(w, a, b), Entails(w, b, c)
  PROVE  Entails(w, a, c)
BY DEF Entails, Label, Within

LEMMA RouteNone ==
  ASSUME NEW w, NEW a, NEW b, Entails(w, a, b)
  PROVE  Route(w, <<>>, a, b)
<1> DEFINE r == [k \in 0..0 |-> a]
<1>1. <<>> \in Seq(Operations) /\ Len(<<>>) = 0 /\ r[0] = a
  OBVIOUS
<1>2. Entails(w, a, a)
  BY DEF Entails
<1> HIDE DEF r
<1>3. Along(w, <<>>, r)
  BY <1>1 DEF Along
<1> QED
  BY <1>1, <1>2, <1>3 DEF Route

LEMMA RouteOn ==
  ASSUME NEW w, NEW l, NEW m, NEW a, NEW b, NEW c, Route(w, l, a, b), Route(w, m, b, c)
  PROVE  Route(w, l \o m, a, c)
<1>1. PICK r : Entails(w, a, r[0]) /\ Along(w, l, r) /\ Entails(w, r[Len(l)], b)
  BY DEF Route
<1>2. PICK q : Entails(w, b, q[0]) /\ Along(w, m, q) /\ Entails(w, q[Len(m)], c)
  BY DEF Route
<1>3. /\ l \in Seq(Operations) /\ m \in Seq(Operations) /\ l \o m \in Seq(Operations)
      /\ Len(l \o m) = Len(l) + Len(m) /\ Len(l) \in Nat /\ Len(m) \in Nat
  BY DEF Route
<1> DEFINE v == [k \in 0..Len(l \o m) |-> IF k <= Len(l) THEN r[k] ELSE q[k - Len(l)]]
<1>4. \A k \in 0..Len(l) : v[k] = r[k]
  BY <1>3
<1>5. \A k \in 1..Len(m) : v[Len(l) + k] = q[k]
  <2>1. ASSUME NEW k \in 1..Len(m) PROVE v[Len(l) + k] = q[k]
    <3>1. /\ Len(l) + k \in 0..Len(l \o m) /\ ~(Len(l) + k <= Len(l))
          /\ (Len(l) + k) - Len(l) = k
      BY <1>3
    <3> QED
      BY <3>1
  <2> QED
    BY <2>1
<1> HIDE DEF v
<1>6. Entails(w, r[Len(l)], q[0])
  BY <1>1, <1>2, EntailsAll
<1>7. ASSUME NEW k \in 1..Len(l \o m) PROVE Goes(w, (l \o m)[k], v[k - 1], v[k])
  <2>1. CASE k <= Len(l)
    <3>1. k \in 1..Len(l) /\ k \in 0..Len(l) /\ k - 1 \in 0..Len(l)
      BY <1>3, <2>1
    <3>2. (l \o m)[k] = l[k]
      BY <1>3, <3>1
    <3> QED
      BY <1>1, <1>4, <3>1, <3>2 DEF Along
  <2>2. CASE ~(k <= Len(l))
    <3>1. PICK j \in 1..Len(m) : k = Len(l) + j
      <4>1. k - Len(l) \in 1..Len(m) /\ k = Len(l) + (k - Len(l))
        BY <1>3, <2>2
      <4> QED
        BY <4>1
    <3>2. (l \o m)[k] = m[j]
      BY <1>3, <3>1
    <3>3. Goes(w, m[j], q[j - 1], q[j]) /\ v[k] = q[j]
      BY <1>2, <1>5, <3>1 DEF Along
    <3>4. CASE j = 1
      <4>1. v[k - 1] = r[Len(l)] /\ q[j - 1] = q[0]
        <5>1. k - 1 = Len(l) /\ Len(l) \in 0..Len(l) /\ j - 1 = 0
          BY <1>3, <3>1, <3>4
        <5> QED
          BY <1>4, <5>1
      <4>2. \A e : Entails(w, q[0], e) => Entails(w, r[Len(l)], e)
        BY <1>6, EntailsAll
      <4> QED
        BY <3>2, <3>3, <4>1, <4>2 DEF Goes
    <3>5. CASE j # 1
      <4>1. j - 1 \in 1..Len(m) /\ k - 1 = Len(l) + (j - 1)
        BY <1>3, <3>1, <3>5
      <4>2. v[k - 1] = q[j - 1]
        BY <1>5, <4>1
      <4> QED
        BY <3>2, <3>3, <4>2
    <3> QED
      BY <3>4, <3>5
  <2> QED
    BY <2>1, <2>2
<1>8. Entails(w, a, v[0])
  <2>1. 0 \in 0..Len(l)
    BY <1>3
  <2> QED
    BY <1>1, <1>4, <2>1
<1>9. Entails(w, v[Len(l \o m)], c)
  <2>1. CASE Len(m) = 0
    <3>1. Len(l \o m) = Len(l) /\ Len(l) \in 0..Len(l)
      BY <1>3, <2>1
    <3>2. v[Len(l \o m)] = r[Len(l)] /\ Entails(w, q[0], c)
      BY <1>2, <1>4, <2>1, <3>1
    <3> QED
      BY <1>6, <3>2, EntailsAll
  <2>2. CASE Len(m) # 0
    <3>1. Len(m) \in 1..Len(m) /\ Len(l \o m) = Len(l) + Len(m)
      BY <1>3, <2>2
    <3>2. v[Len(l \o m)] = q[Len(m)]
      BY <1>5, <3>1
    <3> QED
      BY <1>2, <3>2
  <2> QED
    BY <2>1, <2>2
<1> QED
  BY <1>3, <1>7, <1>8, <1>9 DEF Route, Along

(* The stages one by one: labs[k] before the k-th operation.               *)
LEMMA RouteOf ==
  ASSUME NEW w, NEW list \in Seq(Operations), NEW labs,
         \A k \in 1..Len(list) : Goes(w, list[k], labs[k], labs[k + 1])
  PROVE  Route(w, list, labs[1], labs[Len(list) + 1])
<1> DEFINE r == [k \in 0..Len(list) |-> labs[k + 1]]
<1>1. Len(list) \in Nat
  OBVIOUS
<1>2. \A k \in 1..Len(list) : r[k] = labs[k + 1] /\ r[k - 1] = labs[k]
  <2>1. ASSUME NEW k \in 1..Len(list) PROVE r[k] = labs[k + 1] /\ r[k - 1] = labs[k]
    <3>1. k \in 0..Len(list) /\ k - 1 \in 0..Len(list) /\ (k - 1) + 1 = k
      BY <1>1
    <3> QED
      BY <3>1
  <2> QED
    BY <2>1
<1>3. r[0] = labs[1] /\ r[Len(list)] = labs[Len(list) + 1]
  <2>1. 0 \in 0..Len(list) /\ Len(list) \in 0..Len(list) /\ 0 + 1 = 1
    BY <1>1
  <2> QED
    BY <2>1
<1> HIDE DEF r
<1>4. Along(w, list, r)
  BY <1>2 DEF Along
<1>5. \A a : Entails(w, a, a)
  BY DEF Entails
<1> QED
  BY <1>3, <1>4, <1>5 DEF Route

LEMMA RouteOne ==
  ASSUME NEW w, NEW op \in Operations, NEW a, NEW b, Goes(w, op, a, b)
  PROVE  Route(w, <<op>>, a, b)
<1> DEFINE labs == <<a, b>>
<1>1. <<op>> \in Seq(Operations) /\ Len(<<op>>) = 1 /\ <<op>>[1] = op
  OBVIOUS
<1>2. labs[1] = a /\ labs[2] = b /\ 1 + 1 = 2
  OBVIOUS
<1> HIDE DEF labs
<1>3. \A k \in 1..Len(<<op>>) : Goes(w, <<op>>[k], labs[k], labs[k + 1])
  BY <1>1, <1>2
<1>4. Route(w, <<op>>, labs[1], labs[Len(<<op>>) + 1])
  BY <1>1, <1>3, RouteOf
<1> QED
  BY <1>1, <1>2, <1>4

LEMMA RouteWeaker ==
  ASSUME NEW w, NEW list, NEW a, NEW b, NEW c, NEW d,
         Entails(w, a, b), Route(w, list, b, c), Entails(w, c, d)
  PROVE  Route(w, list, a, d)
BY EntailsAll DEF Route

-----------------------------------------------------------------------------
(* The routes of the types.                                                *)
LEMMA GoesOnce ==
  ASSUME NEW w, NEW op, op.post = "SKIP", op.code # "READ_REG", NEW a, NEW b,
         Does(w, op.code, op, a, b)
  PROVE  Goes(w, op, a, b)
<1>1. Entails(w, a, a)
  BY DEF Entails
<1> QED
  BY <1>1 DEF Goes

LEMMA GoesTwice ==
  ASSUME NEW w, NEW op, op.post \notin {"SKIP", "FOR_BREAK", "READ_REG"},
         op.code # "FOR_BREAK", NEW a, NEW b, NEW c,
         Does(w, op.code, op, a, b), Does(w, op.post, op, b, c)
  PROVE  Goes(w, op, a, c)
<1>1. Entails(w, a, a)
  BY DEF Entails
<1> QED
  BY <1>1 DEF Goes

LEMMA OpFields ==
  /\ \A code : /\ Op(code).code = code /\ Op(code).pre = "SKIP" /\ Op(code).post = "SKIP"
  /\ \A code, n : /\ OpValue(code, n).code = code /\ OpValue(code, n).pre = "SKIP"
                  /\ OpValue(code, n).post = "SKIP" /\ OpValue(code, n).value = n
  /\ \A n : /\ set_read_len(n).code = "SET_READ_LEN" /\ set_read_len(n).post = "SKIP"
            /\ set_read_len(n).value = n
            /\ save_struct(n).code = "SET_READ_LEN" /\ save_struct(n).post = "SAVE_STRUCT"
            /\ save_struct(n).value = n /\ save_struct(n).pre = "SKIP"
  /\ \A n, post : /\ ReadPtr(n, post).code = "READ_POINTER" /\ ReadPtr(n, post).post = post
                  /\ ReadPtr(n, post).pre = "ADD_OFFSET" /\ ReadPtr(n, post).value = n
                  /\ ReadReg(n, post).code = "READ_REG" /\ ReadReg(n, post).post = post
                  /\ ReadReg(n, post).pre = "SET_REG_INDEX" /\ ReadReg(n, post).value = n
BY DEF Op, OpValue, OpThen, set_read_len, save_struct, ReadPtr, ReadReg

(* The texts.                                                              *)
LEMMA TextRoute ==
  ASSUME NEW w, NEW i, NEW list, AnyLength(Within(w, i)), ~IsMsghdr(w, i),
         list \in {StringType.ops, String16Type.ops, Il2cppType.ops, StdType.ops}
  PROVE  Route(w, list, Label(i, "ready"), Label(i + 1, "start"))
<1> DEFINE a == Label(i, "ready")
           b == Label(i + 1, "start")
<1>1. \A code \in {"SAVE_STRING", "SAVE_STRING16"} :
        Op(code) \in Operations /\ Goes(w, Op(code), a, b)
  <2>1. \A code \in {"SAVE_STRING", "SAVE_STRING16"} :
          /\ Op(code) \in Operations /\ Op(code).code = code /\ Op(code).post = "SKIP"
          /\ code # "READ_REG" /\ Does(w, code, Op(code), a, b)
    BY DEF Does, Saves, Label, Op, Operations, Codes
  <2> HIDE DEF a, b
  <2> QED
    BY <2>1, GoesOnce
<1>2. \A code \in {"READ_IL2CPP_STRING", "READ_STD_STRING"} :
        Op(code) \in Operations /\ Goes(w, Op(code), a, a)
  <2>1. \A code \in {"READ_IL2CPP_STRING", "READ_STD_STRING"} :
          /\ Op(code) \in Operations /\ Op(code).code = code /\ Op(code).post = "SKIP"
          /\ code # "READ_REG" /\ Does(w, code, Op(code), a, a)
    BY DEF Does, Leaves, AddrCodes, Label, Op, Operations, Codes, RegisterCodes
  <2> HIDE DEF a, b
  <2> QED
    BY <2>1, GoesOnce
<1>3. ASSUME NEW x \in Operations, NEW y \in Operations, Goes(w, x, a, a), Goes(w, y, a, b)
      PROVE  Route(w, <<x, y>>, a, b)
  <2> DEFINE labs == <<a, a, b>>
             pair == <<x, y>>
  <2>1. pair \in Seq(Operations) /\ Len(pair) = 2 /\ pair[1] = x /\ pair[2] = y
    BY <1>3
  <2>2. labs[1] = a /\ labs[2] = a /\ labs[3] = b
    OBVIOUS
  <2> HIDE DEF a, b, labs, pair
  <2>3. \A k \in 1..Len(pair) : Goes(w, pair[k], labs[k], labs[k + 1])
    BY <1>3, <2>1, <2>2
  <2>4. Route(w, pair, labs[1], labs[Len(pair) + 1])
    BY <2>1, <2>3, RouteOf
  <2> QED
    BY <2>1, <2>2, <2>4 DEF pair
<1>4. /\ StringType.ops = <<Op("SAVE_STRING")>> /\ String16Type.ops = <<Op("SAVE_STRING16")>>
      /\ Il2cppType.ops = <<Op("READ_IL2CPP_STRING"), Op("SAVE_STRING16")>>
      /\ StdType.ops = <<Op("READ_STD_STRING"), Op("SAVE_STRING")>>
  BY DEF StringType, String16Type, Il2cppType, StdType, Type
<1> HIDE DEF a, b
<1>5. CASE list \in {StringType.ops, String16Type.ops}
  BY <1>1, <1>4, <1>5, RouteOne DEF a, b
<1>6. CASE list \in {Il2cppType.ops, StdType.ops}
  BY <1>1, <1>2, <1>3, <1>4, <1>6 DEF a, b
<1> QED
  BY <1>5, <1>6

(* The buffers: a length, cut to a register or not.                        *)
LEMMA BufferRoute ==
  ASSUME NEW w, NEW i, NEW type, AnyLength(Within(w, i)), type.ops \in Seq(Operations),
         SavesBuffer(type)
  PROVE  Route(w, type.ops, Label(i, "ready"), Label(i + 1, "start"))
<1> DEFINE a == Label(i, "ready")
           b == Label(i + 1, "start")
           save == Op("SAVE_STRUCT")
<1>1. \A n : Goes(w, set_read_len(n), a, a)
  <2>1. \A n : /\ set_read_len(n).code = "SET_READ_LEN" /\ set_read_len(n).post = "SKIP"
               /\ Does(w, "SET_READ_LEN", set_read_len(n), a, a)
    BY OpFields DEF Does, Leaves, LenCodes, Label
  <2> HIDE DEF a
  <2> QED
    BY <2>1, GoesOnce
<1>2. \A n : Goes(w, build_read_reg_len(n), a, a)
  <2>1. \A n : LET op == build_read_reg_len(n)
               IN /\ op.code = "READ_REG" /\ op.post = "SET_READ_LEN_REG_VALUE"
                  /\ Does(w, "READ_REG", op, a, a)
                  /\ Does(w, "SET_READ_LEN_REG_VALUE", op, a, a)
    BY OpFields DEF Does, Leaves, LenCodes, Label, build_read_reg_len
  <2> HIDE DEF a
  <2> QED
    BY <2>1, GoesTwice
<1>3. Goes(w, save, a, b)
  <2>1. /\ save.code = "SAVE_STRUCT" /\ save.post = "SKIP"
        /\ Does(w, "SAVE_STRUCT", save, a, b)
    BY OpFields DEF Does, Saves, Label
  <2> HIDE DEF a, b, save
  <2> QED
    BY <2>1, GoesOnce
<1>4. CASE type.ops = BufferLenType(type.size).ops
  <2> DEFINE labs == <<a, a, b>>
             list == <<set_read_len(type.size), save>>
  <2>1. type.ops = list
    BY <1>4 DEF BufferLenType, Type
  <2>2. Len(list) = 2 /\ list[1] = set_read_len(type.size) /\ list[2] = save
    OBVIOUS
  <2>3. labs[1] = a /\ labs[2] = a /\ labs[3] = b
    OBVIOUS
  <2> HIDE DEF a, b, labs, list, save
  <2>4. \A k \in 1..Len(list) : Goes(w, list[k], labs[k], labs[k + 1])
    BY <1>1, <1>3, <2>2, <2>3
  <2>5. Route(w, list, labs[1], labs[Len(list) + 1])
    BY <2>1, <2>4, RouteOf
  <2> QED
    BY <2>1, <2>2, <2>3, <2>5 DEF a, b
<1>5. CASE Len(type.ops) = 3 /\ type.ops = BufferRegType(type.ops[2].value).ops
  <2> DEFINE labs == <<a, a, a, b>>
             reg == type.ops[2].value
             list == <<set_read_len(MAX_BUF_READ_SIZE), build_read_reg_len(reg), save>>
  <2>1. type.ops = list
    BY <1>5 DEF BufferRegType, Type
  <2>2. /\ Len(list) = 3 /\ list[1] = set_read_len(MAX_BUF_READ_SIZE)
        /\ list[2] = build_read_reg_len(reg) /\ list[3] = save
    OBVIOUS
  <2>3. labs[1] = a /\ labs[2] = a /\ labs[3] = a /\ labs[4] = b
    OBVIOUS
  <2> HIDE DEF a, b, labs, list, save, reg
  <2>4. \A k \in 1..Len(list) : Goes(w, list[k], labs[k], labs[k + 1])
    BY <1>1, <1>2, <1>3, <2>2, <2>3
  <2>5. Route(w, list, labs[1], labs[Len(list) + 1])
    BY <2>1, <2>4, RouteOf
  <2> QED
    BY <2>1, <2>2, <2>3, <2>5 DEF a, b
<1> QED
  BY <1>4, <1>5 DEF SavesBuffer

(* A struct or array of the size of the type.                              *)
LEMMA StructRoute ==
  ASSUME NEW w, NEW i, NEW type, Within(w, i) = type, HasSize(type),
         type.ops \in Seq(Operations), SavesStruct(type)
  PROVE  Route(w, type.ops, Label(i, "ready"), Label(i + 1, "start"))
<1> DEFINE a == Label(i, "ready")
           s == Label(i, "sized")
           b == Label(i + 1, "start")
           save == Op("SAVE_STRUCT")
           n == type.size
<1>1. type.ops \in {<<set_read_len(n), save>>, <<save_struct(n)>>} /\ n \in 0..MAX_BUF_READ_SIZE
  BY DEF SavesStruct, StructType, ArrayType, Type
<1>2. Goes(w, set_read_len(n), a, s) /\ Goes(w, save, s, b)
  <2>1. /\ set_read_len(n).code = "SET_READ_LEN" /\ set_read_len(n).post = "SKIP"
        /\ Does(w, "SET_READ_LEN", set_read_len(n), a, s)
    BY OpFields DEF Does, Moves, Label
  <2>2. /\ save.code = "SAVE_STRUCT" /\ save.post = "SKIP"
        /\ Does(w, "SAVE_STRUCT", save, s, b)
    BY <1>1, OpFields DEF Does, Saves, Label
  <2> HIDE DEF a, s, b, save, n
  <2> QED
    BY <2>1, <2>2, GoesOnce
<1>3. Goes(w, save_struct(n), a, b)
  <2>1. /\ save_struct(n).code = "SET_READ_LEN" /\ save_struct(n).post = "SAVE_STRUCT"
        /\ Does(w, "SET_READ_LEN", save_struct(n), a, s)
        /\ Does(w, "SAVE_STRUCT", save_struct(n), s, b)
    BY <1>1, OpFields DEF Does, Moves, Saves, Label
  <2> HIDE DEF a, s, b, n
  <2> QED
    BY <2>1, GoesTwice
<1>4. CASE type.ops = <<set_read_len(n), save>>
  <2> DEFINE labs == <<a, s, b>>
             list == <<set_read_len(n), save>>
  <2>1. Len(list) = 2 /\ list[1] = set_read_len(n) /\ list[2] = save
    OBVIOUS
  <2>2. labs[1] = a /\ labs[2] = s /\ labs[3] = b
    OBVIOUS
  <2>3. type.ops = list
    BY <1>4
  <2> HIDE DEF a, b, s, labs, list, save, n
  <2>4. \A k \in 1..Len(list) : Goes(w, list[k], labs[k], labs[k + 1])
    BY <1>2, <2>1, <2>2
  <2>5. Route(w, list, labs[1], labs[Len(list) + 1])
    BY <2>3, <2>4, RouteOf
  <2> QED
    BY <2>1, <2>2, <2>3, <2>5 DEF a, b
<1>5. CASE type.ops = <<save_struct(n)>>
  <2>1. save_struct(n) \in Operations
    <3>1. 1 \in 1..Len(type.ops) /\ type.ops[1] = save_struct(n)
      BY <1>5
    <3> HIDE DEF n
    <3> QED
      BY <3>1
  <2> HIDE DEF a, b, n
  <2>2. Route(w, <<save_struct(n)>>, a, b)
    BY <1>3, <2>1, RouteOne
  <2> QED
    BY <1>5, <2>2 DEF a, b
<1> QED
  BY <1>1, <1>4, <1>5

LEMMA StringsRoute ==
  ASSUME NEW w, NEW i, HasStrings(w, i)
  PROVE  Route(w, StringArrayType.ops, Label(i, "ready"), Label(i + 1, "start"))
<1> DEFINE a == Label(i, "ready")
           arm == Label(i, "armed")
           body == Label(i, "body")
           nxt == Label(i, "next")
           b == Label(i + 1, "start")
           set == OpValue("SET_BREAK_COUNT", MAX_LOOP_COUNT)
           for == Op("FOR_BREAK")
           save == Op("SAVE_PTR_STRING")
           add == OpValue("ADD_OFFSET", 8)
           list == <<set, for, save, add, for>>
           labs == <<a, arm, body, nxt, nxt, b>>
<1>1. /\ set \in Operations /\ for \in Operations /\ save \in Operations /\ add \in Operations
  BY DEF Op, OpValue, Operations, Codes, RegisterCodes, MAX_LOOP_COUNT
<1>2. StringArrayType.ops = list
  <2>1. StringArrayType.ops = <<set>> \o (<<for>> \o <<save, add>> \o <<for>>)
    BY DEF StringArrayType, Type, Loop
  <2> HIDE DEF set, for, save, add
  <2>2. <<set>> \o (<<for>> \o <<save, add>> \o <<for>>) = <<set, for, save, add, for>>
    BY <1>1, LoopOfTwo
  <2> QED
    BY <2>1, <2>2
<1>3. /\ set.code = "SET_BREAK_COUNT" /\ set.post = "SKIP"
      /\ Does(w, "SET_BREAK_COUNT", set, a, arm)
  BY OpFields DEF Does, Moves, Label
<1>4. /\ for.code = "FOR_BREAK" /\ for.post = "SKIP"
      /\ Does(w, "FOR_BREAK", for, arm, body) /\ Does(w, "FOR_BREAK", for, nxt, b)
  BY OpFields DEF Does, Turned, Label
<1>5. /\ save.code = "SAVE_PTR_STRING" /\ save.post = "SKIP"
      /\ Does(w, "SAVE_PTR_STRING", save, body, nxt)
  BY OpFields DEF Does, Saves, Label
<1>6. /\ add.code = "ADD_OFFSET" /\ add.post = "SKIP" /\ Does(w, "ADD_OFFSET", add, nxt, nxt)
  BY OpFields DEF Does, Leaves, AddrCodes, Label
<1>7. /\ Len(list) = 5 /\ list[1] = set /\ list[2] = for /\ list[3] = save /\ list[4] = add
      /\ list[5] = for
      /\ labs[1] = a /\ labs[2] = arm /\ labs[3] = body /\ labs[4] = nxt /\ labs[5] = nxt
      /\ labs[6] = b
  OBVIOUS
<1>8. list \in Seq(Operations)
  BY <1>1
<1> HIDE DEF a, arm, body, nxt, b, set, for, save, add, list, labs
<1>9. /\ Goes(w, set, a, arm) /\ Goes(w, for, arm, body) /\ Goes(w, save, body, nxt)
      /\ Goes(w, add, nxt, nxt) /\ Goes(w, for, nxt, b)
  BY <1>3, <1>4, <1>5, <1>6, GoesOnce
<1>10. \A k \in 1..Len(list) : Goes(w, list[k], labs[k], labs[k + 1])
  BY <1>7, <1>9
<1>11. Route(w, list, labs[1], labs[Len(list) + 1])
  BY <1>8, <1>10, RouteOf
<1> QED
  BY <1>2, <1>7, <1>11 DEF a, b

(* A msghdr: the struct, the control bytes, the count and the address of   *)
(* its vector; then the vector.                                            *)
LEMMA MsghdrRoute ==
  ASSUME NEW w, NEW i, IsMsghdr(w, i)
  PROVE  Route(w, MsghdrType.ops, Label(i, "ready"), Label(i + 1, "start"))
<1> DEFINE L(at) == Label(i, at)
           b == Label(i + 1, "start")
           save == Op("SAVE_STRUCT")
           tmp == Op("SET_TMP_VALUE")
           back == Op("MOVE_TMP_VALUE")
           size == set_read_len(SIZEOF_MSGHDR)
           most == set_read_len(MAX_BUF_READ_SIZE)
           clen == build_read_ptr_len(40)
           cptr == build_read_ptr_addr(32)
           vlen == build_read_ptr_break_count(24)
           vptr == build_read_ptr_addr(16)
           for == Op("FOR_BREAK")
           one == set_read_len(SIZEOF_IOVEC)
           blen == build_read_ptr_len(8)
           base == Op("READ_POINTER")
           move == Op("MOVE_POINTER_VALUE")
           add == OpValue("ADD_OFFSET", SIZEOF_IOVEC)
           front == <<size, save, tmp, most, clen, cptr, save, back, vlen, vptr>>
           iov == <<one, save, most, blen, base, move, save>>
<1>1. /\ save \in Operations /\ tmp \in Operations /\ back \in Operations
      /\ size \in Operations /\ most \in Operations /\ for \in Operations
      /\ one \in Operations /\ base \in Operations /\ move \in Operations
      /\ add \in Operations
  BY DEF Op, OpValue, set_read_len, Operations, Codes, RegisterCodes, SIZEOF_MSGHDR,
         SIZEOF_IOVEC, MAX_BUF_READ_SIZE
<1>2. /\ clen \in Operations /\ cptr \in Operations /\ vlen \in Operations
      /\ vptr \in Operations /\ blen \in Operations
  BY DEF build_read_ptr_len, build_read_ptr_addr, build_read_ptr_break_count, ReadPtr,
         Operations, Codes, RegisterCodes
<1>3. Within(w, i).size = SIZEOF_MSGHDR
  BY DEF Within, IsMsghdr, MsghdrType, Type
<1>4. MsghdrType.ops = front \o (<<for>> \o (<<tmp>> \o iov \o <<back, add>>) \o <<for>>)
  BY DEF MsghdrType, Type, IovecLoop, Loop, iovec_ops
<1>5. Goes(w, size, L("ready"), L("sized")) /\ Goes(w, one, L("vbody"), L("vlen"))
  <2>1. /\ size.code = "SET_READ_LEN" /\ size.post = "SKIP"
        /\ Does(w, "SET_READ_LEN", size, L("ready"), L("sized"))
    BY <1>3, OpFields DEF Does, Moves, Label
  <2>2. /\ one.code = "SET_READ_LEN" /\ one.post = "SKIP"
        /\ Does(w, "SET_READ_LEN", one, L("vbody"), L("vlen"))
    BY OpFields DEF Does, Moves, Label
  <2> HIDE DEF L, size, one
  <2> QED
    BY <2>1, <2>2, GoesOnce
<1>6. /\ Goes(w, save, L("sized"), L("struct")) /\ Goes(w, save, L("kept"), L("control"))
      /\ Goes(w, save, L("vlen"), L("viov")) /\ Goes(w, save, L("viov"), L("vnext"))
  <2>1. /\ save.code = "SAVE_STRUCT" /\ save.post = "SKIP"
        /\ Does(w, "SAVE_STRUCT", save, L("sized"), L("struct"))
        /\ Does(w, "SAVE_STRUCT", save, L("kept"), L("control"))
        /\ Does(w, "SAVE_STRUCT", save, L("vlen"), L("viov"))
        /\ Does(w, "SAVE_STRUCT", save, L("viov"), L("vnext"))
    BY OpFields DEF Does, Saves, Label
  <2> HIDE DEF L, save
  <2> QED
    BY <2>1, GoesOnce
<1>7. /\ Goes(w, tmp, L("struct"), L("kept")) /\ Goes(w, tmp, L("vbody"), L("vbody"))
      /\ Goes(w, back, L("control"), L("back")) /\ Goes(w, back, L("vnext"), L("vnext"))
      /\ Goes(w, add, L("vnext"), L("vnext"))
  <2>1. /\ tmp.code = "SET_TMP_VALUE" /\ tmp.post = "SKIP"
        /\ Does(w, "SET_TMP_VALUE", tmp, L("struct"), L("kept"))
        /\ Does(w, "SET_TMP_VALUE", tmp, L("vbody"), L("vbody"))
    BY OpFields DEF Does, Moves, Leaves, Label
  <2>2. /\ back.code = "MOVE_TMP_VALUE" /\ back.post = "SKIP"
        /\ Does(w, "MOVE_TMP_VALUE", back, L("control"), L("back"))
        /\ Does(w, "MOVE_TMP_VALUE", back, L("vnext"), L("vnext"))
    BY OpFields DEF Does, Moves, Leaves, AddrCodes, Label
  <2>3. /\ add.code = "ADD_OFFSET" /\ add.post = "SKIP"
        /\ Does(w, "ADD_OFFSET", add, L("vnext"), L("vnext"))
    BY OpFields DEF Does, Leaves, AddrCodes, Label
  <2> HIDE DEF L, tmp, back, add
  <2> QED
    BY <2>1, <2>2, <2>3, GoesOnce
<1>8. /\ Goes(w, most, L("kept"), L("kept")) /\ Goes(w, most, L("viov"), L("viov"))
      /\ Goes(w, base, L("viov"), L("viov")) /\ Goes(w, move, L("viov"), L("viov"))
  <2>1. /\ most.code = "SET_READ_LEN" /\ most.post = "SKIP"
        /\ Does(w, "SET_READ_LEN", most, L("kept"), L("kept"))
        /\ Does(w, "SET_READ_LEN", most, L("viov"), L("viov"))
    BY OpFields DEF Does, Leaves, LenCodes, Label
  <2>2. /\ base.code = "READ_POINTER" /\ base.post = "SKIP"
        /\ Does(w, "READ_POINTER", base, L("viov"), L("viov"))
    BY OpFields DEF Does, Leaves, Label
  <2>3. /\ move.code = "MOVE_POINTER_VALUE" /\ move.post = "SKIP"
        /\ Does(w, "MOVE_POINTER_VALUE", move, L("viov"), L("viov"))
    BY OpFields DEF Does, Leaves, AddrCodes, Label
  <2> HIDE DEF L, most, base, move
  <2> QED
    BY <2>1, <2>2, <2>3, GoesOnce
<1>9. /\ Goes(w, clen, L("kept"), L("kept")) /\ Goes(w, cptr, L("kept"), L("kept"))
      /\ Goes(w, vptr, L("bound"), L("bound")) /\ Goes(w, blen, L("viov"), L("viov"))
  <2>1. /\ clen.code = "READ_POINTER" /\ clen.post = "SET_READ_LEN_POINTER_VALUE"
        /\ Does(w, "READ_POINTER", clen, L("kept"), L("kept"))
        /\ Does(w, "SET_READ_LEN_POINTER_VALUE", clen, L("kept"), L("kept"))
    BY OpFields DEF Does, Leaves, LenCodes, Label, build_read_ptr_len
  <2>2. /\ blen.code = "READ_POINTER" /\ blen.post = "SET_READ_LEN_POINTER_VALUE"
        /\ Does(w, "READ_POINTER", blen, L("viov"), L("viov"))
        /\ Does(w, "SET_READ_LEN_POINTER_VALUE", blen, L("viov"), L("viov"))
    BY OpFields DEF Does, Leaves, LenCodes, Label, build_read_ptr_len
  <2>3. /\ cptr.code = "READ_POINTER" /\ cptr.post = "MOVE_POINTER_VALUE"
        /\ Does(w, "READ_POINTER", cptr, L("kept"), L("kept"))
        /\ Does(w, "MOVE_POINTER_VALUE", cptr, L("kept"), L("kept"))
    BY OpFields DEF Does, Leaves, AddrCodes, Label, build_read_ptr_addr
  <2>4. /\ vptr.code = "READ_POINTER" /\ vptr.post = "MOVE_POINTER_VALUE"
        /\ Does(w, "READ_POINTER", vptr, L("bound"), L("bound"))
        /\ Does(w, "MOVE_POINTER_VALUE", vptr, L("bound"), L("bound"))
    BY OpFields DEF Does, Leaves, AddrCodes, Label, build_read_ptr_addr
  <2> HIDE DEF L, clen, blen, cptr, vptr
  <2> QED
    BY <2>1, <2>2, <2>3, <2>4, GoesTwice
<1>10. Goes(w, vlen, L("back"), L("bound"))
  <2>1. /\ vlen.code = "READ_POINTER" /\ vlen.post = "SET_BREAK_COUNT_POINTER_VALUE"
        /\ Does(w, "READ_POINTER", vlen, L("back"), L("counted"))
    BY OpFields DEF Does, Points, Label, build_read_ptr_break_count
  <2>2. Does(w, "SET_BREAK_COUNT_POINTER_VALUE", vlen, L("counted"), L("bound"))
    BY DEF Does, Moves, Label
  <2> HIDE DEF L, vlen
  <2> QED
    BY <2>1, <2>2, GoesTwice
<1>11. Goes(w, for, L("bound"), L("vbody")) /\ Goes(w, for, L("vnext"), b)
  <2>1. /\ for.code = "FOR_BREAK" /\ for.post = "SKIP"
        /\ Does(w, "FOR_BREAK", for, L("bound"), L("vbody"))
        /\ Does(w, "FOR_BREAK", for, L("vnext"), b)
    BY OpFields DEF Does, Turned, Label
  <2> HIDE DEF L, b, for
  <2> QED
    BY <2>1, GoesOnce
<1> HIDE DEF L, save, tmp, back, size, most, clen, cptr, vlen, vptr, for, one, blen, base,
             move, add
<1>12. Route(w, front, L("ready"), L("bound"))
  <2> DEFINE labs == <<L("ready"), L("sized"), L("struct"), L("kept"), L("kept"), L("kept"),
                       L("kept"), L("control"), L("back"), L("bound"), L("bound")>>
  <2>1. front \in Seq(Operations)
    BY <1>1, <1>2
  <2>2. /\ Len(front) = 10
        /\ front[1] = size /\ front[2] = save /\ front[3] = tmp /\ front[4] = most
        /\ front[5] = clen /\ front[6] = cptr /\ front[7] = save /\ front[8] = back
        /\ front[9] = vlen /\ front[10] = vptr
    OBVIOUS
  <2>3. /\ labs[1] = L("ready") /\ labs[2] = L("sized") /\ labs[3] = L("struct")
        /\ labs[4] = L("kept") /\ labs[5] = L("kept") /\ labs[6] = L("kept")
        /\ labs[7] = L("kept") /\ labs[8] = L("control") /\ labs[9] = L("back")
        /\ labs[10] = L("bound") /\ labs[11] = L("bound")
    OBVIOUS
  <2> HIDE DEF front, labs
  <2>4. \A k \in 1..Len(front) : Goes(w, front[k], labs[k], labs[k + 1])
    BY <1>5, <1>6, <1>7, <1>8, <1>9, <1>10, <2>2, <2>3
  <2>5. Route(w, front, labs[1], labs[Len(front) + 1])
    BY <2>1, <2>4, RouteOf
  <2> QED
    BY <2>2, <2>3, <2>5
<1>13. Route(w, iov, L("vbody"), L("vnext"))
  <2> DEFINE labs == <<L("vbody"), L("vlen"), L("viov"), L("viov"), L("viov"), L("viov"),
                       L("viov"), L("vnext")>>
  <2>1. iov \in Seq(Operations)
    BY <1>1, <1>2
  <2>2. /\ Len(iov) = 7
        /\ iov[1] = one /\ iov[2] = save /\ iov[3] = most /\ iov[4] = blen
        /\ iov[5] = base /\ iov[6] = move /\ iov[7] = save
    OBVIOUS
  <2>3. /\ labs[1] = L("vbody") /\ labs[2] = L("vlen") /\ labs[3] = L("viov")
        /\ labs[4] = L("viov") /\ labs[5] = L("viov") /\ labs[6] = L("viov")
        /\ labs[7] = L("viov") /\ labs[8] = L("vnext")
    OBVIOUS
  <2> HIDE DEF iov, labs
  <2>4. \A k \in 1..Len(iov) : Goes(w, iov[k], labs[k], labs[k + 1])
    BY <1>5, <1>6, <1>8, <1>9, <2>2, <2>3
  <2>5. Route(w, iov, labs[1], labs[Len(iov) + 1])
    BY <2>1, <2>4, RouteOf
  <2> QED
    BY <2>2, <2>3, <2>5
<1>14. Route(w, <<back, add>>, L("vnext"), L("vnext"))
  <2> DEFINE labs == <<L("vnext"), L("vnext"), L("vnext")>>
             pair == <<back, add>>
  <2>1. pair \in Seq(Operations) /\ Len(pair) = 2 /\ pair[1] = back /\ pair[2] = add
    BY <1>1
  <2>2. labs[1] = L("vnext") /\ labs[2] = L("vnext") /\ labs[3] = L("vnext")
    OBVIOUS
  <2> HIDE DEF pair, labs
  <2>3. \A k \in 1..Len(pair) : Goes(w, pair[k], labs[k], labs[k + 1])
    BY <1>7, <2>1, <2>2
  <2>4. Route(w, pair, labs[1], labs[Len(pair) + 1])
    BY <2>1, <2>3, RouteOf
  <2> QED
    BY <2>1, <2>2, <2>4 DEF pair
<1>15. /\ Route(w, <<tmp>>, L("vbody"), L("vbody"))
       /\ Route(w, <<for>>, L("bound"), L("vbody")) /\ Route(w, <<for>>, L("vnext"), b)
  BY <1>1, <1>7, <1>11, RouteOne
<1> DEFINE end == <<back, add>>
           open == <<for>>
           keep == <<tmp>>
<1>16. /\ Route(w, front, L("ready"), L("bound")) /\ Route(w, open, L("bound"), L("vbody"))
       /\ Route(w, keep, L("vbody"), L("vbody")) /\ Route(w, iov, L("vbody"), L("vnext"))
       /\ Route(w, end, L("vnext"), L("vnext")) /\ Route(w, open, L("vnext"), b)
  BY <1>12, <1>13, <1>14, <1>15
<1> HIDE DEF front, iov, end, open, keep
<1>17. Route(w, keep \o iov, L("vbody"), L("vnext"))
  BY <1>16, RouteOn
<1>18. Route(w, keep \o iov \o end, L("vbody"), L("vnext"))
  BY <1>16, <1>17, RouteOn
<1>19. Route(w, open \o (keep \o iov \o end), L("bound"), L("vnext"))
  BY <1>16, <1>18, RouteOn
<1>20. Route(w, open \o (keep \o iov \o end) \o open, L("bound"), b)
  BY <1>16, <1>19, RouteOn
<1>21. Route(w, front \o (open \o (keep \o iov \o end) \o open), L("ready"), b)
  BY <1>16, <1>20, RouteOn
<1> QED
  BY <1>4, <1>21 DEF L, b, open, keep, end

(* What follows the value of an argument, of any type that can be read.    *)
LEMMA PlainRoute ==
  ASSUME NEW w, NEW i, NEW type, Within(w, i) = type, Plain(type), ~IsMsghdr(w, i)
  PROVE  Route(w, type.ops, Label(i, "ready"), Label(i + 1, "start"))
<1>1. type.ops \in Seq(Operations)
  BY DEF Plain
<1>2. CASE IsNumber(type) /\ type.ops = <<>>
  <2>1. Entails(w, Label(i, "ready"), Label(i + 1, "start"))
    BY <1>2 DEF Entails, Label
  <2> QED
    BY <1>2, <2>1, RouteNone
<1>3. CASE AnyLength(type) /\ SavesText(type)
  BY <1>3, TextRoute DEF SavesText
<1>4. CASE AnyLength(type) /\ SavesBuffer(type)
  BY <1>1, <1>4, BufferRoute
<1>5. CASE HasSize(type) /\ SavesStruct(type)
  BY <1>1, <1>5, StructRoute
<1>6. CASE type.base = "STRUCT" /\ type.name = "string_array" /\ SavesStrings(type)
  BY <1>6, StringsRoute DEF SavesStrings, HasStrings
<1> QED
  BY <1>2, <1>3, <1>4, <1>5, <1>6 DEF Plain

LEMMA MsghdrIsNotPlain == ~Plain(MsghdrType) /\ MsghdrType.child = <<>>
<1>1. /\ MsghdrType.base = "STRUCT" /\ MsghdrType.name = "msghdr" /\ MsghdrType.child = <<>>
  BY DEF MsghdrType, Type
<1> QED
  BY <1>1 DEF Plain, IsNumber, AnyLength, HasSize, ReadByName

LEMMA TypeRoute ==
  ASSUME NEW w, NEW i, More(w, i), ReadableType(w.args[i].type),
         w.args[i].type.ops \in Seq(Operations)
  PROVE  Route(w, w.args[i].type.ops, Label(i, "valued"), Label(i + 1, "start"))
<1> DEFINE type == w.args[i].type
           a == Label(i, "valued")
           s == Label(i, "ready")
           b == Label(i + 1, "start")
<1>1. Entails(w, b, b) /\ Entails(w, s, s) /\ (type.child = <<>> => Entails(w, a, s))
  BY DEF Entails, Label
<1>2. CASE Plain(type)
  <2>1. Within(w, i) = type /\ ~IsMsghdr(w, i) /\ type.child = <<>>
    BY <1>2, MsghdrIsNotPlain DEF Within, Plain, IsMsghdr
  <2>2. Route(w, type.ops, s, b)
    BY <1>2, <2>1, PlainRoute
  <2> HIDE DEF a, s, b, type
  <2>3. Route(w, type.ops, a, b)
    BY <1>1, <2>1, <2>2, RouteWeaker
  <2> QED
    BY <2>3 DEF a, b, type
<1>3. CASE type = MsghdrType
  <2>1. IsMsghdr(w, i) /\ type.child = <<>>
    BY <1>3, MsghdrIsNotPlain DEF IsMsghdr
  <2>2. Route(w, type.ops, s, b)
    BY <1>3, <2>1, MsghdrRoute
  <2> HIDE DEF a, s, b, type
  <2>3. Route(w, type.ops, a, b)
    BY <1>1, <2>1, <2>2, RouteWeaker
  <2> QED
    BY <2>3 DEF a, b, type
<1>4. CASE /\ Len(type.child) = 1 /\ Plain(type.child[1])
           /\ type.child = <<type.child[1]>>
           /\ type.ops = PointerType(type.child[1]).ops
  <2> DEFINE child == type.child[1]
             op == save_struct(8)
  <2>1. type.child # <<>>
    BY <1>4
  <2>2. Within(w, i) = child /\ ~IsMsghdr(w, i)
    BY <2>1, MsghdrIsNotPlain DEF Within, IsMsghdr
  <2>3. Route(w, child.ops, s, b)
    BY <1>4, <2>2, PlainRoute
  <2>4. type.ops = <<op>> \o child.ops
    BY <1>4 DEF PointerType, Type
  <2>5. Goes(w, op, a, s)
    <3>1. /\ op.code = "SET_READ_LEN" /\ op.post = "SAVE_STRUCT" /\ op.pre = "SKIP"
          /\ Does(w, "SET_READ_LEN", op, a, a)
      BY OpFields DEF Does, Leaves, LenCodes, Label
    <3>2. Does(w, "SAVE_STRUCT", op, a, s)
      BY <2>1, <3>1 DEF Does, Saves, Label
    <3> HIDE DEF a, s, op
    <3> QED
      BY <3>1, <3>2, GoesTwice
  <2>6. op \in Operations
    BY DEF save_struct, OpThen, OpValue, Op, Operations, Codes, RegisterCodes
  <2> HIDE DEF a, s, b, op, child, type
  <2>7. Route(w, <<op>>, a, s)
    BY <2>5, <2>6, RouteOne
  <2>8. Route(w, <<op>> \o child.ops, a, b)
    <3> DEFINE first == <<op>>
    <3>1. Route(w, first, a, s)
      BY <2>7
    <3> HIDE DEF first
    <3>2. Route(w, first \o child.ops, a, b)
      BY <2>3, <3>1, RouteOn
    <3> QED
      BY <3>2 DEF first
  <2> QED
    BY <2>4, <2>8 DEF a, b, type
<1> QED
  BY <1>2, <1>3, <1>4 DEF ReadableType

(* The filters.                                                            *)
LEMMA FilterRoute ==
  ASSUME NEW w, NEW arg, arg.filters \in Seq(Nat), NEW code \in FilterCodes, NEW a
  PROVE  Route(w, FilterOps(arg, code), a, a)
<1> DEFINE list == FilterOps(arg, code)
           labs == [k \in 1..(Len(list) + 1) |-> a]
<1>1. list \in Seq(Operations)
  BY FilterOpsWalk
<1>2. /\ DOMAIN list = DOMAIN arg.filters
      /\ \A k \in DOMAIN arg.filters : list[k] = OpValue(code, arg.filters[k])
  BY DEF FilterOps
<1> HIDE DEF list
<1>3. \A k \in 1..Len(list) : labs[k] = a /\ labs[k + 1] = a
  BY <1>1
<1>4. labs[1] = a /\ labs[Len(list) + 1] = a
  BY <1>1
<1> HIDE DEF labs
<1>5. \A n : Goes(w, OpValue(code, n), a, a)
  <2>1. code # "READ_REG"
    BY DEF FilterCodes
  <2>2. \A n : /\ OpValue(code, n).code = code /\ OpValue(code, n).post = "SKIP"
               /\ Does(w, code, OpValue(code, n), a, a)
    BY OpFields DEF Does, Leaves
  <2> QED
    BY <2>1, <2>2, GoesOnce
<1>6. \A k \in 1..Len(list) : Goes(w, list[k], labs[k], labs[k + 1])
  <2>1. \A k \in 1..Len(list) : k \in DOMAIN list
    BY <1>1
  <2> QED
    BY <1>2, <1>3, <1>5, <2>1
<1>7. Route(w, list, labs[1], labs[Len(list) + 1])
  BY <1>1, <1>6, RouteOf
<1> QED
  BY <1>4, <1>7 DEF list

(* The address: the register and its value, or a read_op expression.       *)
LEMMA AddressRoute ==
  ASSUME NEW w, NEW i \in 1..Len(w.args), w.args[i].reg \in Nat,
         w.args[i].extra \in Seq(Operations),
         w.args[i].extra = <<>> \/ (SavesAddress(w.args[i].extra) /\ ~IsMsghdr(w, i))
  PROVE  Route(w, IF w.args[i].extra # <<>> THEN w.args[i].extra
                  ELSE <<add_read_save_reg(w.args[i].reg), Op("MOVE_REG_VALUE")>>,
               Label(i, "start"), Label(i, "valued"))
<1> DEFINE a == Label(i, "start")
           b == Label(i, "valued")
<1>1. CASE w.args[i].extra = <<>>
  <2> DEFINE v == Label(i, "value")
             s == Label(i, "saved")
             read == add_read_save_reg(w.args[i].reg)
             move == Op("MOVE_REG_VALUE")
             list == <<read, move>>
             labs == <<a, s, b>>
  <2>1. read \in Operations /\ move \in Operations
    BY DEF add_read_save_reg, ReadReg, Op, Operations, Codes, RegisterCodes
  <2>2. Goes(w, read, a, s)
    <3>1. /\ read.code = "READ_REG" /\ read.post = "SAVE_REG"
          /\ Does(w, "READ_REG", read, a, v) /\ Does(w, "SAVE_REG", read, v, s)
      BY OpFields DEF Does, Moves, Saves, Label, add_read_save_reg
    <3> HIDE DEF a, v, s, read
    <3> QED
      BY <3>1, GoesTwice
  <2>3. Goes(w, move, s, b)
    <3>1. /\ move.code = "MOVE_REG_VALUE" /\ move.post = "SKIP"
          /\ Does(w, "MOVE_REG_VALUE", move, s, b)
      BY OpFields DEF Does, Moves, Label
    <3> HIDE DEF b, s, move
    <3> QED
      BY <3>1, GoesOnce
  <2>4. list \in Seq(Operations) /\ Len(list) = 2 /\ list[1] = read /\ list[2] = move
    BY <2>1
  <2>5. labs[1] = a /\ labs[2] = s /\ labs[3] = b
    OBVIOUS
  <2> HIDE DEF a, b, s, read, move, list, labs
  <2>6. \A k \in 1..Len(list) : Goes(w, list[k], labs[k], labs[k + 1])
    BY <2>2, <2>3, <2>4, <2>5
  <2>7. Route(w, list, labs[1], labs[Len(list) + 1])
    BY <2>4, <2>6, RouteOf
  <2> QED
    BY <1>1, <2>4, <2>5, <2>7 DEF a, b, list, read, move
<1>2. CASE w.args[i].extra # <<>>
  <2> DEFINE list == w.args[i].extra
             labs == [k \in 1..(Len(list) + 1) |-> IF k <= Len(list) THEN a ELSE b]
  <2>1. list \in Seq(Operations) /\ SavesAddress(list) /\ ~IsMsghdr(w, i)
    BY <1>2
  <2>2. \A op : AddressOp(op) => Goes(w, op, a, a)
    <3>1. ASSUME NEW op, op.code = "READ_REG" /\ op.post = "MOVE_REG_VALUE"
          PROVE  Goes(w, op, a, a)
      <4>1. Does(w, "READ_REG", op, a, a) /\ Does(w, "MOVE_REG_VALUE", op, a, a)
        BY DEF Does, Leaves, AddrCodes, Label
      <4> HIDE DEF a
      <4> QED
        BY <3>1, <4>1, GoesTwice
    <3>2. ASSUME NEW op, op.post = "SKIP",
                 op.code \in {"ADD_REG", "SUB_REG", "ADD_OFFSET", "SUB_OFFSET",
                              "READ_POINTER", "MOVE_POINTER_VALUE"}
          PROVE  Goes(w, op, a, a)
      <4>1. Does(w, op.code, op, a, a) /\ op.code # "READ_REG"
        BY <3>2 DEF Does, Leaves, AddrCodes, Label
      <4> HIDE DEF a
      <4> QED
        BY <3>2, <4>1, GoesOnce
    <3> HIDE DEF a
    <3> QED
      BY <3>1, <3>2 DEF AddressOp
  <2>3. Goes(w, Op("SAVE_ADDR"), a, b)
    <3>1. /\ Op("SAVE_ADDR").code = "SAVE_ADDR" /\ Op("SAVE_ADDR").post = "SKIP"
          /\ Does(w, "SAVE_ADDR", Op("SAVE_ADDR"), a, b)
      BY <2>1, OpFields DEF Does, Saves, Label
    <3> HIDE DEF a, b
    <3> QED
      BY <3>1, GoesOnce
  <2> HIDE DEF a, b
  <2>4. Len(list) \in Nat /\ Len(list) # 0
    BY <1>2, <2>1
  <2>5. /\ \A k \in 1..Len(list) : labs[k] = a
        /\ labs[1] = a /\ labs[Len(list) + 1] = b
    BY <2>4
  <2> HIDE DEF list, labs
  <2>6. ASSUME NEW k \in 1..Len(list) PROVE Goes(w, list[k], labs[k], labs[k + 1])
    <3>1. CASE k = Len(list)
      BY <2>1, <2>3, <2>5, <3>1 DEF SavesAddress
    <3>2. CASE k # Len(list)
      <4>1. k \in 1..(Len(list) - 1) /\ k + 1 \in 1..Len(list)
        BY <2>4, <3>2
      <4> QED
        BY <2>1, <2>2, <2>5, <4>1 DEF SavesAddress
    <3> QED
      BY <3>1, <3>2
  <2>7. Route(w, list, labs[1], labs[Len(list) + 1])
    BY <2>1, <2>6, RouteOf
  <2> QED
    BY <1>2, <2>5, <2>7 DEF a, b, list
<1> QED
  BY <1>1, <1>2

(* A whole argument.  That of the value returned has no operations.        *)
LEMMA ArgRoute ==
  ASSUME NEW w, Readable(w), ArgsOfPoint(w.args), NEW i \in 1..Len(w.args)
  PROVE  LET list == get_op_list(w.args[i], w.side)
         IN IF IsReturn(w, i) THEN list = <<>>
            ELSE Route(w, list, Label(i, "start"), Label(i + 1, "start"))
<1> DEFINE arg == w.args[i]
           None == <<>>
           address == IF arg.extra # <<>> THEN arg.extra
                      ELSE <<add_read_save_reg(arg.reg), Op("MOVE_REG_VALUE")>>
           values == IF IsText(arg) \/ IsBuffer(arg) THEN None
                     ELSE FilterOps(arg, "FILTER_VALUE")
           content == CASE IsText(arg)   -> FilterOps(arg, "FILTER_STRING")
                        [] IsBuffer(arg) -> FilterOps(arg, "FILTER_BUFFER")
                        [] OTHER         -> None
           more == IF read_more(arg, w.side) THEN arg.type.ops \o content ELSE None
           a == Label(i, "start")
           v == Label(i, "valued")
           b == Label(i + 1, "start")
<1>1. i \in DOMAIN w.args
  BY DEF ArgsOfPoint
<1>2. /\ arg.reg \in Nat /\ arg.filters \in Seq(Nat)
      /\ arg.type.ops \in Seq(Operations) /\ arg.extra \in Seq(Operations)
  BY <1>1 DEF ArgsOfPoint
<1>3. /\ ReadableType(arg.type)
      /\ arg.reg = REG_ARM64_MAX <=> IsReturn(w, i)
      /\ arg.extra = <<>> \/ (SavesAddress(arg.extra) /\ ~IsMsghdr(w, i))
  BY <1>1 DEF Readable, IsMsghdr
<1>4. get_op_list(arg, w.side)
        = IF arg.reg = REG_ARM64_MAX THEN None ELSE address \o values \o more
  BY DEF get_op_list
<1>5. Route(w, address, a, v)
  BY <1>2, <1>3, AddressRoute
<1>6. \A x : Route(w, None, x, x)
  BY RouteNone DEF Entails
<1>7. Route(w, values, v, v)
  BY <1>2, <1>6, FilterRoute DEF FilterCodes
<1>8. Route(w, content, b, b)
  BY <1>2, <1>6, FilterRoute DEF FilterCodes
<1>9. Route(w, more, v, b)
  <2>1. CASE read_more(arg, w.side)
    <3>1. Route(w, arg.type.ops, v, b)
      BY <1>2, <1>3, <2>1, TypeRoute DEF More
    <3> HIDE DEF content, v, b, arg
    <3> QED
      BY <1>8, <2>1, <3>1, RouteOn
  <2>2. CASE ~read_more(arg, w.side)
    <3>1. Entails(w, v, b)
      BY <2>2 DEF Entails, More, Label
    <3> QED
      BY <2>2, <3>1, RouteNone
  <2> QED
    BY <2>1, <2>2
<1> HIDE DEF address, values, content, more, arg, a, v, b, None
<1>10. Route(w, address \o values, a, v)
  BY <1>5, <1>7, RouteOn
<1>11. Route(w, address \o values \o more, a, b)
  BY <1>9, <1>10, RouteOn
<1> QED
  BY <1>3, <1>4, <1>11 DEF arg, a, b, None

(* The whole call: to the end of its arguments, without the value returned.*)
EndOf(w) == Label(IF w.side = "exit" THEN Len(w.args) ELSE Len(w.args) + 1, "start")

LEMMA CallRoute ==
  ASSUME NEW w, Readable(w), ArgsOfPoint(w.args)
  PROVE  Route(w, FlattenSeq(ArgOps(w.args, w.side)), Label(1, "start"), EndOf(w))
<1> DEFINE lists == ArgOps(w.args, w.side)
           n == Len(w.args)
           Upto(k) == IF w.side = "exit" /\ k = n THEN n ELSE k + 1
<1>1. n \in Nat /\ DOMAIN w.args = 1..n /\ (w.side = "exit" => n # 0)
  BY DEF ArgsOfPoint, Readable
<1>2. \A k \in 1..n : /\ lists[k] = get_op_list(w.args[k], w.side)
                      /\ get_op_list(w.args[k], w.side) \in Seq(Operations)
  BY <1>1, ArgWalks DEF ArgOps
<1>3. lists \in Seq(Seq(Operations)) /\ Len(lists) = n
  <2>1. DOMAIN lists = 1..n /\ lists = [k \in 1..n |-> lists[k]]
    BY <1>1 DEF ArgOps
  <2> HIDE DEF lists
  <2>2. \A k \in 1..n : lists[k] \in Seq(Operations)
    BY <1>2
  <2>3. lists \in [1..n -> Seq(Operations)]
    BY <2>1, <2>2
  <2> HIDE DEF n
  <2> QED
    BY <1>1, <2>3
<1> HIDE DEF lists
<1>4. /\ Flat(lists, 0) = <<>> /\ Flat(lists, Len(lists)) = FlattenSeq(lists)
      /\ \A k \in 0..(Len(lists) - 1) : Flat(lists, k + 1) = Flat(lists, k) \o lists[k + 1]
  BY <1>3, FlatSteps
<1> DEFINE T == {k \in 0..n : Route(w, Flat(lists, k), Label(1, "start"), Label(Upto(k), "start"))}
<1>5. 0 \in T
  <2>1. Upto(0) = 1 /\ 0 \in 0..n
    BY <1>1
  <2>2. Route(w, <<>>, Label(1, "start"), Label(1, "start"))
    BY RouteNone DEF Entails
  <2> HIDE DEF Upto, n
  <2> QED
    BY <1>4, <2>1, <2>2
<1>6. ASSUME NEW k \in 0..(n - 1), k \in T PROVE k + 1 \in T
  <2>1. k + 1 \in 1..n /\ k + 1 \in 0..n /\ Upto(k) = k + 1
    BY <1>1
  <2>2. Flat(lists, k + 1) = Flat(lists, k) \o get_op_list(w.args[k + 1], w.side)
    BY <1>1, <1>2, <1>3, <1>4, <2>1
  <2>3. Route(w, Flat(lists, k), Label(1, "start"), Label(k + 1, "start"))
    BY <1>6, <2>1
  <2>4. Route(w, get_op_list(w.args[k + 1], w.side), Label(k + 1, "start"), Label(Upto(k + 1), "start"))
    <3>1. PICK j \in 1..Len(w.args) : j = k + 1
      BY <2>1
    <3>2. IF IsReturn(w, j) THEN get_op_list(w.args[j], w.side) = <<>>
          ELSE Route(w, get_op_list(w.args[j], w.side), Label(j, "start"), Label(j + 1, "start"))
      BY ArgRoute
    <3>3. CASE IsReturn(w, j)
      <4>1. Upto(k + 1) = k + 1
        BY <3>1, <3>3 DEF IsReturn
      <4>2. Route(w, <<>>, Label(k + 1, "start"), Label(k + 1, "start"))
        BY RouteNone DEF Entails
      <4> HIDE DEF Upto
      <4> QED
        BY <3>1, <3>2, <3>3, <4>1, <4>2
    <3>4. CASE ~IsReturn(w, j)
      <4>1. Upto(k + 1) = j + 1
        BY <3>1, <3>4 DEF IsReturn
      <4> HIDE DEF Upto
      <4> QED
        BY <3>1, <3>2, <3>4, <4>1
    <3> QED
      BY <3>3, <3>4
  <2> HIDE DEF Upto, n
  <2>5. Route(w, Flat(lists, k + 1), Label(1, "start"), Label(Upto(k + 1), "start"))
    BY <2>2, <2>3, <2>4, RouteOn
  <2> QED
    BY <2>1, <2>5
<1> HIDE DEF T
<1>7. n \in T
  <2> HIDE DEF n
  <2>1. \A k \in 0..n : k \in T
    BY <1>1, <1>5, <1>6, UpTo
  <2> QED
    BY <1>1, <2>1
<1>8. Label(Upto(n), "start") = EndOf(w)
  BY <1>1 DEF EndOf
<1> QED
  BY <1>3, <1>4, <1>7, <1>8 DEF T, lists

-----------------------------------------------------------------------------
(* What a stage says, of pieces to which more are added and of contexts    *)
(* that differ in what it does not speak of.                               *)
LEMMA BasesOfTypes ==
  ASSUME NEW type, ReadableType(type)
  PROVE  BasesKnown(type)
<1>1. \A t : Plain(t) => BaseKnown(t)
  BY DEF Plain, BaseKnown, IsNumber, AnyLength, HasSize
<1>2. MsghdrType.base = "STRUCT" /\ MsghdrType.child = <<>>
  BY DEF MsghdrType, Type
<1>3. Plain(type) => type.child = <<>>
  BY DEF Plain
<1>4. CASE Plain(type)
  BY <1>1, <1>3, <1>4 DEF BasesKnown
<1>5. CASE type = MsghdrType
  BY <1>2, <1>5 DEF BasesKnown, BaseKnown
<1>6. CASE Len(type.child) = 1 /\ Plain(type.child[1])
  <2>1. type.child # <<>>
    BY <1>6
  <2> QED
    BY <1>1, <1>6, <2>1 DEF BasesKnown
<1> QED
  BY <1>4, <1>5, <1>6 DEF ReadableType

LEMMA ArgsHaveBases ==
  ASSUME NEW w \in Calls, Readable(w)
  PROVE  /\ Len(w.args) \in Nat /\ DOMAIN w.args = 1..Len(w.args)
         /\ \A k \in 1..Len(w.args) : BasesKnown(w.args[k].type)
<1>1. Len(w.args) \in Nat /\ DOMAIN w.args = 1..Len(w.args)
  BY ArgStreamAssumption DEF ArgsOfPoint
<1> QED
  BY <1>1, BasesOfTypes DEF Readable

LEMMA StillReads ==
  ASSUME NEW w \in Calls, Readable(w), NEW n \in 0..Len(w.args),
         NEW ps, NEW qs, Grows(ps, qs), NEW q, Reads(w, n, ps, q)
  PROVE  Reads(w, n, qs, q)
<1>1. \A k \in 1..n : BasesKnown(w.args[k].type)
  BY ArgsHaveBases
<1> QED
  BY <1>1, StaysRead

LEMMA StillAhead ==
  ASSUME NEW w \in Calls, Readable(w), NEW i \in 1..Len(w.args),
         NEW ps \in Seq(Pieces), NEW qs \in Seq(Pieces), Grows(ps, qs), Len(ps) <= Len(qs),
         NEW p
  PROVE  /\ Begun(w, i, ps, p) => Begun(w, i, qs, p)
         /\ Ahead(w, i, ps, p) => Ahead(w, i, qs, p)
         /\ Header(w, i, ps, p) => Header(w, i, qs, p)
         /\ Control(w, i, ps, p) => Control(w, i, qs, p)
<1>1. /\ i - 1 \in 0..Len(w.args)
      /\ \A f \in 1..Len(ps) : f \in 1..Len(qs) /\ qs[f] = ps[f]
  BY DEF Grows
<1>2. \A f : Begun(w, i, ps, f) => Begun(w, i, qs, f)
  BY <1>1, StillReads DEF Begun
<1>3. \A f : Ahead(w, i, ps, f) => Ahead(w, i, qs, f)
  BY <1>1, <1>2 DEF Ahead
<1>4. \A f : Header(w, i, ps, f) => Header(w, i, qs, f)
  BY <1>3 DEF Header, IsFixed, IsPrefixed, Grows
<1>5. \A f : Control(w, i, ps, f) => Control(w, i, qs, f)
  BY <1>4 DEF Control, IsPrefixed, Grows
<1> QED
  BY <1>2, <1>3, <1>4, <1>5

LEMMA StillPairs ==
  ASSUME NEW ps, NEW qs, Grows(ps, qs), NEW p, NEW n
  PROVE  /\ Iovecs(ps, p, n) => Iovecs(qs, p, n)
         /\ Strings(ps, p, n) => Strings(qs, p, n)
<1>1. \A j : /\ IsPrefixed(ps, j) => IsPrefixed(qs, j)
             /\ IsFixed(ps, j, SIZEOF_IOVEC) => IsFixed(qs, j, SIZEOF_IOVEC)
  BY DEF Grows, IsPrefixed, IsFixed
<1>2. \A j : HasString(ps, p, j) /\ ~IsLast(ps, p, j) =>
               HasString(qs, p, j) /\ ~IsLast(qs, p, j)
  BY DEF Grows, HasString, IsLast, IsRaw
<1> QED
  BY <1>1, <1>2 DEF Iovecs, Strings

LEMMA ValueIsRead ==
  ASSUME NEW w, NEW i \in Nat \ {0}, NEW ps \in Seq(Pieces), NEW f, Begun(w, i, ps, f),
         ~More(w, i) \/ (IsNumber(w.args[i].type) /\ w.args[i].type.child = <<>>)
  PROVE  Reads(w, i, ps, f + 1)
<1>1. f \in 1..Len(ps) /\ Reads(w, i - 1, ps, f) /\ IsRaw(ps, f)
  BY DEF Begun, IsRaw
<1>2. ParseArg(w.args[i], w.side, ps, f, w.mem) = f + 1
  BY <1>1 DEF ParseArg, More, read_more, ParseValue, ParsePlain, IsNumber
<1>3. i - 1 \in Nat /\ (i - 1) + 1 = i /\ f + 1 # Lost
  BY <1>1 DEF Lost
<1> QED
  BY <1>1, <1>2, <1>3, ReadsNext

LEMMA ContentIsRead ==
  ASSUME NEW w, NEW i \in Nat \ {0}, NEW ps \in Seq(Pieces), NEW p, Ahead(w, i, ps, p),
         NEW q, q # Lost, ParsePlain(Within(w, i), ps, p, w.mem) = q
  PROVE  Reads(w, i, ps, q)
<1>1. PICK f \in 1..Len(ps) :
        /\ Begun(w, i, ps, f)
        /\ IF w.args[i].type.child = <<>> THEN p = f + 1
           ELSE p = f + 2 /\ f + 1 \in 1..Len(ps) /\ ps[f + 1].kind = "bytes"
  BY DEF Ahead
<1>2. Reads(w, i - 1, ps, f) /\ IsRaw(ps, f) /\ w.args[i].point \in {"all", w.side}
  BY <1>1 DEF Begun, IsRaw, Ahead, More, read_more
<1>3. ParseArg(w.args[i], w.side, ps, f, w.mem) = ParseValue(w.args[i].type, ps, f + 1, w.mem)
  BY <1>2 DEF ParseArg
<1>4. ParseValue(w.args[i].type, ps, f + 1, w.mem) = ParsePlain(Within(w, i), ps, p, w.mem)
  <2>1. CASE w.args[i].type.child = <<>>
    BY <1>1, <2>1 DEF ParseValue, Within
  <2>2. CASE w.args[i].type.child # <<>>
    <3>1. IsPrefixed(ps, f + 1) /\ (f + 1) + 1 = p
      BY <1>1, <2>2 DEF IsPrefixed
    <3> QED
      BY <2>2, <3>1 DEF ParseValue, Within
  <2> QED
    BY <2>1, <2>2
<1>5. i - 1 \in Nat /\ (i - 1) + 1 = i
  OBVIOUS
<1> QED
  BY <1>2, <1>3, <1>4, <1>5, ReadsNext

LEMMA EntailsHolds ==
  ASSUME NEW w \in Calls, Readable(w), NEW r, NEW c, NEW ps \in Seq(Pieces), NEW a, NEW b,
         Holds(w, r, a, c, ps), Entails(w, a, b)
  PROVE  Holds(w, r, b, c, ps)
<1> DEFINE i == a.arg
<1>1. /\ i \in 1..(Len(w.args) + 1) /\ Len(w.args) \in Nat /\ Len(ps) \in Nat
      /\ a.at # "start" => i \in 1..Len(w.args)
  BY ArgsHaveBases DEF Holds
<1>2. CASE b = a
  BY <1>2
<1>3. CASE a.at = "valued"
  <2>1. /\ i \in 1..Len(w.args) /\ i \in Nat \ {0}
        /\ Closed(c) /\ Begun(w, i, ps, Len(ps))
        /\ IsMsghdr(w, i) => c.read_addr = Value(w, i)
    BY <1>1, <1>3 DEF Holds, Straight, Looping
  <2>2. CASE b = Label(i, "ready") /\ More(w, i) /\ w.args[i].type.child = <<>>
    <3>1. Ahead(w, i, ps, Len(ps) + 1)
      BY <2>1, <2>2 DEF Ahead, Begun
    <3>2. b.arg = i /\ b.at = "ready"
      BY <2>2 DEF Label
    <3> QED
      BY <1>1, <2>1, <3>1, <3>2 DEF Holds, Straight
  <2>3. CASE /\ b = Label(i + 1, "start")
             /\ ~More(w, i) \/ (IsNumber(w.args[i].type) /\ w.args[i].type.child = <<>>)
    <3>1. Reads(w, i, ps, Len(ps) + 1)
      BY <2>1, <2>3, ValueIsRead
    <3>2. b.arg = i + 1 /\ b.at = "start" /\ (i + 1) - 1 = i /\ i + 1 \in 1..(Len(w.args) + 1)
      BY <1>1, <2>1, <2>3 DEF Label
    <3> QED
      BY <2>1, <3>1, <3>2 DEF Holds, Straight
  <2> QED
    BY <1>2, <1>3, <2>2, <2>3 DEF Entails
<1>4. CASE a.at = "ready" /\ b # a
  <2>1. /\ i \in 1..Len(w.args) /\ i \in Nat \ {0}
        /\ Closed(c) /\ Ahead(w, i, ps, Len(ps) + 1)
    BY <1>1, <1>4 DEF Holds, Straight, Looping
  <2>2. b = Label(i + 1, "start") /\ IsNumber(Within(w, i))
    BY <1>4 DEF Entails
  <2>3. Reads(w, i, ps, Len(ps) + 1)
    <3>1. /\ ParsePlain(Within(w, i), ps, Len(ps) + 1, w.mem) = Len(ps) + 1
          /\ Len(ps) + 1 # Lost
      BY <1>1, <2>2 DEF ParsePlain, IsNumber, Lost
    <3> QED
      BY <2>1, <3>1, ContentIsRead
  <2>4. b.arg = i + 1 /\ b.at = "start" /\ (i + 1) - 1 = i /\ i + 1 \in 1..(Len(w.args) + 1)
    BY <1>1, <2>1, <2>2 DEF Label
  <2> QED
    BY <2>1, <2>3, <2>4 DEF Holds, Straight
<1> QED
  BY <1>2, <1>3, <1>4 DEF Entails

(* What a stage speaks of.                                                 *)
Addressed(w, a) ==
  \/ a.at \in {"struct", "back"}
  \/ a.at \in {"valued", "ready", "sized"} /\ IsMsghdr(w, a.arg)

LEMMA SameHolds ==
  ASSUME NEW w, NEW r, NEW a, NEW c, NEW d, NEW ps, Holds(w, r, a, c, ps),
         d.loop_count = c.loop_count, d.break_count = c.break_count,
         d.loop_index = c.loop_index,
         a.at \in {"value", "saved"} => d.reg_value = c.reg_value,
         Addressed(w, a) => d.read_addr = c.read_addr,
         a.at \in {"sized", "vlen"} => d.read_len = c.read_len,
         a.at \in {"kept", "control"} => d.tmp_value = c.tmp_value,
         a.at = "counted" => d.pointer_value = c.pointer_value
  PROVE  Holds(w, r, a, d, ps)
<1>1. Straight(w, a.arg, a.at, c, ps) => Straight(w, a.arg, a.at, d, ps)
  BY DEF Straight, Closed, Addressed
<1>2. Looping(w, r, a.arg, a.at, c, ps) => Looping(w, r, a.arg, a.at, d, ps)
  BY DEF Looping, Turns, LastPair
<1> QED
  BY <1>1, <1>2 DEF Holds

-----------------------------------------------------------------------------
(* What the codes do to the stages.                                        *)
SmallCounts(w) ==
  \A i \in 1..Len(w.args) : IsMsghdr(w, i) /\ More(w, i) => Count(w, i) \in 1..MAX_IOV_COUNT

(* Those that only touch the context, and stay at their stage.             *)
LEMMA EffectLeaves ==
  ASSUME NEW w, NEW r, NEW c \in Contexts, NEW ps, NEW a, Holds(w, r, a, c, ps),
         NEW code \in RegisterCodes, Leaves(w, code, a)
  PROVE  Holds(w, r, a, Effect(code, c), ps)
<1> DEFINE d == Effect(code, c)
<1>1. CASE code = "NONE"
  BY <1>1 DEF Effect
<1>2. CASE code \in LenCodes
  <2>1. \E v : d = [c EXCEPT !.read_len = v]
    BY <1>2 DEF Effect, LenCodes
  <2>2. PICK v : d = [c EXCEPT !.read_len = v]
    BY <2>1
  <2>3. a.at \notin {"sized", "vlen"}
    BY <1>2 DEF Leaves, LenCodes, FilterCodes, AddrCodes
  <2> HIDE DEF d
  <2>4. /\ d.loop_count = c.loop_count /\ d.break_count = c.break_count
        /\ d.loop_index = c.loop_index /\ d.reg_value = c.reg_value
        /\ d.read_addr = c.read_addr /\ d.tmp_value = c.tmp_value
        /\ d.pointer_value = c.pointer_value
    BY <2>2 DEF Contexts
  <2>5. Holds(w, r, a, d, ps)
    BY <2>3, <2>4, SameHolds
  <2> QED
    BY <2>5 DEF d
<1>3. CASE code \in AddrCodes
  <2>1. \E v : d = [c EXCEPT !.read_addr = v]
    BY <1>3 DEF Effect, AddrCodes, RegisterCodes
  <2>2. PICK v : d = [c EXCEPT !.read_addr = v]
    BY <2>1
  <2>3. ~Addressed(w, a)
    BY <1>3 DEF Leaves, LenCodes, FilterCodes, AddrCodes, Addressed
  <2> HIDE DEF d
  <2>4. /\ d.loop_count = c.loop_count /\ d.break_count = c.break_count
        /\ d.loop_index = c.loop_index /\ d.reg_value = c.reg_value
        /\ d.read_len = c.read_len /\ d.tmp_value = c.tmp_value
        /\ d.pointer_value = c.pointer_value
    BY <2>2 DEF Contexts
  <2>5. Holds(w, r, a, d, ps)
    BY <2>3, <2>4, SameHolds
  <2> QED
    BY <2>5 DEF d
<1>4. CASE code = "READ_REG"
  <2>1. PICK u, v : d = [c EXCEPT !.reg_index = u, !.reg_value = v]
    BY <1>4 DEF Effect
  <2>2. a.at \notin {"value", "saved"}
    BY <1>4 DEF Leaves, LenCodes, FilterCodes, AddrCodes
  <2> HIDE DEF d
  <2>3. /\ d.loop_count = c.loop_count /\ d.break_count = c.break_count
        /\ d.loop_index = c.loop_index /\ d.read_addr = c.read_addr
        /\ d.read_len = c.read_len /\ d.tmp_value = c.tmp_value
        /\ d.pointer_value = c.pointer_value
    BY <2>1 DEF Contexts
  <2>4. Holds(w, r, a, d, ps)
    BY <2>2, <2>3, SameHolds
  <2> QED
    BY <2>4 DEF d
<1>5. CASE code = "SET_TMP_VALUE"
  <2>1. d = [c EXCEPT !.tmp_value = c.read_addr]
    BY <1>5 DEF Effect
  <2>2. a.at \notin {"kept", "control"}
    BY <1>5 DEF Leaves, LenCodes, FilterCodes, AddrCodes
  <2> HIDE DEF d
  <2>3. /\ d.loop_count = c.loop_count /\ d.break_count = c.break_count
        /\ d.loop_index = c.loop_index /\ d.read_addr = c.read_addr
        /\ d.read_len = c.read_len /\ d.reg_value = c.reg_value
        /\ d.pointer_value = c.pointer_value
    BY <2>1 DEF Contexts
  <2>4. Holds(w, r, a, d, ps)
    BY <2>2, <2>3, SameHolds
  <2> QED
    BY <2>4 DEF d
<1> QED
  BY <1>1, <1>2, <1>3, <1>4, <1>5 DEF Leaves, FilterCodes, RegisterCodes

(* Those that go on to the next one.                                       *)
LEMMA EffectMoves ==
  ASSUME call \in Calls, SmallCounts(call), NEW r, NEW c \in Contexts,
         NEW ps, NEW a, NEW b, Holds(call, r, a, c, ps),
         NEW code \in RegisterCodes, Moves(call, code, c.op, a, b)
  PROVE  Holds(call, r, b, Effect(code, c), ps)
<1> DEFINE d == Effect(code, c)
           i == a.arg
<1>1. /\ i \in 1..(Len(call.args) + 1)
      /\ a.at # "start" => i \in 1..Len(call.args)
      /\ Straight(call, i, a.at, c, ps) \/ Looping(call, r, i, a.at, c, ps)
  BY DEF Holds
<1>2. CASE /\ code = "READ_REG" /\ a.at = "start" /\ b = Label(i, "value")
           /\ i \in 1..Len(call.args)
           /\ c.op.pre = "SET_REG_INDEX" /\ c.op.value = call.args[i].reg
  <2>1. RegValue(c) = Value(call, i)
    BY <1>2 DEF RegValue, RegIndex, Value
  <2>2. d = [c EXCEPT !.reg_index = RegIndex(c), !.reg_value = Value(call, i)]
    BY <1>2, <2>1 DEF Effect
  <2>3. /\ d.loop_count = c.loop_count /\ d.break_count = c.break_count
        /\ d.loop_index = c.loop_index /\ d.reg_value = Value(call, i)
    BY <2>2 DEF Contexts
  <2> HIDE DEF d
  <2>4. b.arg = i /\ b.at = "value"
    BY <1>2 DEF Label
  <2>5. Holds(call, r, b, d, ps)
    BY <1>1, <1>2, <2>3, <2>4 DEF Holds, Straight, Looping, Closed
  <2> QED
    BY <2>5 DEF d
<1>3. CASE code = "MOVE_REG_VALUE" /\ a.at = "saved" /\ b = Label(i, "valued")
  <2>1. d = [c EXCEPT !.read_addr = c.reg_value]
    BY <1>3 DEF Effect
  <2>2. /\ d.loop_count = c.loop_count /\ d.break_count = c.break_count
        /\ d.loop_index = c.loop_index /\ d.read_addr = c.reg_value
    BY <2>1 DEF Contexts
  <2> HIDE DEF d
  <2>3. b.arg = i /\ b.at = "valued"
    BY <1>3 DEF Label
  <2>4. Holds(call, r, b, d, ps)
    BY <1>1, <1>3, <2>2, <2>3 DEF Holds, Straight, Looping, Closed
  <2> QED
    BY <2>4 DEF d
<1>4. CASE /\ code = "SET_READ_LEN" /\ a.at = "ready" /\ b = Label(i, "sized")
           /\ c.op.value = Within(call, i).size
  <2>1. d = [c EXCEPT !.read_len = c.op.value]
    BY <1>4 DEF Effect
  <2>2. /\ d.loop_count = c.loop_count /\ d.break_count = c.break_count
        /\ d.loop_index = c.loop_index /\ d.read_addr = c.read_addr
        /\ d.read_len = Within(call, i).size
    BY <1>4, <2>1 DEF Contexts
  <2> HIDE DEF d
  <2>3. b.arg = i /\ b.at = "sized"
    BY <1>4 DEF Label
  <2>4. Holds(call, r, b, d, ps)
    BY <1>1, <1>4, <2>2, <2>3 DEF Holds, Straight, Looping, Closed
  <2> QED
    BY <2>4 DEF d
<1>5. CASE /\ code = "SET_READ_LEN" /\ a.at = "vbody" /\ b = Label(i, "vlen")
           /\ c.op.value = SIZEOF_IOVEC
  <2>1. d = [c EXCEPT !.read_len = c.op.value]
    BY <1>5 DEF Effect
  <2>2. /\ d.loop_count = c.loop_count /\ d.break_count = c.break_count
        /\ d.loop_index = c.loop_index /\ d.read_len = SIZEOF_IOVEC
    BY <1>5, <2>1 DEF Contexts
  <2> HIDE DEF d
  <2>3. b.arg = i /\ b.at = "vlen"
    BY <1>5 DEF Label
  <2>4. Looping(call, r, i, "vbody", c, ps)
    BY <1>1, <1>5 DEF Straight
  <2>5. Looping(call, r, i, "vlen", d, ps)
    BY <2>2, <2>4 DEF Looping, Turns
  <2>6. Holds(call, r, b, d, ps)
    BY <1>1, <1>5, <2>3, <2>5 DEF Holds
  <2> QED
    BY <2>6 DEF d
<1>6. CASE code = "SET_TMP_VALUE" /\ a.at = "struct" /\ b = Label(i, "kept")
  <2>1. d = [c EXCEPT !.tmp_value = c.read_addr]
    BY <1>6 DEF Effect
  <2>2. /\ d.loop_count = c.loop_count /\ d.break_count = c.break_count
        /\ d.loop_index = c.loop_index /\ d.tmp_value = c.read_addr
    BY <2>1 DEF Contexts
  <2> HIDE DEF d
  <2>3. b.arg = i /\ b.at = "kept"
    BY <1>6 DEF Label
  <2>4. Holds(call, r, b, d, ps)
    BY <1>1, <1>6, <2>2, <2>3 DEF Holds, Straight, Looping, Closed
  <2> QED
    BY <2>4 DEF d
<1>7. CASE code = "MOVE_TMP_VALUE" /\ a.at = "control" /\ b = Label(i, "back")
  <2>1. d = [c EXCEPT !.read_addr = c.tmp_value]
    BY <1>7 DEF Effect
  <2>2. /\ d.loop_count = c.loop_count /\ d.break_count = c.break_count
        /\ d.loop_index = c.loop_index /\ d.read_addr = c.tmp_value
    BY <2>1 DEF Contexts
  <2> HIDE DEF d
  <2>3. b.arg = i /\ b.at = "back"
    BY <1>7 DEF Label
  <2>4. Holds(call, r, b, d, ps)
    BY <1>1, <1>7, <2>2, <2>3 DEF Holds, Straight, Looping, Closed
  <2> QED
    BY <2>4 DEF d
<1>8. CASE /\ code = "SET_BREAK_COUNT_POINTER_VALUE" /\ a.at = "counted"
           /\ b = Label(i, "bound") /\ IsMsghdr(call, i)
  <2>1. /\ Closed(c) /\ c.pointer_value = Count(call, i) /\ i \in 1..Len(call.args)
        /\ \E p \in 1..Len(ps) : Control(call, i, ps, p) /\ Len(ps) = p + 1
    BY <1>1, <1>8 DEF Straight, Looping
  <2>2. Count(call, i) \in 1..MAX_IOV_COUNT
    BY <1>8, <2>1 DEF SmallCounts, Control, Header, Ahead
  <2>3. Least(Count(call, i), MAX_LOOP_COUNT) = Count(call, i)
    BY <2>2 DEF Least, MAX_LOOP_COUNT, MAX_IOV_COUNT
  <2>4. d = [c EXCEPT !.break_count = Count(call, i)]
    BY <1>8, <2>1, <2>3 DEF Effect
  <2>5. /\ d.loop_count = 0 /\ d.break_count = Count(call, i) /\ d.loop_index = 0
    BY <2>1, <2>4 DEF Contexts, Closed
  <2> HIDE DEF d
  <2>6. b.arg = i /\ b.at = "bound"
    BY <1>8 DEF Label
  <2>7. Holds(call, r, b, d, ps)
    BY <1>1, <2>1, <2>2, <2>5, <2>6 DEF Holds, Looping
  <2> QED
    BY <2>7 DEF d
<1>9. CASE /\ code = "SET_BREAK_COUNT" /\ a.at = "ready" /\ b = Label(i, "armed")
           /\ c.op.value = MAX_LOOP_COUNT
  <2>1. Closed(c) /\ Ahead(call, i, ps, Len(ps) + 1) /\ i \in 1..Len(call.args)
    BY <1>1, <1>9 DEF Straight, Looping
  <2>2. d = [c EXCEPT !.break_count = MAX_LOOP_COUNT]
    BY <1>9 DEF Effect, Least, MAX_LOOP_COUNT
  <2>3. /\ d.loop_count = 0 /\ d.break_count = MAX_LOOP_COUNT /\ d.loop_index = 0
    BY <2>1, <2>2 DEF Contexts, Closed
  <2> HIDE DEF d
  <2>4. b.arg = i /\ b.at = "armed"
    BY <1>9 DEF Label
  <2>5. Holds(call, r, b, d, ps)
    BY <1>1, <2>1, <2>3, <2>4 DEF Holds, Looping
  <2> QED
    BY <2>5 DEF d
<1> HIDE DEF d
<1>10. QED
  BY <1>2, <1>3, <1>4, <1>5, <1>6, <1>7, <1>8, <1>9 DEF Moves, d

LEMMA EffectHolds ==
  ASSUME call \in Calls, SmallCounts(call), NEW r, NEW c \in Contexts,
         NEW ps, NEW a, NEW b, Holds(call, r, a, c, ps),
         NEW code \in RegisterCodes, Does(call, code, c.op, a, b)
  PROVE  Holds(call, r, b, Effect(code, c), ps)
<1>1. ~Points(call, code, c.op, a, b) /\ ~Turned(call, code, c.op, a, b)
  BY DEF Points, Turned, RegisterCodes
<1>2. ~Saves(call, code, c.op, a, b)
  BY DEF Saves, RegisterCodes
<1> QED
  BY <1>1, <1>2, EffectLeaves, EffectMoves DEF Does

(* The reads of memory.                                                    *)
LEMMA PointerHolds ==
  ASSUME NEW w, NEW r, NEW c \in Contexts, NEW ps, NEW a, NEW b,
         Holds(w, r, a, c, ps), Does(w, "READ_POINTER", c.op, a, b), NEW v,
         c.op.post # "SET_BREAK_COUNT_POINTER_VALUE" \/ v = Word(w.mem, PointerAddr(c))
  PROVE  Holds(w, r, b, [c EXCEPT !.pointer_value = v], ps)
<1> DEFINE d == [c EXCEPT !.pointer_value = v]
<1>1. /\ d.loop_count = c.loop_count /\ d.break_count = c.break_count
      /\ d.loop_index = c.loop_index /\ d.read_addr = c.read_addr
      /\ d.read_len = c.read_len /\ d.reg_value = c.reg_value
      /\ d.tmp_value = c.tmp_value /\ d.pointer_value = v
  BY DEF Contexts
<1> HIDE DEF d
<1>2. \/ b = a /\ a.at \in {"start", "kept", "bound", "viov"}
      \/ Points(w, "READ_POINTER", c.op, a, b)
  BY DEF Does, Leaves, Moves, Saves, Turned, FilterCodes, LenCodes, AddrCodes
<1>3. CASE b = a /\ a.at \in {"start", "kept", "bound", "viov"}
  <2>1. a.at # "counted"
    BY <1>3
  <2>2. Holds(w, r, a, d, ps)
    BY <1>1, <2>1, SameHolds
  <2> QED
    BY <1>3, <2>2 DEF d
<1>4. CASE Points(w, "READ_POINTER", c.op, a, b)
  <2>1. /\ a.at = "back" /\ b = Label(a.arg, "counted") /\ c.op.pre = "ADD_OFFSET"
        /\ c.op.value = 24 /\ v = Word(w.mem, c.read_addr + 24)
    BY <1>4 DEF Points, PointerAddr
  <2>2. /\ a.arg \in 1..(Len(w.args) + 1) /\ a.arg \in 1..Len(w.args)
        /\ Closed(c) /\ c.read_addr = Value(w, a.arg)
        /\ \E p \in 1..Len(ps) : Control(w, a.arg, ps, p) /\ Len(ps) = p + 1
    BY <2>1 DEF Holds, Straight, Looping
  <2>3. b.arg = a.arg /\ b.at = "counted"
    BY <2>1 DEF Label
  <2>4. v = Count(w, a.arg)
    BY <2>1, <2>2 DEF Count
  <2>5. Holds(w, r, b, d, ps)
    BY <1>1, <2>2, <2>3, <2>4 DEF Holds, Straight, Closed
  <2> QED
    BY <2>5 DEF d
<1> QED
  BY <1>2, <1>3, <1>4

LEMMA StdHolds ==
  ASSUME NEW w, NEW r, NEW c \in Contexts, NEW ps, NEW a, NEW b,
         Holds(w, r, a, c, ps), Does(w, "READ_STD_STRING", c.op, a, b), NEW v
  PROVE  Holds(w, r, b, [c EXCEPT !.read_addr = v], ps)
<1> DEFINE d == [c EXCEPT !.read_addr = v]
<1>1. /\ d.loop_count = c.loop_count /\ d.break_count = c.break_count
      /\ d.loop_index = c.loop_index /\ d.pointer_value = c.pointer_value
      /\ d.read_len = c.read_len /\ d.reg_value = c.reg_value
      /\ d.tmp_value = c.tmp_value
  BY DEF Contexts
<1> HIDE DEF d
<1>2. b = a /\ ~Addressed(w, a)
  BY DEF Does, Leaves, Moves, Points, Saves, Turned, FilterCodes, LenCodes, AddrCodes,
         Addressed
<1>3. Holds(w, r, a, d, ps)
  BY <1>1, <1>2, SameHolds
<1> QED
  BY <1>2, <1>3 DEF d

-----------------------------------------------------------------------------
(* What is saved, and what the reader then makes of it.                    *)

(* A piece of any length or of the length of its type ends an argument.    *)
LEMMA PieceIsRead ==
  ASSUME NEW w \in Calls, Readable(w), NEW i \in 1..Len(w.args),
         NEW ps \in Seq(Pieces), NEW x \in Pieces, x.kind = "bytes",
         Ahead(w, i, ps, Len(ps) + 1),
         \/ AnyLength(Within(w, i))
         \/ HasSize(Within(w, i)) /\ x.len \in {0, Within(w, i).size}
  PROVE  Reads(w, i, Append(ps, x), Len(Append(ps, x)) + 1)
<1> DEFINE qs == Append(ps, x)
           type == Within(w, i)
           p == Len(ps) + 1
<1>1. /\ Grows(ps, qs) /\ qs \in Seq(Pieces) /\ Len(qs) = p /\ qs[p] = x
      /\ p \in DOMAIN qs /\ Len(ps) \in Nat
  <2>1. Grows(ps, qs) /\ qs \in Seq(Pieces) /\ Len(qs) = p /\ qs[p] = x /\ Len(ps) \in Nat
    BY GrowsByOne
  <2> HIDE DEF qs
  <2> QED
    BY <2>1
<1>2. p \in Nat /\ p + 1 # Lost /\ i \in Nat \ {0}
  BY <1>1 DEF Lost
<1> HIDE DEF qs
<1>3. Ahead(w, i, qs, p)
  <2>1. Len(ps) <= Len(qs)
    BY <1>1
  <2> QED
    BY <1>1, <2>1, StillAhead
<1>4. IsPrefixed(qs, p)
  BY <1>1 DEF IsPrefixed
<1>5. ParsePlain(type, qs, p, w.mem) = p + 1
  <2> HIDE DEF type, p
  <2>1. CASE type.base \in {"STRING", "BUFFER"}
    BY <1>4, <2>1 DEF ParsePlain, Next1
  <2>2. CASE HasSize(type) /\ (type.size = 0 \/ x.len \in {0, type.size})
    <3>1. IsSized(qs, p, type.size)
      BY <1>1, <1>4, <2>2 DEF IsSized
    <3>2. CASE type.base = "ARRAY"
      BY <3>1, <3>2 DEF ParsePlain, Next1
    <3>3. CASE type.base = "STRUCT" /\ type.name \notin ReadByName
      <4>1. ParsePlain(type, qs, p, w.mem) = ParseStruct(type, qs, p, w.mem)
        BY <3>3 DEF ParsePlain
      <4>2. /\ type.name # "iovec" /\ type.name # "msghdr"
            /\ type.name # "string_array" /\ type.name # "dirent"
        BY <3>3 DEF ReadByName
      <4>3. ParseStruct(type, qs, p, w.mem) = Next1(IsSized(qs, p, type.size), p)
        BY <4>2 DEF ParseStruct
      <4> QED
        BY <3>1, <4>1, <4>3 DEF Next1
    <3> QED
      BY <2>2, <3>2, <3>3 DEF HasSize
  <2> QED
    BY <2>1, <2>2 DEF AnyLength, type
<1>6. Reads(w, i, qs, p + 1)
  <2> HIDE DEF p
  <2>1. ParsePlain(Within(w, i), qs, p, w.mem) = p + 1
    BY <1>5
  <2> QED
    BY <1>1, <1>2, <1>3, <2>1, ContentIsRead
<1> QED
  BY <1>1, <1>6 DEF qs

(* The value of a register, or the address that read_op has computed.      *)
LEMMA RawHolds ==
  ASSUME NEW w \in Calls, Readable(w), NEW r, NEW c, NEW ps \in Seq(Pieces),
         NEW x \in Pieces, x.kind = "raw", NEW op, NEW a, NEW b, Holds(w, r, a, c, ps),
         NEW code \in {"SAVE_ADDR", "SAVE_REG", "SAVE_POINTER"}, Does(w, code, op, a, b)
  PROVE  Holds(w, r, b, c, Append(ps, x))
<1> DEFINE qs == Append(ps, x)
           i == a.arg
<1>1. /\ Grows(ps, qs) /\ qs \in Seq(Pieces) /\ Len(qs) = Len(ps) + 1 /\ qs[Len(ps) + 1] = x
      /\ Len(ps) \in Nat
  BY GrowsByOne
<1> HIDE DEF qs
<1>2. \/ code = "SAVE_REG" /\ a.at = "value" /\ b = Label(i, "saved")
      \/ /\ code = "SAVE_ADDR" /\ a.at = "start" /\ b = Label(i, "valued")
         /\ i \in 1..Len(w.args) /\ ~IsMsghdr(w, i)
  BY DEF Does, Leaves, Moves, Points, Saves, Turned, FilterCodes, LenCodes, AddrCodes
<1>3. /\ i \in 1..(Len(w.args) + 1) /\ i \in 1..Len(w.args) /\ Closed(c)
      /\ Reads(w, i - 1, ps, Len(ps) + 1)
      /\ a.at = "value" => c.reg_value = Value(w, i)
  BY <1>2 DEF Holds, Straight, Looping
<1>4. Begun(w, i, qs, Len(qs))
  <2>1. i - 1 \in 0..Len(w.args)
    BY <1>3
  <2>2. Reads(w, i - 1, qs, Len(ps) + 1)
    BY <1>1, <1>3, <2>1, StillReads
  <2> QED
    BY <1>1, <2>2 DEF Begun
<1>5. CASE a.at = "value" /\ b = Label(i, "saved")
  <2>1. b.arg = i /\ b.at = "saved"
    BY <1>5 DEF Label
  <2>2. Holds(w, r, b, c, qs)
    BY <1>3, <1>4, <1>5, <2>1 DEF Holds, Straight
  <2> QED
    BY <2>2 DEF qs
<1>6. CASE b = Label(i, "valued") /\ ~IsMsghdr(w, i)
  <2>1. b.arg = i /\ b.at = "valued"
    BY <1>6 DEF Label
  <2>2. Holds(w, r, b, c, qs)
    BY <1>3, <1>4, <1>6, <2>1 DEF Holds, Straight
  <2> QED
    BY <2>2 DEF qs
<1> QED
  BY <1>2, <1>5, <1>6

(* The counts of a loop.                                                   *)
LEMMA CountsOfLoops ==
  ASSUME NEW c \in Contexts
  PROVE  /\ c.loop_count \in Nat /\ c.loop_count <= MAX_LOOP_COUNT
         /\ c.break_count \in Nat /\ c.break_count <= MAX_LOOP_COUNT
<1>1. c.loop_count \in 0..MAX_LOOP_COUNT /\ c.break_count \in 0..MAX_LOOP_COUNT
  BY ContextFields
<1> QED
  BY <1>1 DEF MAX_LOOP_COUNT

LEMMA LeastIsFirst ==
  ASSUME NEW m \in 0..MAX_BUF_READ_SIZE
  PROVE  Least(m, MAX_BYTES_ARR_SIZE) = m
BY DEF Least, MAX_BYTES_ARR_SIZE, MAX_BUF_READ_SIZE

(* Each turn over a vector saves two pieces.                               *)
LEMMA PiecesOfTurns ==
  ASSUME NEW k \in Nat, NEW f \in Nat, NEW m \in Nat
  PROVE  /\ m = f + 1 + 2 * (k - 1) => m + 1 = f + 2 + 2 * (k - 1)
         /\ m = f + 2 + 2 * (k - 1) => m + 1 = f + 1 + 2 * k
OBVIOUS

(* A struct, or what a register or a pointer says of it: what could not be *)
(* read is saved with the length 0.                                        *)
LEMMA StructHolds ==
  ASSUME NEW w \in Calls, Readable(w), NEW r, NEW c \in Contexts, NEW ps \in Seq(Pieces),
         NEW x \in Pieces, NEW n, n = Least(c.read_len, MAX_BYTES_ARR_SIZE),
         x.kind = "bytes", x.want = n, x.len \in {0, n}, x.at = c.read_addr,
         n \in {SIZEOF_IOVEC, SIZEOF_MSGHDR} => x.len # 0,
         NEW op, NEW a, NEW b, Holds(w, r, a, c, ps), Does(w, "SAVE_STRUCT", op, a, b)
  PROVE  Holds(w, r, b, [c EXCEPT !.read_len = n], Append(ps, x))
<1> DEFINE qs == Append(ps, x)
           d == [c EXCEPT !.read_len = n]
           i == a.arg
           p == Len(ps) + 1
<1>1. /\ Grows(ps, qs) /\ qs \in Seq(Pieces) /\ Len(qs) = p /\ qs[p] = x
      /\ Len(ps) \in Nat /\ DOMAIN qs = 1..p
  <2>1. Grows(ps, qs) /\ qs \in Seq(Pieces) /\ Len(qs) = p /\ qs[p] = x /\ Len(ps) \in Nat
    BY GrowsByOne
  <2> HIDE DEF qs
  <2> QED
    BY <2>1
<1>2. /\ d.loop_count = c.loop_count /\ d.break_count = c.break_count
      /\ d.loop_index = c.loop_index /\ d.read_addr = c.read_addr
      /\ d.reg_value = c.reg_value /\ d.tmp_value = c.tmp_value
      /\ d.pointer_value = c.pointer_value
  BY DEF Contexts
<1>3. IsPrefixed(qs, p) /\ p \in 1..Len(qs) /\ Len(ps) <= Len(qs)
  <2> HIDE DEF qs
  <2> QED
    BY <1>1 DEF IsPrefixed
<1> HIDE DEF d, qs
<1>4. /\ i \in 1..(Len(w.args) + 1)
      /\ a.at # "start" => i \in 1..Len(w.args)
      /\ Straight(w, i, a.at, c, ps) \/ Looping(w, r, i, a.at, c, ps)
  BY DEF Holds
<1>5. Saves(w, "SAVE_STRUCT", op, a, b)
  BY DEF Does, Leaves, Moves, Points, Turned, FilterCodes, LenCodes, AddrCodes
<1>6. CASE /\ a.at = "valued" /\ b = Label(i, "ready") /\ More(w, i)
           /\ w.args[i].type.child # <<>>
  <2>1. /\ i \in 1..Len(w.args) /\ Closed(c) /\ Begun(w, i, ps, Len(ps))
        /\ IsMsghdr(w, i) => c.read_addr = Value(w, i)
    BY <1>4, <1>6 DEF Straight, Looping
  <2>2. Begun(w, i, qs, Len(ps))
    BY <1>1, <1>3, <2>1, StillAhead
  <2>3. Ahead(w, i, qs, Len(qs) + 1)
    <3>1. Len(ps) \in 1..Len(qs) /\ Len(qs) + 1 = Len(ps) + 2 /\ qs[Len(ps) + 1].kind = "bytes"
      BY <1>1, <2>2 DEF Begun
    <3> QED
      BY <1>3, <1>6, <2>2, <3>1 DEF Ahead
  <2>4. b.arg = i /\ b.at = "ready"
    BY <1>6 DEF Label
  <2> QED
    BY <1>2, <1>4, <2>1, <2>3, <2>4 DEF Holds, Straight, Closed, d, qs
<1>7. CASE /\ b = Label(i + 1, "start")
           /\ \/ a.at = "ready" /\ AnyLength(Within(w, i))
              \/ /\ a.at = "sized" /\ HasSize(Within(w, i))
                 /\ Within(w, i).size \in 0..MAX_BUF_READ_SIZE
  <2>1. /\ i \in 1..Len(w.args) /\ Closed(c) /\ Ahead(w, i, ps, Len(ps) + 1)
        /\ a.at = "sized" => c.read_len = Within(w, i).size
    BY <1>4, <1>7 DEF Straight, Looping
  <2>2. a.at = "sized" => x.len \in {0, Within(w, i).size}
    <3>1. ASSUME a.at = "sized" PROVE n = Within(w, i).size
      <4>1. c.read_len \in 0..MAX_BUF_READ_SIZE /\ c.read_len = Within(w, i).size
        BY <1>7, <2>1, <3>1
      <4>2. Least(c.read_len, MAX_BYTES_ARR_SIZE) = c.read_len
        BY <4>1, LeastIsFirst
      <4> QED
        BY <4>1, <4>2
    <3> QED
      BY <3>1
  <2>3. Reads(w, i, qs, Len(qs) + 1)
    BY <1>7, <2>1, <2>2, PieceIsRead DEF qs
  <2>4. b.arg = i + 1 /\ b.at = "start" /\ (i + 1) - 1 = i /\ i + 1 \in 1..(Len(w.args) + 1)
    BY <1>4, <1>7, <2>1 DEF Label
  <2> QED
    BY <1>2, <2>1, <2>3, <2>4 DEF Holds, Straight, Closed, d, qs
<1>8. CASE a.at = "sized" /\ b = Label(i, "struct") /\ IsMsghdr(w, i)
  <2>1. /\ i \in 1..Len(w.args) /\ Closed(c) /\ Ahead(w, i, ps, Len(ps) + 1)
        /\ c.read_len = Within(w, i).size /\ c.read_addr = Value(w, i)
    BY <1>4, <1>8 DEF Straight, Looping
  <2>2. n = SIZEOF_MSGHDR
    <3>1. Within(w, i).size = SIZEOF_MSGHDR
      BY <1>8 DEF Within, IsMsghdr, MsghdrType, Type
    <3> QED
      BY <2>1, <3>1 DEF Least, MAX_BYTES_ARR_SIZE, SIZEOF_MSGHDR
  <2>3. IsFixed(qs, p, SIZEOF_MSGHDR) /\ qs[p].at = Value(w, i)
    BY <1>1, <1>3, <2>1, <2>2 DEF IsFixed
  <2>4. Ahead(w, i, qs, p)
    BY <1>1, <1>3, <2>1, StillAhead
  <2>5. Header(w, i, qs, Len(qs))
    BY <1>1, <2>3, <2>4 DEF Header
  <2>6. b.arg = i /\ b.at = "struct"
    BY <1>8 DEF Label
  <2> QED
    BY <1>2, <1>4, <2>1, <2>5, <2>6 DEF Holds, Straight, Closed, d, qs
<1>9. CASE a.at = "kept" /\ b = Label(i, "control")
  <2>1. /\ i \in 1..Len(w.args) /\ Closed(c) /\ Header(w, i, ps, Len(ps))
        /\ c.tmp_value = Value(w, i)
    BY <1>4, <1>9 DEF Straight, Looping
  <2>2. Header(w, i, qs, Len(ps))
    BY <1>1, <1>3, <2>1, StillAhead
  <2>3. Control(w, i, qs, Len(ps))
    BY <1>3, <2>2 DEF Control
  <2>4. Len(ps) \in 1..Len(qs) /\ Len(qs) = Len(ps) + 1
    BY <1>1, <2>3 DEF Control, Header, IsFixed, IsPrefixed
  <2>5. b.arg = i /\ b.at = "control"
    BY <1>9 DEF Label
  <2> QED
    BY <1>2, <1>4, <2>1, <2>3, <2>4, <2>5 DEF Holds, Straight, Closed, d, qs
<1>10. CASE (a.at = "vlen" /\ b = Label(i, "viov")) \/ (a.at = "viov" /\ b = Label(i, "vnext"))
  <2>1. /\ i \in 1..Len(w.args) /\ Count(w, i) \in 1..MAX_IOV_COUNT
        /\ Turns(w, r, i, "vbody", c, Count(w, i))
        /\ a.at = "vlen" => c.read_len = SIZEOF_IOVEC
    BY <1>4, <1>10 DEF Straight, Looping
  <2>2. PICK f \in 1..Len(ps) :
          /\ Control(w, i, ps, f) /\ Iovecs(ps, f, c.loop_count - 1)
          /\ a.at = "vlen" => Len(ps) = f + 1 + 2 * (c.loop_count - 1)
          /\ a.at = "viov" => /\ Len(ps) = f + 2 + 2 * (c.loop_count - 1)
                              /\ IsFixed(ps, Len(ps), SIZEOF_IOVEC)
    BY <1>4, <1>10 DEF Straight, Looping
  <2>3. Control(w, i, qs, f) /\ Iovecs(qs, f, c.loop_count - 1) /\ f \in 1..Len(qs)
    <3>1. Control(w, i, qs, f)
      BY <1>1, <1>3, <2>1, <2>2, StillAhead
    <3>2. Iovecs(qs, f, c.loop_count - 1)
      BY <1>1, <2>2, StillPairs
    <3> QED
      BY <1>1, <3>1, <3>2
  <2>4. Turns(w, r, i, "vbody", d, Count(w, i))
    BY <1>2, <2>1 DEF Turns
  <2>5. c.loop_count \in Nat /\ c.loop_count >= 1
    BY <2>1, CountsOfLoops DEF Turns
  <2>6. CASE a.at = "vlen" /\ b = Label(i, "viov")
    <3>1. n = SIZEOF_IOVEC
      BY <2>1, <2>6 DEF Least, MAX_BYTES_ARR_SIZE, SIZEOF_IOVEC
    <3>2. IsFixed(qs, p, SIZEOF_IOVEC)
      BY <1>1, <1>3, <3>1 DEF IsFixed
    <3>3. Len(qs) = f + 2 + 2 * (c.loop_count - 1)
      <4>1. Len(ps) = f + 1 + 2 * (c.loop_count - 1) /\ Len(qs) = Len(ps) + 1
        BY <1>1, <2>2, <2>6
      <4>2. f \in Nat /\ Len(ps) \in Nat /\ c.loop_count \in Nat
        BY <1>1, <2>5
      <4>3. Len(ps) + 1 = f + 2 + 2 * (c.loop_count - 1)
        BY <4>1, <4>2, PiecesOfTurns
      <4> QED
        BY <4>1, <4>3
    <3>4. b.arg = i /\ b.at = "viov"
      BY <2>6 DEF Label
    <3>5. Looping(w, r, i, "viov", d, qs)
      BY <1>1, <1>2, <2>1, <2>3, <2>4, <3>2, <3>3 DEF Looping
    <3> QED
      BY <1>4, <2>1, <3>4, <3>5 DEF Holds, d, qs
  <2>7. CASE a.at = "viov" /\ b = Label(i, "vnext")
    <3>1. Len(qs) = f + 1 + 2 * c.loop_count
      <4>1. Len(ps) = f + 2 + 2 * (c.loop_count - 1) /\ Len(qs) = Len(ps) + 1
        BY <1>1, <2>2, <2>7
      <4>2. f \in Nat /\ Len(ps) \in Nat /\ c.loop_count \in Nat
        BY <1>1, <2>5
      <4>3. Len(ps) + 1 = f + 1 + 2 * c.loop_count
        BY <4>1, <4>2, PiecesOfTurns
      <4> QED
        BY <4>1, <4>3
    <3>2. Iovecs(qs, f, c.loop_count)
      <4>1. ASSUME NEW j \in 0..(c.loop_count - 1)
            PROVE  /\ IsFixed(qs, f + 2 + 2 * j, SIZEOF_IOVEC)
                   /\ IsPrefixed(qs, f + 2 + 2 * j + 1)
        <5>1. CASE j = c.loop_count - 1
          <6>1. f + 2 + 2 * j = Len(ps) /\ f + 2 + 2 * j + 1 = p
            BY <1>1, <2>2, <2>5, <2>7, <5>1
          <6>2. IsFixed(qs, Len(ps), SIZEOF_IOVEC)
            BY <1>1, <2>2, <2>7 DEF Grows, IsFixed, IsPrefixed
          <6> QED
            BY <1>3, <6>1, <6>2
        <5>2. CASE j # c.loop_count - 1
          <6>1. j \in 0..((c.loop_count - 1) - 1)
            BY <2>5, <5>2
          <6> QED
            BY <2>3, <6>1 DEF Iovecs
        <5> QED
          BY <5>1, <5>2
      <4> QED
        BY <4>1 DEF Iovecs
    <3>3. b.arg = i /\ b.at = "vnext"
      BY <2>7 DEF Label
    <3>4. Looping(w, r, i, "vnext", d, qs)
      BY <1>2, <2>1, <2>3, <2>4, <3>1, <3>2 DEF Looping
    <3> QED
      BY <1>4, <2>1, <3>3, <3>4 DEF Holds, d, qs
  <2> QED
    BY <1>10, <2>6, <2>7
<1> QED
  BY <1>5, <1>6, <1>7, <1>8, <1>9, <1>10 DEF Saves

LEMMA StringHolds ==
  ASSUME NEW w \in Calls, Readable(w), NEW r, NEW c, NEW ps \in Seq(Pieces),
         NEW x \in Pieces, x.kind = "bytes",
         NEW op, NEW a, NEW b, Holds(w, r, a, c, ps),
         NEW code \in {"SAVE_STRING", "SAVE_STRING16"}, Does(w, code, op, a, b)
  PROVE  Holds(w, r, b, c, Append(ps, x))
<1> DEFINE qs == Append(ps, x)
           i == a.arg
<1>1. a.at = "ready" /\ b = Label(i + 1, "start") /\ AnyLength(Within(w, i))
  BY DEF Does, Leaves, Moves, Points, Saves, Turned, FilterCodes, LenCodes, AddrCodes
<1>2. /\ i \in 1..Len(w.args) /\ Closed(c) /\ Ahead(w, i, ps, Len(ps) + 1)
  BY <1>1 DEF Holds, Straight, Looping
<1>3. Reads(w, i, qs, Len(qs) + 1)
  BY <1>1, <1>2, PieceIsRead
<1> HIDE DEF qs
<1>4. b.arg = i + 1 /\ b.at = "start" /\ (i + 1) - 1 = i /\ i + 1 \in 1..(Len(w.args) + 1)
  BY <1>1, <1>2 DEF Label, Holds
<1> QED
  BY <1>2, <1>3, <1>4 DEF Holds, Straight, qs

(* A pointer of a string array and its text, or the end mark, which makes  *)
(* the loop stop.                                                          *)
LEMMA PtrStringHolds ==
  ASSUME NEW w \in Calls, Readable(w), NEW r, NEW c \in Contexts, NEW d, NEW ps \in Seq(Pieces),
         NEW x \in Pieces, NEW y \in Pieces, x.kind = "raw",
         \/ y.kind = "bytes" /\ x.at # 0 /\ d = c
         \/ y.kind = "end" /\ d = [c EXCEPT !.loop_count = c.break_count],
         NEW op, NEW a, NEW b, Holds(w, r, a, c, ps), Does(w, "SAVE_PTR_STRING", op, a, b)
  PROVE  Holds(w, r, b, d, Append(Append(ps, x), y))
<1> DEFINE ms == Append(ps, x)
           qs == Append(ms, y)
           i == a.arg
           n == c.loop_count
<1>1. /\ Grows(ps, ms) /\ ms \in Seq(Pieces) /\ Len(ms) = Len(ps) + 1
      /\ ms[Len(ps) + 1] = x /\ Len(ps) \in Nat /\ DOMAIN ms = 1..Len(ms)
  <2>1. Grows(ps, ms) /\ ms \in Seq(Pieces) /\ Len(ms) = Len(ps) + 1
          /\ ms[Len(ps) + 1] = x /\ Len(ps) \in Nat
    BY GrowsByOne
  <2> HIDE DEF ms
  <2> QED
    BY <2>1
<1> HIDE DEF ms
<1>2. /\ Grows(ms, qs) /\ qs \in Seq(Pieces) /\ Len(qs) = Len(ms) + 1
      /\ qs[Len(ms) + 1] = y /\ DOMAIN qs = 1..Len(qs)
  <2>1. Grows(ms, qs) /\ qs \in Seq(Pieces) /\ Len(qs) = Len(ms) + 1 /\ qs[Len(ms) + 1] = y
    BY <1>1, GrowsByOne
  <2> HIDE DEF qs
  <2> QED
    BY <2>1
<1> HIDE DEF qs
<1>3. /\ Grows(ps, qs) /\ Len(qs) = Len(ps) + 2 /\ Len(ps) <= Len(qs)
      /\ qs[Len(ps) + 1] = x /\ qs[Len(ps) + 2] = y
      /\ Len(ps) + 1 \in DOMAIN qs /\ Len(ps) + 2 \in DOMAIN qs
  BY <1>1, <1>2 DEF Grows
<1>4. a.at = "body" /\ b = Label(i, "next")
  BY DEF Does, Leaves, Moves, Points, Saves, Turned, FilterCodes, LenCodes, AddrCodes
<1>5. /\ i \in 1..(Len(w.args) + 1) /\ i \in 1..Len(w.args)
      /\ Turns(w, r, i, "body", c, MAX_LOOP_COUNT)
  BY <1>4 DEF Holds, Straight, Looping
<1>6. PICK p \in 1..(Len(ps) + 1) :
        Ahead(w, i, ps, p) /\ Len(ps) = p + 2 * (n - 1) - 1 /\ Strings(ps, p, n - 1)
  BY <1>4 DEF Holds, Straight, Looping
<1>7. n \in 1..MAX_LOOP_COUNT /\ n \in Nat /\ n >= 1 /\ MAX_LOOP_COUNT \in Nat
  <2>1. n \in Nat /\ n <= MAX_LOOP_COUNT /\ n >= 1
    BY <1>5, CountsOfLoops DEF Turns
  <2>2. MAX_LOOP_COUNT \in Nat
    BY DEF MAX_LOOP_COUNT
  <2> QED
    BY <2>1, <2>2
<1>8. /\ d.break_count = c.break_count /\ d.loop_index = c.loop_index
      /\ y.kind = "end" => d.loop_count = c.break_count
      /\ y.kind # "end" => d.loop_count = n /\ x.at # 0
  BY DEF Contexts
<1>9. Turns(w, r, i, "body", d, MAX_LOOP_COUNT)
  BY <1>5, <1>7, <1>8 DEF Turns
<1>10. Ahead(w, i, qs, p) /\ Strings(qs, p, n - 1)
  <2>1. Ahead(w, i, qs, p)
    BY <1>2, <1>3, <1>5, <1>6, StillAhead
  <2>2. Strings(qs, p, n - 1)
    BY <1>3, <1>6, StillPairs
  <2> QED
    BY <2>1, <2>2
<1>11. p + 2 * (n - 1) = Len(ps) + 1 /\ p + 2 * (n - 1) + 1 = Len(ps) + 2
  BY <1>1, <1>6, <1>7
<1>12. HasString(qs, p, n)
  BY <1>3, <1>11 DEF HasString, IsRaw
<1>13. LastPair(d, qs, p, n)
  <2>1. CASE y.kind = "end"
    <3>1. IsLast(qs, p, n)
      BY <1>3, <1>11, <2>1 DEF IsLast
    <3> QED
      BY <1>5, <1>8, <2>1, <3>1 DEF LastPair, Turns
  <2>2. CASE y.kind # "end"
    <3>1. ~IsLast(qs, p, n)
      BY <1>3, <1>8, <1>11, <2>2 DEF IsLast
    <3> QED
      BY <1>8, <2>2, <3>1 DEF LastPair
  <2> QED
    BY <2>1, <2>2
<1>14. p \in 1..Len(qs) /\ Len(qs) = p + 2 * n - 1
  <2>1. \A l \in Nat : \A q \in 1..(l + 1) :
          l = q + 2 * (n - 1) - 1 => q \in 1..(l + 2) /\ l + 2 = q + 2 * n - 1
    <3> HIDE DEF n
    <3> QED
      BY <1>7
  <2>2. /\ Len(ps) \in Nat /\ Len(qs) = Len(ps) + 2 /\ p \in 1..(Len(ps) + 1)
        /\ Len(ps) = p + 2 * (n - 1) - 1
    BY <1>1, <1>3, <1>6
  <2> HIDE DEF n
  <2> QED
    BY <2>1, <2>2
<1>15. b.arg = i /\ b.at = "next"
  BY <1>4 DEF Label
<1>16. Looping(w, r, i, "next", d, qs)
  BY <1>7, <1>9, <1>10, <1>12, <1>13, <1>14 DEF Looping
<1> QED
  BY <1>5, <1>15, <1>16 DEF Holds, qs, ms

(* The reader stops where the loop over a string array has stopped.        *)
LEMMA ArrayIsRead ==
  ASSUME NEW w, NEW i \in Nat \ {0}, HasStrings(w, i), NEW ps \in Seq(Pieces),
         NEW p \in Nat \ {0}, NEW n \in 1..MAX_LOOP_COUNT, Ahead(w, i, ps, p),
         Strings(ps, p, n - 1), HasString(ps, p, n), n = MAX_LOOP_COUNT \/ IsLast(ps, p, n)
  PROVE  Reads(w, i, ps, p + 2 * n)
<1>1. n \in Nat /\ n >= 1
  BY DEF MAX_LOOP_COUNT
<1>2. \A j \in 1..n : HasString(ps, p, j) /\ (j < n => ~IsLast(ps, p, j))
  BY <1>1 DEF Strings
<1>3. ParseStringArray(ps, p) = p + 2 * n
  BY <1>2, StringsAreRead
<1>4. ParsePlain(Within(w, i), ps, p, w.mem) = p + 2 * n
  <2>1. Within(w, i).base = "STRUCT" /\ Within(w, i).name = "string_array"
    BY DEF HasStrings
  <2>2. ParsePlain(Within(w, i), ps, p, w.mem) = ParseStruct(Within(w, i), ps, p, w.mem)
    BY <2>1 DEF ParsePlain
  <2>3. ParseStruct(Within(w, i), ps, p, w.mem) = ParseStringArray(ps, p)
    BY <2>1 DEF ParseStruct
  <2> QED
    BY <1>3, <2>2, <2>3
<1>5. p + 2 * n # Lost
  BY <1>1 DEF Lost
<1> QED
  BY <1>4, <1>5, ContentIsRead

(* And where the loop over the vector of a msghdr has.                     *)
LEMMA MsghdrIsRead ==
  ASSUME NEW w, NEW i \in Nat \ {0}, IsMsghdr(w, i), NEW ps \in Seq(Pieces),
         NEW p \in Nat \ {0}, Control(w, i, ps, p), Count(w, i) \in 1..MAX_IOV_COUNT,
         Iovecs(ps, p, Count(w, i))
  PROVE  Reads(w, i, ps, p + 2 + 2 * Count(w, i))
<1>1. PICK n \in 1..MAX_IOV_COUNT : n = Count(w, i)
  OBVIOUS
<1>2. n \in Nat /\ Fewer(n, MAX_IOV_COUNT) = n
  BY DEF MAX_IOV_COUNT, Fewer
<1>3. /\ Ahead(w, i, ps, p) /\ IsFixed(ps, p, SIZEOF_MSGHDR) /\ IsPrefixed(ps, p + 1)
      /\ ps[p].at = Value(w, i)
  BY DEF Control, Header
<1>4. ParsePairs(ps, p + 2, n) = p + 2 + 2 * n
  <2>1. \A j \in 0..(n - 1) : /\ IsFixed(ps, (p + 2) + 2 * j, SIZEOF_IOVEC)
                              /\ IsPrefixed(ps, (p + 2) + 2 * j + 1)
    BY <1>1 DEF Iovecs
  <2> QED
    BY <1>2, <2>1 DEF ParsePairs
<1>5. Word(w.mem, ps[p].at + 24) = n
  BY <1>1, <1>3 DEF Count
<1>6. ParsePlain(Within(w, i), ps, p, w.mem) = p + 2 + 2 * n
  <2>1. Within(w, i).base = "STRUCT" /\ Within(w, i).name = "msghdr"
    BY DEF IsMsghdr, Within, MsghdrType, Type
  <2>2. ParsePlain(Within(w, i), ps, p, w.mem) = ParseStruct(Within(w, i), ps, p, w.mem)
    BY <2>1 DEF ParsePlain
  <2>3. ParseStruct(Within(w, i), ps, p, w.mem) = ParseMsghdr(ps, p, w.mem)
    BY <2>1 DEF ParseStruct
  <2>4. ParseMsghdr(ps, p, w.mem) = p + 2 + 2 * n
    BY <1>3, <1>4, <1>5 DEF ParseMsghdr
  <2> QED
    BY <2>2, <2>3, <2>4
<1>7. p + 2 + 2 * n # Lost
  BY <1>2 DEF Lost
<1> QED
  BY <1>1, <1>3, <1>6, <1>7, ContentIsRead

LEMMA TurnOfVectors ==
  ASSUME NEW k \in Nat, NEW p \in Nat, NEW m \in Nat
  PROVE  /\ m = p + 1 + 2 * k => m = p + 1 + 2 * ((k + 1) - 1) /\ m + 1 = p + 2 + 2 * k
         /\ m = p + 2 * k - 1 => m = p + 2 * ((k + 1) - 1) - 1 /\ m + 1 = p + 2 * k
         /\ (k + 1) - 1 = k
OBVIOUS

(* What FOR_BREAK makes of a context.                                      *)
LoopAt(c) == IF c.loop_count = 0 THEN c.op_key_index ELSE c.loop_index
AfterTurn(c) ==
  IF c.loop_count >= c.break_count
  THEN [c EXCEPT !.loop_count = 0, !.break_count = 0, !.loop_index = 0]
  ELSE [c EXCEPT !.loop_count = c.loop_count + 1,
                 !.loop_index = LoopAt(c), !.op_key_index = LoopAt(c)]

LEMMA TurnFields ==
  ASSUME NEW c \in Contexts
  PROVE  IF c.loop_count >= c.break_count
         THEN Closed(AfterTurn(c)) /\ AfterTurn(c).op_key_index = c.op_key_index
         ELSE /\ AfterTurn(c).loop_count = c.loop_count + 1
              /\ AfterTurn(c).break_count = c.break_count
              /\ AfterTurn(c).loop_index = LoopAt(c)
              /\ AfterTurn(c).op_key_index = LoopAt(c)
<1>1. CASE c.loop_count >= c.break_count
  BY <1>1 DEF AfterTurn, Contexts, Closed
<1>2. CASE ~(c.loop_count >= c.break_count)
  BY <1>2 DEF AfterTurn, Contexts
<1> QED
  BY <1>1, <1>2

(* The head of a loop enters its body.                                     *)
LEMMA HeadHolds ==
  ASSUME NEW w, NEW r, NEW c \in Contexts, NEW ps \in Seq(Pieces), NEW op, NEW a,
         c.op_key_index \in 0..Len(w.ops), a.at \in {"armed", "bound"},
         Holds(w, r, a, c, ps), Turned(w, "FOR_BREAK", op, a, r[c.op_key_index])
  PROVE  /\ AfterTurn(c).op_key_index = c.op_key_index
         /\ Holds(w, r, r[c.op_key_index], AfterTurn(c), ps)
<1> DEFINE i == a.arg
           d == AfterTurn(c)
           k == c.op_key_index
<1>1. /\ i \in 1..(Len(w.args) + 1) /\ i \in 1..Len(w.args) /\ Len(ps) \in Nat
      /\ c.loop_count = 0 /\ c.break_count \in Nat /\ c.break_count > 0
  <2>1. /\ i \in 1..(Len(w.args) + 1) /\ i \in 1..Len(w.args) /\ c.loop_count = 0
        /\ \/ c.break_count = MAX_LOOP_COUNT
           \/ Count(w, i) \in 1..MAX_IOV_COUNT /\ c.break_count = Count(w, i)
    BY DEF Holds, Straight, Looping
  <2>2. c.break_count \in Nat
    BY CountsOfLoops
  <2>3. c.break_count > 0
    BY <2>1, <2>2 DEF MAX_LOOP_COUNT
  <2> QED
    BY <2>1, <2>2, <2>3
<1>2. /\ d.loop_count = 1 /\ d.break_count = c.break_count
      /\ d.loop_index = k /\ d.op_key_index = k
  <2>1. ~(c.loop_count >= c.break_count) /\ LoopAt(c) = k /\ c.loop_count + 1 = 1
    BY <1>1 DEF LoopAt
  <2> QED
    BY <2>1, TurnFields
<1> HIDE DEF d, k
<1>3. CASE a.at = "armed"
  <2>1. r[k] = Label(i, "body") /\ r[k].arg = i /\ r[k].at = "body"
    BY <1>3 DEF Turned, Label, k
  <2>2. Ahead(w, i, ps, Len(ps) + 1) /\ c.break_count = MAX_LOOP_COUNT
    BY <1>3 DEF Holds, Straight, Looping
  <2>3. Turns(w, r, i, "body", d, MAX_LOOP_COUNT)
    BY <1>2, <2>1, <2>2 DEF Turns, k, MAX_LOOP_COUNT
  <2>4. \E p \in 1..(Len(ps) + 1) :
          /\ Ahead(w, i, ps, p) /\ Len(ps) = p + 2 * (d.loop_count - 1) - 1
          /\ Strings(ps, p, d.loop_count - 1)
    <3>1. /\ Len(ps) + 1 \in 1..(Len(ps) + 1)
          /\ Len(ps) = (Len(ps) + 1) + 2 * (1 - 1) - 1
      BY <1>1
    <3>2. Strings(ps, Len(ps) + 1, 1 - 1)
      BY DEF Strings
    <3> QED
      BY <1>2, <2>2, <3>1, <3>2
  <2>5. Looping(w, r, i, "body", d, ps)
    BY <2>3, <2>4 DEF Looping
  <2> QED
    BY <1>1, <1>2, <2>1, <2>5 DEF Holds, d, k
<1>4. CASE a.at = "bound"
  <2>1. r[k] = Label(i, "vbody") /\ r[k].arg = i /\ r[k].at = "vbody"
    BY <1>4 DEF Turned, Label, k
  <2>2. /\ Count(w, i) \in 1..MAX_IOV_COUNT /\ c.break_count = Count(w, i)
        /\ \E p \in 1..Len(ps) : Control(w, i, ps, p) /\ Len(ps) = p + 1
    BY <1>4 DEF Holds, Straight, Looping
  <2>3. Turns(w, r, i, "vbody", d, Count(w, i))
    BY <1>1, <1>2, <2>1, <2>2 DEF Turns, k
  <2>4. \E p \in 1..Len(ps) :
          /\ Control(w, i, ps, p) /\ Iovecs(ps, p, d.loop_count - 1)
          /\ Len(ps) = p + 1 + 2 * (d.loop_count - 1)
    <3>1. PICK p \in 1..Len(ps) : Control(w, i, ps, p) /\ Len(ps) = p + 1
      BY <2>2
    <3>2. Iovecs(ps, p, 1 - 1)
      BY DEF Iovecs
    <3>3. Len(ps) = p + 1 + 2 * (1 - 1)
      BY <1>1, <3>1
    <3> QED
      BY <1>2, <3>1, <3>2, <3>3
  <2>5. Looping(w, r, i, "vbody", d, ps)
    BY <2>2, <2>3, <2>4 DEF Looping
  <2> QED
    BY <1>1, <1>2, <2>1, <2>5 DEF Holds, d, k
<1> QED
  BY <1>3, <1>4

(* Its end leaves it, or goes back to the body.                            *)
LEMMA TailHolds ==
  ASSUME NEW w \in Calls, NEW r, NEW c \in Contexts, NEW ps \in Seq(Pieces), NEW op, NEW a,
         c.op_key_index \in 0..Len(w.ops), a.at \in {"next", "vnext"},
         Holds(w, r, a, c, ps), Turned(w, "FOR_BREAK", op, a, r[c.op_key_index])
  PROVE  /\ AfterTurn(c).op_key_index \in 0..Len(w.ops)
         /\ Holds(w, r, r[AfterTurn(c).op_key_index], AfterTurn(c), ps)
<1> DEFINE i == a.arg
           d == AfterTurn(c)
           n == c.loop_count
           count == IF a.at = "next" THEN MAX_LOOP_COUNT ELSE Count(w, i)
           body == IF a.at = "next" THEN "body" ELSE "vbody"
<1>1. /\ i \in 1..(Len(w.args) + 1) /\ i \in 1..Len(w.args) /\ Len(ps) \in Nat
      /\ Turns(w, r, i, body, c, count) /\ count \in Nat
      /\ a.at = "vnext" => Count(w, i) \in 1..MAX_IOV_COUNT
  BY DEF Holds, Straight, Looping, MAX_LOOP_COUNT
<1>2. n \in Nat /\ 1 <= n /\ n <= count /\ c.break_count = count
  BY <1>1, CountsOfLoops DEF Turns
<1>3. /\ c.loop_index \in 0..Len(w.ops) /\ r[c.loop_index] = Label(i, body)
      /\ r[c.op_key_index] = Label(i + 1, "start")
  BY <1>1 DEF Turns, Turned
<1> HIDE DEF d, count, body
<1>4. CASE n >= count
  <2>1. Closed(d) /\ d.op_key_index = c.op_key_index
    BY <1>2, <1>4, TurnFields DEF d
  <2>2. Reads(w, i, ps, Len(ps) + 1)
    <3>1. CASE a.at = "next"
      <4>1. HasStrings(w, i)
        BY <3>1 DEF Turned
      <4>2. PICK p \in 1..Len(ps), m \in 1..MAX_LOOP_COUNT :
              /\ Ahead(w, i, ps, p) /\ Len(ps) = p + 2 * m - 1
              /\ Strings(ps, p, m - 1) /\ HasString(ps, p, m) /\ LastPair(c, ps, p, m)
        BY <3>1 DEF Holds, Straight, Looping
      <4>3. m = MAX_LOOP_COUNT \/ IsLast(ps, p, m)
        <5>1. n = MAX_LOOP_COUNT
          BY <1>1, <1>2, <1>4, <3>1 DEF count
        <5> QED
          BY <4>2, <5>1 DEF LastPair
      <4>4. p \in Nat \ {0} /\ i \in Nat \ {0} /\ m \in Nat
        BY <1>1 DEF MAX_LOOP_COUNT
      <4>5. Reads(w, i, ps, p + 2 * m)
        BY <4>1, <4>2, <4>3, <4>4, ArrayIsRead
      <4>6. Len(ps) + 1 = p + 2 * m
        BY <1>1, <4>2, <4>4, TurnOfVectors
      <4> QED
        BY <4>5, <4>6
    <3>2. CASE a.at = "vnext"
      <4>1. IsMsghdr(w, i) /\ n = Count(w, i) /\ Count(w, i) \in 1..MAX_IOV_COUNT
        BY <1>1, <1>2, <1>4, <3>2 DEF Turned, count
      <4>2. PICK p \in 1..Len(ps) :
              Control(w, i, ps, p) /\ Iovecs(ps, p, n) /\ Len(ps) = p + 1 + 2 * n
        BY <3>2 DEF Holds, Straight, Looping
      <4>3. p \in Nat \ {0} /\ i \in Nat \ {0}
        BY <1>1
      <4>4. Reads(w, i, ps, p + 2 + 2 * Count(w, i))
        BY <4>1, <4>2, <4>3, MsghdrIsRead
      <4>5. Len(ps) + 1 = p + 2 + 2 * n
        BY <1>1, <1>2, <4>2, <4>3, TurnOfVectors
      <4> QED
        BY <4>1, <4>4, <4>5
    <3> QED
      BY <3>1, <3>2
  <2>3. /\ Label(i + 1, "start").arg = i + 1 /\ Label(i + 1, "start").at = "start"
        /\ (i + 1) - 1 = i /\ i + 1 \in 1..(Len(w.args) + 1)
    BY <1>1 DEF Label
  <2>4. Holds(w, r, Label(i + 1, "start"), d, ps)
    BY <2>1, <2>2, <2>3 DEF Holds, Straight
  <2> QED
    BY <1>3, <2>1, <2>4 DEF d
<1>5. CASE ~(n >= count)
  <2>1. /\ d.loop_count = n + 1 /\ d.break_count = count
        /\ d.loop_index = c.loop_index /\ d.op_key_index = c.loop_index
    <3>1. LoopAt(c) = c.loop_index /\ ~(c.loop_count >= c.break_count)
      BY <1>2, <1>5 DEF LoopAt
    <3> QED
      BY <1>2, <3>1, TurnFields DEF d
  <2>2. Turns(w, r, i, body, d, count)
    BY <1>2, <1>3, <1>5, <2>1, <1>1 DEF Turns
  <2>3. r[d.op_key_index] = Label(i, body) /\ Label(i, body).arg = i /\ Label(i, body).at = body
    BY <1>3, <2>1 DEF Label
  <2>4. CASE a.at = "next"
    <3>1. PICK p \in 1..Len(ps), m \in 1..MAX_LOOP_COUNT :
            /\ Ahead(w, i, ps, p) /\ Len(ps) = p + 2 * m - 1
            /\ Strings(ps, p, m - 1) /\ HasString(ps, p, m) /\ LastPair(c, ps, p, m)
      BY <2>4 DEF Holds, Straight, Looping
    <3>2. n # MAX_LOOP_COUNT
      BY <1>2, <1>5, <2>4 DEF count, MAX_LOOP_COUNT
    <3>3. m = n /\ ~IsLast(ps, p, m)
      BY <3>1, <3>2 DEF LastPair
    <3>4. Strings(ps, p, n)
      BY <1>2, <3>1, <3>3 DEF Strings
    <3>5. p \in 1..(Len(ps) + 1) /\ Len(ps) = p + 2 * ((n + 1) - 1) - 1 /\ (n + 1) - 1 = n
      BY <1>1, <1>2, <3>1, <3>3, TurnOfVectors
    <3>6. Looping(w, r, i, "body", d, ps)
      BY <2>1, <2>2, <2>4, <3>1, <3>4, <3>5 DEF Looping, body, count
    <3> QED
      BY <1>1, <1>3, <2>1, <2>3, <2>4, <3>6 DEF Holds, d, body
  <2>5. CASE a.at = "vnext"
    <3>1. PICK p \in 1..Len(ps) :
            Control(w, i, ps, p) /\ Iovecs(ps, p, n) /\ Len(ps) = p + 1 + 2 * n
      BY <2>5 DEF Holds, Straight, Looping
    <3>2. Len(ps) = p + 1 + 2 * ((n + 1) - 1) /\ (n + 1) - 1 = n
      BY <1>1, <1>2, <3>1, TurnOfVectors
    <3>3. Looping(w, r, i, "vbody", d, ps)
      BY <1>1, <2>1, <2>2, <2>5, <3>1, <3>2 DEF Looping, body, count
    <3> QED
      BY <1>1, <1>3, <2>1, <2>3, <2>5, <3>3 DEF Holds, d, body
  <2> QED
    BY <2>4, <2>5
<1> QED
  BY <1>4, <1>5

LEMMA TurnHolds ==
  ASSUME NEW w \in Calls, NEW r, NEW c \in Contexts, NEW ps \in Seq(Pieces), NEW op, NEW a,
         c.op_key_index \in 0..Len(w.ops),
         Holds(w, r, a, c, ps), Does(w, "FOR_BREAK", op, a, r[c.op_key_index])
  PROVE  /\ AfterTurn(c).op_key_index \in 0..Len(w.ops)
         /\ Holds(w, r, r[AfterTurn(c).op_key_index], AfterTurn(c), ps)
<1>1. Turned(w, "FOR_BREAK", op, a, r[c.op_key_index])
  BY DEF Does, Leaves, Moves, Points, Saves, FilterCodes, LenCodes, AddrCodes
<1>2. a.at \in {"armed", "bound"} \/ a.at \in {"next", "vnext"}
  BY <1>1 DEF Turned
<1> QED
  BY <1>1, <1>2, HeadHolds, TailHolds

-----------------------------------------------------------------------------
(* The stages along the list of a call, and where in it read_args is.      *)
Mapped(c, r) ==
  /\ Entails(c, Label(1, "start"), r[0])
  /\ \A k \in 1..Len(c.ops) : Goes(c, c.ops[k], r[k - 1], r[k])
  /\ \A k \in 0..Len(c.ops) : ~(k < Max(c.ends)) => Entails(c, r[k], EndOf(c))

(* Where the operations of the arguments end: the last of them last.       *)
LEMMA MaxIs ==
  ASSUME NEW S \in SUBSET Nat, NEW m \in S, \A n \in S : n <= m
  PROVE  Max(S) = m
<1>1. \A x \in S : (\A y \in S : x >= y) => x = m
  OBVIOUS
<1>2. \A y \in S : m >= y
  OBVIOUS
<1> QED
  BY <1>1, <1>2 DEF Max

LEMMA FlatGrows ==
  ASSUME NEW S, NEW lists \in Seq(Seq(S)), NEW i \in 0..Len(lists)
  PROVE  Len(Flat(lists, i)) <= Len(FlattenSeq(lists))
<1> DEFINE n == Len(lists)
           T == {k \in 0..n : \A j \in 0..k : Len(Flat(lists, j)) <= Len(Flat(lists, k))}
<1>1. /\ n \in Nat /\ Flat(lists, n) = FlattenSeq(lists)
      /\ \A k \in 0..n : Flat(lists, k) \in Seq(S) /\ Len(Flat(lists, k)) \in Nat
      /\ \A k \in 0..(n - 1) : Flat(lists, k + 1) = Flat(lists, k) \o lists[k + 1]
  BY FlatSteps
<1>2. 0 \in T
  <2>1. 0 \in 0..n /\ \A j \in 0..0 : j = 0
    BY <1>1
  <2> QED
    BY <1>1, <2>1
<1>3. ASSUME NEW k \in 0..(n - 1), k \in T PROVE k + 1 \in T
  <2>1. k + 1 \in 0..n /\ k \in 0..n /\ lists[k + 1] \in Seq(S)
    BY <1>1
  <2>2. Len(Flat(lists, k)) <= Len(Flat(lists, k + 1))
    <3>1. Flat(lists, k) \in Seq(S) /\ Flat(lists, k + 1) = Flat(lists, k) \o lists[k + 1]
      BY <1>1, <2>1
    <3>2. Len(Flat(lists, k + 1)) = Len(Flat(lists, k)) + Len(lists[k + 1])
      BY <2>1, <3>1
    <3> QED
      BY <2>1, <3>1, <3>2
  <2>3. ASSUME NEW j \in 0..(k + 1) PROVE Len(Flat(lists, j)) <= Len(Flat(lists, k + 1))
    <3>1. CASE j = k + 1
      BY <1>1, <2>1, <3>1
    <3>2. CASE j # k + 1
      <4>1. j \in 0..k /\ j \in 0..n
        BY <1>1, <3>2
      <4>2. Len(Flat(lists, j)) <= Len(Flat(lists, k))
        BY <1>3, <4>1
      <4>3. /\ Len(Flat(lists, j)) \in Nat /\ Len(Flat(lists, k)) \in Nat
            /\ Len(Flat(lists, k + 1)) \in Nat
        BY <1>1, <2>1, <4>1
      <4> QED
        BY <2>2, <4>2, <4>3
    <3> QED
      BY <3>1, <3>2
  <2> QED
    BY <2>1, <2>3
<1> HIDE DEF T
<1>4. n \in T
  <2> HIDE DEF n
  <2>1. \A k \in 0..n : k \in T
    BY <1>1, <1>2, <1>3, UpTo
  <2> QED
    BY <1>1, <2>1
<1> QED
  BY <1>1, <1>4 DEF T

LEMMA CallIsMapped ==
  ASSUME NEW c \in Calls, Readable(c)
  PROVE  \E r : Mapped(c, r)
<1> DEFINE lists == ArgOps(c.args, c.side)
           all == FlattenSeq(lists)
           n == IF Len(all) < MaxOpCount(c.side) THEN Len(all) ELSE MaxOpCount(c.side)
<1>1. /\ ArgsOfPoint(c.args)
      /\ c.ops = SubSeq(all, 1, n)
      /\ c.ends = {Len(Flat(lists, i)) : i \in DOMAIN lists}
  <2>1. ArgsOfPoint(c.args) /\ c.ops = PointOps(c.args, c.side) /\ c.ends = ArgEnds(c.args, c.side)
    BY ArgStreamAssumption
  <2>2. c.ops = SubSeq(all, 1, n)
    BY <2>1 DEF PointOps
  <2>3. DOMAIN lists = DOMAIN c.args
    BY DEF ArgOps
  <2>4. \A i : ArgEnd(c.args, c.side, i) = Len(Flat(lists, i))
    BY DEF ArgEnd, Flat
  <2> HIDE DEF lists
  <2> QED
    BY <2>1, <2>2, <2>3, <2>4 DEF ArgEnds
<1>2. lists \in Seq(Seq(Operations)) /\ DOMAIN lists = 1..Len(lists) /\ Len(lists) \in Nat
  <2>1. DOMAIN c.args = 1..Len(c.args) /\ Len(c.args) \in Nat
    BY <1>1 DEF ArgsOfPoint
  <2>2. \A i \in DOMAIN c.args : get_op_list(c.args[i], c.side) \in Seq(Operations)
    BY <1>1, ArgWalks
  <2>3. lists \in Seq(Seq(Operations))
    BY <2>1, <2>2 DEF ArgOps
  <2> HIDE DEF lists
  <2> QED
    BY <2>3
<1>3. Route(c, all, Label(1, "start"), EndOf(c))
  BY <1>1, CallRoute
<1> HIDE DEF lists
<1>4. PICK r : /\ all \in Seq(Operations) /\ Entails(c, Label(1, "start"), r[0])
               /\ Along(c, all, r) /\ Entails(c, r[Len(all)], EndOf(c))
  BY <1>3 DEF Route
<1>5. n \in 0..Len(all) /\ Len(all) \in Nat
  <2>1. MaxOpCount(c.side) \in Nat /\ Len(all) \in Nat
    BY <1>4 DEF MaxOpCount
  <2> HIDE DEF all
  <2> QED
    BY <2>1
<1>6. ASSUME NEW k \in 0..n, ~(k < Max(c.ends)) PROVE k = Len(all)
  <2>1. CASE Len(lists) = 0
    <3>1. Len(all) = 0
      <4>1. Flat(lists, 0) = <<>> /\ Flat(lists, Len(lists)) = all
        BY <1>2, FlatSteps
      <4> QED
        BY <2>1, <4>1
    <3> QED
      BY <1>5, <3>1
  <2>2. CASE Len(lists) # 0
    <3>1. Len(lists) \in DOMAIN lists /\ Flat(lists, Len(lists)) = all
      BY <1>2, <2>2, FlatSteps
    <3>2. Len(all) \in c.ends
      BY <1>1, <3>1
    <3>3. c.ends \in SUBSET Nat /\ \A e \in c.ends : e <= Len(all)
      <4>1. \A i \in 0..Len(lists) : Flat(lists, i) \in Seq(Operations)
        BY <1>2, FlatSteps
      <4>2. ASSUME NEW i \in DOMAIN lists
            PROVE  Len(Flat(lists, i)) \in Nat /\ Len(Flat(lists, i)) <= Len(all)
        <5>1. i \in 0..Len(lists)
          BY <1>2
        <5>2. Len(Flat(lists, i)) \in Nat
          BY <4>1, <5>1
        <5> QED
          BY <1>2, <5>1, <5>2, FlatGrows
      <4> QED
        BY <1>1, <4>2
    <3>4. Max(c.ends) = Len(all)
      BY <3>2, <3>3, MaxIs
    <3> HIDE DEF all, n
    <3> QED
      BY <1>5, <1>6, <3>4
  <2> QED
    BY <2>1, <2>2
<1> HIDE DEF all, n
<1>7. Len(c.ops) = n /\ \A k \in 1..n : c.ops[k] = all[k]
  BY <1>1, <1>4, <1>5
<1>8. \A k \in 1..n : Goes(c, c.ops[k], r[k - 1], r[k])
  BY <1>4, <1>5, <1>7 DEF Along
<1>9. Mapped(c, r)
  BY <1>4, <1>6, <1>7, <1>8 DEF Mapped
<1> QED
  BY <1>9

(* What is left of the operation fetched last: its post operation, or      *)
(* nothing.                                                                *)
Follows(r, c, b) ==
  /\ c.op_key_index \in 0..Len(call.ops)
  /\ IF c.post_code = "SKIP" THEN b = r[c.op_key_index]
     ELSE /\ c.post_code \notin {"FOR_BREAK", "READ_REG"}
          /\ Does(call, c.post_code, c.op, b, r[c.op_key_index])

Located(r, c, ps) == \E b : Follows(r, c, b) /\ Holds(call, r, b, c, ps)

LEMMA Lands ==
  ASSUME NEW r, NEW c, NEW b, Follows(r, c, b), NEW d, NEW ps, Holds(call, r, b, d, ps),
         d.op = c.op, d.post_code = c.post_code, d.op_key_index = c.op_key_index
  PROVE  Located(r, d, ps)
<1>1. Follows(r, d, b)
  BY DEF Follows
<1> QED
  BY <1>1 DEF Located

LEMMA FetchLocated ==
  ASSUME TypeOK, Readable(call), NEW r, Mapped(call, r), NEW ps \in Seq(Pieces),
         Located(r, ctx, ps), Code # "SKIP"
  PROVE  \E a, b :
           /\ Holds(call, r, a, Fetched, ps)
           /\ Does(call, Code, Fetched.op, a, b) /\ Follows(r, Fetched, b)
           /\ Code = "FOR_BREAK" => Fetched.post_code = "SKIP"
           /\ Code = "READ_REG" => Fetched.post_code # "SKIP"
<1> DEFINE k == ctx.op_key_index
<1>1. ctx \in Contexts /\ call \in Calls /\ ops \in Seq(Operations) /\ k \in Nat
  BY CallTypes, ContextFields DEF TypeOK, ops
<1>2. PICK b : Follows(r, ctx, b) /\ Holds(call, r, b, ctx, ps)
  BY DEF Located
<1>3. CASE HasPost
  <2>1. /\ Code = ctx.post_code /\ Fetched = [ctx EXCEPT !.post_code = "SKIP"]
        /\ ctx.post_code # "SKIP"
    BY <1>3 DEF Code, Fetched, HasPost
  <2>2. /\ Fetched.op = ctx.op /\ Fetched.post_code = "SKIP" /\ Fetched.op_key_index = k
        /\ Fetched.loop_count = ctx.loop_count /\ Fetched.break_count = ctx.break_count
        /\ Fetched.loop_index = ctx.loop_index /\ Fetched.reg_value = ctx.reg_value
        /\ Fetched.read_addr = ctx.read_addr /\ Fetched.read_len = ctx.read_len
        /\ Fetched.tmp_value = ctx.tmp_value /\ Fetched.pointer_value = ctx.pointer_value
    BY <1>1, <2>1 DEF Contexts
  <2>3. Holds(call, r, b, Fetched, ps)
    BY <1>2, <2>2, SameHolds
  <2>4. /\ k \in 0..Len(call.ops) /\ Code \notin {"FOR_BREAK", "READ_REG"}
        /\ Does(call, Code, Fetched.op, b, r[k])
    BY <1>2, <2>1, <2>2 DEF Follows
  <2>5. Follows(r, Fetched, r[k])
    BY <2>2, <2>4 DEF Follows
  <2> QED
    BY <2>3, <2>4, <2>5
<1>4. CASE ~HasPost
  <2>1. k < Len(ops)
    BY <1>4 DEF Code, NextOp, ListedOp, Op
  <2> DEFINE n == k + 1
  <2>2. n \in 1..Len(ops) /\ n \in 0..Len(call.ops) /\ n - 1 = k /\ b = r[k]
    BY <1>1, <1>2, <1>4, <2>1 DEF HasPost, Follows, ops
  <2>3. NextOp = ops[n] /\ Code = ops[n].code
    BY <1>4, <2>1 DEF Code, NextOp, ListedOp
  <2>4. Fetched = [ctx EXCEPT !.op = ops[n], !.post_code = ops[n].post, !.op_key_index = n]
    BY <1>4, <2>3 DEF Fetched
  <2> HIDE DEF n
  <2>5. /\ Fetched.op = ops[n] /\ Fetched.post_code = ops[n].post /\ Fetched.op_key_index = n
        /\ Fetched.loop_count = ctx.loop_count /\ Fetched.break_count = ctx.break_count
        /\ Fetched.loop_index = ctx.loop_index /\ Fetched.reg_value = ctx.reg_value
        /\ Fetched.read_addr = ctx.read_addr /\ Fetched.read_len = ctx.read_len
        /\ Fetched.tmp_value = ctx.tmp_value /\ Fetched.pointer_value = ctx.pointer_value
    BY <1>1, <2>4 DEF Contexts
  <2>6. Goes(call, ops[n], r[k], r[n])
    BY <2>2 DEF Mapped, ops
  <2>7. PICK e, m : /\ Entails(call, r[k], e) /\ Does(call, ops[n].code, ops[n], e, m)
                    /\ IF ops[n].post = "SKIP" THEN m = r[n]
                       ELSE Does(call, ops[n].post, ops[n], m, r[n])
    BY <2>6 DEF Goes
  <2>8. Holds(call, r, e, ctx, ps)
    BY <1>1, <1>2, <2>2, <2>7, EntailsHolds
  <2>9. Holds(call, r, e, Fetched, ps)
    BY <2>5, <2>8, SameHolds
  <2>10. Follows(r, Fetched, m)
    BY <2>2, <2>5, <2>6, <2>7 DEF Follows, Goes
  <2>11. /\ Does(call, Code, Fetched.op, e, m)
         /\ Code = "FOR_BREAK" => Fetched.post_code = "SKIP"
         /\ Code = "READ_REG" => Fetched.post_code # "SKIP"
    BY <2>3, <2>5, <2>6, <2>7 DEF Goes
  <2> QED
    BY <2>9, <2>10, <2>11
<1> QED
  BY <1>3, <1>4

-----------------------------------------------------------------------------
(* The steps: each goes on to the next stage, or to one of the excuses.    *)
Excused == buf.full \/ Torn \/ CountLost \/ ~SmallVectors

Knows(r) == Readable(call) /\ Mapped(call, r) /\ SmallVectors /\ Located(r, ctx, buf.pieces)

LEMMA StateTypes ==
  ASSUME TypeOK
  PROVE  /\ call \in Calls /\ ctx \in Contexts /\ Fetched \in Contexts
         /\ buf \in Buffers /\ buf.pieces \in Seq(Pieces)
         /\ faulted \in Seq(Operations)
BY FetchType DEF TypeOK, Buffers

LEMMA VectorsAreCounts ==
  ASSUME call \in Calls, SmallVectors
  PROVE  SmallCounts(call)
<1>1. DOMAIN call.args = 1..Len(call.args)
  BY ArgStreamAssumption DEF ArgsOfPoint
<1>2. ASSUME NEW i \in 1..Len(call.args), IsMsghdr(call, i), More(call, i)
      PROVE  Count(call, i) \in 1..MAX_IOV_COUNT
  <2>1. call.args[i].type.name = "msghdr"
    BY <1>2 DEF IsMsghdr, MsghdrType, Type
  <2>2. i \in Vectors
    BY <1>1, <1>2, <2>1 DEF Vectors, More, args, side
  <2>3. VectorLen(i) = Count(call, i)
    BY <2>1 DEF VectorLen, RegOf, Count, Value, args, mem
  <2> QED
    BY <2>2, <2>3 DEF SmallVectors
<1> QED
  BY <1>2 DEF SmallCounts

(* Once there is an excuse there always is.                                *)
LEMMA ExcusesStay ==
  ASSUME Excused, call' = call, Grows(buf.pieces, buf'.pieces), Grows(faulted, faulted'),
         buf.full => buf'.full
  PROVE  Excused'
<1>1. CASE buf.full
  BY <1>1 DEF Excused
<1>2. CASE Torn
  BY <1>2 DEF Excused, Torn, IsStruct, Grows
<1>3. CASE CountLost
  BY <1>3 DEF Excused, CountLost, Grows
<1>4. CASE ~SmallVectors
  BY <1>4 DEF Excused, SmallVectors, Vectors, VectorLen, RegOf, args, side, mem
<1> QED
  BY <1>1, <1>2, <1>3, <1>4 DEF Excused

(* What is saved into a buffer.                                            *)
LEMMA SavedPieces ==
  ASSUME NEW b \in Buffers, NEW size, NEW x
  PROVE  /\ NoRoom(b).full /\ NoRoom(b).pieces = b.pieces
         /\ Saved(b, size, x).pieces = Append(b.pieces, x)
         /\ Saved(b, size, x).full = b.full
         /\ b.pieces \in Seq(Pieces) /\ b.full \in BOOLEAN
BY DEF NoRoom, Saved, Buffers

LEMMA PieceFields ==
  ASSUME NEW kind, NEW len, NEW want, NEW at
  PROVE  LET x == Piece(kind, len, want, at)
         IN x.kind = kind /\ x.len = len /\ x.want = want /\ x.at = at
BY DEF Piece

LEMMA EffectKeeps ==
  ASSUME NEW c \in Contexts, NEW code \in RegisterCodes
  PROVE  LET d == Effect(code, c)
         IN d.op = c.op /\ d.post_code = c.post_code /\ d.op_key_index = c.op_key_index
BY DEF Effect, RegisterCodes, Contexts

LEMMA RegisterStepStage ==
  ASSUME TypeOK, NEW r, Knows(r), RegisterStep
  PROVE  Located(r, ctx, buf.pieces)'
<1> DEFINE c == Fetched
           ps == buf.pieces
<1>1. call \in Calls /\ c \in Contexts /\ ps \in Seq(Pieces) /\ SmallCounts(call)
  BY StateTypes, VectorsAreCounts DEF Knows
<1>2. /\ Code \in RegisterCodes /\ Code # "SKIP" /\ call' = call /\ buf' = buf
      /\ ctx' = Effect(Code, c)
  BY OtherCodes DEF RegisterStep, Turn
<1>3. PICK a, b : /\ Holds(call, r, a, c, ps) /\ Does(call, Code, c.op, a, b)
                  /\ Follows(r, c, b)
  BY <1>1, <1>2, FetchLocated DEF Knows
<1>4. Holds(call, r, b, ctx', ps)
  BY <1>1, <1>2, <1>3, EffectHolds
<1>5. ctx'.op = c.op /\ ctx'.post_code = c.post_code /\ ctx'.op_key_index = c.op_key_index
  BY <1>1, <1>2, EffectKeeps
<1> HIDE DEF c, ps
<1>6. Located(r, ctx', ps)
  BY <1>3, <1>4, <1>5, Lands
<1> QED
  BY <1>2, <1>6 DEF Located, Follows, ps

LEMMA ReadPointerStage ==
  ASSUME TypeOK, NEW r, Knows(r), ReadPointer
  PROVE  Excused' \/ Located(r, ctx, buf.pieces)'
<1> DEFINE c == Fetched
           ps == buf.pieces
<1>1. call \in Calls /\ c \in Contexts /\ ps \in Seq(Pieces) /\ faulted \in Seq(Operations)
  BY StateTypes
<1>2. Code = "READ_POINTER" /\ call' = call /\ buf' = buf
  BY DEF ReadPointer, Turn
<1>3. PICK fault \in BOOLEAN :
        /\ MayFault(fault)
        /\ ctx' = [c EXCEPT !.pointer_value =
                     IF fault THEN 0 ELSE Word(call.mem, PointerAddr(c))]
  BY DEF ReadPointer
<1>4. PICK v : /\ ctx' = [c EXCEPT !.pointer_value = v]
               /\ fault \/ v = Word(call.mem, PointerAddr(c))
  BY <1>3
<1>5. PICK a, b : /\ Holds(call, r, a, c, ps) /\ Does(call, "READ_POINTER", c.op, a, b)
                  /\ Follows(r, c, b)
  <2>1. Code # "SKIP"
    BY <1>2
  <2>2. \E a, b : /\ Holds(call, r, a, c, ps) /\ Does(call, Code, c.op, a, b)
                  /\ Follows(r, c, b)
    BY <1>1, <2>1, FetchLocated DEF Knows
  <2> QED
    BY <1>2, <2>2
<1>6. CASE fault /\ c.op.post = "SET_BREAK_COUNT_POINTER_VALUE"
  <2>1. faulted' = Append(faulted, c.op)
    BY <1>3, <1>6 DEF MayFault
  <2>2. c.op \in Operations
    BY <1>1, ContextFields
  <2>3. Len(faulted) + 1 \in DOMAIN faulted' /\ faulted'[Len(faulted) + 1] = c.op
    BY <1>1, <2>1, <2>2
  <2>4. CountLost'
    BY <1>6, <2>3 DEF CountLost
  <2> QED
    BY <2>4 DEF Excused
<1>7. CASE ~(fault /\ c.op.post = "SET_BREAK_COUNT_POINTER_VALUE")
  <2> HIDE DEF c, ps
  <2>1. c.op.post # "SET_BREAK_COUNT_POINTER_VALUE" \/ v = Word(call.mem, PointerAddr(c))
    BY <1>4, <1>7
  <2>2. Holds(call, r, b, ctx', ps)
    BY <1>1, <1>4, <1>5, <2>1, PointerHolds
  <2>3. ctx'.op = c.op /\ ctx'.post_code = c.post_code /\ ctx'.op_key_index = c.op_key_index
    BY <1>1, <1>4 DEF Contexts
  <2>4. Located(r, ctx', ps)
    BY <1>5, <2>2, <2>3, Lands
  <2> QED
    BY <1>2, <2>4 DEF Located, Follows, ps
<1> QED
  BY <1>6, <1>7

LEMMA ReadStdStringStage ==
  ASSUME TypeOK, NEW r, Knows(r), ReadStdString
  PROVE  Located(r, ctx, buf.pieces)'
<1> DEFINE c == Fetched
           ps == buf.pieces
<1>1. call \in Calls /\ c \in Contexts /\ ps \in Seq(Pieces)
  BY StateTypes
<1>2. Code = "READ_STD_STRING" /\ call' = call /\ buf' = buf
  BY DEF ReadStdString, Turn
<1>3. PICK v : ctx' = [c EXCEPT !.read_addr = v]
  BY DEF ReadStdString
<1>4. PICK a, b : /\ Holds(call, r, a, c, ps) /\ Does(call, "READ_STD_STRING", c.op, a, b)
                  /\ Follows(r, c, b)
  <2>1. Code # "SKIP"
    BY <1>2
  <2>2. \E a, b : /\ Holds(call, r, a, c, ps) /\ Does(call, Code, c.op, a, b)
                  /\ Follows(r, c, b)
    BY <1>1, <2>1, FetchLocated DEF Knows
  <2> QED
    BY <1>2, <2>2
<1> HIDE DEF c, ps
<1>5. Holds(call, r, b, ctx', ps)
  BY <1>1, <1>3, <1>4, StdHolds
<1>6. ctx'.op = c.op /\ ctx'.post_code = c.post_code /\ ctx'.op_key_index = c.op_key_index
  BY <1>1, <1>3 DEF Contexts
<1>7. Located(r, ctx', ps)
  BY <1>4, <1>5, <1>6, Lands
<1> QED
  BY <1>2, <1>7 DEF Located, Follows, ps

LEMMA ForBreakStage ==
  ASSUME TypeOK, NEW r, Knows(r), ForBreak
  PROVE  Located(r, ctx, buf.pieces)'
<1> DEFINE c == Fetched
           ps == buf.pieces
<1>1. call \in Calls /\ c \in Contexts /\ ps \in Seq(Pieces)
  BY StateTypes
<1>2. Code = "FOR_BREAK" /\ call' = call /\ buf' = buf
  BY DEF ForBreak, Turn
<1>3. ctx' = AfterTurn(c)
  BY DEF ForBreak, AfterTurn, LoopAt
<1>4. PICK a, b : /\ Holds(call, r, a, c, ps) /\ Does(call, "FOR_BREAK", c.op, a, b)
                  /\ Follows(r, c, b) /\ c.post_code = "SKIP"
  <2>1. Code # "SKIP"
    BY <1>2
  <2>2. \E a, b : /\ Holds(call, r, a, c, ps) /\ Does(call, Code, c.op, a, b)
                  /\ Follows(r, c, b) /\ (Code = "FOR_BREAK" => c.post_code = "SKIP")
    BY <1>1, <2>1, FetchLocated DEF Knows
  <2> QED
    BY <1>2, <2>2
<1> HIDE DEF c, ps
<1>5. b = r[c.op_key_index] /\ c.op_key_index \in 0..Len(call.ops)
  BY <1>4 DEF Follows
<1>6. /\ ctx'.op_key_index \in 0..Len(call.ops)
      /\ Holds(call, r, r[ctx'.op_key_index], ctx', ps)
  <2>1. Does(call, "FOR_BREAK", c.op, a, r[c.op_key_index])
    BY <1>4, <1>5
  <2>2. /\ AfterTurn(c).op_key_index \in 0..Len(call.ops)
        /\ Holds(call, r, r[AfterTurn(c).op_key_index], AfterTurn(c), ps)
    BY <1>1, <1>4, <1>5, <2>1, TurnHolds
  <2> QED
    BY <1>3, <2>2
<1>7. ctx'.post_code = "SKIP"
  BY <1>1, <1>3, <1>4 DEF AfterTurn, Contexts
<1>8. Located(r, ctx', ps)
  BY <1>6, <1>7 DEF Located, Follows
<1> QED
  BY <1>2, <1>8 DEF Located, Follows, ps

(* The piece that was added to a sequence of pieces is one.                *)
LEMMA AddedPiece ==
  ASSUME NEW ps \in Seq(Pieces), NEW x, Append(ps, x) \in Seq(Pieces)
  PROVE  x \in Pieces
<1>1. Len(Append(ps, x)) = Len(ps) + 1 /\ Append(ps, x)[Len(ps) + 1] = x /\ Len(ps) \in Nat
  OBVIOUS
<1>2. Len(ps) + 1 \in 1..Len(Append(ps, x))
  BY <1>1
<1>3. Append(ps, x)[Len(ps) + 1] \in Pieces
  BY <1>2
<1> QED
  BY <1>1, <1>3

LEMMA SaveRawStage ==
  ASSUME IInv, NEW r, Knows(r), SaveRaw
  PROVE  Excused' \/ Located(r, ctx, buf.pieces)'
<1> DEFINE c == Fetched
           ps == buf.pieces
<1>1. call \in Calls /\ c \in Contexts /\ ps \in Seq(Pieces) /\ buf \in Buffers
  BY StateTypes DEF IInv
<1>2. /\ Code \in {"SAVE_ADDR", "SAVE_REG", "SAVE_POINTER"} /\ call' = call
      /\ ctx' = c /\ buf'.pieces \in Seq(Pieces)
  BY SaveRawIInv DEF SaveRaw, Turn, IInv, TypeOK, Buffers
<1>3. PICK a, b : /\ Holds(call, r, a, c, ps) /\ Does(call, Code, c.op, a, b)
                  /\ Follows(r, c, b)
  BY <1>1, <1>2, FetchLocated DEF Knows, IInv
<1>4. PICK value : buf' = save_to_submit_buf(buf, value)
  BY DEF SaveRaw
<1>5. CASE ~HasRoom(buf, MAX_ELEMENT_SIZE + 1)
  BY <1>1, <1>4, <1>5, SavedPieces DEF save_to_submit_buf, Excused
<1>6. CASE HasRoom(buf, MAX_ELEMENT_SIZE + 1)
  <2> DEFINE x == Piece("raw", 8, 8, value)
  <2>1. buf'.pieces = Append(ps, x) /\ x.kind = "raw"
    BY <1>1, <1>4, <1>6, SavedPieces, PieceFields DEF save_to_submit_buf
  <2> HIDE DEF x, ps, c
  <2>2. x \in Pieces
    BY <1>1, <1>2, <2>1, AddedPiece
  <2>3. Holds(call, r, b, c, Append(ps, x))
    BY <1>1, <1>2, <1>3, <2>1, <2>2, RawHolds DEF Knows
  <2>4. Located(r, ctx', buf'.pieces)
    BY <1>2, <1>3, <2>1, <2>3 DEF Located
  <2> QED
    BY <1>2, <2>4 DEF Located, Follows
<1> QED
  BY <1>5, <1>6

LEMMA SaveStructStage ==
  ASSUME IInv, NEW r, Knows(r), SaveStruct
  PROVE  Excused' \/ Located(r, ctx, buf.pieces)'
<1> DEFINE c == Fetched
           ps == buf.pieces
           n == Least(c.read_len, MAX_BYTES_ARR_SIZE)
<1>1. call \in Calls /\ c \in Contexts /\ ps \in Seq(Pieces) /\ buf \in Buffers
  BY StateTypes DEF IInv
<1>2. Code = "SAVE_STRUCT" /\ call' = call /\ buf'.pieces \in Seq(Pieces)
  BY SaveStructIInv DEF SaveStruct, Turn, IInv, TypeOK, Buffers
<1>3. PICK a, b : /\ Holds(call, r, a, c, ps) /\ Does(call, "SAVE_STRUCT", c.op, a, b)
                  /\ Follows(r, c, b)
  <2>1. Code # "SKIP"
    BY <1>2
  <2>2. \E a, b : /\ Holds(call, r, a, c, ps) /\ Does(call, Code, c.op, a, b)
                  /\ Follows(r, c, b)
    BY <1>1, <2>1, FetchLocated DEF Knows, IInv
  <2> QED
    BY <1>2, <2>2
<1>4. c.op.pre # "SET_READ_COUNT"
  BY <1>3 DEF Does, Leaves, Moves, Points, Saves, Turned, FilterCodes, LenCodes, AddrCodes
<1>5. /\ ctx' = [c EXCEPT !.read_len = n]
      /\ \E len \in {0, n} : buf' = save_bytes_to_buf(buf, "bytes", len, n, c.read_addr)
  BY <1>4 DEF SaveStruct
<1>6. PICK len \in {0, n} : buf' = save_bytes_to_buf(buf, "bytes", len, n, c.read_addr)
  BY <1>5
<1> DEFINE x == Piece("bytes", len, n, c.read_addr)
<1>7. CASE ~HasRoom(buf, MAX_BYTES_ARR_SIZE + 5)
  BY <1>1, <1>6, <1>7, SavedPieces DEF save_bytes_to_buf, Excused
<1>8. CASE HasRoom(buf, MAX_BYTES_ARR_SIZE + 5)
  <2>1. /\ buf'.pieces = Append(ps, x)
        /\ x.kind = "bytes" /\ x.len = len /\ x.want = n /\ x.at = c.read_addr
    BY <1>1, <1>6, <1>8, SavedPieces, PieceFields DEF save_bytes_to_buf
  <2>2. ctx'.op = c.op /\ ctx'.post_code = c.post_code /\ ctx'.op_key_index = c.op_key_index
    BY <1>1, <1>5 DEF Contexts
  <2>3. PICK m : m = n
    OBVIOUS
  <2> HIDE DEF x, ps, c, n
  <2>4. x \in Pieces
    BY <1>1, <1>2, <2>1, AddedPiece
  <2>5. CASE n \in {SIZEOF_IOVEC, SIZEOF_MSGHDR} /\ x.len = 0
    <3>1. Len(ps) + 1 \in DOMAIN buf'.pieces /\ buf'.pieces[Len(ps) + 1] = x
      BY <1>1, <2>1, <2>4
    <3>2. Torn'
      BY <2>1, <2>5, <3>1 DEF Torn, IsStruct
    <3> QED
      BY <3>2 DEF Excused
  <2>6. CASE ~(n \in {SIZEOF_IOVEC, SIZEOF_MSGHDR} /\ x.len = 0)
    <3>1. n = Least(c.read_len, MAX_BYTES_ARR_SIZE) /\ x.len \in {0, n} /\ x.want = n
      BY <1>6, <2>1 DEF n
    <3>2. Holds(call, r, b, [c EXCEPT !.read_len = n], Append(ps, x))
      BY <1>1, <1>3, <2>1, <2>4, <2>6, <3>1, StructHolds DEF Knows
    <3>3. Holds(call, r, b, ctx', buf'.pieces)
      BY <1>5, <2>1, <3>2
    <3>4. Located(r, ctx', buf'.pieces)
      BY <1>3, <2>2, <3>3, Lands
    <3> QED
      BY <1>2, <3>4 DEF Located, Follows
  <2> QED
    BY <2>5, <2>6
<1> QED
  BY <1>7, <1>8

LEMMA SaveStringStage ==
  ASSUME IInv, NEW r, Knows(r), SaveString
  PROVE  Excused' \/ Located(r, ctx, buf.pieces)'
<1> DEFINE c == Fetched
           ps == buf.pieces
<1>1. call \in Calls /\ c \in Contexts /\ ps \in Seq(Pieces) /\ buf \in Buffers
  BY StateTypes DEF IInv
<1>2. /\ Code \in {"SAVE_STRING", "SAVE_STRING16"} /\ call' = call
      /\ ctx' = c /\ buf'.pieces \in Seq(Pieces)
  BY SaveStringIInv DEF SaveString, Turn, IInv, TypeOK, Buffers
<1>3. PICK a, b : /\ Holds(call, r, a, c, ps) /\ Does(call, Code, c.op, a, b)
                  /\ Follows(r, c, b)
  BY <1>1, <1>2, FetchLocated DEF Knows, IInv
<1>4. buf'.full \/ \E x : buf'.pieces = Append(ps, x) /\ x.kind = "bytes"
  <2>1. \/ buf' = SaveText(buf, Code, ctx.read_addr)
        \/ buf' = save_bytes_to_buf(buf, "bytes", 0, 0, ctx.read_addr)
    BY DEF SaveString
  <2>2. CASE buf' = SaveText(buf, Code, ctx.read_addr)
    BY <1>1, <2>2, SavedPieces, PieceFields DEF SaveText
  <2>3. CASE buf' = save_bytes_to_buf(buf, "bytes", 0, 0, ctx.read_addr)
    BY <1>1, <2>3, SavedPieces, PieceFields DEF save_bytes_to_buf
  <2> QED
    BY <2>1, <2>2, <2>3
<1>5. CASE buf'.full
  BY <1>5 DEF Excused
<1>6. CASE ~buf'.full
  <2>1. PICK x : buf'.pieces = Append(ps, x) /\ x.kind = "bytes"
    BY <1>4, <1>6
  <2> HIDE DEF ps, c
  <2>2. x \in Pieces
    BY <1>1, <1>2, <2>1, AddedPiece
  <2>3. Holds(call, r, b, c, Append(ps, x))
    BY <1>1, <1>2, <1>3, <2>1, <2>2, StringHolds DEF Knows
  <2>4. Located(r, ctx', buf'.pieces)
    BY <1>2, <1>3, <2>1, <2>3 DEF Located
  <2> QED
    BY <1>2, <2>4 DEF Located, Follows
<1> QED
  BY <1>5, <1>6

LEMMA SavePtrStringStage ==
  ASSUME IInv, NEW r, Knows(r), SavePtrString
  PROVE  Excused' \/ Located(r, ctx, buf.pieces)'
<1> DEFINE c == Fetched
           ps == buf.pieces
<1>1. call \in Calls /\ c \in Contexts /\ ps \in Seq(Pieces) /\ buf \in Buffers
  BY StateTypes DEF IInv
<1>2. /\ Code \in {"SAVE_PTR_STRING", "SAVE_PTR_STRING16"} /\ Code # "SKIP" /\ call' = call
      /\ buf'.pieces \in Seq(Pieces)
  BY SavePtrStringIInv DEF SavePtrString, Turn, IInv, TypeOK, Buffers
<1>3. PICK a, b : /\ Holds(call, r, a, c, ps) /\ Does(call, Code, c.op, a, b)
                  /\ Follows(r, c, b)
  BY <1>1, <1>2, FetchLocated DEF Knows, IInv
<1>4. Code = "SAVE_PTR_STRING"
  BY <1>2, <1>3 DEF Does, Leaves, Moves, Points, Saves, Turned, FilterCodes, LenCodes, AddrCodes
<1>5. PICK ptr \in Nat :
        LET m == save_to_submit_buf(buf, ptr)
        IN \/ CanSaveText(m, Code, ptr) /\ buf' = SaveText(m, Code, ptr) /\ ctx' = c
           \/ /\ buf' = save_bytes_to_buf(m, "end", 0, 0, ptr)
              /\ ctx' = [c EXCEPT !.loop_count = c.break_count]
  <2>1. Word(call.mem, c.read_addr) \in Nat /\ 0 \in Nat
    BY WordsType DEF IInv
  <2> HIDE DEF c
  <2> QED
    BY <2>1 DEF SavePtrString, c
<1> DEFINE m == save_to_submit_buf(buf, ptr)
           x == Piece("raw", 8, 8, ptr)
<1>6. m \in Buffers
  BY <1>1, RawSaved
<1>7. m.full \/ m.pieces = Append(ps, x)
  BY <1>1, SavedPieces DEF save_to_submit_buf
<1>8. x.kind = "raw" /\ x.at = ptr /\ x \in Pieces
  BY DEF Piece, Pieces, MAX_STRING_SIZE
<1> HIDE DEF m, x
<1>9. \/ buf'.full
      \/ \E y : /\ buf'.pieces = Append(m.pieces, y)
                /\ buf'.full = m.full
                /\ \/ y.kind = "bytes" /\ x.at # 0 /\ ctx' = c
                   \/ y.kind = "end" /\ ctx' = [c EXCEPT !.loop_count = c.break_count]
  <2>1. CASE CanSaveText(m, Code, ptr) /\ buf' = SaveText(m, Code, ptr) /\ ctx' = c
    <3>1. ptr # 0
      BY <1>1, <1>4, <2>1, ReadArgsAssumption DEF CanSaveText, IsWide
    <3>2. PICK len : buf' = Saved(m, len + 5, Piece("bytes", len, len, ptr))
      BY <2>1 DEF SaveText
    <3>3. /\ buf'.pieces = Append(m.pieces, Piece("bytes", len, len, ptr))
          /\ buf'.full = m.full /\ Piece("bytes", len, len, ptr).kind = "bytes"
      BY <1>6, <3>2, SavedPieces, PieceFields
    <3> QED
      BY <1>8, <2>1, <3>1, <3>3
  <2>2. CASE /\ buf' = save_bytes_to_buf(m, "end", 0, 0, ptr)
             /\ ctx' = [c EXCEPT !.loop_count = c.break_count]
    <3>1. CASE HasRoom(m, MAX_BYTES_ARR_SIZE + 5)
      <4>1. buf' = Saved(m, 0 + 5, Piece("end", 0, 0, ptr))
        BY <2>2, <3>1 DEF save_bytes_to_buf
      <4>2. /\ buf'.pieces = Append(m.pieces, Piece("end", 0, 0, ptr))
            /\ buf'.full = m.full /\ Piece("end", 0, 0, ptr).kind = "end"
        BY <1>6, <4>1, SavedPieces, PieceFields
      <4> QED
        BY <2>2, <4>2
    <3>2. CASE ~HasRoom(m, MAX_BYTES_ARR_SIZE + 5)
      BY <1>6, <2>2, <3>2, SavedPieces DEF save_bytes_to_buf
    <3> QED
      BY <3>1, <3>2
  <2> QED
    BY <1>5, <2>1, <2>2 DEF m
<1>10. CASE buf'.full
  BY <1>10 DEF Excused
<1>11. CASE ~buf'.full
  <2>1. PICK y : /\ buf'.pieces = Append(m.pieces, y) /\ buf'.full = m.full
                 /\ \/ y.kind = "bytes" /\ x.at # 0 /\ ctx' = c
                    \/ y.kind = "end" /\ ctx' = [c EXCEPT !.loop_count = c.break_count]
    BY <1>9, <1>11
  <2>2. m.pieces = Append(ps, x) /\ m.pieces \in Seq(Pieces)
    BY <1>6, <1>7, <1>11, <2>1 DEF Buffers
  <2>3. y \in Pieces
    BY <1>2, <2>1, <2>2, AddedPiece
  <2>4. ctx'.op = c.op /\ ctx'.post_code = c.post_code /\ ctx'.op_key_index = c.op_key_index
    <3> HIDE DEF c
    <3> QED
      BY <1>1, <2>1 DEF Contexts
  <2> HIDE DEF ps, c
  <2>5. Does(call, "SAVE_PTR_STRING", c.op, a, b)
    BY <1>3, <1>4
  <2>6. Holds(call, r, b, ctx', Append(Append(ps, x), y))
    <3>1. PICK d : d = ctx'
      OBVIOUS
    <3>2. \/ y.kind = "bytes" /\ x.at # 0 /\ d = c
          \/ y.kind = "end" /\ d = [c EXCEPT !.loop_count = c.break_count]
      BY <2>1, <3>1
    <3>3. Holds(call, r, b, d, Append(Append(ps, x), y))
      BY <1>1, <1>3, <1>8, <2>3, <2>5, <3>2, PtrStringHolds DEF Knows
    <3> QED
      BY <3>1, <3>3
  <2>7. Located(r, ctx', buf'.pieces)
    BY <1>3, <2>1, <2>2, <2>4, <2>6, Lands
  <2> QED
    BY <1>2, <2>7 DEF Located, Follows
<1> QED
  BY <1>10, <1>11

LEMMA ApplyFilterStage ==
  ASSUME TypeOK, NEW r, Knows(r), ApplyFilter
  PROVE  Located(r, ctx, buf.pieces)'
<1> DEFINE c == Fetched
           ps == buf.pieces
<1>1. call \in Calls /\ c \in Contexts /\ ps \in Seq(Pieces)
  BY StateTypes
<1>2. Code \in FilterCodes /\ Code # "SKIP" /\ call' = call /\ buf' = buf
  BY OtherCodes DEF ApplyFilter, Turn
<1>3. PICK u, v : ctx' = [c EXCEPT !.apply_filter = u, !.match_whitelist = v]
  BY DEF ApplyFilter
<1>4. PICK a, b : /\ Holds(call, r, a, c, ps) /\ Does(call, Code, c.op, a, b)
                  /\ Follows(r, c, b)
  BY <1>1, <1>2, FetchLocated DEF Knows
<1>5. b = a
  BY <1>2, <1>4 DEF Does, Moves, Points, Saves, Turned, FilterCodes
<1> HIDE DEF c, ps
<1>6. /\ ctx'.op = c.op /\ ctx'.post_code = c.post_code
      /\ ctx'.op_key_index = c.op_key_index
      /\ ctx'.loop_count = c.loop_count /\ ctx'.break_count = c.break_count
      /\ ctx'.loop_index = c.loop_index /\ ctx'.reg_value = c.reg_value
      /\ ctx'.read_addr = c.read_addr /\ ctx'.read_len = c.read_len
      /\ ctx'.tmp_value = c.tmp_value /\ ctx'.pointer_value = c.pointer_value
  BY <1>1, <1>3 DEF Contexts
<1>7. Holds(call, r, b, ctx', ps)
  BY <1>4, <1>5, <1>6, SameHolds
<1>8. Located(r, ctx', ps)
  BY <1>4, <1>6, <1>7, Lands
<1> QED
  BY <1>2, <1>8 DEF Located, Follows, ps

(* What is left when all that the arguments ask for was executed: on       *)
(* return, the value returned.                                             *)
LEMMA EndIsParsed ==
  ASSUME TypeOK, NEW r, Knows(r), NEW c, c.op_key_index \in 0..Len(call.ops),
         Holds(call, r, r[c.op_key_index], c, buf.pieces),
         ~(c.op_key_index < Max(call.ends)), call' = call, buf' = Submitted
  PROVE  buf'.full \/ Parsed'
<1> DEFINE ps == buf.pieces
           qs == buf'.pieces
           n == Len(call.args)
<1>1. call \in Calls /\ ps \in Seq(Pieces) /\ buf \in Buffers /\ Readable(call)
  BY StateTypes DEF Knows
<1>2. n \in Nat /\ DOMAIN call.args = 1..n
  BY <1>1, ArgsHaveBases
<1>3. Holds(call, r, EndOf(call), c, ps)
  <2>1. Entails(call, r[c.op_key_index], EndOf(call))
    BY DEF Knows, Mapped
  <2> QED
    BY <1>1, <2>1, EntailsHolds
<1>4. Parsed' = (ParseArgs(call.args, call.side, qs, call.mem) = Len(qs) + 1)
  BY DEF Parsed, args, side, mem
<1>5. CASE call.side # "exit"
  <2>1. EndOf(call).arg = n + 1 /\ EndOf(call).at = "start" /\ buf' = buf
    BY <1>5 DEF EndOf, Label, Submitted, side
  <2>2. Reads(call, n, ps, Len(ps) + 1)
    <3>1. Reads(call, (n + 1) - 1, ps, Len(ps) + 1) /\ (n + 1) - 1 = n
      BY <1>2, <1>3, <2>1 DEF Holds, Straight, Looping
    <3> QED
      BY <3>1
  <2> QED
    BY <1>2, <1>4, <2>1, <2>2, AllRead
<1>6. CASE call.side = "exit"
  <2>1. EndOf(call).arg = n /\ EndOf(call).at = "start"
    BY <1>6 DEF EndOf, Label
  <2>2. n # 0 /\ n \in Nat \ {0} /\ n - 1 \in 0..Len(call.args) /\ n \in DOMAIN call.args
    <3>1. n \in 1..(n + 1)
      BY <1>3, <2>1 DEF Holds
    <3> QED
      BY <1>2, <3>1
  <2>3. Reads(call, n - 1, ps, Len(ps) + 1)
    BY <1>3, <2>1 DEF Holds, Straight, Looping
  <2>4. IsNumber(call.args[n].type) /\ call.args[n].type.child = <<>>
    BY <1>1, <1>6, <2>2 DEF Readable, IsReturn
  <2>5. buf' = save_to_submit_buf(buf, 0)
    BY <1>6 DEF Submitted, side
  <2>6. CASE ~HasRoom(buf, MAX_ELEMENT_SIZE + 1)
    BY <1>1, <2>5, <2>6, SavedPieces DEF save_to_submit_buf
  <2>7. CASE HasRoom(buf, MAX_ELEMENT_SIZE + 1)
    <3> DEFINE x == Piece("raw", 8, 8, 0)
    <3>1. qs = Append(ps, x)
      BY <1>1, <2>5, <2>7, SavedPieces DEF save_to_submit_buf
    <3>2. x.kind = "raw" /\ x \in Pieces
      BY DEF Piece, Pieces, MAX_STRING_SIZE
    <3> HIDE DEF x, qs, ps
    <3>3. /\ Grows(ps, qs) /\ qs \in Seq(Pieces) /\ Len(qs) = Len(ps) + 1
          /\ qs[Len(ps) + 1] = x /\ Len(ps) \in Nat
      BY <1>1, <3>1, <3>2, GrowsByOne
    <3>4. Reads(call, n - 1, qs, Len(qs))
      BY <1>1, <2>2, <2>3, <3>3, StillReads
    <3>5. Begun(call, n, qs, Len(qs))
      BY <3>2, <3>3, <3>4 DEF Begun
    <3>6. Reads(call, n, qs, Len(qs) + 1)
      BY <2>2, <2>4, <3>3, <3>5, ValueIsRead
    <3>7. ParseArgs(call.args, call.side, qs, call.mem) = Len(qs) + 1
      BY <1>2, <3>6, AllRead
    <3> QED
      BY <1>4, <3>7 DEF qs
  <2> QED
    BY <2>6, <2>7
<1> QED
  BY <1>5, <1>6

LEMMA GivesUpStage ==
  ASSUME TypeOK, NEW r, Knows(r), GivesUp
  PROVE  Excused' \/ Partial' \/ Parsed'
<1> DEFINE c == Fetched
           ps == buf.pieces
<1>1. /\ Code \in {"READ_REG"} \cup FilterCodes /\ Code # "SKIP" /\ call' = call
      /\ ctx' = c /\ buf' = Submitted
  BY DEF GivesUp, Turn, FilterCodes
<1>2. PICK a, b : /\ Holds(call, r, a, c, ps) /\ Does(call, Code, c.op, a, b)
                  /\ Follows(r, c, b) /\ (Code = "READ_REG" => c.post_code # "SKIP")
  BY <1>1, StateTypes, FetchLocated DEF Knows
<1>3. CASE c.post_code # "SKIP" \/ c.op_key_index < Max(call.ends)
  BY <1>1, <1>3 DEF Partial
<1>4. CASE ~(c.post_code # "SKIP" \/ c.op_key_index < Max(call.ends))
  <2>1. Code \in FilterCodes
    BY <1>1, <1>2, <1>4
  <2>2. b = a /\ b = r[c.op_key_index] /\ c.op_key_index \in 0..Len(call.ops)
    BY <1>2, <1>4, <2>1 DEF Does, Moves, Points, Saves, Turned, FilterCodes, Follows
  <2>3. Holds(call, r, r[c.op_key_index], c, ps)
    BY <1>2, <2>2
  <2> HIDE DEF c
  <2>4. buf'.full \/ Parsed'
    BY <1>1, <1>4, <2>2, <2>3, EndIsParsed
  <2> QED
    BY <2>4 DEF Excused
<1> QED
  BY <1>3, <1>4

LEMMA ReadEndsStage ==
  ASSUME TypeOK, NEW r, Knows(r), ReadEnds, phase' = "sent"
  PROVE  Excused' \/ Partial' \/ Parsed'
<1>1. call' = call /\ ctx' = ctx /\ buf' = Submitted
  BY DEF ReadEnds
<1>2. PICK b : Follows(r, ctx, b) /\ Holds(call, r, b, ctx, buf.pieces)
  BY DEF Knows, Located
<1>3. CASE ctx.post_code # "SKIP" \/ ctx.op_key_index < Max(call.ends)
  BY <1>1, <1>3 DEF Partial
<1>4. CASE ~(ctx.post_code # "SKIP" \/ ctx.op_key_index < Max(call.ends))
  <2>1. b = r[ctx.op_key_index] /\ ctx.op_key_index \in 0..Len(call.ops)
    BY <1>2, <1>4 DEF Follows
  <2>2. buf'.full \/ Parsed'
    BY <1>1, <1>2, <1>4, <2>1, EndIsParsed
  <2> QED
    BY <2>2 DEF Excused
<1> QED
  BY <1>3, <1>4

-----------------------------------------------------------------------------
(* While read_args runs, it is where its list says, and the pieces are as  *)
(* the reader wants them so far; when it is done, the reader has them all. *)
StageInv(r) ==
  /\ Readable(call) /\ Mapped(call, r)
  /\ \/ Excused
     \/ /\ phase = "read" => Located(r, ctx, buf.pieces)
        /\ phase = "sent" => Partial \/ Parsed

LEMMA InitStage == Init /\ Readable(call) => \E r : StageInv(r)
<1> SUFFICES ASSUME Init, Readable(call) PROVE \E r : StageInv(r)
  OBVIOUS
<1>1. PICK r : Mapped(call, r)
  BY CallIsMapped DEF Init
<1>2. r[0] = Label(1, "start") /\ Label(1, "start").at = "start" /\ Label(1, "start").arg = 1
  BY <1>1 DEF Mapped, Entails, Label
<1>3. /\ ctx.op_key_index = 0 /\ ctx.post_code = "NONE" /\ Closed(ctx)
      /\ buf.pieces = <<>> /\ phase = "read"
  BY DEF Init, FreshCtx, Closed
<1>4. Len(call.ops) \in Nat /\ Len(call.args) \in Nat
  BY CallTypes, ArgsHaveBases DEF Init
<1>5. Follows(r, ctx, Label(1, "start"))
  BY <1>2, <1>3, <1>4 DEF Follows, Does, Leaves
<1>6. Holds(call, r, Label(1, "start"), ctx, buf.pieces)
  <2>1. Reads(call, 0, <<>>, 1) /\ 1 - 1 = 0 /\ Len(<<>>) + 1 = 1
    BY ReadsNone
  <2> QED
    BY <1>2, <1>3, <1>4, <2>1 DEF Holds, Straight
<1> QED
  BY <1>1, <1>3, <1>5, <1>6 DEF StageInv, Located

(* What every step adds to, it leaves as it was.                           *)
LEMMA AppendGrows ==
  ASSUME NEW S, NEW ps \in Seq(S), NEW x
  PROVE  Grows(ps, Append(ps, x)) /\ Grows(ps, ps)
<1>1. \A k \in DOMAIN ps : k \in DOMAIN Append(ps, x) /\ Append(ps, x)[k] = ps[k]
  OBVIOUS
<1> QED
  BY <1>1 DEF Grows

LEMMA GrowsOn ==
  ASSUME NEW ps, NEW qs, NEW rs, Grows(ps, qs), Grows(qs, rs)
  PROVE  Grows(ps, rs)
BY DEF Grows

LEMMA SavingGrows ==
  ASSUME NEW b \in Buffers
  PROVE  /\ \A value : LET d == save_to_submit_buf(b, value)
                       IN Grows(b.pieces, d.pieces) /\ (b.full => d.full)
         /\ \A kind, len, want, at :
              LET d == save_bytes_to_buf(b, kind, len, want, at)
              IN Grows(b.pieces, d.pieces) /\ (b.full => d.full)
         /\ \A code, at : LET d == SaveText(b, code, at)
                          IN Grows(b.pieces, d.pieces) /\ (b.full => d.full)
<1>1. b.pieces \in Seq(Pieces)
  BY DEF Buffers
<1>2. ASSUME NEW size, NEW x
      PROVE  /\ Grows(b.pieces, Saved(b, size, x).pieces) /\ (b.full => Saved(b, size, x).full)
             /\ Grows(b.pieces, NoRoom(b).pieces) /\ NoRoom(b).full
  <2>1. Grows(b.pieces, Append(b.pieces, x)) /\ Grows(b.pieces, b.pieces)
    BY <1>1, AppendGrows
  <2>2. /\ NoRoom(b).full /\ NoRoom(b).pieces = b.pieces
        /\ Saved(b, size, x).pieces = Append(b.pieces, x) /\ Saved(b, size, x).full = b.full
    BY SavedPieces
  <2> QED
    BY <2>1, <2>2, Zenon
<1>3. ASSUME NEW value
      PROVE  /\ Grows(b.pieces, save_to_submit_buf(b, value).pieces)
             /\ b.full => save_to_submit_buf(b, value).full
  BY <1>2 DEF save_to_submit_buf
<1>4. ASSUME NEW kind, NEW len, NEW want, NEW at
      PROVE  /\ Grows(b.pieces, save_bytes_to_buf(b, kind, len, want, at).pieces)
             /\ b.full => save_bytes_to_buf(b, kind, len, want, at).full
  BY <1>2 DEF save_bytes_to_buf
<1>5. ASSUME NEW code, NEW at
      PROVE  /\ Grows(b.pieces, SaveText(b, code, at).pieces)
             /\ b.full => SaveText(b, code, at).full
  BY <1>2 DEF SaveText
<1> QED
  BY <1>3, <1>4, <1>5

LEMMA NextGrows ==
  ASSUME IInv, [Next]_vars
  PROVE  /\ call' = call /\ Grows(buf.pieces, buf'.pieces) /\ Grows(faulted, faulted')
         /\ buf.full => buf'.full
<1>1. buf \in Buffers /\ buf.pieces \in Seq(Pieces) /\ faulted \in Seq(Operations)
  BY StateTypes DEF IInv
<1>2. Grows(buf.pieces, buf.pieces) /\ Grows(faulted, faulted)
  BY DEF Grows
<1>3. \A fault \in BOOLEAN : MayFault(fault) => Grows(faulted, faulted')
  <2>1. Grows(faulted, Append(faulted, Fetched.op))
    BY <1>1, AppendGrows
  <2> QED
    BY <1>2, <2>1 DEF MayFault
<1>4. NoFault => Grows(faulted, faulted')
  BY <1>2 DEF NoFault
<1>6. CASE UNCHANGED vars
  BY <1>2, <1>6 DEF vars
<1>7. CASE RegisterStep \/ ForBreak \/ ApplyFilter
  BY <1>2, <1>4, <1>7 DEF RegisterStep, ForBreak, ApplyFilter, Turn
<1>8. CASE ReadPointer \/ ReadStdString
  <2>1. TRUE \in BOOLEAN
    OBVIOUS
  <2> QED
    BY <1>2, <1>3, <1>4, <1>8, <2>1 DEF ReadPointer, ReadStdString, Turn
<1>9. CASE SaveRaw
  <2>1. PICK value : buf' = save_to_submit_buf(buf, value)
    BY <1>9 DEF SaveRaw
  <2>2. Grows(buf.pieces, buf'.pieces) /\ (buf.full => buf'.full)
    BY <1>1, <2>1, SavingGrows
  <2> QED
    BY <1>4, <1>9, <2>2 DEF SaveRaw, Turn
<1>10. CASE SaveStruct
  <2>1. PICK len, want, at : buf' = save_bytes_to_buf(buf, "bytes", len, want, at)
    BY <1>10 DEF SaveStruct
  <2>2. Grows(buf.pieces, buf'.pieces) /\ (buf.full => buf'.full)
    BY <1>1, <2>1, SavingGrows
  <2> QED
    BY <1>3, <1>10, <2>2 DEF SaveStruct, Turn
<1>11. CASE SaveString
  <2>1. \/ buf' = SaveText(buf, Code, ctx.read_addr)
        \/ buf' = save_bytes_to_buf(buf, "bytes", 0, 0, ctx.read_addr)
    BY <1>11 DEF SaveString
  <2>2. Grows(buf.pieces, buf'.pieces) /\ (buf.full => buf'.full)
    BY <1>1, <2>1, SavingGrows
  <2> QED
    BY <1>3, <1>11, <2>2 DEF SaveString, Turn
<1>12. CASE SavePtrString
  <2>1. PICK ptr \in Nat, broken \in {"none", "pointer", "text"} :
          LET m == save_to_submit_buf(buf, ptr)
          IN /\ MayFault(broken # "none")
             /\ \/ buf' = SaveText(m, Code, ptr)
                \/ buf' = save_bytes_to_buf(m, "end", 0, 0, ptr)
    <3>1. Word(call.mem, Fetched.read_addr) \in Nat /\ 0 \in Nat
      BY WordsType DEF IInv
    <3> QED
      BY <1>12, <3>1 DEF SavePtrString
  <2> DEFINE m == save_to_submit_buf(buf, ptr)
  <2>2. m \in Buffers
    BY <1>1, RawSaved
  <2>3. Grows(buf.pieces, m.pieces) /\ (buf.full => m.full)
    BY <1>1, SavingGrows
  <2> HIDE DEF m
  <2>4. Grows(m.pieces, buf'.pieces) /\ (m.full => buf'.full)
    BY <2>1, <2>2, SavingGrows DEF m
  <2>5. Grows(buf.pieces, buf'.pieces) /\ (buf.full => buf'.full)
    BY <2>3, <2>4, GrowsOn
  <2>6. (broken # "none") \in BOOLEAN
    OBVIOUS
  <2> QED
    BY <1>3, <1>12, <2>1, <2>5, <2>6 DEF SavePtrString, Turn
<1>13. CASE GivesUp \/ ReadEnds
  <2>1. Grows(buf.pieces, Submitted.pieces) /\ (buf.full => Submitted.full)
    BY <1>1, <1>2, SavingGrows DEF Submitted
  <2>2. /\ call' = call /\ Grows(faulted, faulted')
        /\ buf' = buf \/ buf' = Submitted
    BY <1>2, <1>4, <1>13 DEF GivesUp, ReadEnds, Turn
  <2> QED
    BY <1>2, <2>1, <2>2
<1> QED
  BY <1>6, <1>7, <1>8, <1>9, <1>10, <1>11, <1>12, <1>13 DEF Next

LEMMA NextStage ==
  ASSUME IInv, NEW r, StageInv(r), [Next]_vars
  PROVE  StageInv(r)'
<1>1. /\ call' = call /\ Grows(buf.pieces, buf'.pieces) /\ Grows(faulted, faulted')
      /\ buf.full => buf'.full
  BY NextGrows
<1>2. Readable(call)' /\ Mapped(call, r)'
  BY <1>1 DEF StageInv
<1>3. CASE Excused
  <2>1. Excused'
    BY <1>1, <1>3, ExcusesStay
  <2> QED
    BY <1>2, <2>1 DEF StageInv
<1>4. CASE ~Excused /\ UNCHANGED vars
  <2>1. /\ phase = "read" => Located(r, ctx, buf.pieces)
        /\ phase = "sent" => Partial \/ Parsed
    BY <1>4 DEF StageInv
  <2>2. phase = "read" => Located(r, ctx, buf.pieces)'
    BY <1>4, <2>1 DEF vars, Located, Follows
  <2>3. phase = "sent" => Partial' \/ Parsed'
    BY <1>4, <2>1 DEF vars, Partial, Parsed, args, side, mem
  <2> QED
    BY <1>2, <1>4, <2>2, <2>3 DEF StageInv, vars
<1>5. CASE ~Excused /\ Next
  <2>1. phase = "read"
    BY <1>5 DEF Next, RegisterStep, ReadPointer, ReadStdString, ForBreak, SaveRaw,
                SaveStruct, SaveString, SavePtrString, ApplyFilter, GivesUp, ReadEnds, Turn
  <2>2. Knows(r)
    BY <1>5, <2>1 DEF StageInv, Knows, Excused
  <2>3. CASE \/ RegisterStep \/ ReadPointer \/ ReadStdString \/ ForBreak
             \/ SaveRaw \/ SaveStruct \/ SaveString \/ SavePtrString
    <3>1. phase' # "sent"
      BY <2>1, <2>3 DEF RegisterStep, ReadPointer, ReadStdString, ForBreak, SaveRaw,
                        SaveStruct, SaveString, SavePtrString
    <3>2. Excused' \/ Located(r, ctx, buf.pieces)'
      BY <2>2, <2>3, RegisterStepStage, ReadPointerStage, ReadStdStringStage, ForBreakStage,
         SaveRawStage, SaveStructStage, SaveStringStage, SavePtrStringStage DEF IInv
    <3> QED
      BY <1>2, <3>1, <3>2 DEF StageInv
  <2>4. CASE ApplyFilter
    <3>1. phase' # "sent"
      BY <2>4 DEF ApplyFilter
    <3>2. Located(r, ctx, buf.pieces)'
      BY <2>2, <2>4, ApplyFilterStage DEF IInv
    <3> QED
      BY <1>2, <3>1, <3>2 DEF StageInv
  <2>5. CASE GivesUp
    <3>1. phase' # "read"
      BY <2>5 DEF GivesUp
    <3>2. Excused' \/ Partial' \/ Parsed'
      BY <2>2, <2>5, GivesUpStage DEF IInv
    <3> QED
      BY <1>2, <3>1, <3>2 DEF StageInv
  <2>6. CASE ReadEnds
    <3>1. phase' # "read"
      BY <2>6 DEF ReadEnds
    <3>2. phase' = "sent" => Excused' \/ Partial' \/ Parsed'
      BY <2>2, <2>6, ReadEndsStage DEF IInv
    <3> QED
      BY <1>2, <3>1, <3>2 DEF StageInv
  <2> QED
    BY <1>5, <2>3, <2>4, <2>5, <2>6 DEF Next
<1> QED
  BY <1>3, <1>4, <1>5

(* For any calls of readable arguments, whatever registers, memory, texts  *)
(* and filters they meet and whichever accesses fail: an event that was    *)
(* executed to its end is taken apart exactly as it was put together, but  *)
(* for the excuses of Understood.  render_point_args and parse_value stand *)
(* at its end when read_args has saved all that the operations ask for.    *)
THEOREM EventsAreUnderstood ==
  ASSUME \A c \in Calls : Readable(c)
  PROVE  Spec => []Understood
<1> DEFINE Inv == \E r : StageInv(r)
<1>1. Init => Inv
  <2>1. Init => Readable(call)
    BY DEF Init
  <2> QED
    BY <2>1, InitStage
<1>2. IInv /\ Inv /\ [Next]_vars => Inv'
  BY NextStage
<1>3. Inv => Understood
  BY DEF StageInv, Understood, Excused
<1> QED
  BY <1>1, <1>2, <1>3, InvariantHolds, PTL DEF Spec

(* The types of one piece or none, and the arrays of strings.              *)
SimpleTypes(n, size, name) ==
  {NumType, PtrType, StringType, String16Type, Il2cppType, StdType, BufferLenType(n),
   BufferRegType(n), StructType(name, size), ArrayType(size)}

(* Which types are readable: every type of argtype that the reader parses  *)
(* by its base, also in hex unless it is told apart by its name, a pointer *)
(* to one, and the msghdr.                                                 *)
THEOREM TypesAreReadable ==
  ASSUME NEW n \in Nat, NEW size \in 0..MAX_BUF_READ_SIZE, NEW name, name \notin ReadByName,
         NEW type \in SimpleTypes(n, size, name)
  PROVE  /\ ReadableType(type) /\ ReadableType(PointerType(type))
         /\ ReadableType(HexOf(type)) /\ ReadableType(PointerType(HexOf(type)))
         /\ ReadableType(StringArrayType) /\ ReadableType(PointerType(StringArrayType))
         /\ ReadableType(MsghdrType)
<1>1. size \in Nat /\ MAX_BUF_READ_SIZE \in Nat /\ MAX_LOOP_COUNT \in Nat /\ 8 \in Nat
  BY DEF MAX_BUF_READ_SIZE, MAX_LOOP_COUNT
<1>2. /\ \A op \in {Op("SAVE_STRING"), Op("SAVE_STRING16"), Op("READ_IL2CPP_STRING"),
                   Op("READ_STD_STRING"), Op("SAVE_STRUCT"), build_read_reg_len(n),
                   Op("SAVE_PTR_STRING"), Op("FOR_BREAK")} : op \in Operations
      /\ \A m \in Nat : \A op \in {set_read_len(m), save_struct(m), OpValue("ADD_OFFSET", m),
                                 OpValue("SET_BREAK_COUNT", m)} : op \in Operations
  BY OpsOfTypes
<1>3. type.ops \in Seq(Operations)
  <2>1. /\ NumType.ops \in Seq(Operations) /\ PtrType.ops \in Seq(Operations)
        /\ StringType.ops \in Seq(Operations) /\ String16Type.ops \in Seq(Operations)
    BY <1>2 DEF NumType, PtrType, StringType, String16Type, Type
  <2>2. Il2cppType.ops \in Seq(Operations) /\ StdType.ops \in Seq(Operations)
    BY <1>2 DEF Il2cppType, StdType, Type
  <2>3. BufferLenType(n).ops \in Seq(Operations) /\ BufferRegType(n).ops \in Seq(Operations)
    BY <1>1, <1>2 DEF BufferLenType, BufferRegType, Type
  <2>4. StructType(name, size).ops \in Seq(Operations) /\ ArrayType(size).ops \in Seq(Operations)
    BY <1>1, <1>2 DEF StructType, ArrayType, Type
  <2> QED
    BY <2>1, <2>2, <2>3, <2>4 DEF SimpleTypes
<1>4. StringArrayType.ops \in Seq(Operations)
  <2> DEFINE count == OpValue("SET_BREAK_COUNT", MAX_LOOP_COUNT)
             break == Op("FOR_BREAK")
             save  == Op("SAVE_PTR_STRING")
             next  == OpValue("ADD_OFFSET", 8)
  <2>1. StringArrayType.ops = <<count>> \o (<<break>> \o <<save, next>> \o <<break>>)
    BY DEF StringArrayType, Type, Loop
  <2>2. count \in Operations /\ break \in Operations /\ save \in Operations /\ next \in Operations
    BY <1>1, <1>2
  <2> HIDE DEF count, break, save, next
  <2> QED
    BY <2>1, <2>2
<1>5. \A t : Plain(t) => ReadableType(t) /\ ReadableType(PointerType(t))
  <2> SUFFICES ASSUME NEW t, Plain(t) PROVE ReadableType(t) /\ ReadableType(PointerType(t))
    OBVIOUS
  <2>1. PointerType(t).child = <<t>>
    BY DEF PointerType, Type
  <2>2. <<t>>[1] = t /\ Len(<<t>>) = 1
    OBVIOUS
  <2> QED
    BY <2>1, <2>2 DEF ReadableType
<1>6. /\ type.child = <<>>
      /\ \/ IsNumber(type) /\ type.ops = <<>>
         \/ AnyLength(type) /\ (SavesText(type) \/ SavesBuffer(type))
         \/ HasSize(type) /\ SavesStruct(type)
  <2>1. CASE type \in {NumType, PtrType}
    BY <2>1 DEF NumType, PtrType, Type, IsNumber
  <2>2. CASE type \in {StringType, String16Type, Il2cppType}
    BY <2>2 DEF StringType, String16Type, Il2cppType, Type, AnyLength, SavesText
  <2>3. CASE type = StdType
    <3>1. type.base = "STRUCT" /\ type.size = 0 /\ type.name = "std" /\ type.child = <<>>
      BY <2>3 DEF StdType, Type
    <3>2. SavesText(type)
      BY <2>3 DEF SavesText
    <3> QED
      BY <3>1, <3>2 DEF AnyLength, HasSize, ReadByName
  <2>4. CASE type = BufferLenType(n)
    <3>1. type.base = "BUFFER" /\ type.size = n /\ type.child = <<>>
      BY <2>4 DEF BufferLenType, Type
    <3> QED
      BY <2>4, <3>1 DEF AnyLength, SavesBuffer
  <2>5. CASE type = BufferRegType(n)
    <3>1. type.base = "BUFFER" /\ type.child = <<>> /\ Len(type.ops) = 3
          /\ type.ops[2] = build_read_reg_len(n)
      BY <2>5 DEF BufferRegType, Type
    <3>2. type.ops[2].value = n
      BY <3>1 DEF build_read_reg_len, ReadReg
    <3> QED
      BY <2>5, <3>1, <3>2 DEF AnyLength, SavesBuffer
  <2>6. CASE type = StructType(name, size)
    <3>1. type.base = "STRUCT" /\ type.child = <<>> /\ type.size = size /\ type.name = name
      BY <2>6 DEF StructType, Type
    <3> QED
      BY <2>6, <3>1 DEF HasSize, SavesStruct
  <2>7. CASE type = ArrayType(size)
    <3>1. type.base = "ARRAY" /\ type.child = <<>> /\ type.size = size
      BY <2>7 DEF ArrayType, Type
    <3> QED
      BY <2>7, <3>1 DEF HasSize, SavesStruct
  <2> QED
    BY <2>1, <2>2, <2>3, <2>4, <2>5, <2>6, <2>7 DEF SimpleTypes
<1>7. Plain(type)
  BY <1>3, <1>6 DEF Plain
<1>8. Plain(HexOf(type))
  <2>1. HexOf(type) = type \/ /\ HexOf(type).name = "fmt" /\ HexOf(type).base = type.base
                              /\ HexOf(type).size = type.size /\ HexOf(type).ops = type.ops
                              /\ HexOf(type).child = type.child
    BY DEF HexOf, SimpleTypes, Type, NumType, PtrType, StringType, String16Type, Il2cppType,
           StdType, BufferLenType, BufferRegType, StructType, ArrayType
  <2>2. CASE HexOf(type) = type
    BY <1>7, <2>2
  <2>3. CASE /\ HexOf(type).name = "fmt" /\ HexOf(type).base = type.base
             /\ HexOf(type).size = type.size /\ HexOf(type).ops = type.ops
             /\ HexOf(type).child = type.child
    <3>1. /\ IsNumber(type) => IsNumber(HexOf(type))
          /\ HasSize(type) => HasSize(HexOf(type))
          /\ AnyLength(type) => AnyLength(HexOf(type))
          /\ SavesText(type) => SavesText(HexOf(type))
          /\ SavesBuffer(type) => SavesBuffer(HexOf(type))
      BY <2>3 DEF IsNumber, HasSize, AnyLength, SavesText, SavesBuffer, ReadByName
    <3>2. SavesStruct(type) => SavesStruct(HexOf(type))
      BY <2>3 DEF SavesStruct, StructType, ArrayType, Type
    <3> QED
      BY <1>3, <1>6, <2>3, <3>1, <3>2 DEF Plain
  <2> QED
    BY <2>1, <2>2, <2>3
<1>9. Plain(StringArrayType)
  BY <1>4 DEF Plain, SavesStrings, StringArrayType, Type
<1> QED
  BY <1>5, <1>7, <1>8, <1>9 DEF ReadableType
(* And every read_op expression is one of Readable: it computes an address *)
(* and saves it, and nothing else is saved on the way.                     *)
THEOREM ReadOpIsReadable ==
  ASSUME NEW terms \in Seq(Terms)
  PROVE  SavesAddress(ReadOp(terms))
<1> DEFINE lists == [i \in DOMAIN terms |-> ReadOpTerm(terms[i])]
           Addresses(l) == l \in Seq(Operations) /\ \A k \in DOMAIN l : AddressOp(l[k])
<1>1. ASSUME NEW i \in DOMAIN terms PROVE Addresses(ReadOpTerm(terms[i]))
  <2>1. terms[i] \in Terms
    OBVIOUS
  <2>2. PICK kind \in {"first", "+reg", "-reg", "+", "-", "."}, n \in Nat :
          terms[i].kind = kind /\ terms[i].n = n
    BY <2>1 DEF Terms
  <2> DEFINE these == {add_read_move_reg(n), Op("ADD_REG"), Op("SUB_REG"), OpValue("ADD_OFFSET", n),
                       OpValue("SUB_OFFSET", n), Op("READ_POINTER"), Op("MOVE_POINTER_VALUE")}
  <2>3. \A op \in these : op \in Operations
    BY OpsOfTypes
  <2>4. \A op \in these : AddressOp(op)
    BY DEF AddressOp, add_read_move_reg, ReadReg, Op, OpValue
  <2>5. \A a, b \in these : Addresses(<<a>>) /\ Addresses(<<a, b>>)
    BY <2>3, <2>4
  <2> HIDE DEF Addresses
  <2>6. /\ Addresses(<<add_read_move_reg(n)>>)
        /\ Addresses(<<add_read_move_reg(n), Op("ADD_REG")>>)
        /\ Addresses(<<add_read_move_reg(n), Op("SUB_REG")>>)
        /\ Addresses(<<OpValue("ADD_OFFSET", n)>>) /\ Addresses(<<OpValue("SUB_OFFSET", n)>>)
        /\ Addresses(<<Op("READ_POINTER"), Op("MOVE_POINTER_VALUE")>>)
    BY <2>5
  <2> QED
    BY <2>2, <2>6 DEF ReadOpTerm
<1>2. lists \in Seq(Seq(Operations)) /\ DOMAIN lists = 1..Len(lists) /\ Len(lists) \in Nat
  <2>1. \A i \in DOMAIN terms : ReadOpTerm(terms[i]) \in Seq(Operations)
    BY <1>1
  <2>2. DOMAIN terms = 1..Len(terms) /\ Len(terms) \in Nat
    OBVIOUS
  <2>3. lists \in Seq(Seq(Operations))
    BY <2>1, <2>2
  <2> HIDE DEF lists
  <2> QED
    BY <2>3
<1>3. \A i \in DOMAIN lists : Addresses(lists[i])
  BY <1>1
<1> HIDE DEF lists
<1>4. PICK n \in Nat : n = Len(lists)
  BY <1>2
<1>5. /\ Flat(lists, 0) = <<>> /\ Flat(lists, n) = FlattenSeq(lists)
      /\ \A k \in 0..(n - 1) : Flat(lists, k + 1) = Flat(lists, k) \o lists[k + 1]
  BY <1>2, <1>4, FlatSteps
<1>6. ASSUME NEW l, NEW m, Addresses(l), Addresses(m) PROVE Addresses(l \o m)
  <2>1. l \in Seq(Operations) /\ m \in Seq(Operations) /\ l \o m \in Seq(Operations)
    BY <1>6
  <2>2. ASSUME NEW k \in DOMAIN (l \o m) PROVE AddressOp((l \o m)[k])
    <3>1. CASE k <= Len(l)
      <4>1. k \in DOMAIN l /\ (l \o m)[k] = l[k]
        BY <2>1, <3>1
      <4> QED
        BY <1>6, <4>1
    <3>2. CASE k > Len(l)
      <4>1. k - Len(l) \in DOMAIN m /\ (l \o m)[k] = m[k - Len(l)]
        BY <2>1, <3>2
      <4> QED
        BY <1>6, <4>1
    <3> QED
      BY <2>1, <3>1, <3>2
  <2> QED
    BY <2>1, <2>2
<1>7. Addresses(FlattenSeq(lists))
  <2> DEFINE T == {k \in 0..n : Addresses(Flat(lists, k))}
  <2>1. 0 \in T
    <3>1. Addresses(<<>>)
      OBVIOUS
    <3> HIDE DEF Addresses
    <3> QED
      BY <1>5, <3>1
  <2> HIDE DEF Addresses
  <2>2. ASSUME NEW k \in 0..(n - 1), k \in T PROVE k + 1 \in T
    <3>1. k + 1 \in 0..n /\ k + 1 \in DOMAIN lists
      BY <1>2, <1>4
    <3> QED
      BY <1>3, <1>5, <1>6, <2>2, <3>1
  <2> HIDE DEF T
  <2>3. \A k \in 0..n : k \in T
    BY <2>1, <2>2, UpTo
  <2>4. n \in 0..n
    OBVIOUS
  <2>5. n \in T
    BY <2>3, <2>4
  <2> QED
    BY <1>5, <2>5 DEF T
<1> DEFINE all  == FlattenSeq(lists)
           last == Op("SAVE_ADDR")
<1>8. ReadOp(terms) = all \o <<last>>
  BY DEF ReadOp, lists
<1>9. all \in Seq(Operations) /\ last \in Operations /\ \A k \in DOMAIN all : AddressOp(all[k])
  BY <1>7, OpsOfTypes
<1> HIDE DEF all, last
<1>10. /\ all \o <<last>> # <<>> /\ Len(all \o <<last>>) = Len(all) + 1
       /\ (all \o <<last>>)[Len(all) + 1] = last
       /\ \A k \in 1..Len(all) : (all \o <<last>>)[k] = all[k] /\ k \in DOMAIN all
  BY <1>9
<1>11. Len(all) \in Nat /\ (Len(all) + 1) - 1 = Len(all)
  BY <1>9
<1> QED
  BY <1>8, <1>9, <1>10, <1>11 DEF SavesAddress, last

-----------------------------------------------------------------------------
(* How the place in the list moves: one operation on, or back to the body  *)
(* of the loop that runs, which lies behind every argument that is done.   *)
Behind(c) ==
  c.loop_count # 0 =>
    /\ c.loop_index <= c.op_key_index
    /\ \A e \in call.ends : e <= c.op_key_index => e <= c.loop_index

LEMMA EndsAreNumbers ==
  ASSUME NEW c \in Calls
  PROVE  c.ends \subseteq Nat
<1> DEFINE lists == ArgOps(c.args, c.side)
<1>1. ArgsOfPoint(c.args) /\ c.ends = {Len(Flat(lists, i)) : i \in DOMAIN lists}
  <2>1. ArgsOfPoint(c.args) /\ c.ends = ArgEnds(c.args, c.side)
    BY ArgStreamAssumption
  <2>2. DOMAIN lists = DOMAIN c.args
    BY DEF ArgOps
  <2>3. \A i : ArgEnd(c.args, c.side, i) = Len(Flat(lists, i))
    BY DEF ArgEnd, Flat
  <2> HIDE DEF lists
  <2> QED
    BY <2>1, <2>2, <2>3 DEF ArgEnds
<1>2. lists \in Seq(Seq(Operations)) /\ DOMAIN lists = 1..Len(lists)
  <2>1. DOMAIN c.args = 1..Len(c.args) /\ Len(c.args) \in Nat
    BY <1>1 DEF ArgsOfPoint
  <2>2. \A i \in DOMAIN c.args : get_op_list(c.args[i], c.side) \in Seq(Operations)
    BY <1>1, ArgWalks
  <2>3. lists \in Seq(Seq(Operations))
    BY <2>1, <2>2 DEF ArgOps
  <2> HIDE DEF lists
  <2> QED
    BY <2>3
<1> HIDE DEF lists
<1>3. \A i \in 0..Len(lists) : Flat(lists, i) \in Seq(Operations)
  BY <1>2, FlatSteps
<1> QED
  BY <1>1, <1>2, <1>3

(* What fetching does.                                                     *)
LEMMA FetchFields ==
  ASSUME TypeOK
  PROVE  /\ Fetched \in Contexts
         /\ Fetched.loop_count = ctx.loop_count /\ Fetched.break_count = ctx.break_count
         /\ Fetched.loop_index = ctx.loop_index /\ Fetched.reg_value = ctx.reg_value
         /\ Fetched.read_addr = ctx.read_addr /\ Fetched.read_len = ctx.read_len
         /\ Fetched.tmp_value = ctx.tmp_value /\ Fetched.pointer_value = ctx.pointer_value
         /\ HasPost => /\ Fetched.op = ctx.op /\ Fetched.post_code = "SKIP"
                       /\ Fetched.op_key_index = ctx.op_key_index
         /\ ~HasPost => /\ Fetched.op = NextOp /\ Fetched.post_code = NextOp.post
                        /\ Fetched.op_key_index = ctx.op_key_index + 1
<1>1. ctx \in Contexts
  BY DEF TypeOK
<1>2. CASE HasPost
  BY <1>1, <1>2, FetchType DEF Fetched, Contexts
<1>3. CASE ~HasPost
  BY <1>1, <1>3, FetchType DEF Fetched, Contexts
<1> QED
  BY <1>2, <1>3

LEMMA EffectKeepsPlace ==
  ASSUME NEW c \in Contexts, NEW code \in RegisterCodes
  PROVE  /\ Effect(code, c).op_key_index = c.op_key_index
         /\ Effect(code, c).post_code = c.post_code /\ Effect(code, c).op = c.op
         /\ Effect(code, c).loop_count = c.loop_count
         /\ Effect(code, c).loop_index = c.loop_index
         /\ code \notin CountCodes \cup {"RESET_CTX"} =>
              Effect(code, c).break_count = c.break_count
BY DEF Effect, RegisterCodes, CountCodes, Contexts

LEMMA OtherStepsKeep ==
  ASSUME IInv, NEW r, LoopInv(r), Next, ~ForBreak
  PROVE  /\ call' = call
         /\ ctx'.op_key_index \in {ctx.op_key_index, Fetched.op_key_index}
         /\ ctx'.loop_count # 0 => ctx.loop_count # 0 /\ ctx'.loop_index = ctx.loop_index
<1>1. TypeOK /\ ctx \in Contexts /\ ctx.op_key_index \in Nat
  BY ContextFields DEF IInv, TypeOK
<1>2. /\ Fetched \in Contexts /\ Fetched.loop_count = ctx.loop_count
      /\ Fetched.loop_index = ctx.loop_index /\ Fetched.break_count = ctx.break_count
      /\ Fetched.op_key_index \in {ctx.op_key_index, ctx.op_key_index + 1}
  BY <1>1, FetchFields
<1>3. CASE RegisterStep
  BY <1>2, <1>3, EffectKeepsPlace DEF RegisterStep, Turn
<1>4. CASE ReadPointer \/ ReadStdString \/ SaveRaw \/ SaveStruct \/ SaveString \/ ApplyFilter
  <2>1. /\ call' = call /\ ctx'.op_key_index = Fetched.op_key_index
        /\ ctx'.loop_count = Fetched.loop_count /\ ctx'.loop_index = Fetched.loop_index
    BY <1>2, <1>4 DEF ReadPointer, ReadStdString, SaveRaw, SaveStruct, SaveString, ApplyFilter,
                      Turn, Contexts
  <2> QED
    BY <1>2, <2>1
<1>5. CASE SavePtrString
  <2>1. /\ call' = call /\ Code \in StopCodes /\ Code # "SKIP"
        /\ \/ ctx' = Fetched
           \/ ctx' = [Fetched EXCEPT !.loop_count = Fetched.break_count]
    BY <1>5 DEF SavePtrString, Turn, StopCodes
  <2>2. Stopping(r, Fetched)
    <3>1. Code \in LoopCodes /\ Code \notin CountCodes /\ Code # "FOR_BREAK"
      BY <2>1 DEF LoopCodes, CountCodes, StopCodes
    <3> QED
      BY <1>1, <2>1, <3>1, Fetching DEF Quiet, Counting, Turning
  <2>3. Closed(Fetched) \/ Fetched.loop_count >= 1
    BY <2>2 DEF Stopping, Kept, Running
  <2>4. Fetched.loop_count = 0 => Fetched.break_count = 0
    BY <2>3 DEF Closed
  <2>5. /\ ctx'.op_key_index = Fetched.op_key_index /\ ctx'.loop_index = Fetched.loop_index
        /\ ctx'.loop_count \in {Fetched.loop_count, Fetched.break_count}
    BY <1>2, <2>1 DEF Contexts
  <2> QED
    BY <1>2, <2>1, <2>4, <2>5
<1>6. CASE GivesUp
  BY <1>2, <1>6 DEF GivesUp, Turn
<1>7. CASE ReadEnds
  BY <1>7 DEF ReadEnds
<1> QED
  BY <1>3, <1>4, <1>5, <1>6, <1>7 DEF Next

LEMMA BehindStays ==
  ASSUME IInv, NEW r, LoopInv(r), LoopInv(r)', IInv', Behind(ctx), [Next]_vars
  PROVE  /\ call' = call /\ Behind(ctx)'
         /\ ctx'.op_key_index <= ctx.op_key_index + 1
         /\ \A e \in call.ends : e <= ctx.op_key_index => e <= ctx'.op_key_index
<1> DEFINE k == ctx.op_key_index
<1>1. /\ TypeOK /\ ctx \in Contexts /\ k \in Nat /\ ctx.loop_index \in Nat
      /\ call \in Calls /\ call.ends \subseteq Nat
  BY ContextFields, EndsAreNumbers DEF IInv, TypeOK
<1>2. CASE UNCHANGED vars
  BY <1>1, <1>2 DEF vars, Behind
<1>3. CASE Next /\ ~ForBreak
  <2>1. /\ call' = call /\ ctx'.op_key_index \in {k, k + 1}
        /\ ctx'.loop_count # 0 => ctx.loop_count # 0 /\ ctx'.loop_index = ctx.loop_index
    BY <1>1, <1>3, OtherStepsKeep, FetchFields
  <2>2. ASSUME NEW e \in call.ends, e = ctx'.op_key_index PROVE ctx'.loop_count = 0
    <3>1. e \in 0..Len(call'.ops) /\ e \in call'.ends
      BY <2>1, <2>2 DEF LoopInv, Placed, ops
    <3>2. r[e] = "out"
      BY <3>1 DEF LoopInv, Marked
    <3> QED
      BY <2>2, <3>2 DEF LoopInv, Kept, Closed
  <2>3. Behind(ctx)'
    <3> SUFFICES ASSUME ctx'.loop_count # 0
                 PROVE  /\ ctx'.loop_index <= ctx'.op_key_index
                        /\ \A e \in call.ends : e <= ctx'.op_key_index => e <= ctx'.loop_index
      BY <2>1 DEF Behind
    <3>1. /\ ctx'.loop_index = ctx.loop_index /\ ctx.loop_index <= k
          /\ \A e \in call.ends : e <= k => e <= ctx.loop_index
      BY <2>1 DEF Behind
    <3>2. \A e \in call.ends : e # ctx'.op_key_index
      BY <2>2
    <3> QED
      BY <1>1, <2>1, <3>1, <3>2
  <2> QED
    BY <1>1, <2>1, <2>3
<1>4. CASE ForBreak
  <2> DEFINE at == IF Fetched.loop_count = 0 THEN Fetched.op_key_index ELSE Fetched.loop_index
  <2>1. /\ Fetched \in Contexts /\ Fetched.op_key_index \in {k, k + 1}
        /\ Fetched.loop_count = ctx.loop_count /\ Fetched.loop_index = ctx.loop_index
        /\ Fetched.loop_count \in Nat
    <3>1. /\ Fetched \in Contexts /\ Fetched.op_key_index \in {k, k + 1}
          /\ Fetched.loop_count = ctx.loop_count /\ Fetched.loop_index = ctx.loop_index
      BY <1>1, FetchFields
    <3> QED
      BY <3>1, ContextFields
  <2>2. /\ call' = call
        /\ ctx' = IF Fetched.loop_count >= Fetched.break_count
                  THEN [Fetched EXCEPT !.loop_count = 0, !.break_count = 0, !.loop_index = 0]
                  ELSE [Fetched EXCEPT !.loop_count = Fetched.loop_count + 1,
                                       !.loop_index = at, !.op_key_index = at]
    BY <1>4 DEF ForBreak, Turn
  <2> HIDE DEF at
  <2>3. \/ ctx'.loop_count = 0 /\ ctx'.op_key_index = Fetched.op_key_index
        \/ ctx'.op_key_index = at /\ ctx'.loop_index = at
    BY <2>1, <2>2 DEF Contexts
  <2>4. at \in Nat /\ at <= k + 1 /\ \A e \in call.ends : e <= k => e <= at
    BY <1>1, <2>1 DEF Behind, at
  <2> QED
    BY <1>1, <2>1, <2>2, <2>3, <2>4 DEF Behind
<1> QED
  BY <1>2, <1>3, <1>4

-----------------------------------------------------------------------------
(* The stages of an argument with a vector of iovecs, by what its pieces   *)
(* and the context must be.  Piece v is its address.                       *)
InMessage(w, i) == w.args[i].type.name = "msghdr"

SavedAt(ps, k, want, at) ==
  k \in 1..Len(ps) /\ ps[k].kind = "bytes" /\ ps[k].want = want /\ ps[k].at = at
PairAt(w, ps, k, at) ==
  /\ SavedAt(ps, k, SIZEOF_IOVEC, at)
  /\ SavedAt(ps, k + 1, Least(MAX_BUF_READ_SIZE, Word(w.mem, at + 8)), Word(w.mem, at))

VectorBase(w, i, a)  == IF InMessage(w, i) THEN Word(w.mem, a + 16) ELSE a
VectorCount(w, i, a) == IF InMessage(w, i) THEN Word(w.mem, a + 24)
                        ELSE Word(w.regs, w.args[i].type.ops[1].value)
Lead(w, i) == IF InMessage(w, i) THEN 2 ELSE 1
PairsAt(w, i, ps, v, n) ==
  \A j \in 0..(n - 1) : PairAt(w, ps, v + Lead(w, i) + 1 + 2 * j,
                               VectorBase(w, i, ps[v].at) + SIZEOF_IOVEC * j)

(* How many pieces follow the address, and what they are.                  *)
Empties == {"saved", "valued", "sized", "counting"}
Structs == {"struct", "kept"}
Headers == {"control", "back", "counted", "based"}
Starts  == {"b0", "b1", "b2"}
Halves  == {"b3", "b4", "b5", "b6", "b7", "b8"}
Wholes  == {"b9", "b10", "b11"}
Bodies  == Starts \cup Halves \cup Wholes

Spread(w, i, at, n) ==
  IF at \in Empties THEN 0
  ELSE IF at \in Structs THEN 1
  ELSE IF at \in Headers THEN 2
  ELSE IF at = "bounded" THEN IF InMessage(w, i) THEN 2 ELSE 0
  ELSE IF at = "armed" THEN Lead(w, i)
  ELSE Lead(w, i) + 2 * n + (IF at \in Starts THEN 0 ELSE IF at \in Halves THEN 1 ELSE 2)

OnPieces(w, i, at, v, n, ps) ==
  /\ v \in 1..Len(ps) /\ n \in Nat /\ ps[v].kind = "raw"
  /\ w.args[i].extra = <<>> => ps[v].at = Value(w, i)
  /\ Len(ps) = v + Spread(w, i, at, n)
  /\ InMessage(w, i) /\ at \notin Empties => SavedAt(ps, v + 1, SIZEOF_MSGHDR, ps[v].at)
  /\ LET k == v + Lead(w, i) + 1 + 2 * n
         x == VectorBase(w, i, ps[v].at) + SIZEOF_IOVEC * n
     IN /\ at \in Bodies => PairsAt(w, i, ps, v, n)
        /\ at \in Halves => SavedAt(ps, k, SIZEOF_IOVEC, x)
        /\ at \in Wholes => PairAt(w, ps, k, x)

TurnOf(r, s, e, count, n, c) ==
  \/ Closed(c) /\ count = 0 /\ n = 0
  \/ /\ c.loop_count = n + 1 /\ c.loop_count <= c.break_count
     /\ c.break_count = Least(count, MAX_LOOP_COUNT)
     /\ c.loop_index \in (s + 1)..(e - 1) /\ r[c.loop_index] = "b0"

OnLoop(w, i, r, s, e, at, a, n, c) ==
  /\ at \in Empties \cup Structs \cup {"control", "back", "counted"} => Closed(c)
  /\ at \in {"bounded", "based", "armed"} =>
       /\ c.loop_count = 0 /\ c.loop_index = 0
       /\ c.break_count = Least(VectorCount(w, i, a), MAX_LOOP_COUNT)
  /\ at \in Bodies => TurnOf(r, s, e, VectorCount(w, i, a), n, c)

OnValues(w, i, at, a, n, c) ==
  LET base == VectorBase(w, i, a)
      x    == base + SIZEOF_IOVEC * n
      len  == Least(MAX_BUF_READ_SIZE, Word(w.mem, x + 8))
  IN /\ at = "saved" => c.reg_value = a
     /\ at \in {"valued", "sized", "counting", "struct", "back", "counted", "bounded"} =>
          c.read_addr = a
     /\ at = "sized" => c.read_len = SIZEOF_MSGHDR
     /\ at = "counting" => c.reg_value = VectorCount(w, i, a)
     /\ at \in {"kept", "control"} => c.tmp_value = a
     /\ at = "counted" => c.pointer_value = VectorCount(w, i, a)
     /\ at = "based" => c.pointer_value = base
     /\ at = "armed" => c.read_addr = base
     /\ at \in {"b0", "b1", "b2", "b3", "b4", "b5", "b6", "b10"} => c.read_addr = x
     /\ at \in (Bodies \ {"b0", "b10", "b11"}) => c.tmp_value = x
     /\ at = "b2" => c.read_len = SIZEOF_IOVEC
     /\ at \in {"b4", "b5"} => c.read_len = MAX_BUF_READ_SIZE
     /\ at = "b5" => c.pointer_value = Word(w.mem, x + 8)
     /\ at \in {"b6", "b7", "b8"} => c.read_len = len
     /\ at = "b7" => c.pointer_value = Word(w.mem, x)
     /\ at = "b8" => c.read_addr = Word(w.mem, x)
     /\ at = "b11" => c.read_addr = x + SIZEOF_IOVEC

(* The vector of argument i is saved behind piece v: VectorSaved.          *)
VectorIn(w, i, v, ps) ==
  /\ v \in 1..Len(ps) /\ ps[v].kind = "raw"
  /\ w.args[i].extra = <<>> => ps[v].at = Value(w, i)
  /\ InMessage(w, i) => SavedAt(ps, v + 1, SIZEOF_MSGHDR, ps[v].at)
  /\ PairsAt(w, i, ps, v, VectorTurns(VectorCount(w, i, ps[v].at)))

Says(w, i, r, s, e, at, c, ps) ==
  \/ at = "start" /\ Closed(c)
  \/ at = "value" /\ Closed(c) /\ c.reg_value = Value(w, i)
  \/ at = "done" /\ \E v : VectorIn(w, i, v, ps)
  \/ /\ at \in Empties \cup Structs \cup Headers \cup Bodies \cup {"bounded", "armed"}
     /\ \E v, n : /\ OnPieces(w, i, at, v, n, ps)
                  /\ OnLoop(w, i, r, s, e, at, ps[v].at, n, c)
                  /\ OnValues(w, i, at, ps[v].at, n, c)

(* What the codes do between the stages.                                   *)
Fro(x, y, from, to) == x = from /\ y = to
Reckons(w, i, code, op, x, y) ==
  \/ code \in FilterCodes /\ x = "valued" /\ y = "valued"
  \/ code \in AddrCodes \ {"READ_STD_STRING"} /\ x = "start" /\ y = "start"
  \/ code = "READ_REG" /\ x = "start" /\ y = "start"
  \/ code = "READ_REG" /\ Fro(x, y, "start", "value")
       /\ op.pre = "SET_REG_INDEX" /\ op.value = w.args[i].reg
  \/ code = "READ_REG" /\ Fro(x, y, "valued", "counting") /\ ~InMessage(w, i)
       /\ op.pre = "SET_REG_INDEX" /\ op.value = w.args[i].type.ops[1].value
  \/ code = "MOVE_REG_VALUE" /\ Fro(x, y, "saved", "valued")
  \/ code = "SET_READ_LEN" /\
       \/ Fro(x, y, "valued", "sized") /\ op.value = SIZEOF_MSGHDR
       \/ Fro(x, y, "kept", "kept")
       \/ Fro(x, y, "b1", "b2") /\ op.value = SIZEOF_IOVEC
       \/ Fro(x, y, "b3", "b4") /\ op.value = MAX_BUF_READ_SIZE
  \/ code = "SET_TMP_VALUE" /\ (Fro(x, y, "struct", "kept") \/ Fro(x, y, "b0", "b1"))
  \/ code = "MOVE_TMP_VALUE" /\ (Fro(x, y, "control", "back") \/ Fro(x, y, "b9", "b10"))
  \/ code = "SET_READ_LEN_POINTER_VALUE" /\ (Fro(x, y, "kept", "kept") \/ Fro(x, y, "b5", "b6"))
  \/ code = "MOVE_POINTER_VALUE" /\
       \/ Fro(x, y, "kept", "kept") \/ Fro(x, y, "b7", "b8")
       \/ Fro(x, y, "based", "armed") /\ InMessage(w, i)
  \/ code = "SET_BREAK_COUNT_POINTER_VALUE" /\ Fro(x, y, "counted", "bounded") /\ InMessage(w, i)
  \/ code = "SET_BREAK_COUNT_REG_VALUE" /\ Fro(x, y, "counting", "bounded") /\ ~InMessage(w, i)
  \/ code = "ADD_OFFSET" /\ Fro(x, y, "b10", "b11") /\ op.value = SIZEOF_IOVEC
Looks(w, i, code, op, x, y) ==
  /\ code = "READ_POINTER"
  /\ \/ Fro(x, y, "start", "start") \/ Fro(x, y, "kept", "kept")
     \/ /\ op.pre = "ADD_OFFSET"
        /\ \/ Fro(x, y, "back", "counted") /\ op.value = 24 /\ InMessage(w, i)
           \/ Fro(x, y, "bounded", "based") /\ op.value = 16 /\ InMessage(w, i)
           \/ Fro(x, y, "b4", "b5") /\ op.value = 8
     \/ Fro(x, y, "b6", "b7") /\ op.pre = "SKIP"
Puts(w, i, code, op, x, y) ==
  \/ code = "SAVE_REG" /\
       (Fro(x, y, "value", "saved") \/ (Fro(x, y, "bounded", "armed") /\ ~InMessage(w, i)))
  \/ code = "SAVE_ADDR" /\ Fro(x, y, "start", "valued") /\ w.args[i].extra # <<>>
  \/ /\ code = "SAVE_STRUCT" /\ op.pre # "SET_READ_COUNT"
     /\ \/ Fro(x, y, "sized", "struct") \/ Fro(x, y, "kept", "control")
        \/ Fro(x, y, "b2", "b3") \/ Fro(x, y, "b8", "b9")
Loops(w, i, code, x, y) ==
  code = "FOR_BREAK" /\ (Fro(x, y, "armed", "b0") \/ Fro(x, y, "b11", "done"))
VDoes(w, i, code, op, x, y) ==
  \/ Reckons(w, i, code, op, x, y)
  \/ Looks(w, i, code, op, x, y)
  \/ Puts(w, i, code, op, x, y)
  \/ Loops(w, i, code, x, y)

-----------------------------------------------------------------------------
(* What the stages say stays true as long as what they say of stays.       *)
LEMMA StageNames ==
  /\ Empties \cap (Structs \cup Headers \cup Bodies) = {}
  /\ Structs \cap (Headers \cup Bodies) = {} /\ Headers \cap Bodies = {}
  /\ {"start", "value", "done", "bounded", "armed"} \cap
       (Empties \cup Structs \cup Headers \cup Bodies) = {}
BY DEF Empties, Structs, Headers, Bodies, Starts, Halves, Wholes

LEMMA WordsOfCall ==
  ASSUME NEW w \in Calls
  PROVE  \A k : Word(w.mem, k) \in Nat /\ Word(w.regs, k) \in Nat
<1>1. /\ \A k \in DOMAIN w.mem : w.mem[k] \in Nat
      /\ \A k \in DOMAIN w.regs : w.regs[k] \in Nat
  BY CallTypes
<1> QED
  BY <1>1 DEF Word

LEMMA SameClass ==
  ASSUME NEW w, NEW i, NEW x, NEW y, NEW v, NEW n, NEW ps, OnPieces(w, i, x, v, n, ps),
         \/ /\ y \in Empties <=> x \in Empties
            /\ y \in Structs <=> x \in Structs
            /\ y \in Headers <=> x \in Headers
            /\ y \in Starts <=> x \in Starts
            /\ y \in Halves <=> x \in Halves
            /\ y \in Wholes <=> x \in Wholes
            /\ y = "bounded" <=> x = "bounded"
            /\ y = "armed" <=> x = "armed"
         \/ x = "counted" /\ y = "bounded" /\ InMessage(w, i)
         \/ x = "counting" /\ y = "bounded" /\ ~InMessage(w, i)
         \/ x = "based" /\ y = "armed" /\ InMessage(w, i)
  PROVE  OnPieces(w, i, y, v, n, ps)
<1>1. CASE /\ y \in Empties <=> x \in Empties
           /\ y \in Structs <=> x \in Structs
           /\ y \in Headers <=> x \in Headers
           /\ y \in Starts <=> x \in Starts
           /\ y \in Halves <=> x \in Halves
           /\ y \in Wholes <=> x \in Wholes
           /\ y = "bounded" <=> x = "bounded"
           /\ y = "armed" <=> x = "armed"
  <2>1. Spread(w, i, x, n) = Spread(w, i, y, n)
    BY <1>1 DEF Spread
  <2> QED
    BY <1>1, <2>1 DEF OnPieces, Bodies
<1>2. CASE \/ x = "counted" /\ y = "bounded" /\ InMessage(w, i)
           \/ x = "counting" /\ y = "bounded" /\ ~InMessage(w, i)
           \/ x = "based" /\ y = "armed" /\ InMessage(w, i)
  <2>1. Spread(w, i, x, n) = Spread(w, i, y, n)
    BY <1>2 DEF Spread, Lead, Empties, Structs, Headers
  <2>2. /\ y \notin Bodies /\ y \notin Halves /\ y \notin Wholes
        /\ InMessage(w, i) => x \notin Empties
    BY <1>2 DEF Bodies, Starts, Halves, Wholes, Empties
  <2> QED
    BY <2>1, <2>2 DEF OnPieces
<1> QED
  BY <1>1, <1>2

LEMMA ReckonsSays ==
  ASSUME NEW w \in Calls, NEW i \in DOMAIN w.args, NEW r, NEW s, NEW e,
         NEW x, NEW y, NEW c \in Contexts, NEW ps \in Seq(Pieces), w = call,
         NEW code \in RegisterCodes, Says(w, i, r, s, e, x, c, ps),
         Reckons(w, i, code, c.op, x, y)
  PROVE  Says(w, i, r, s, e, y, Effect(code, c), ps)
<1> DEFINE d == Effect(code, c)
<1>1. CASE x = "start"
  BY <1>1, StageNames DEF Says, Reckons, Fro, Effect, Contexts, Closed, AddrCodes,
     FilterCodes, RegValue, RegIndex, Value, RegisterCodes
<1>2. CASE x \notin {"start", "value", "done"}
  <2>1. PICK v, n : /\ OnPieces(w, i, x, v, n, ps)
                    /\ OnLoop(w, i, r, s, e, x, ps[v].at, n, c)
                    /\ OnValues(w, i, x, ps[v].at, n, c)
    BY <1>2 DEF Says
  <2>2. OnPieces(w, i, y, v, n, ps)
    <3>1. \/ /\ y \in Empties <=> x \in Empties
             /\ y \in Structs <=> x \in Structs
             /\ y \in Headers <=> x \in Headers
             /\ y \in Starts <=> x \in Starts
             /\ y \in Halves <=> x \in Halves
             /\ y \in Wholes <=> x \in Wholes
             /\ y = "bounded" <=> x = "bounded"
             /\ y = "armed" <=> x = "armed"
          \/ x = "counted" /\ y = "bounded" /\ InMessage(w, i)
          \/ x = "counting" /\ y = "bounded" /\ ~InMessage(w, i)
          \/ x = "based" /\ y = "armed" /\ InMessage(w, i)
      BY <1>2 DEF Reckons, Fro, Empties, Structs, Headers, Starts, Halves, Wholes
    <3> QED
      BY <2>1, <3>1, SameClass
  <2> DEFINE a == ps[v].at
  <2>5. v \in 1..Len(ps) /\ a \in Int /\ n \in Nat
    <3>1. v \in 1..Len(ps) /\ n \in Nat
      BY <2>1 DEF OnPieces
    <3>2. ps[v] \in Pieces
      BY <3>1
    <3> QED
      BY <3>1, <3>2 DEF Pieces
  <2> HIDE DEF a
  <2>3. OnLoop(w, i, r, s, e, y, a, n, d)
    <3>1. /\ d.loop_count = c.loop_count /\ d.loop_index = c.loop_index
          /\ code \notin CountCodes \cup {"RESET_CTX"} => d.break_count = c.break_count
      BY EffectKeepsPlace
    <3>2. CASE y = "bounded"
      <4>1. d.break_count = Least(VectorCount(w, i, a), MAX_LOOP_COUNT)
        BY <1>2, <2>1, <3>2 DEF Reckons, Fro, OnValues, Effect, Contexts, AddrCodes,
           FilterCodes, a
      <4>2. Closed(c)
        BY <1>2, <2>1, <3>2 DEF Reckons, Fro, OnLoop, Empties, AddrCodes, FilterCodes
      <4> QED
        BY <3>1, <3>2, <4>1, <4>2 DEF OnLoop, Closed, Empties, Structs, Bodies,
           Starts, Halves, Wholes
    <3>3. CASE y # "bounded"
      <4>1. d.break_count = c.break_count
        BY <3>1, <3>3 DEF Reckons, Fro, CountCodes, AddrCodes, FilterCodes
      <4> QED
        BY <1>2, <2>1, <3>1, <3>3, <4>1 DEF a, OnLoop, Closed, TurnOf, Reckons, Fro,
           Empties, Structs,
           Bodies, Starts, Halves, Wholes
    <3> QED
      BY <3>2, <3>3
  <2>4. OnValues(w, i, y, a, n, d)
    <3>1. CASE code = "MOVE_REG_VALUE"
      BY <1>2, <2>1, <3>1 DEF Reckons, Fro, OnValues, Effect, Contexts, AddrCodes,
         FilterCodes, a, Bodies, Starts, Halves, Wholes
    <3>2. CASE code = "READ_REG"
      BY <1>2, <2>1, <3>2 DEF Reckons, Fro, OnValues, Effect, Contexts, AddrCodes,
         FilterCodes, a, Bodies, Starts, Halves, Wholes, VectorCount, RegValue, RegIndex
    <3>3. CASE code = "SET_READ_LEN"
      BY <1>2, <2>1, <3>3 DEF Reckons, Fro, OnValues, Effect, Contexts, AddrCodes,
         FilterCodes, a, Bodies, Starts, Halves, Wholes
    <3>4. CASE code \in {"SET_TMP_VALUE", "MOVE_TMP_VALUE"}
      BY <1>2, <2>1, <3>4 DEF Reckons, Fro, OnValues, Effect, Contexts, AddrCodes,
         FilterCodes, a, Bodies, Starts, Halves, Wholes
    <3>5. CASE code = "SET_READ_LEN_POINTER_VALUE"
      BY <1>2, <2>1, <3>5 DEF Reckons, Fro, OnValues, Effect, Contexts, AddrCodes,
         FilterCodes, a, Bodies, Starts, Halves, Wholes
    <3>6. CASE code = "MOVE_POINTER_VALUE"
      BY <1>2, <2>1, <3>6 DEF Reckons, Fro, OnValues, Effect, Contexts, AddrCodes,
         FilterCodes, a, Bodies, Starts, Halves, Wholes
    <3>7. CASE y = "bounded"
      BY <1>2, <2>1, <3>7 DEF Reckons, Fro, OnValues, Effect, Contexts, AddrCodes,
         FilterCodes, a, Bodies, Starts, Halves, Wholes
    <3>8. CASE code = "ADD_OFFSET"
      BY <1>2, <2>1, <3>8 DEF Reckons, Fro, OnValues, Effect, Contexts, AddrCodes,
         FilterCodes, a, Bodies, Starts, Halves, Wholes
    <3> QED
      BY <1>2, <3>1, <3>2, <3>3, <3>4, <3>5, <3>6, <3>7, <3>8 DEF Reckons, Fro,
         FilterCodes, AddrCodes, RegisterCodes
  <2> QED
    <3>1. y \in Empties \cup Structs \cup Headers \cup Bodies \cup {"bounded", "armed"}
      BY <1>2 DEF Reckons, Fro, Empties, Structs, Headers, Bodies, Starts, Halves, Wholes
    <3> QED
      BY <2>2, <2>3, <2>4, <3>1 DEF Says, a
<1> QED
  BY <1>1, <1>2 DEF Reckons, Fro, FilterCodes, RegisterCodes

(* A word that was read.                                                   *)
LEMMA LooksSays ==
  ASSUME NEW w \in Calls, NEW i, NEW r, NEW s, NEW e, NEW x, NEW y, NEW ps,
         NEW c \in Contexts, NEW z, z = Word(w.mem, PointerAddr(c)),
         Says(w, i, r, s, e, x, c, ps), Looks(w, i, "READ_POINTER", c.op, x, y)
  PROVE  Says(w, i, r, s, e, y, [c EXCEPT !.pointer_value = z], ps)
<1> DEFINE d == [c EXCEPT !.pointer_value = z]
<1>1. /\ d.loop_count = c.loop_count /\ d.break_count = c.break_count
      /\ d.loop_index = c.loop_index /\ d.reg_value = c.reg_value
      /\ d.read_addr = c.read_addr /\ d.read_len = c.read_len
      /\ d.tmp_value = c.tmp_value /\ d.pointer_value = z
  BY DEF Contexts
<1> HIDE DEF d
<1>2. CASE x = "start"
  BY <1>1, <1>2, StageNames DEF Says, Looks, Fro, Closed
<1>3. CASE x # "start"
  <2>1. PICK v, n : /\ OnPieces(w, i, x, v, n, ps)
                    /\ OnLoop(w, i, r, s, e, x, ps[v].at, n, c)
                    /\ OnValues(w, i, x, ps[v].at, n, c)
    BY <1>3 DEF Says, Looks, Fro
  <2> DEFINE a == ps[v].at
  <2>2. OnPieces(w, i, y, v, n, ps)
    <3>1. /\ y \in Empties <=> x \in Empties
          /\ y \in Structs <=> x \in Structs
          /\ y \in Starts <=> x \in Starts
          /\ y \in Halves <=> x \in Halves
          /\ y \in Wholes <=> x \in Wholes
          /\ y = "armed" <=> x = "armed"
      BY <1>3 DEF Looks, Fro, Empties, Structs, Starts, Halves, Wholes
    <3>2. CASE x # "bounded"
      <4>1. (y \in Headers <=> x \in Headers) /\ (y = "bounded" <=> x = "bounded")
        BY <1>3, <3>2 DEF Looks, Fro, Headers
      <4> QED
        BY <2>1, <3>1, <4>1, SameClass
    <3>3. CASE x = "bounded"
      <4>1. y = "based" /\ InMessage(w, i)
        BY <3>3 DEF Looks, Fro
      <4>2. Spread(w, i, x, n) = Spread(w, i, y, n)
        BY <3>3, <4>1 DEF Spread, Empties, Structs, Headers
      <4>3. "bounded" \notin Empties
        BY DEF Empties
      <4> QED
        BY <2>1, <3>1, <3>3, <4>2, <4>3 DEF OnPieces, Bodies
    <3> QED
      BY <3>2, <3>3
  <2> HIDE DEF a
  <2>3. OnLoop(w, i, r, s, e, y, a, n, d)
    BY <1>1, <1>3, <2>1 DEF a, OnLoop, Closed, TurnOf, Looks, Fro, Empties, Structs,
       Bodies, Starts, Halves, Wholes
  <2>4. OnValues(w, i, y, a, n, d)
    <3>1. CASE x \in {"kept", "b6"}
      BY <1>1, <1>3, <2>1, <3>1 DEF a, OnValues, Looks, Fro, PointerAddr, Bodies, Starts,
         Halves, Wholes
    <3>2. CASE x \in {"back", "bounded"}
      BY <1>1, <1>3, <2>1, <3>2 DEF a, OnValues, Looks, Fro, PointerAddr, Bodies, Starts,
         Halves, Wholes, VectorBase, VectorCount
    <3>3. CASE x = "b4"
      BY <1>1, <1>3, <2>1, <3>3 DEF a, OnValues, Looks, Fro, PointerAddr, Bodies, Starts,
         Halves, Wholes
    <3> QED
      BY <1>3, <3>1, <3>2, <3>3 DEF Looks, Fro
  <2>5. y \in Empties \cup Structs \cup Headers \cup Bodies \cup {"bounded", "armed"}
    BY <1>3 DEF Looks, Fro, Empties, Structs, Headers, Bodies, Starts, Halves, Wholes
  <2> QED
    BY <2>2, <2>3, <2>4, <2>5 DEF Says, a, d
<1> QED
  BY <1>2, <1>3 DEF d

(* What is saved stays saved.                                              *)
LEMMA StaysSaved ==
  ASSUME NEW ps \in Seq(Pieces), NEW qs \in Seq(Pieces), Grows(ps, qs), NEW w, NEW i
  PROVE  /\ Len(ps) <= Len(qs) /\ \A k \in 1..Len(ps) : k \in 1..Len(qs) /\ qs[k] = ps[k]
         /\ \A k, want, at : SavedAt(ps, k, want, at) => SavedAt(qs, k, want, at)
         /\ \A k, at : PairAt(w, ps, k, at) => PairAt(w, qs, k, at)
         /\ \A v \in 1..Len(ps) : \A n : PairsAt(w, i, ps, v, n) => PairsAt(w, i, qs, v, n)
         /\ \A v : VectorIn(w, i, v, ps) => VectorIn(w, i, v, qs)
<1>1. \A k \in 1..Len(ps) : k \in 1..Len(qs) /\ qs[k] = ps[k]
  BY DEF Grows
<1>2. Len(ps) <= Len(qs)
  <2>1. CASE Len(ps) = 0
    BY <2>1
  <2>2. CASE Len(ps) # 0
    <3>1. Len(ps) \in 1..Len(ps)
      BY <2>2
    <3>2. Len(ps) \in 1..Len(qs)
      BY <1>1, <3>1
    <3> QED
      BY <3>2
  <2> QED
    BY <2>1, <2>2
<1>3. \A k, want, at : SavedAt(ps, k, want, at) => SavedAt(qs, k, want, at)
  BY <1>1 DEF SavedAt
<1>4. \A k, at : PairAt(w, ps, k, at) => PairAt(w, qs, k, at)
  BY <1>3, Zenon DEF PairAt
<1>5. \A v \in 1..Len(ps) : \A n : PairsAt(w, i, ps, v, n) => PairsAt(w, i, qs, v, n)
  <2>1. ASSUME NEW v \in 1..Len(ps), NEW n, PairsAt(w, i, ps, v, n)
        PROVE  PairsAt(w, i, qs, v, n)
    <3>1. qs[v] = ps[v]
      BY <1>1
    <3> QED
      BY <1>4, <2>1, <3>1 DEF PairsAt
  <2> QED
    BY <2>1
<1>6. \A v : VectorIn(w, i, v, ps) => VectorIn(w, i, v, qs)
  <2>1. ASSUME NEW v, VectorIn(w, i, v, ps) PROVE VectorIn(w, i, v, qs)
    <3>1. v \in 1..Len(ps) /\ v \in 1..Len(qs) /\ qs[v] = ps[v]
      BY <1>1, <2>1 DEF VectorIn
    <3> QED
      BY <1>3, <1>5, <2>1, <3>1 DEF VectorIn
  <2> QED
    BY <2>1
<1> QED
  BY <1>1, <1>2, <1>3, <1>4, <1>5, <1>6

(* A piece that was saved.                                                 *)
LEMMA PutsSays ==
  ASSUME NEW w \in Calls, NEW i, NEW r, NEW s, NEW e, NEW x, NEW y, NEW ps \in Seq(Pieces),
         NEW c \in Contexts, NEW p \in Pieces, NEW code, NEW m, NEW d \in Contexts,
         Says(w, i, r, s, e, x, c, ps), Puts(w, i, code, c.op, x, y),
         IF code = "SAVE_STRUCT"
         THEN /\ p.kind = "bytes" /\ p.want = m /\ p.at = c.read_addr
              /\ m = Least(c.read_len, MAX_BYTES_ARR_SIZE)
              /\ d.read_len = m
         ELSE /\ p.kind = "raw" /\ p.at = (IF code = "SAVE_ADDR" THEN c.read_addr ELSE c.reg_value)
              /\ d.read_len = c.read_len,
         d.loop_count = c.loop_count, d.break_count = c.break_count,
         d.loop_index = c.loop_index, d.reg_value = c.reg_value,
         d.read_addr = c.read_addr,
         d.tmp_value = c.tmp_value, d.pointer_value = c.pointer_value
  PROVE  Says(w, i, r, s, e, y, d, Append(ps, p))
<1> DEFINE qs == Append(ps, p)
           k == Len(ps) + 1
<1>1. /\ qs \in Seq(Pieces) /\ Grows(ps, qs) /\ Len(qs) = k /\ qs[k] = p /\ Len(ps) \in Nat
      /\ k \in 1..Len(qs)
  <2>1. qs \in Seq(Pieces) /\ Grows(ps, qs) /\ Len(qs) = k /\ qs[k] = p /\ Len(ps) \in Nat
    BY GrowsByOne
  <2> HIDE DEF qs
  <2> QED
    BY <2>1
<1> HIDE DEF qs
<1>2. CASE x \in {"start", "value"}
  <2>1. Closed(c) /\ Closed(d) /\ p.kind = "raw"
    BY <1>2, StageNames DEF Says, Puts, Fro, Closed
  <2>2. /\ y = "saved" => p.at = Value(w, i) /\ d.reg_value = p.at
        /\ y = "valued" => w.args[i].extra # <<>> /\ d.read_addr = p.at
        /\ y \in {"saved", "valued"}
    BY <1>2, StageNames DEF Says, Puts, Fro
  <2>3. OnPieces(w, i, y, k, 0, qs)
    BY <1>1, <2>1, <2>2 DEF OnPieces, Spread, Empties, Bodies, Starts, Halves, Wholes
  <2>4. OnLoop(w, i, r, s, e, y, qs[k].at, 0, d)
    BY <1>1, <2>1, <2>2 DEF OnLoop, Bodies, Starts, Halves, Wholes
  <2>5. OnValues(w, i, y, qs[k].at, 0, d)
    BY <1>1, <2>1, <2>2 DEF OnValues, Bodies, Starts, Halves, Wholes
  <2>6. y \in Empties
    BY <2>2 DEF Empties
  <2> QED
    BY <2>3, <2>4, <2>5, <2>6 DEF Says, qs
<1>3. CASE x \notin {"start", "value"}
  <2>1. PICK v, n : /\ OnPieces(w, i, x, v, n, ps)
                    /\ OnLoop(w, i, r, s, e, x, ps[v].at, n, c)
                    /\ OnValues(w, i, x, ps[v].at, n, c)
    BY <1>3 DEF Says, Puts, Fro
  <2> DEFINE a == ps[v].at
  <2>2. v \in 1..Len(ps) /\ v \in 1..Len(qs) /\ qs[v] = ps[v] /\ n \in Nat
    BY <1>1, <2>1, StaysSaved DEF OnPieces
  <2>3. a \in Int
    <3>1. ps[v] \in Pieces
      BY <2>2
    <3> QED
      BY <3>1 DEF Pieces
  <2>4. OnLoop(w, i, r, s, e, y, a, n, d)
    BY <1>3, <2>1 DEF OnLoop, Closed, TurnOf, Puts, Fro, Empties, Structs, Bodies,
       Starts, Halves, Wholes
  <2> HIDE DEF a
  <2>5. OnPieces(w, i, y, v, n, qs)
    <3> DEFINE at == VectorBase(w, i, a) + SIZEOF_IOVEC * n
               lead == Lead(w, i)
               len == Least(MAX_BUF_READ_SIZE, Word(w.mem, at + 8))
    <3>1. /\ ps[v].kind = "raw" /\ Len(ps) = v + Spread(w, i, x, n)
          /\ w.args[i].extra = <<>> => a = Value(w, i)
          /\ InMessage(w, i) /\ x \notin Empties => SavedAt(ps, v + 1, SIZEOF_MSGHDR, a)
          /\ x \in Bodies => PairsAt(w, i, ps, v, n)
          /\ x \in Halves => SavedAt(ps, v + lead + 1 + 2 * n, SIZEOF_IOVEC, at)
      BY <2>1 DEF OnPieces, a
    <3>2. lead \in Nat /\ (~InMessage(w, i) => lead = 1)
      BY DEF Lead
    <3> HIDE DEF at, len, lead
    <3>3. /\ InMessage(w, i) /\ x \notin Empties => SavedAt(qs, v + 1, SIZEOF_MSGHDR, a)
          /\ x \in Bodies => PairsAt(w, i, qs, v, n)
          /\ x \in Halves => SavedAt(qs, v + lead + 1 + 2 * n, SIZEOF_IOVEC, at)
      <4>1. /\ \A j, want, z : SavedAt(ps, j, want, z) => SavedAt(qs, j, want, z)
            /\ PairsAt(w, i, ps, v, n) => PairsAt(w, i, qs, v, n)
        BY <1>1, <2>2, StaysSaved
      <4> QED
        BY <3>1, <4>1
    <3>4. p.kind = "bytes" => SavedAt(qs, k, p.want, p.at)
      BY <1>1 DEF SavedAt
    <3> HIDE DEF k
    <3>5. CASE x = "bounded"
      <4>1. y = "armed" /\ ~InMessage(w, i)
        BY <1>3, <3>5 DEF Puts, Fro
      <4>2. Spread(w, i, x, n) = 0 /\ Spread(w, i, y, n) = lead
        BY <3>5, <4>1 DEF Spread, Empties, Structs, Headers, lead
      <4>3. y \notin Bodies /\ y \notin Halves /\ y \notin Wholes
        BY <4>1 DEF Bodies, Starts, Halves, Wholes
      <4>4. Len(qs) = v + Spread(w, i, y, n)
        BY <1>1, <2>2, <3>1, <3>2, <4>1, <4>2 DEF k
      <4>5. qs[v].at = a /\ v \in 1..Len(qs)
        BY <2>2 DEF a
      <4> QED
        BY <1>1, <2>2, <3>1, <3>2, <4>1, <4>2, <4>3, <4>4, <4>5 DEF OnPieces, a
    <3>6. CASE x = "sized"
      <4>1. y = "struct" /\ code = "SAVE_STRUCT"
        BY <1>3, <3>6 DEF Puts, Fro
      <4>2. Spread(w, i, x, n) = 0 /\ Spread(w, i, y, n) = 1
        BY <3>6, <4>1 DEF Spread, Empties, Structs
      <4>3. y \notin Bodies /\ y \notin Halves /\ y \notin Wholes
        BY <4>1 DEF Bodies, Starts, Halves, Wholes
      <4>4. m = SIZEOF_MSGHDR /\ c.read_addr = a
        BY <2>1, <3>6, <4>1 DEF OnValues, a, Least, SIZEOF_MSGHDR, MAX_BYTES_ARR_SIZE
      <4>5. SavedAt(qs, v + 1, SIZEOF_MSGHDR, a)
        BY <3>1, <3>4, <4>1, <4>2, <4>4, <2>2 DEF k
      <4> QED
        BY <1>1, <2>2, <3>1, <4>1, <4>2, <4>3, <4>5 DEF OnPieces, a, k
    <3>7. CASE x = "kept"
      <4>1. y = "control"
        BY <1>3, <3>7 DEF Puts, Fro
      <4>2. Spread(w, i, x, n) = 1 /\ Spread(w, i, y, n) = 2 /\ x \notin Empties
        BY <3>7, <4>1 DEF Spread, Empties, Structs, Headers
      <4>3. y \notin Bodies /\ y \notin Halves /\ y \notin Wholes
        BY <4>1 DEF Bodies, Starts, Halves, Wholes
      <4> QED
        BY <1>1, <2>2, <3>1, <3>3, <4>1, <4>2, <4>3 DEF OnPieces, a, k
    <3>8. CASE x = "b2"
      <4>1. y = "b3" /\ code = "SAVE_STRUCT"
        BY <1>3, <3>8 DEF Puts, Fro
      <4>2. Spread(w, i, x, n) = lead + 2 * n /\ Spread(w, i, y, n) = lead + 2 * n + 1
        BY <2>2, <3>2, <3>8, <4>1 DEF Spread, Empties, Structs, Headers, Starts, Halves, lead
      <4>3. /\ y \notin Wholes /\ x \in Bodies /\ x \notin Empties
        BY <3>8, <4>1 DEF Bodies, Starts, Wholes, Empties
      <4>4. m = SIZEOF_IOVEC /\ c.read_addr = at
        BY <2>1, <3>8, <4>1 DEF OnValues, a, at, Least, SIZEOF_IOVEC, MAX_BYTES_ARR_SIZE
      <4>5. k = v + lead + 1 + 2 * n
        BY <2>2, <3>1, <3>2, <4>2 DEF k
      <4>6. SavedAt(qs, v + lead + 1 + 2 * n, SIZEOF_IOVEC, at)
        BY <3>4, <4>1, <4>4, <4>5
      <4>7. Len(qs) = v + Spread(w, i, y, n)
        BY <1>1, <2>2, <3>2, <4>2, <4>5
      <4> QED
        BY <2>2, <3>1, <3>3, <4>3, <4>6, <4>7 DEF OnPieces, a, at, lead
    <3>9. CASE x = "b8"
      <4>1. y = "b9" /\ code = "SAVE_STRUCT"
        BY <1>3, <3>9 DEF Puts, Fro
      <4>2. Spread(w, i, x, n) = lead + 2 * n + 1 /\ Spread(w, i, y, n) = lead + 2 * n + 2
        BY <2>2, <3>2, <3>9, <4>1 DEF Spread, Empties, Structs, Headers, Starts, Halves, lead
      <4>3. y \notin Halves /\ x \in Bodies /\ x \in Halves /\ x \notin Empties
        BY <3>9, <4>1 DEF Bodies, Halves, Empties
      <4>4. m = len /\ c.read_addr = Word(w.mem, at)
        <5>1. c.read_len = len /\ c.read_addr = Word(w.mem, at)
          BY <2>1, <3>9 DEF OnValues, a, at, len
        <5>2. Least(len, MAX_BYTES_ARR_SIZE) = len
          BY WordsOfCall DEF len, Least, MAX_BUF_READ_SIZE, MAX_BYTES_ARR_SIZE
        <5> QED
          BY <4>1, <5>1, <5>2
      <4>5. k = (v + lead + 1 + 2 * n) + 1
        BY <2>2, <3>1, <3>2, <4>2 DEF k
      <4>6. PairAt(w, qs, v + lead + 1 + 2 * n, at)
        BY <3>3, <3>4, <4>1, <4>3, <4>4, <4>5 DEF PairAt, len
      <4>7. Len(qs) = v + Spread(w, i, y, n)
        BY <1>1, <2>2, <3>2, <4>2, <4>5
      <4> QED
        BY <2>2, <3>1, <3>3, <4>3, <4>6, <4>7 DEF OnPieces, a, at, lead
    <3> QED
      BY <1>3, <3>5, <3>6, <3>7, <3>8, <3>9 DEF Puts, Fro
  <2>6. OnValues(w, i, y, a, n, d)
    <3>1. CASE x = "bounded"
      <4>1. y = "armed" /\ ~InMessage(w, i)
        BY <1>3, <3>1 DEF Puts, Fro
      <4> QED
        BY <2>1, <3>1, <4>1 DEF OnValues, VectorBase, Bodies, Starts, Halves, Wholes, a
    <3>2. CASE x # "bounded"
      BY <1>3, <2>1, <3>2 DEF OnValues, Puts, Fro, Bodies, Starts, Halves, Wholes, a
    <3> QED
      BY <3>1, <3>2
  <2>7. y \in Empties \cup Structs \cup Headers \cup Bodies \cup {"bounded", "armed"}
    BY <1>3 DEF Puts, Fro, Empties, Structs, Headers, Bodies, Starts, Halves, Wholes
  <2> QED
    BY <2>2, <2>4, <2>5, <2>6, <2>7 DEF Says, a, qs
<1> QED
  BY <1>2, <1>3 DEF qs

LEMMA SameSays ==
  ASSUME NEW w, NEW i, NEW r, NEW s, NEW e, NEW x, NEW c, NEW d, NEW ps,
         Says(w, i, r, s, e, x, c, ps),
         d.loop_count = c.loop_count, d.break_count = c.break_count,
         d.loop_index = c.loop_index, d.reg_value = c.reg_value,
         d.read_addr = c.read_addr, d.read_len = c.read_len,
         d.tmp_value = c.tmp_value, d.pointer_value = c.pointer_value
  PROVE  Says(w, i, r, s, e, x, d, ps)
<1>1. \A v, n, a : /\ OnLoop(w, i, r, s, e, x, a, n, c) => OnLoop(w, i, r, s, e, x, a, n, d)
                   /\ OnValues(w, i, x, a, n, c) => OnValues(w, i, x, a, n, d)
  BY DEF OnLoop, OnValues, Closed, TurnOf
<1> QED
  BY <1>1 DEF Says, Closed

(* The head of the loop enters its body, the first time without a turn if  *)
(* the program says that there is nothing.                                 *)
LEMMA HeadSays ==
  ASSUME NEW w \in Calls, NEW i, NEW r, NEW s \in Nat, NEW e \in Nat, NEW ps \in Seq(Pieces),
         NEW c \in Contexts, Says(w, i, r, s, e, "armed", c, ps),
         c.op_key_index \in (s + 1)..(e - 1), r[c.op_key_index] = "b0"
  PROVE  /\ AfterTurn(c).op_key_index = c.op_key_index
         /\ Says(w, i, r, s, e, "b0", AfterTurn(c), ps)
<1> DEFINE d == AfterTurn(c)
           k == c.op_key_index
<1>1. PICK v, n : /\ OnPieces(w, i, "armed", v, n, ps)
                  /\ OnLoop(w, i, r, s, e, "armed", ps[v].at, n, c)
                  /\ OnValues(w, i, "armed", ps[v].at, n, c)
  BY DEF Says
<1> DEFINE a == ps[v].at
           count == VectorCount(w, i, a)
<1>2. /\ c.loop_count = 0 /\ c.loop_index = 0 /\ c.break_count = Least(count, MAX_LOOP_COUNT)
      /\ c.read_addr = VectorBase(w, i, a) /\ VectorBase(w, i, a) \in Int /\ count \in Nat
      /\ c.break_count \in Nat
  <2>1. /\ c.loop_count = 0 /\ c.loop_index = 0 /\ c.break_count = Least(count, MAX_LOOP_COUNT)
        /\ c.read_addr = VectorBase(w, i, a)
    BY <1>1 DEF OnLoop, OnValues
  <2>2. count \in Nat
    BY WordsOfCall DEF VectorCount
  <2> HIDE DEF count, a
  <2> QED
    BY <2>1, <2>2, ContextFields, CountsOfLoops
<1>3. /\ d.read_addr = c.read_addr /\ d.op_key_index = k
      /\ IF c.break_count = 0 THEN Closed(d)
         ELSE d.loop_count = 1 /\ d.break_count = c.break_count /\ d.loop_index = k
  <2>1. d.read_addr = c.read_addr
    BY DEF AfterTurn, Contexts
  <2>2. LoopAt(c) = k /\ c.loop_count + 1 = 1
    BY <1>2 DEF LoopAt
  <2>3. c.loop_count >= c.break_count <=> c.break_count = 0
    BY <1>2
  <2> HIDE DEF d, k
  <2> QED
    BY <2>1, <2>2, <2>3, TurnFields DEF d, k
<1> HIDE DEF d, k, a, count
<1>4. OnPieces(w, i, "b0", v, 0, ps)
  <2>1. Spread(w, i, "armed", n) = Lead(w, i) /\ Spread(w, i, "b0", 0) = Lead(w, i)
    BY DEF Spread, Empties, Structs, Headers, Starts, Lead
  <2>2. PairsAt(w, i, ps, v, 0)
    BY DEF PairsAt
  <2>3. "b0" \notin Halves /\ "b0" \notin Wholes /\ "b0" \notin Empties /\ "armed" \notin Empties
    BY DEF Halves, Wholes, Empties
  <2> QED
    BY <1>1, <2>1, <2>2, <2>3 DEF OnPieces
<1>5. TurnOf(r, s, e, count, 0, d)
  <2>1. CASE c.break_count = 0
    <3>1. count = 0
      BY <1>2, <2>1 DEF Least, MAX_LOOP_COUNT
    <3> QED
      BY <1>3, <2>1, <3>1 DEF TurnOf
  <2>2. CASE c.break_count # 0
    BY <1>2, <1>3, <2>2 DEF TurnOf, k
  <2> QED
    BY <2>1, <2>2
<1>6. OnLoop(w, i, r, s, e, "b0", a, 0, d)
  BY <1>5 DEF OnLoop, Empties, Structs, count
<1>7. OnValues(w, i, "b0", a, 0, d)
  <2>1. VectorBase(w, i, a) + SIZEOF_IOVEC * 0 = VectorBase(w, i, a)
    BY <1>2 DEF SIZEOF_IOVEC
  <2> QED
    BY <1>2, <1>3, <2>1 DEF OnValues, Bodies, Starts, Halves, Wholes
<1> QED
  BY <1>3, <1>4, <1>6, <1>7 DEF Says, a, d, k, Bodies, Starts

(* Its tail goes back to the body, or the vector is complete.              *)
LEMMA TailSays ==
  ASSUME NEW w \in Calls, NEW i, NEW r, NEW s \in Nat, NEW e \in Nat, NEW ps \in Seq(Pieces),
         NEW c \in Contexts, Says(w, i, r, s, e, "b11", c, ps)
  PROVE  \/ /\ AfterTurn(c).op_key_index = c.op_key_index
            /\ \E v : VectorIn(w, i, v, ps)
         \/ /\ AfterTurn(c).op_key_index \in (s + 1)..(e - 1)
            /\ r[AfterTurn(c).op_key_index] = "b0"
            /\ Says(w, i, r, s, e, "b0", AfterTurn(c), ps)
<1> DEFINE d == AfterTurn(c)
<1>1. PICK v, n : /\ OnPieces(w, i, "b11", v, n, ps)
                  /\ OnLoop(w, i, r, s, e, "b11", ps[v].at, n, c)
                  /\ OnValues(w, i, "b11", ps[v].at, n, c)
  BY StageNames DEF Says
<1> DEFINE a == ps[v].at
           count == VectorCount(w, i, a)
           base == VectorBase(w, i, a)
           lead == Lead(w, i)
<1>2. /\ TurnOf(r, s, e, count, n, c) /\ c.read_addr = base + SIZEOF_IOVEC * n + SIZEOF_IOVEC
      /\ v \in 1..Len(ps) /\ n \in Nat /\ ps[v].kind = "raw"
      /\ w.args[i].extra = <<>> => a = Value(w, i)
      /\ Len(ps) = v + Spread(w, i, "b11", n)
      /\ InMessage(w, i) => SavedAt(ps, v + 1, SIZEOF_MSGHDR, a)
      /\ PairsAt(w, i, ps, v, n)
      /\ PairAt(w, ps, v + lead + 1 + 2 * n, base + SIZEOF_IOVEC * n)
  BY <1>1 DEF OnPieces, OnLoop, OnValues, Bodies, Wholes, Empties
<1>3. /\ a \in Int /\ base \in Int /\ count \in Nat /\ lead \in Nat
      /\ c.loop_count \in Nat /\ c.break_count \in Nat /\ Len(ps) \in Nat
  <2>1. ps[v] \in Pieces
    BY <1>2
  <2>2. a \in Int
    BY <2>1 DEF Pieces
  <2>3. \A k : Word(w.mem, k) \in Int /\ Word(w.mem, k) \in Nat /\ Word(w.regs, k) \in Nat
    BY WordsOfCall
  <2> HIDE DEF a
  <2>4. base \in Int /\ count \in Nat /\ lead \in Nat
    BY <2>2, <2>3 DEF VectorBase, VectorCount, Lead
  <2> HIDE DEF base, count, lead
  <2> QED
    BY <2>2, <2>4, CountsOfLoops, ContextFields
<1> HIDE DEF a, count, base, lead
<1>4. PairsAt(w, i, ps, v, n + 1)
  <2>1. ASSUME NEW j \in 0..((n + 1) - 1)
        PROVE  PairAt(w, ps, v + lead + 1 + 2 * j, base + SIZEOF_IOVEC * j)
    <3>1. CASE j = n
      BY <1>2, <3>1
    <3>2. CASE j # n
      <4>1. j \in 0..(n - 1)
        BY <1>2, <3>2
      <4> QED
        BY <1>2, <4>1 DEF PairsAt, a, base, lead
    <3> QED
      BY <3>1, <3>2
  <2> QED
    BY <2>1 DEF PairsAt, a, base, lead
<1>5. CASE c.loop_count >= c.break_count
  <2>1. d.op_key_index = c.op_key_index
    BY <1>5, TurnFields
  <2>2. n + 1 = VectorTurns(count)
    <3>1. CASE Closed(c) /\ count = 0 /\ n = 0
      BY <3>1 DEF VectorTurns
    <3>2. CASE /\ c.loop_count = n + 1 /\ c.loop_count <= c.break_count
               /\ c.break_count = Least(count, MAX_LOOP_COUNT)
      BY <1>2, <1>3, <1>5, <3>2 DEF VectorTurns, Least, MAX_LOOP_COUNT
    <3> QED
      BY <1>2, <3>1, <3>2 DEF TurnOf
  <2>3. VectorIn(w, i, v, ps)
    BY <1>2, <1>4, <2>2 DEF VectorIn, a, count
  <2> QED
    BY <2>1, <2>3
<1>6. CASE ~(c.loop_count >= c.break_count)
  <2>1. /\ c.loop_count = n + 1 /\ c.loop_count <= c.break_count
        /\ c.break_count = Least(count, MAX_LOOP_COUNT)
        /\ c.loop_index \in (s + 1)..(e - 1) /\ r[c.loop_index] = "b0"
    BY <1>2, <1>6 DEF TurnOf, Closed
  <2>2. LoopAt(c) = c.loop_index
    BY <1>2, <2>1 DEF LoopAt
  <2>3. /\ d.loop_count = c.loop_count + 1 /\ d.break_count = c.break_count
        /\ d.loop_index = c.loop_index /\ d.op_key_index = c.loop_index
    BY <1>6, <2>2, TurnFields
  <2>4. d.read_addr = c.read_addr
    BY DEF AfterTurn, Contexts
  <2> HIDE DEF d
  <2>5. OnLoop(w, i, r, s, e, "b0", a, n + 1, d)
    <3>1. TurnOf(r, s, e, count, n + 1, d)
      BY <1>2, <1>3, <1>6, <2>1, <2>3 DEF TurnOf
    <3> QED
      BY <3>1 DEF OnLoop, Empties, Structs, count
  <2>6. OnValues(w, i, "b0", a, n + 1, d)
    <3>1. base + SIZEOF_IOVEC * (n + 1) = base + SIZEOF_IOVEC * n + SIZEOF_IOVEC
      BY <1>2, <1>3 DEF SIZEOF_IOVEC
    <3> QED
      BY <1>2, <2>4, <3>1 DEF OnValues, Bodies, Starts, Halves, Wholes, base
  <2>7. OnPieces(w, i, "b0", v, n + 1, ps)
    <3>1. Spread(w, i, "b11", n) = lead + 2 * n + 2 /\ Spread(w, i, "b0", n + 1) = lead + 2 * (n + 1)
      BY <1>2, <1>3 DEF Spread, Empties, Structs, Headers, Starts, Halves, lead
    <3>2. "b0" \notin Halves /\ "b0" \notin Wholes /\ n + 1 \in Nat
      BY <1>2 DEF Halves, Wholes
    <3>3. Spread(w, i, "b11", n) = Spread(w, i, "b0", n + 1)
      BY <1>2, <1>3, <3>1
    <3> QED
      BY <1>2, <1>4, <3>2, <3>3 DEF OnPieces, a
  <2> QED
    BY <2>1, <2>3, <2>5, <2>6, <2>7 DEF Says, a, d, Bodies, Starts
<1> QED
  BY <1>5, <1>6

-----------------------------------------------------------------------------
(* An operation between two stages, and the stages of the operations       *)
(* s + 1 to e of a call, those of argument i.                              *)
VGoes(w, i, op, x, y) ==
  /\ op.post # "SKIP" => op.code # "FOR_BREAK"
  /\ op.post \notin {"FOR_BREAK", "READ_POINTER"}
  /\ \E m : /\ VDoes(w, i, op.code, op, x, m)
            /\ IF op.post = "SKIP" THEN m = y ELSE VDoes(w, i, op.post, op, m, y)

Laid(w, i, r, s, e) ==
  /\ s \in Nat /\ e \in Nat /\ s < e
  /\ s = 0 \/ s \in w.ends
  /\ e \in w.ends /\ e = ArgEnd(w.args, w.side, i)
  /\ r[s] = "start" /\ r[e] = "done"
  /\ \A k \in (s + 1)..e : k <= Len(w.ops) => VGoes(w, i, w.ops[k], r[k - 1], r[k])
  /\ \A k \in s..e : r[k] = "done" => k = e

VFollows(i, r, c, x) ==
  IF c.post_code = "SKIP" THEN x = r[c.op_key_index]
  ELSE /\ c.post_code \notin {"FOR_BREAK", "READ_POINTER"}
       /\ VDoes(call, i, c.post_code, c.op, x, r[c.op_key_index])

VLocated(i, r, s, e, c, ps) ==
  \E x : VFollows(i, r, c, x) /\ Says(call, i, r, s, e, x, c, ps)

(* Only the tail of the loop completes a vector.                           *)
LEMMA OnlyLoopsEnd ==
  ASSUME NEW w, NEW i, NEW code, NEW op, NEW x, VDoes(w, i, code, op, x, "done")
  PROVE  code = "FOR_BREAK"
BY DEF VDoes, Reckons, Looks, Puts, Loops, Fro

LEMMA LandsIn ==
  ASSUME NEW i, NEW r, NEW s, NEW e, NEW c, NEW ps, Laid(call, i, r, s, e),
         c.op_key_index \in (s + 1)..e, VLocated(i, r, s, e, c, ps)
  PROVE  \/ c.op_key_index < e
         \/ c.op_key_index = e /\ \E v : VectorIn(call, i, v, ps)
<1>1. s \in Nat /\ e \in Nat /\ r[e] = "done"
  BY DEF Laid
<1>2. CASE c.op_key_index = e
  <2>1. PICK x : VFollows(i, r, c, x) /\ Says(call, i, r, s, e, x, c, ps)
    BY DEF VLocated
  <2>2. c.post_code = "SKIP"
    BY <1>1, <1>2, <2>1, OnlyLoopsEnd DEF VFollows
  <2>3. x = "done"
    BY <1>1, <1>2, <2>1, <2>2 DEF VFollows
  <2> QED
    BY <1>2, <2>1, <2>3, StageNames DEF Says
<1> QED
  BY <1>1, <1>2

(* Fetching the next operation of the argument.                            *)
LEMMA FetchSays ==
  ASSUME TypeOK, NEW i, NEW r, NEW s, NEW e, Laid(call, i, r, s, e), NEW ps, Code # "SKIP",
         \/ ctx.op_key_index = s /\ ~HasPost /\ Closed(ctx)
         \/ ctx.op_key_index \in (s + 1)..(e - 1) /\ VLocated(i, r, s, e, ctx, ps)
  PROVE  /\ Fetched.op_key_index \in (s + 1)..e
         /\ ~HasPost => Fetched.op_key_index = ctx.op_key_index + 1
         /\ HasPost => Fetched.op_key_index = ctx.op_key_index
         /\ \E x, y : /\ Says(call, i, r, s, e, x, Fetched, ps)
                      /\ VDoes(call, i, Code, Fetched.op, x, y)
                      /\ VFollows(i, r, Fetched, y)
         /\ Code = "FOR_BREAK" => Fetched.post_code = "SKIP"
         /\ Code = "READ_POINTER" => Fetched.op.code = "READ_POINTER"
<1> DEFINE k == ctx.op_key_index
<1>1. ctx \in Contexts /\ call \in Calls /\ ops \in Seq(Operations) /\ k \in Nat
  BY CallTypes, ContextFields DEF TypeOK, ops
<1>2. s \in Nat /\ e \in Nat /\ s < e /\ r[s] = "start"
  BY DEF Laid
<1>3. CASE HasPost
  <2>1. k \in (s + 1)..(e - 1)
    BY <1>3
  <2>2. PICK x : VFollows(i, r, ctx, x) /\ Says(call, i, r, s, e, x, ctx, ps)
    BY <1>3 DEF VLocated
  <2>3. /\ Code = ctx.post_code /\ ctx.post_code # "SKIP"
        /\ ctx.post_code \notin {"FOR_BREAK", "READ_POINTER"}
        /\ VDoes(call, i, ctx.post_code, ctx.op, x, r[k])
    BY <1>3, <2>2 DEF Code, HasPost, VFollows
  <2>4. Says(call, i, r, s, e, x, Fetched, ps)
    BY <2>2, FetchFields, SameSays
  <2>5. /\ Fetched.op = ctx.op /\ Fetched.post_code = "SKIP" /\ Fetched.op_key_index = k
    BY <1>3, FetchFields
  <2>6. VFollows(i, r, Fetched, r[k])
    BY <2>5 DEF VFollows
  <2> QED
    BY <1>2, <1>3, <2>1, <2>3, <2>4, <2>5, <2>6
<1>4. CASE ~HasPost
  <2> DEFINE n == k + 1
  <2>1. k < Len(ops) /\ NextOp = ops[n] /\ Code = ops[n].code
    BY <1>4 DEF Code, NextOp, ListedOp, Op
  <2>2. n \in (s + 1)..e /\ n - 1 = k /\ n <= Len(call.ops)
    BY <1>1, <1>2, <2>1 DEF ops
  <2>3. /\ Fetched.op = ops[n] /\ Fetched.post_code = ops[n].post /\ Fetched.op_key_index = n
    BY <1>4, <2>1, FetchFields
  <2>4. Says(call, i, r, s, e, r[k], ctx, ps)
    BY <1>2, <1>4 DEF VLocated, VFollows, HasPost, Says
  <2>5. Says(call, i, r, s, e, r[k], Fetched, ps)
    BY <2>4, FetchFields, SameSays
  <2> HIDE DEF n
  <2>6. VGoes(call, i, ops[n], r[k], r[n])
    BY <2>2 DEF Laid, ops
  <2>7. PICK m : /\ VDoes(call, i, ops[n].code, ops[n], r[k], m)
                 /\ IF ops[n].post = "SKIP" THEN m = r[n]
                    ELSE VDoes(call, i, ops[n].post, ops[n], m, r[n])
    BY <2>6 DEF VGoes
  <2>8. VFollows(i, r, Fetched, m)
    BY <2>3, <2>6, <2>7 DEF VFollows, VGoes
  <2>9. Code = "FOR_BREAK" => ops[n].post = "SKIP"
    BY <2>1, <2>6 DEF VGoes
  <2>10. VDoes(call, i, Code, Fetched.op, r[k], m) /\ n = k + 1
    BY <2>1, <2>3, <2>7 DEF n
  <2>11. \E x, y : /\ Says(call, i, r, s, e, x, Fetched, ps)
                   /\ VDoes(call, i, Code, Fetched.op, x, y)
                   /\ VFollows(i, r, Fetched, y)
    BY <2>5, <2>8, <2>10
  <2> QED
    BY <1>4, <2>1, <2>2, <2>3, <2>9, <2>10, <2>11
<1> QED
  BY <1>3, <1>4

LEMMA SameFollows ==
  ASSUME NEW i, NEW r, NEW s, NEW e, NEW c, NEW d, NEW y, NEW ps, VFollows(i, r, c, y),
         Says(call, i, r, s, e, y, d, ps),
         d.op = c.op, d.post_code = c.post_code, d.op_key_index = c.op_key_index
  PROVE  VLocated(i, r, s, e, d, ps)
<1>1. VFollows(i, r, d, y)
  BY DEF VFollows
<1> QED
  BY <1>1 DEF VLocated
-----------------------------------------------------------------------------
(* The steps while the operations of a vector's argument are executed.     *)
Among(i, r, s, e) ==
  /\ TypeOK /\ Laid(call, i, r, s, e) /\ i \in DOMAIN call.args
  /\ \/ ctx.op_key_index = s /\ ~HasPost /\ Closed(ctx)
     \/ ctx.op_key_index \in (s + 1)..(e - 1) /\ VLocated(i, r, s, e, ctx, buf.pieces)

Onward(i, r, s, e) ==
  /\ ctx'.op_key_index \in (s + 1)..e
  /\ VLocated(i, r, s, e, ctx', buf'.pieces)

(* What a code may be there.                                               *)
LEMMA CodesOfStages ==
  ASSUME NEW w, NEW i, NEW code, NEW op, NEW x, NEW y, VDoes(w, i, code, op, x, y)
  PROVE  /\ code \in RegisterCodes => Reckons(w, i, code, op, x, y)
         /\ code \in FilterCodes => x = "valued" /\ y = "valued"
         /\ code = "READ_POINTER" => Looks(w, i, code, op, x, y)
         /\ code \in {"SAVE_ADDR", "SAVE_REG", "SAVE_POINTER", "SAVE_STRUCT"} =>
              Puts(w, i, code, op, x, y)
         /\ code = "FOR_BREAK" => Loops(w, i, code, x, y)
         /\ code \notin {"READ_STD_STRING", "SAVE_STRING", "SAVE_STRING16", "SAVE_PTR_STRING",
                         "SAVE_PTR_STRING16", "SAVE_POINTER"}
BY DEF VDoes, Reckons, Looks, Puts, Loops, Fro, RegisterCodes, FilterCodes, AddrCodes

LEMMA RegisterStepOn ==
  ASSUME NEW i, NEW r, NEW s, NEW e, Among(i, r, s, e), RegisterStep
  PROVE  Onward(i, r, s, e)
<1> DEFINE c == Fetched
           ps == buf.pieces
<1>1. call \in Calls /\ c \in Contexts /\ ps \in Seq(Pieces)
  BY StateTypes DEF Among
<1>2. /\ Code \in RegisterCodes /\ Code # "SKIP" /\ call' = call /\ buf' = buf
      /\ ctx' = Effect(Code, c)
  BY OtherCodes DEF RegisterStep, Turn
<1>3. /\ c.op_key_index \in (s + 1)..e
      /\ \E x, y : /\ Says(call, i, r, s, e, x, c, ps)
                   /\ VDoes(call, i, Code, c.op, x, y) /\ VFollows(i, r, c, y)
  BY <1>2, FetchSays DEF Among
<1>4. PICK x, y : /\ Says(call, i, r, s, e, x, c, ps)
                  /\ VDoes(call, i, Code, c.op, x, y) /\ VFollows(i, r, c, y)
  BY <1>3
<1>5. Reckons(call, i, Code, c.op, x, y)
  BY <1>2, <1>4, CodesOfStages
<1>6. Says(call, i, r, s, e, y, ctx', ps)
  BY <1>1, <1>2, <1>4, <1>5, ReckonsSays DEF Among
<1>7. ctx'.op = c.op /\ ctx'.post_code = c.post_code /\ ctx'.op_key_index = c.op_key_index
  BY <1>1, <1>2, EffectKeeps
<1> HIDE DEF c, ps
<1>8. VLocated(i, r, s, e, ctx', ps)
  BY <1>4, <1>6, <1>7, SameFollows
<1> QED
  BY <1>2, <1>3, <1>7, <1>8 DEF Onward, ps

LEMMA ReadPointerOn ==
  ASSUME NEW i, NEW r, NEW s, NEW e, Among(i, r, s, e), ReadPointer
  PROVE  PointerLost' \/ Onward(i, r, s, e)
<1> DEFINE c == Fetched
           ps == buf.pieces
<1>1. /\ call \in Calls /\ c \in Contexts /\ ps \in Seq(Pieces) /\ faulted \in Seq(Operations)
  BY StateTypes DEF Among
<1>2. Code = "READ_POINTER" /\ Code # "SKIP" /\ call' = call /\ buf' = buf
  BY DEF ReadPointer, Turn
<1>3. PICK fault \in BOOLEAN :
        /\ MayFault(fault)
        /\ ctx' = [c EXCEPT !.pointer_value =
                     IF fault THEN 0 ELSE Word(call.mem, PointerAddr(c))]
  BY DEF ReadPointer
<1>4. /\ c.op_key_index \in (s + 1)..e /\ c.op.code = "READ_POINTER"
      /\ \E x, y : /\ Says(call, i, r, s, e, x, c, ps)
                   /\ VDoes(call, i, Code, c.op, x, y) /\ VFollows(i, r, c, y)
  BY <1>2, FetchSays DEF Among
<1>5. CASE fault
  <2>1. faulted' = Append(faulted, c.op) /\ c.op \in Operations
    BY <1>1, <1>3, <1>5, ContextFields DEF MayFault
  <2>2. Len(faulted) + 1 \in DOMAIN faulted' /\ faulted'[Len(faulted) + 1] = c.op
    BY <1>1, <2>1
  <2> QED
    BY <1>4, <2>2 DEF PointerLost
<1>6. CASE ~fault
  <2> DEFINE z == Word(call.mem, PointerAddr(c))
  <2>1. ctx' = [c EXCEPT !.pointer_value = z]
    BY <1>3, <1>6
  <2>2. PICK x, y : /\ Says(call, i, r, s, e, x, c, ps)
                    /\ VDoes(call, i, Code, c.op, x, y) /\ VFollows(i, r, c, y)
    BY <1>4
  <2>3. Looks(call, i, "READ_POINTER", c.op, x, y)
    BY <1>2, <2>2, CodesOfStages
  <2>4. Says(call, i, r, s, e, y, ctx', ps)
    BY <1>1, <2>1, <2>2, <2>3, LooksSays
  <2>5. ctx'.op = c.op /\ ctx'.post_code = c.post_code /\ ctx'.op_key_index = c.op_key_index
    BY <1>1, <2>1 DEF Contexts
  <2> HIDE DEF c, ps
  <2>6. VLocated(i, r, s, e, ctx', ps)
    BY <2>2, <2>4, <2>5, SameFollows
  <2> QED
    BY <1>2, <1>4, <2>5, <2>6 DEF Onward, ps
<1> QED
  BY <1>5, <1>6

LEMMA ForBreakOn ==
  ASSUME NEW i, NEW r, NEW s, NEW e, Among(i, r, s, e), ForBreak
  PROVE  \/ Onward(i, r, s, e)
         \/ ctx'.op_key_index = e /\ \E v : VectorIn(call, i, v, buf'.pieces)
<1> DEFINE c == Fetched
           ps == buf.pieces
<1>1. call \in Calls /\ c \in Contexts /\ ps \in Seq(Pieces) /\ s \in Nat /\ e \in Nat
  BY StateTypes DEF Among, Laid
<1>2. Code = "FOR_BREAK" /\ Code # "SKIP" /\ call' = call /\ buf' = buf
  BY DEF ForBreak, Turn
<1>3. ctx' = AfterTurn(c)
  BY DEF ForBreak, AfterTurn, LoopAt
<1>4. /\ c.op_key_index \in (s + 1)..e /\ c.post_code = "SKIP"
      /\ \E x, y : /\ Says(call, i, r, s, e, x, c, ps)
                   /\ VDoes(call, i, Code, c.op, x, y) /\ VFollows(i, r, c, y)
  BY <1>2, FetchSays DEF Among
<1>5. PICK x, y : /\ Says(call, i, r, s, e, x, c, ps)
                  /\ VDoes(call, i, Code, c.op, x, y) /\ VFollows(i, r, c, y)
  BY <1>4
<1>6. y = r[c.op_key_index] /\ ((x = "armed" /\ y = "b0") \/ (x = "b11" /\ y = "done"))
  BY <1>2, <1>4, <1>5, CodesOfStages DEF VFollows, Loops, Fro
<1>7. ctx'.post_code = "SKIP"
  BY <1>1, <1>3, <1>4 DEF AfterTurn, Contexts
<1>8. /\ y = "b0" => c.op_key_index \in (s + 1)..(e - 1)
      /\ y = "done" => c.op_key_index = e
  BY <1>1, <1>4, <1>6 DEF Among, Laid
<1> HIDE DEF c, ps
<1>9. CASE x = "armed"
  <2>1. ctx'.op_key_index = c.op_key_index /\ Says(call, i, r, s, e, "b0", ctx', ps)
    BY <1>1, <1>3, <1>5, <1>6, <1>8, <1>9, HeadSays
  <2>2. VFollows(i, r, ctx', "b0")
    BY <1>6, <1>7, <1>9, <2>1 DEF VFollows
  <2> QED
    BY <1>2, <1>4, <2>1, <2>2 DEF Onward, VLocated, ps
<1>10. CASE x = "b11"
  <2>1. \/ ctx'.op_key_index = c.op_key_index /\ \E v : VectorIn(call, i, v, ps)
        \/ /\ ctx'.op_key_index \in (s + 1)..(e - 1) /\ r[ctx'.op_key_index] = "b0"
           /\ Says(call, i, r, s, e, "b0", ctx', ps)
    BY <1>1, <1>3, <1>5, <1>10, TailSays
  <2>2. CASE ctx'.op_key_index = c.op_key_index /\ \E v : VectorIn(call, i, v, ps)
    BY <1>2, <1>6, <1>8, <1>10, <2>2 DEF ps
  <2>3. CASE /\ ctx'.op_key_index \in (s + 1)..(e - 1) /\ r[ctx'.op_key_index] = "b0"
             /\ Says(call, i, r, s, e, "b0", ctx', ps)
    <3>1. VFollows(i, r, ctx', "b0")
      BY <1>7, <2>3 DEF VFollows
    <3>2. ctx'.op_key_index \in (s + 1)..e
      BY <1>1, <2>3
    <3> QED
      BY <1>2, <2>3, <3>1, <3>2 DEF Onward, VLocated, ps
  <2> QED
    BY <2>1, <2>2, <2>3
<1> QED
  BY <1>6, <1>9, <1>10

LEMMA SaveRawOn ==
  ASSUME NEW i, NEW r, NEW s, NEW e, Among(i, r, s, e), IInv, SaveRaw
  PROVE  buf'.full \/ Onward(i, r, s, e)
<1> DEFINE c == Fetched
           ps == buf.pieces
<1>1. call \in Calls /\ c \in Contexts /\ ps \in Seq(Pieces) /\ buf \in Buffers
  BY StateTypes DEF Among
<1>2. /\ Code \in {"SAVE_ADDR", "SAVE_REG", "SAVE_POINTER"} /\ call' = call
      /\ Code # "SKIP" /\ Code # "SAVE_STRUCT"
      /\ ctx' = c /\ buf'.pieces \in Seq(Pieces)
  BY SaveRawIInv DEF SaveRaw, Turn, IInv, TypeOK, Buffers
<1>3. /\ c.op_key_index \in (s + 1)..e
      /\ \E x, y : /\ Says(call, i, r, s, e, x, c, ps)
                   /\ VDoes(call, i, Code, c.op, x, y) /\ VFollows(i, r, c, y)
  BY <1>2, FetchSays DEF Among
<1>4. PICK x, y : /\ Says(call, i, r, s, e, x, c, ps)
                  /\ VDoes(call, i, Code, c.op, x, y) /\ VFollows(i, r, c, y)
  BY <1>3
<1>5. Puts(call, i, Code, c.op, x, y) /\ Code # "SAVE_POINTER"
  BY <1>2, <1>4, CodesOfStages
<1>6. PICK value : /\ buf' = save_to_submit_buf(buf, value)
                   /\ value = IF Code = "SAVE_ADDR" THEN c.read_addr ELSE c.reg_value
  <2>1. c.read_addr = ctx.read_addr /\ c.reg_value = ctx.reg_value
    BY FetchFields DEF Among
  <2>2. CASE Code = "SAVE_ADDR"
    BY <2>1, <2>2 DEF SaveRaw
  <2>3. CASE Code = "SAVE_REG"
    BY <2>1, <2>3 DEF SaveRaw
  <2> QED
    BY <1>2, <1>5, <2>2, <2>3
<1>7. CASE ~HasRoom(buf, MAX_ELEMENT_SIZE + 1)
  BY <1>1, <1>6, <1>7, SavedPieces DEF save_to_submit_buf
<1>8. CASE HasRoom(buf, MAX_ELEMENT_SIZE + 1)
  <2> DEFINE p == Piece("raw", 8, 8, value)
  <2>1. buf'.pieces = Append(ps, p) /\ p.kind = "raw" /\ p.at = value
    BY <1>1, <1>6, <1>8, SavedPieces, PieceFields DEF save_to_submit_buf
  <2> HIDE DEF p, ps, c
  <2>2. p \in Pieces
    BY <1>1, <1>2, <2>1, AddedPiece
  <2>3. Says(call, i, r, s, e, y, c, Append(ps, p))
    BY <1>1, <1>2, <1>4, <1>5, <1>6, <2>1, <2>2, PutsSays
  <2>4. VLocated(i, r, s, e, ctx', buf'.pieces)
    BY <1>2, <1>4, <2>1, <2>3 DEF VLocated
  <2> QED
    BY <1>2, <1>3, <2>4 DEF Onward
<1> QED
  BY <1>7, <1>8

LEMMA SaveStructOn ==
  ASSUME NEW i, NEW r, NEW s, NEW e, Among(i, r, s, e), IInv, SaveStruct
  PROVE  buf'.full \/ Onward(i, r, s, e)
<1> DEFINE c == Fetched
           ps == buf.pieces
           n == Least(c.read_len, MAX_BYTES_ARR_SIZE)
<1>1. call \in Calls /\ c \in Contexts /\ ps \in Seq(Pieces) /\ buf \in Buffers
  BY StateTypes DEF Among
<1>2. /\ Code = "SAVE_STRUCT" /\ Code # "SKIP" /\ call' = call /\ buf'.pieces \in Seq(Pieces)
      /\ ctx' \in Contexts
  BY SaveStructIInv DEF SaveStruct, Turn, IInv, TypeOK, Buffers
<1>3. /\ c.op_key_index \in (s + 1)..e
      /\ \E x, y : /\ Says(call, i, r, s, e, x, c, ps)
                   /\ VDoes(call, i, Code, c.op, x, y) /\ VFollows(i, r, c, y)
  BY <1>2, FetchSays DEF Among
<1>4. PICK x, y : /\ Says(call, i, r, s, e, x, c, ps)
                  /\ VDoes(call, i, Code, c.op, x, y) /\ VFollows(i, r, c, y)
  BY <1>3
<1>5. Puts(call, i, "SAVE_STRUCT", c.op, x, y) /\ c.op.pre # "SET_READ_COUNT"
  <2>1. Puts(call, i, "SAVE_STRUCT", c.op, x, y)
    BY <1>2, <1>4, CodesOfStages
  <2> QED
    BY <2>1 DEF Puts
<1>6. /\ ctx' = [c EXCEPT !.read_len = n]
      /\ \E len : buf' = save_bytes_to_buf(buf, "bytes", len, n, c.read_addr)
  BY <1>5 DEF SaveStruct
<1>7. PICK len : buf' = save_bytes_to_buf(buf, "bytes", len, n, c.read_addr)
  BY <1>6
<1> DEFINE p == Piece("bytes", len, n, c.read_addr)
<1>8. CASE ~HasRoom(buf, MAX_BYTES_ARR_SIZE + 5)
  BY <1>1, <1>7, <1>8, SavedPieces DEF save_bytes_to_buf
<1>9. CASE HasRoom(buf, MAX_BYTES_ARR_SIZE + 5)
  <2>1. buf'.pieces = Append(ps, p) /\ p.kind = "bytes" /\ p.want = n /\ p.at = c.read_addr
    BY <1>1, <1>7, <1>9, SavedPieces, PieceFields DEF save_bytes_to_buf
  <2>2. /\ ctx'.op = c.op /\ ctx'.post_code = c.post_code /\ ctx'.op_key_index = c.op_key_index
        /\ ctx'.loop_count = c.loop_count /\ ctx'.break_count = c.break_count
        /\ ctx'.loop_index = c.loop_index /\ ctx'.reg_value = c.reg_value
        /\ ctx'.read_addr = c.read_addr /\ ctx'.read_len = n
        /\ ctx'.tmp_value = c.tmp_value /\ ctx'.pointer_value = c.pointer_value
    BY <1>1, <1>6 DEF Contexts
  <2>3. PICK m : m = n /\ m = Least(c.read_len, MAX_BYTES_ARR_SIZE)
    OBVIOUS
  <2> HIDE DEF p, ps, c, n
  <2>4. p \in Pieces
    BY <1>1, <1>2, <2>1, AddedPiece
  <2>5. Says(call, i, r, s, e, y, ctx', Append(ps, p))
    BY <1>1, <1>2, <1>4, <1>5, <2>1, <2>2, <2>3, <2>4, PutsSays
  <2>6. VLocated(i, r, s, e, ctx', buf'.pieces)
    BY <1>4, <2>1, <2>2, <2>5, SameFollows
  <2> QED
    BY <1>3, <2>2, <2>6 DEF Onward
<1> QED
  BY <1>8, <1>9

LEMMA ApplyFilterOn ==
  ASSUME NEW i, NEW r, NEW s, NEW e, Among(i, r, s, e), ApplyFilter
  PROVE  Onward(i, r, s, e)
<1> DEFINE c == Fetched
           ps == buf.pieces
<1>1. call \in Calls /\ c \in Contexts
  BY StateTypes DEF Among
<1>2. Code \in FilterCodes /\ Code # "SKIP" /\ buf' = buf
  BY OtherCodes DEF ApplyFilter, Turn
<1>3. /\ c.op_key_index \in (s + 1)..e
      /\ \E x, y : /\ Says(call, i, r, s, e, x, c, ps)
                   /\ VDoes(call, i, Code, c.op, x, y) /\ VFollows(i, r, c, y)
  BY <1>2, FetchSays DEF Among
<1>4. PICK x, y : /\ Says(call, i, r, s, e, x, c, ps)
                  /\ VDoes(call, i, Code, c.op, x, y) /\ VFollows(i, r, c, y)
  BY <1>3
<1>5. x = y
  BY <1>2, <1>4, CodesOfStages
<1>6. PICK u, v : ctx' = [c EXCEPT !.apply_filter = u, !.match_whitelist = v]
  BY DEF ApplyFilter
<1>7. /\ ctx'.op = c.op /\ ctx'.post_code = c.post_code /\ ctx'.op_key_index = c.op_key_index
      /\ ctx'.loop_count = c.loop_count /\ ctx'.break_count = c.break_count
      /\ ctx'.loop_index = c.loop_index /\ ctx'.reg_value = c.reg_value
      /\ ctx'.read_addr = c.read_addr /\ ctx'.read_len = c.read_len
      /\ ctx'.tmp_value = c.tmp_value /\ ctx'.pointer_value = c.pointer_value
  BY <1>1, <1>6 DEF Contexts
<1> HIDE DEF c, ps
<1>8. Says(call, i, r, s, e, y, ctx', ps)
  BY <1>4, <1>5, <1>7, SameSays
<1>9. VLocated(i, r, s, e, ctx', ps)
  BY <1>4, <1>7, <1>8, SameFollows
<1> QED
  BY <1>2, <1>3, <1>7, <1>9 DEF Onward, ps

(* The others do not occur there; giving up does not complete the vector.  *)
LEMMA OthersOn ==
  ASSUME NEW i, NEW r, NEW s, NEW e, Among(i, r, s, e)
  PROVE  /\ ~ReadStdString /\ ~SaveString /\ ~SavePtrString
         /\ GivesUp => ctx'.op_key_index < e
<1>1. ASSUME Code # "SKIP"
      PROVE  /\ Fetched.op_key_index \in (s + 1)..e
             /\ \E x, y : /\ VDoes(call, i, Code, Fetched.op, x, y)
                          /\ VFollows(i, r, Fetched, y)
  BY <1>1, FetchSays DEF Among
<1>2. ASSUME Code \in {"READ_STD_STRING", "SAVE_STRING", "SAVE_STRING16", "SAVE_PTR_STRING",
                       "SAVE_PTR_STRING16"}
      PROVE  FALSE
  BY <1>1, <1>2, CodesOfStages
<1>3. GivesUp => ctx'.op_key_index < e
  <2> SUFFICES ASSUME GivesUp PROVE ctx'.op_key_index < e
    OBVIOUS
  <2>1. Code \in {"READ_REG"} \cup FilterCodes /\ ctx' = Fetched
    BY DEF GivesUp, Turn
  <2>2. Code # "SKIP" /\ Code # "FOR_BREAK"
    BY <2>1, OtherCodes
  <2>3. PICK x, y : VDoes(call, i, Code, Fetched.op, x, y) /\ VFollows(i, r, Fetched, y)
    BY <1>1, <2>2
  <2>4. r[Fetched.op_key_index] # "done"
    BY <2>2, <2>3, OnlyLoopsEnd DEF VFollows
  <2>5. Fetched.op_key_index # e /\ Fetched.op_key_index \in (s + 1)..e /\ e \in Nat /\ s \in Nat
    BY <1>1, <2>2, <2>4 DEF Among, Laid
  <2> QED
    BY <2>1, <2>5
<1> QED
  BY <1>2, <1>3 DEF ReadStdString, SaveString, SavePtrString, Turn

-----------------------------------------------------------------------------
(* While read_args is before the operations of a vector's argument nothing *)
(* is said of it; among them it is where their stages tell, and behind     *)
(* them the vector is saved: unless the buffer is full or a pointer could  *)
(* not be read.                                                            *)
VectorTells(i, r, s, e) ==
  \/ buf.full \/ PointerLost
  \/ ctx.op_key_index <= s
  \/ /\ ctx.op_key_index \in (s + 1)..(e - 1)
     /\ phase = "read" => VLocated(i, r, s, e, ctx, buf.pieces)
  \/ ctx.op_key_index >= e /\ \E v : VectorIn(call, i, v, buf.pieces)

(* One step among the operations of the argument.                          *)
LEMMA StepOn ==
  ASSUME IInv, NEW i, NEW r, NEW s, NEW e, Among(i, r, s, e), Next
  PROVE  \/ buf'.full \/ PointerLost' \/ Onward(i, r, s, e)
         \/ ctx'.op_key_index = e /\ \E v : VectorIn(call, i, v, buf'.pieces)
         \/ phase' # "read" /\ ctx'.op_key_index < e
<1>1. ctx.op_key_index < e
  <2>1. s \in Nat /\ e \in Nat /\ s < e
    BY DEF Among, Laid
  <2> QED
    BY <2>1 DEF Among
<1>2. CASE ReadEnds
  BY <1>1, <1>2 DEF ReadEnds
<1>3. CASE GivesUp
  <2>1. phase' # "read"
    BY <1>3 DEF GivesUp
  <2> QED
    BY <1>3, <2>1, OthersOn
<1>4. CASE RegisterStep
  BY <1>4, RegisterStepOn
<1>5. CASE ReadPointer
  BY <1>5, ReadPointerOn
<1>6. CASE ForBreak
  BY <1>6, ForBreakOn
<1>7. CASE SaveRaw
  BY <1>7, SaveRawOn
<1>8. CASE SaveStruct
  BY <1>8, SaveStructOn
<1>9. CASE ApplyFilter
  BY <1>9, ApplyFilterOn
<1> QED
  BY <1>2, <1>3, <1>4, <1>5, <1>6, <1>7, <1>8, <1>9, OthersOn DEF Next

(* A post operation does not move on to the next one.                      *)
LEMMA PostStays ==
  ASSUME IInv, NEW q, LoopInv(q), Behind(ctx), HasPost, Next
  PROVE  ctx'.op_key_index <= ctx.op_key_index
<1> DEFINE k == ctx.op_key_index
<1>1. TypeOK /\ ctx \in Contexts /\ k \in Nat /\ ctx.loop_index \in Nat
  BY ContextFields DEF IInv, TypeOK
<1>2. /\ Fetched \in Contexts /\ Fetched.op_key_index = k
      /\ Fetched.loop_count = ctx.loop_count /\ Fetched.loop_index = ctx.loop_index
  BY <1>1, FetchFields
<1>3. CASE ~ForBreak
  BY <1>1, <1>2, <1>3, OtherStepsKeep
<1>4. CASE ForBreak
  <2> DEFINE at == IF Fetched.loop_count = 0 THEN Fetched.op_key_index ELSE Fetched.loop_index
  <2>1. ctx' = IF Fetched.loop_count >= Fetched.break_count
               THEN [Fetched EXCEPT !.loop_count = 0, !.break_count = 0, !.loop_index = 0]
               ELSE [Fetched EXCEPT !.loop_count = Fetched.loop_count + 1,
                                    !.loop_index = at, !.op_key_index = at]
    BY <1>4 DEF ForBreak
  <2> HIDE DEF at
  <2>2. ctx'.op_key_index \in {k, at}
    BY <1>2, <2>1 DEF Contexts
  <2>3. at <= k
    BY <1>1, <1>2 DEF Behind, at
  <2> QED
    BY <1>1, <2>2, <2>3
<1> QED
  BY <1>3, <1>4

LEMMA VectorStays ==
  ASSUME IInv, IInv', NEW q, LoopInv(q), LoopInv(q)', Behind(ctx), [Next]_vars,
         NEW i \in DOMAIN call.args, NEW r, NEW s, NEW e, Laid(call, i, r, s, e),
         VectorTells(i, r, s, e)
  PROVE  VectorTells(i, r, s, e)'
<1> DEFINE k == ctx.op_key_index
           n == ctx'.op_key_index
<1>1. /\ TypeOK /\ k \in Nat /\ n \in Nat /\ s \in Nat /\ e \in Nat /\ s < e /\ e \in call.ends
      /\ buf.pieces \in Seq(Pieces) /\ buf'.pieces \in Seq(Pieces)
  <2>1. TypeOK /\ TypeOK'
    BY DEF IInv
  <2>2. k \in Nat /\ n \in Nat
    <3>1. ctx \in Contexts /\ ctx' \in Contexts
      BY <2>1 DEF TypeOK
    <3> QED
      BY <3>1, ContextFields
  <2>3. buf.pieces \in Seq(Pieces) /\ buf'.pieces \in Seq(Pieces)
    BY <2>1 DEF TypeOK, Buffers
  <2> QED
    BY <2>1, <2>2, <2>3 DEF Laid
<1>2. /\ call' = call /\ n <= k + 1 /\ (e <= k => e <= n)
  BY <1>1, BehindStays
<1>3. /\ Grows(buf.pieces, buf'.pieces) /\ Grows(faulted, faulted')
      /\ buf.full => buf'.full
  BY NextGrows
<1>4. CASE buf.full \/ PointerLost
  <2>1. PointerLost => PointerLost'
    BY <1>3 DEF PointerLost, Grows
  <2> QED
    BY <1>3, <1>4, <2>1 DEF VectorTells
<1>5. CASE k >= e /\ \E v : VectorIn(call, i, v, buf.pieces)
  <2>1. \A v : VectorIn(call, i, v, buf.pieces) => VectorIn(call, i, v, buf'.pieces)
    BY <1>1, <1>3, StaysSaved
  <2>2. n >= e
    BY <1>1, <1>2, <1>5
  <2> QED
    BY <1>2, <1>5, <2>1, <2>2 DEF VectorTells
<1>6. CASE ctx' = ctx /\ (phase' = "read" => phase = "read" /\ buf' = buf) /\ k < e
  <2>2. VLocated(i, r, s, e, ctx, buf.pieces) /\ buf' = buf => VLocated(i, r, s, e, ctx, buf.pieces)'
    BY <1>2, <1>6 DEF VLocated, VFollows
  <2>3. CASE k <= s
    BY <1>6, <2>3 DEF VectorTells
  <2>4. CASE k \in (s + 1)..(e - 1) /\ (phase = "read" => VLocated(i, r, s, e, ctx, buf.pieces))
    BY <1>6, <2>2, <2>4 DEF VectorTells
  <2>5. CASE buf.full \/ PointerLost
    BY <1>4, <2>5
  <2> QED
    BY <1>1, <1>6, <2>3, <2>4, <2>5 DEF VectorTells
<1>7. CASE k < s
  BY <1>1, <1>2, <1>7 DEF VectorTells
<1>8. CASE k = s /\ HasPost /\ Next
  BY <1>1, <1>8, PostStays DEF VectorTells
<1>9. CASE Among(i, r, s, e) /\ Next
  <2>2. CASE buf'.full \/ PointerLost'
    BY <2>2 DEF VectorTells
  <2>3. CASE n = e /\ \E v : VectorIn(call, i, v, buf'.pieces)
    BY <1>1, <1>2, <2>3 DEF VectorTells
  <2>4. CASE phase' # "read" /\ n < e
    BY <1>1, <2>4 DEF VectorTells
  <2>5. CASE Onward(i, r, s, e)
    <3>1. n \in (s + 1)..e /\ VLocated(i, r, s, e, ctx', buf'.pieces)
      BY <2>5 DEF Onward
    <3>2. \/ n < e
          \/ n = e /\ \E v : VectorIn(call, i, v, buf'.pieces)
      BY <3>1, LandsIn
    <3>3. CASE n < e
      <4>1. VLocated(i, r, s, e, ctx, buf.pieces)'
        BY <1>2, <3>1 DEF VLocated, VFollows
      <4>2. n \in (s + 1)..(e - 1)
        BY <1>1, <3>1, <3>3
      <4> QED
        BY <4>1, <4>2 DEF VectorTells
    <3> QED
      BY <2>3, <3>2, <3>3
  <2> QED
    BY <1>9, <2>2, <2>3, <2>4, <2>5, StepOn
<1>10. CASE UNCHANGED vars /\ k < e
  BY <1>6, <1>10 DEF vars
<1>11. CASE Next /\ k >= s /\ k < e /\ ~(buf.full \/ PointerLost)
  <2>1. phase = "read"
    BY <1>11 DEF Next, RegisterStep, ReadPointer, ReadStdString, ForBreak, SaveRaw,
                SaveStruct, SaveString, SavePtrString, ApplyFilter, GivesUp, ReadEnds, Turn
  <2>2. CASE k = s /\ ~HasPost
    <3>1. q[s] = "out"
      <4>1. Placed(ops, ctx) /\ Marked(call, q)
        BY DEF LoopInv
      <4>2. s \in 0..Len(call.ops)
        BY <2>2, <4>1 DEF Placed, ops
      <4> QED
        BY <4>1, <4>2 DEF Marked, Laid
    <3>2. Closed(ctx)
      BY <2>2, <3>1 DEF LoopInv, Kept
    <3> QED
      BY <1>1, <1>9, <1>11, <2>2, <3>2 DEF Among
  <2>3. CASE k = s /\ HasPost
    BY <1>8, <1>11, <2>3
  <2>4. CASE k > s
    <3>1. k \in (s + 1)..(e - 1) /\ VLocated(i, r, s, e, ctx, buf.pieces)
      BY <1>1, <1>11, <2>1, <2>4 DEF VectorTells
    <3> QED
      BY <1>1, <1>9, <1>11, <3>1 DEF Among
  <2> QED
    BY <1>1, <1>11, <2>2, <2>3, <2>4
<1> QED
  BY <1>1, <1>4, <1>5, <1>7, <1>10, <1>11 DEF VectorTells

-----------------------------------------------------------------------------
(* A list of operations that goes from one stage of a vector to another,   *)
(* and is done nowhere before its end.                                     *)
Way(w, i, list, x, y) ==
  /\ list \in Seq(Operations)
  /\ \E r : /\ r[0] = x /\ r[Len(list)] = y
            /\ \A k \in 1..Len(list) : VGoes(w, i, list[k], r[k - 1], r[k])
            /\ \A k \in 0..Len(list) : r[k] = "done" => k = Len(list)

LEMMA WayOf ==
  ASSUME NEW w, NEW i, NEW list \in Seq(Operations), NEW labs,
         \A k \in 1..Len(list) : VGoes(w, i, list[k], labs[k], labs[k + 1]) /\ labs[k] # "done"
  PROVE  Way(w, i, list, labs[1], labs[Len(list) + 1])
<1> DEFINE r == [k \in 0..Len(list) |-> labs[k + 1]]
<1>1. Len(list) \in Nat
  OBVIOUS
<1>2. \A k \in 0..Len(list) : r[k] = labs[k + 1]
  OBVIOUS
<1>3. r[0] = labs[1] /\ r[Len(list)] = labs[Len(list) + 1]
  <2>1. 0 \in 0..Len(list) /\ Len(list) \in 0..Len(list) /\ 0 + 1 = 1
    BY <1>1
  <2> QED
    BY <1>2, <2>1
<1> HIDE DEF r
<1>4. ASSUME NEW k \in 1..Len(list) PROVE VGoes(w, i, list[k], r[k - 1], r[k])
  <2>1. k \in 0..Len(list) /\ k - 1 \in 0..Len(list) /\ (k - 1) + 1 = k
    BY <1>1
  <2>2. r[k] = labs[k + 1] /\ r[k - 1] = labs[k]
    BY <1>2, <2>1
  <2> QED
    BY <2>2
<1>5. ASSUME NEW k \in 0..Len(list), r[k] = "done" PROVE k = Len(list)
  <2>1. CASE k # Len(list)
    <3>1. k + 1 \in 1..Len(list)
      BY <1>1, <2>1
    <3>2. labs[k + 1] # "done"
      BY <3>1
    <3> QED
      BY <1>2, <1>5, <3>2
  <2> QED
    BY <2>1
<1> QED
  BY <1>3, <1>4, <1>5 DEF Way

LEMMA WayNone ==
  ASSUME NEW w, NEW i, NEW x, x # "done"
  PROVE  Way(w, i, <<>>, x, x)
<1> DEFINE r == [k \in 0..0 |-> x]
<1>1. <<>> \in Seq(Operations) /\ Len(<<>>) = 0 /\ r[0] = x
  OBVIOUS
<1> HIDE DEF r
<1>2. /\ \A k \in 1..0 : FALSE
      /\ \A k \in 0..0 : k = 0
  OBVIOUS
<1> QED
  BY <1>1, <1>2 DEF Way

LEMMA WayOne ==
  ASSUME NEW w, NEW i, NEW op \in Operations, NEW x, NEW y, VGoes(w, i, op, x, y), x # "done"
  PROVE  Way(w, i, <<op>>, x, y)
<1> DEFINE labs == <<x, y>>
<1>1. <<op>> \in Seq(Operations) /\ Len(<<op>>) = 1 /\ <<op>>[1] = op
  OBVIOUS
<1>2. labs[1] = x /\ labs[2] = y /\ 1 + 1 = 2
  OBVIOUS
<1> HIDE DEF labs
<1>3. \A k \in 1..Len(<<op>>) : /\ VGoes(w, i, <<op>>[k], labs[k], labs[k + 1])
                                /\ labs[k] # "done"
  BY <1>1, <1>2
<1>4. Way(w, i, <<op>>, labs[1], labs[Len(<<op>>) + 1])
  BY <1>1, <1>3, WayOf
<1> QED
  BY <1>1, <1>2, <1>4

LEMMA WayOn ==
  ASSUME NEW w, NEW i, NEW l, NEW m, NEW x, NEW y, NEW z,
         Way(w, i, l, x, y), Way(w, i, m, y, z), y # "done"
  PROVE  Way(w, i, l \o m, x, z)
<1>1. PICK r : /\ r[0] = x /\ r[Len(l)] = y
               /\ \A k \in 1..Len(l) : VGoes(w, i, l[k], r[k - 1], r[k])
               /\ \A k \in 0..Len(l) : r[k] = "done" => k = Len(l)
  BY DEF Way
<1>2. PICK q : /\ q[0] = y /\ q[Len(m)] = z
               /\ \A k \in 1..Len(m) : VGoes(w, i, m[k], q[k - 1], q[k])
               /\ \A k \in 0..Len(m) : q[k] = "done" => k = Len(m)
  BY DEF Way
<1>3. /\ l \in Seq(Operations) /\ m \in Seq(Operations) /\ l \o m \in Seq(Operations)
      /\ Len(l \o m) = Len(l) + Len(m) /\ Len(l) \in Nat /\ Len(m) \in Nat
  BY DEF Way
<1> DEFINE v == [k \in 0..Len(l \o m) |-> IF k <= Len(l) THEN r[k] ELSE q[k - Len(l)]]
<1>4. \A k \in 0..Len(l) : v[k] = r[k]
  BY <1>3
<1>5. ASSUME NEW k \in 0..Len(m) PROVE v[Len(l) + k] = q[k]
  <2>1. CASE k = 0
    <3>1. Len(l) + k = Len(l) /\ Len(l) \in 0..Len(l)
      BY <1>3, <2>1
    <3> HIDE DEF v
    <3> QED
      BY <1>1, <1>2, <1>4, <2>1, <3>1
  <2>2. CASE k # 0
    <3>1. /\ Len(l) + k \in 0..Len(l \o m) /\ ~(Len(l) + k <= Len(l))
          /\ (Len(l) + k) - Len(l) = k
      BY <1>3, <2>2
    <3> QED
      BY <3>1
  <2> QED
    BY <2>1, <2>2
<1> HIDE DEF v
<1>6. ASSUME NEW k \in 0..Len(l \o m)
      PROVE  k \in 0..Len(l) \/ \E j \in 1..Len(m) : k = Len(l) + j
  <2>1. CASE k <= Len(l)
    BY <1>3, <2>1
  <2>2. CASE ~(k <= Len(l))
    <3>1. k - Len(l) \in 1..Len(m) /\ k = Len(l) + (k - Len(l))
      BY <1>3, <2>2
    <3> QED
      BY <3>1
  <2> QED
    BY <2>1, <2>2
<1>7. ASSUME NEW k \in 1..Len(l \o m) PROVE VGoes(w, i, (l \o m)[k], v[k - 1], v[k])
  <2>1. CASE k \in 1..Len(l)
    <3>1. k \in 0..Len(l) /\ k - 1 \in 0..Len(l)
      BY <1>3, <2>1
    <3>2. (l \o m)[k] = l[k]
      BY <1>3, <2>1
    <3> QED
      BY <1>1, <1>4, <2>1, <3>1, <3>2
  <2>2. CASE \E j \in 1..Len(m) : k = Len(l) + j
    <3>1. PICK j \in 1..Len(m) : k = Len(l) + j
      BY <2>2
    <3>2. (l \o m)[k] = m[j]
      BY <1>3, <3>1
    <3>3. j \in 0..Len(m) /\ j - 1 \in 0..Len(m) /\ k - 1 = Len(l) + (j - 1)
      BY <1>3, <3>1
    <3>4. v[k] = q[j] /\ v[k - 1] = q[j - 1]
      BY <1>5, <3>1, <3>3
    <3> QED
      BY <1>2, <3>2, <3>4
  <2> QED
    BY <1>3, <1>6, <2>1, <2>2
<1>8. v[0] = x
  BY <1>1, <1>3, <1>4
<1>9. v[Len(l \o m)] = z
  <2>1. Len(m) \in 0..Len(m)
    BY <1>3
  <2> QED
    BY <1>2, <1>3, <1>5, <2>1
<1>10. ASSUME NEW k \in 0..Len(l \o m), v[k] = "done" PROVE k = Len(l \o m)
  <2>1. CASE k \in 0..Len(l)
    BY <1>1, <1>4, <1>10, <2>1
  <2>2. CASE \E j \in 1..Len(m) : k = Len(l) + j
    <3>1. PICK j \in 1..Len(m) : k = Len(l) + j
      BY <2>2
    <3>2. j \in 0..Len(m)
      BY <3>1
    <3>3. j = Len(m)
      BY <1>2, <1>5, <1>10, <3>1, <3>2
    <3> QED
      BY <1>3, <3>1, <3>3
  <2> QED
    BY <1>6, <2>1, <2>2
<1> QED
  BY <1>3, <1>7, <1>8, <1>9, <1>10 DEF Way

-----------------------------------------------------------------------------
(* The ways of the operations of a vector's argument.                      *)
LEMMA VGoesOnce ==
  ASSUME NEW w, NEW i, NEW op, op.post = "SKIP", NEW x, NEW y, VDoes(w, i, op.code, op, x, y)
  PROVE  VGoes(w, i, op, x, y)
BY DEF VGoes

LEMMA VGoesTwice ==
  ASSUME NEW w, NEW i, NEW op, op.post \notin {"SKIP", "FOR_BREAK", "READ_POINTER"},
         op.code # "FOR_BREAK", NEW x, NEW y, NEW m,
         VDoes(w, i, op.code, op, x, m), VDoes(w, i, op.post, op, m, y)
  PROVE  VGoes(w, i, op, x, y)
BY DEF VGoes

LEMMA FilterWay ==
  ASSUME NEW w, NEW i, NEW arg, arg.filters \in Seq(Nat)
  PROVE  Way(w, i, FilterOps(arg, "FILTER_VALUE"), "valued", "valued")
<1> DEFINE list == FilterOps(arg, "FILTER_VALUE")
           labs == [k \in 1..(Len(list) + 1) |-> "valued"]
<1>1. list \in Seq(Operations)
  BY FilterOpsWalk DEF FilterCodes
<1>2. /\ DOMAIN list = DOMAIN arg.filters
      /\ \A k \in DOMAIN arg.filters : list[k] = OpValue("FILTER_VALUE", arg.filters[k])
  BY DEF FilterOps
<1> HIDE DEF list
<1>3. \A k \in 1..Len(list) : labs[k] = "valued" /\ labs[k + 1] = "valued"
  BY <1>1
<1>4. labs[1] = "valued" /\ labs[Len(list) + 1] = "valued"
  BY <1>1
<1> HIDE DEF labs
<1>5. \A n : VGoes(w, i, OpValue("FILTER_VALUE", n), "valued", "valued")
  <2>1. \A n : /\ OpValue("FILTER_VALUE", n).code = "FILTER_VALUE"
               /\ OpValue("FILTER_VALUE", n).post = "SKIP"
               /\ VDoes(w, i, "FILTER_VALUE", OpValue("FILTER_VALUE", n), "valued", "valued")
    BY OpFields DEF VDoes, Reckons, FilterCodes
  <2> QED
    BY <2>1, VGoesOnce
<1>6. \A k \in 1..Len(list) : VGoes(w, i, list[k], labs[k], labs[k + 1]) /\ labs[k] # "done"
  <2>1. \A k \in 1..Len(list) : k \in DOMAIN list
    BY <1>1
  <2> QED
    BY <1>2, <1>3, <1>5, <2>1
<1>7. Way(w, i, list, labs[1], labs[Len(list) + 1])
  BY <1>1, <1>6, WayOf
<1> QED
  BY <1>4, <1>7 DEF list

LEMMA AddressWay ==
  ASSUME NEW w, NEW i, w.args[i].reg \in Nat, w.args[i].extra \in Seq(Operations),
         w.args[i].extra = <<>> \/ SavesAddress(w.args[i].extra)
  PROVE  Way(w, i, IF w.args[i].extra # <<>> THEN w.args[i].extra
                   ELSE <<add_read_save_reg(w.args[i].reg), Op("MOVE_REG_VALUE")>>,
             "start", "valued")
<1>1. CASE w.args[i].extra = <<>>
  <2> DEFINE read == add_read_save_reg(w.args[i].reg)
             move == Op("MOVE_REG_VALUE")
             list == <<read, move>>
             labs == <<"start", "saved", "valued">>
  <2>1. read \in Operations /\ move \in Operations
    BY DEF add_read_save_reg, ReadReg, Op, Operations, Codes, RegisterCodes
  <2>2. VGoes(w, i, read, "start", "saved")
    <3>1. /\ read.code = "READ_REG" /\ read.post = "SAVE_REG"
          /\ read.pre = "SET_REG_INDEX" /\ read.value = w.args[i].reg
      BY OpFields DEF add_read_save_reg
    <3> HIDE DEF read
    <3>2. /\ VDoes(w, i, "READ_REG", read, "start", "value")
          /\ VDoes(w, i, "SAVE_REG", read, "value", "saved")
      BY <3>1 DEF VDoes, Reckons, Puts, Fro
    <3> QED
      BY <3>1, <3>2, VGoesTwice
  <2>3. VGoes(w, i, move, "saved", "valued")
    <3>1. /\ move.code = "MOVE_REG_VALUE" /\ move.post = "SKIP"
          /\ VDoes(w, i, "MOVE_REG_VALUE", move, "saved", "valued")
      BY OpFields DEF VDoes, Reckons, Fro
    <3> HIDE DEF move
    <3> QED
      BY <3>1, VGoesOnce
  <2>4. list \in Seq(Operations) /\ Len(list) = 2 /\ list[1] = read /\ list[2] = move
    BY <2>1
  <2>5. labs[1] = "start" /\ labs[2] = "saved" /\ labs[3] = "valued"
    OBVIOUS
  <2> HIDE DEF read, move, list, labs
  <2>6. \A k \in 1..Len(list) : VGoes(w, i, list[k], labs[k], labs[k + 1]) /\ labs[k] # "done"
    BY <2>2, <2>3, <2>4, <2>5
  <2>7. Way(w, i, list, labs[1], labs[Len(list) + 1])
    BY <2>4, <2>6, WayOf
  <2> QED
    BY <1>1, <2>4, <2>5, <2>7 DEF list, read, move
<1>2. CASE w.args[i].extra # <<>>
  <2> DEFINE list == w.args[i].extra
             labs == [k \in 1..(Len(list) + 1) |-> IF k <= Len(list) THEN "start" ELSE "valued"]
  <2>1. list \in Seq(Operations) /\ SavesAddress(list)
    BY <1>2
  <2>2. ASSUME NEW op, AddressOp(op) PROVE VGoes(w, i, op, "start", "start")
    <3>1. CASE op.code = "READ_REG" /\ op.post = "MOVE_REG_VALUE"
      <4>1. /\ VDoes(w, i, "READ_REG", op, "start", "start")
            /\ VDoes(w, i, "MOVE_REG_VALUE", op, "start", "start")
        BY DEF VDoes, Reckons, AddrCodes
      <4> QED
        BY <3>1, <4>1, VGoesTwice
    <3>2. CASE /\ op.code \in {"ADD_REG", "SUB_REG", "ADD_OFFSET", "SUB_OFFSET",
                               "READ_POINTER", "MOVE_POINTER_VALUE"}
               /\ op.post = "SKIP"
      <4>1. VDoes(w, i, op.code, op, "start", "start")
        BY <3>2 DEF VDoes, Reckons, Looks, Fro, AddrCodes
      <4> QED
        BY <3>2, <4>1, VGoesOnce
    <3> QED
      BY <2>2, <3>1, <3>2 DEF AddressOp
  <2>3. VGoes(w, i, Op("SAVE_ADDR"), "start", "valued")
    <3>1. /\ Op("SAVE_ADDR").code = "SAVE_ADDR" /\ Op("SAVE_ADDR").post = "SKIP"
          /\ VDoes(w, i, "SAVE_ADDR", Op("SAVE_ADDR"), "start", "valued")
      BY <1>2, OpFields DEF VDoes, Puts, Fro
    <3> QED
      BY <3>1, VGoesOnce
  <2>4. Len(list) \in Nat /\ Len(list) # 0
    BY <1>2, <2>1
  <2>5. /\ \A k \in 1..Len(list) : labs[k] = "start"
        /\ labs[1] = "start" /\ labs[Len(list) + 1] = "valued"
    BY <2>4
  <2> HIDE DEF list, labs
  <2>6. ASSUME NEW k \in 1..Len(list)
        PROVE  VGoes(w, i, list[k], labs[k], labs[k + 1]) /\ labs[k] # "done"
    <3>1. CASE k = Len(list)
      BY <2>1, <2>3, <2>5, <3>1 DEF SavesAddress
    <3>2. CASE k # Len(list)
      <4>1. k \in 1..(Len(list) - 1) /\ k + 1 \in 1..Len(list)
        BY <2>4, <3>2
      <4> QED
        BY <2>1, <2>2, <2>5, <4>1 DEF SavesAddress
    <3> QED
      BY <3>1, <3>2
  <2>7. Way(w, i, list, labs[1], labs[Len(list) + 1])
    BY <2>1, <2>6, WayOf
  <2> QED
    BY <1>2, <2>5, <2>7 DEF list
<1> QED
  BY <1>1, <1>2

-----------------------------------------------------------------------------
LEMMA IovecWay ==
  ASSUME NEW w, NEW i
  PROVE  Way(w, i, iovec_ops, "b1", "b9")
<1> DEFINE one == set_read_len(SIZEOF_IOVEC)
           save == Op("SAVE_STRUCT")
           most == set_read_len(MAX_BUF_READ_SIZE)
           blen == build_read_ptr_len(8)
           base == Op("READ_POINTER")
           move == Op("MOVE_POINTER_VALUE")
           iov == <<one, save, most, blen, base, move, save>>
           labs == <<"b1", "b2", "b3", "b4", "b6", "b7", "b8", "b9">>
<1>1. /\ one \in Operations /\ save \in Operations /\ most \in Operations
      /\ blen \in Operations /\ base \in Operations /\ move \in Operations
  BY OpsOfTypes DEF SIZEOF_IOVEC, MAX_BUF_READ_SIZE
<1>2. VGoes(w, i, one, "b1", "b2") /\ VGoes(w, i, most, "b3", "b4")
  <2>1. /\ one.code = "SET_READ_LEN" /\ one.post = "SKIP" /\ one.value = SIZEOF_IOVEC
        /\ most.code = "SET_READ_LEN" /\ most.post = "SKIP" /\ most.value = MAX_BUF_READ_SIZE
    BY OpFields
  <2> HIDE DEF one, most
  <2>2. /\ VDoes(w, i, "SET_READ_LEN", one, "b1", "b2")
        /\ VDoes(w, i, "SET_READ_LEN", most, "b3", "b4")
    BY <2>1 DEF VDoes, Reckons, Fro
  <2> QED
    BY <2>1, <2>2, VGoesOnce
<1>3. VGoes(w, i, save, "b2", "b3") /\ VGoes(w, i, save, "b8", "b9")
  <2>1. save.code = "SAVE_STRUCT" /\ save.post = "SKIP" /\ save.pre = "SKIP"
    BY OpFields
  <2> HIDE DEF save
  <2>2. /\ VDoes(w, i, "SAVE_STRUCT", save, "b2", "b3")
        /\ VDoes(w, i, "SAVE_STRUCT", save, "b8", "b9")
    BY <2>1 DEF VDoes, Puts, Fro
  <2> QED
    BY <2>1, <2>2, VGoesOnce
<1>4. VGoes(w, i, blen, "b4", "b6")
  <2>1. /\ blen.code = "READ_POINTER" /\ blen.post = "SET_READ_LEN_POINTER_VALUE"
        /\ blen.pre = "ADD_OFFSET" /\ blen.value = 8
    BY OpFields DEF build_read_ptr_len
  <2> HIDE DEF blen
  <2>2. /\ VDoes(w, i, "READ_POINTER", blen, "b4", "b5")
        /\ VDoes(w, i, "SET_READ_LEN_POINTER_VALUE", blen, "b5", "b6")
    BY <2>1 DEF VDoes, Reckons, Looks, Fro
  <2> QED
    BY <2>1, <2>2, VGoesTwice
<1>5. VGoes(w, i, base, "b6", "b7") /\ VGoes(w, i, move, "b7", "b8")
  <2>1. /\ base.code = "READ_POINTER" /\ base.post = "SKIP" /\ base.pre = "SKIP"
        /\ move.code = "MOVE_POINTER_VALUE" /\ move.post = "SKIP"
    BY OpFields
  <2> HIDE DEF base, move
  <2>2. /\ VDoes(w, i, "READ_POINTER", base, "b6", "b7")
        /\ VDoes(w, i, "MOVE_POINTER_VALUE", move, "b7", "b8")
    BY <2>1 DEF VDoes, Reckons, Looks, Fro
  <2> QED
    BY <2>1, <2>2, VGoesOnce
<1>6. iov = iovec_ops
  BY DEF iovec_ops
<1> HIDE DEF one, save, most, blen, base, move
<1>7. iov \in Seq(Operations)
  BY <1>1
<1>8. /\ Len(iov) = 7
      /\ iov[1] = one /\ iov[2] = save /\ iov[3] = most /\ iov[4] = blen
      /\ iov[5] = base /\ iov[6] = move /\ iov[7] = save
  OBVIOUS
<1>9. /\ labs[1] = "b1" /\ labs[2] = "b2" /\ labs[3] = "b3" /\ labs[4] = "b4"
      /\ labs[5] = "b6" /\ labs[6] = "b7" /\ labs[7] = "b8" /\ labs[8] = "b9"
  OBVIOUS
<1> HIDE DEF iov, labs
<1>10. \A k \in 1..Len(iov) : VGoes(w, i, iov[k], labs[k], labs[k + 1]) /\ labs[k] # "done"
  BY <1>2, <1>3, <1>4, <1>5, <1>8, <1>9
<1>11. Way(w, i, iov, labs[1], labs[Len(iov) + 1])
  BY <1>7, <1>10, WayOf
<1> QED
  BY <1>6, <1>8, <1>9, <1>11

LEMMA LoopWay ==
  ASSUME NEW w, NEW i
  PROVE  Way(w, i, IovecLoop, "armed", "done")
<1> DEFINE tmp == Op("SET_TMP_VALUE")
           back == Op("MOVE_TMP_VALUE")
           add == OpValue("ADD_OFFSET", SIZEOF_IOVEC)
           for == Op("FOR_BREAK")
           open == <<for>>
           keep == <<tmp>>
           end == <<back, add>>
           iov == iovec_ops
<1>1. /\ tmp \in Operations /\ back \in Operations /\ add \in Operations /\ for \in Operations
  BY OpsOfTypes DEF SIZEOF_IOVEC
<1>2. IovecLoop = open \o (keep \o iov \o end) \o open
  BY DEF IovecLoop, Loop
<1>3. /\ VGoes(w, i, for, "armed", "b0") /\ VGoes(w, i, for, "b11", "done")
      /\ VGoes(w, i, tmp, "b0", "b1") /\ VGoes(w, i, back, "b9", "b10")
      /\ VGoes(w, i, add, "b10", "b11")
  <2>1. /\ for.code = "FOR_BREAK" /\ for.post = "SKIP"
        /\ tmp.code = "SET_TMP_VALUE" /\ tmp.post = "SKIP"
        /\ back.code = "MOVE_TMP_VALUE" /\ back.post = "SKIP"
        /\ add.code = "ADD_OFFSET" /\ add.post = "SKIP" /\ add.value = SIZEOF_IOVEC
    BY OpFields
  <2> HIDE DEF for, tmp, back, add
  <2>2. /\ VDoes(w, i, "FOR_BREAK", for, "armed", "b0")
        /\ VDoes(w, i, "FOR_BREAK", for, "b11", "done")
    BY DEF VDoes, Loops, Fro
  <2>3. /\ VDoes(w, i, "SET_TMP_VALUE", tmp, "b0", "b1")
        /\ VDoes(w, i, "MOVE_TMP_VALUE", back, "b9", "b10")
        /\ VDoes(w, i, "ADD_OFFSET", add, "b10", "b11")
    BY <2>1 DEF VDoes, Reckons, Fro
  <2> QED
    BY <2>1, <2>2, <2>3, VGoesOnce
<1> HIDE DEF tmp, back, add, for
<1>4. Way(w, i, open, "armed", "b0") /\ Way(w, i, open, "b11", "done")
  BY <1>1, <1>3, WayOne
<1>5. Way(w, i, keep, "b0", "b1") /\ Way(w, i, iov, "b1", "b9")
  BY <1>1, <1>3, WayOne, IovecWay
<1>6. Way(w, i, end, "b9", "b11")
  <2> DEFINE labs == <<"b9", "b10", "b11">>
  <2>1. end \in Seq(Operations) /\ Len(end) = 2 /\ end[1] = back /\ end[2] = add
    BY <1>1
  <2>2. labs[1] = "b9" /\ labs[2] = "b10" /\ labs[3] = "b11"
    OBVIOUS
  <2> HIDE DEF end, labs
  <2>3. \A k \in 1..Len(end) : VGoes(w, i, end[k], labs[k], labs[k + 1]) /\ labs[k] # "done"
    BY <1>3, <2>1, <2>2
  <2>4. Way(w, i, end, labs[1], labs[Len(end) + 1])
    BY <2>1, <2>3, WayOf
  <2> QED
    BY <2>1, <2>2, <2>4
<1> HIDE DEF open, keep, end, iov
<1>7. Way(w, i, keep \o iov, "b0", "b9")
  BY <1>5, WayOn
<1>8. Way(w, i, keep \o iov \o end, "b0", "b11")
  BY <1>6, <1>7, WayOn
<1>9. Way(w, i, open \o (keep \o iov \o end), "armed", "b11")
  BY <1>4, <1>8, WayOn
<1>10. Way(w, i, open \o (keep \o iov \o end) \o open, "armed", "done")
  BY <1>4, <1>9, WayOn
<1> QED
  BY <1>2, <1>10

LEMMA MsghdrWay ==
  ASSUME NEW w, NEW i, InMessage(w, i)
  PROVE  Way(w, i, MsghdrType.ops, "valued", "done")
<1> DEFINE save == Op("SAVE_STRUCT")
           tmp == Op("SET_TMP_VALUE")
           back == Op("MOVE_TMP_VALUE")
           size == set_read_len(SIZEOF_MSGHDR)
           most == set_read_len(MAX_BUF_READ_SIZE)
           clen == build_read_ptr_len(40)
           cptr == build_read_ptr_addr(32)
           vlen == build_read_ptr_break_count(24)
           vptr == build_read_ptr_addr(16)
           front == <<size, save, tmp, most, clen, cptr, save, back, vlen, vptr>>
           labs == <<"valued", "sized", "struct", "kept", "kept", "kept", "kept", "control",
                     "back", "bounded", "armed">>
<1>1. /\ save \in Operations /\ tmp \in Operations /\ back \in Operations
      /\ size \in Operations /\ most \in Operations /\ clen \in Operations
      /\ cptr \in Operations /\ vlen \in Operations /\ vptr \in Operations
  BY OpsOfTypes DEF SIZEOF_MSGHDR, MAX_BUF_READ_SIZE
<1>2. MsghdrType.ops = front \o IovecLoop
  BY DEF MsghdrType, Type
<1>3. VGoes(w, i, size, "valued", "sized") /\ VGoes(w, i, most, "kept", "kept")
  <2>1. /\ size.code = "SET_READ_LEN" /\ size.post = "SKIP" /\ size.value = SIZEOF_MSGHDR
        /\ most.code = "SET_READ_LEN" /\ most.post = "SKIP"
    BY OpFields
  <2> HIDE DEF size, most
  <2>2. /\ VDoes(w, i, "SET_READ_LEN", size, "valued", "sized")
        /\ VDoes(w, i, "SET_READ_LEN", most, "kept", "kept")
    BY <2>1 DEF VDoes, Reckons, Fro
  <2> QED
    BY <2>1, <2>2, VGoesOnce
<1>4. VGoes(w, i, save, "sized", "struct") /\ VGoes(w, i, save, "kept", "control")
  <2>1. save.code = "SAVE_STRUCT" /\ save.post = "SKIP" /\ save.pre = "SKIP"
    BY OpFields
  <2> HIDE DEF save
  <2>2. /\ VDoes(w, i, "SAVE_STRUCT", save, "sized", "struct")
        /\ VDoes(w, i, "SAVE_STRUCT", save, "kept", "control")
    BY <2>1 DEF VDoes, Puts, Fro
  <2> QED
    BY <2>1, <2>2, VGoesOnce
<1>5. VGoes(w, i, tmp, "struct", "kept") /\ VGoes(w, i, back, "control", "back")
  <2>1. /\ tmp.code = "SET_TMP_VALUE" /\ tmp.post = "SKIP"
        /\ back.code = "MOVE_TMP_VALUE" /\ back.post = "SKIP"
    BY OpFields
  <2> HIDE DEF tmp, back
  <2>2. /\ VDoes(w, i, "SET_TMP_VALUE", tmp, "struct", "kept")
        /\ VDoes(w, i, "MOVE_TMP_VALUE", back, "control", "back")
    BY <2>1 DEF VDoes, Reckons, Fro
  <2> QED
    BY <2>1, <2>2, VGoesOnce
<1>6. VGoes(w, i, clen, "kept", "kept") /\ VGoes(w, i, cptr, "kept", "kept")
  <2>1. /\ clen.code = "READ_POINTER" /\ clen.post = "SET_READ_LEN_POINTER_VALUE"
        /\ cptr.code = "READ_POINTER" /\ cptr.post = "MOVE_POINTER_VALUE"
    BY OpFields DEF build_read_ptr_len, build_read_ptr_addr
  <2> HIDE DEF clen, cptr
  <2>2. /\ VDoes(w, i, "READ_POINTER", clen, "kept", "kept")
        /\ VDoes(w, i, "SET_READ_LEN_POINTER_VALUE", clen, "kept", "kept")
        /\ VDoes(w, i, "READ_POINTER", cptr, "kept", "kept")
        /\ VDoes(w, i, "MOVE_POINTER_VALUE", cptr, "kept", "kept")
    BY <2>1 DEF VDoes, Reckons, Looks, Fro
  <2> QED
    BY <2>1, <2>2, VGoesTwice
<1>7. VGoes(w, i, vlen, "back", "bounded") /\ VGoes(w, i, vptr, "bounded", "armed")
  <2>1. /\ vlen.code = "READ_POINTER" /\ vlen.post = "SET_BREAK_COUNT_POINTER_VALUE"
        /\ vlen.pre = "ADD_OFFSET" /\ vlen.value = 24
        /\ vptr.code = "READ_POINTER" /\ vptr.post = "MOVE_POINTER_VALUE"
        /\ vptr.pre = "ADD_OFFSET" /\ vptr.value = 16
    BY OpFields DEF build_read_ptr_break_count, build_read_ptr_addr
  <2> HIDE DEF vlen, vptr
  <2>2. /\ VDoes(w, i, "READ_POINTER", vlen, "back", "counted")
        /\ VDoes(w, i, "SET_BREAK_COUNT_POINTER_VALUE", vlen, "counted", "bounded")
        /\ VDoes(w, i, "READ_POINTER", vptr, "bounded", "based")
        /\ VDoes(w, i, "MOVE_POINTER_VALUE", vptr, "based", "armed")
    BY <2>1 DEF VDoes, Reckons, Looks, Fro
  <2> QED
    BY <2>1, <2>2, VGoesTwice
<1> HIDE DEF save, tmp, back, size, most, clen, cptr, vlen, vptr
<1>8. front \in Seq(Operations)
  BY <1>1
<1>9. /\ Len(front) = 10
      /\ front[1] = size /\ front[2] = save /\ front[3] = tmp /\ front[4] = most
      /\ front[5] = clen /\ front[6] = cptr /\ front[7] = save /\ front[8] = back
      /\ front[9] = vlen /\ front[10] = vptr
  OBVIOUS
<1>10. /\ labs[1] = "valued" /\ labs[2] = "sized" /\ labs[3] = "struct" /\ labs[4] = "kept"
       /\ labs[5] = "kept" /\ labs[6] = "kept" /\ labs[7] = "kept" /\ labs[8] = "control"
       /\ labs[9] = "back" /\ labs[10] = "bounded" /\ labs[11] = "armed"
  OBVIOUS
<1> HIDE DEF front, labs
<1>11. \A k \in 1..Len(front) :
         VGoes(w, i, front[k], labs[k], labs[k + 1]) /\ labs[k] # "done"
  BY <1>3, <1>4, <1>5, <1>6, <1>7, <1>9, <1>10
<1>12. Way(w, i, front, labs[1], labs[Len(front) + 1])
  BY <1>8, <1>11, WayOf
<1>13. Way(w, i, front, "valued", "armed")
  BY <1>9, <1>10, <1>12
<1>14. Way(w, i, IovecLoop, "armed", "done")
  BY LoopWay
<1>15. Way(w, i, front \o IovecLoop, "valued", "done")
  BY <1>13, <1>14, WayOn
<1> QED
  BY <1>2, <1>15

LEMMA RegFrontWay ==
  ASSUME NEW w, NEW i, NEW reg, NEW list \in Seq(Operations), list = IovecRegType(reg).ops,
         VGoes(w, i, build_read_reg_break_count(reg), "valued", "bounded"),
         VGoes(w, i, Op("SAVE_REG"), "bounded", "armed")
  PROVE  Way(w, i, list, "valued", "done")
<1> DEFINE count == build_read_reg_break_count(reg)
           save == Op("SAVE_REG")
           front == <<count, save>>
           labs == <<"valued", "bounded", "armed">>
           S == Operations \cup {count, save}
<1>1. list = front \o IovecLoop
  BY DEF IovecRegType, Type
<1>2. Way(w, i, IovecLoop, "armed", "done") /\ IovecLoop \in Seq(Operations)
  BY LoopWay DEF Way
<1>3. count.value = reg
  BY OpFields DEF build_read_reg_break_count
<1>4. save \in Operations
  BY OpsOfTypes
<1> HIDE DEF count, save
<1>5. front \in Seq(S) /\ Len(front) = 2 /\ front[1] = count /\ front[2] = save
  OBVIOUS
<1>6. IovecLoop \in Seq(S)
  BY <1>2
<1> HIDE DEF front, S
<1>7. (front \o IovecLoop)[1] = count /\ Len(front \o IovecLoop) = 2 + Len(IovecLoop)
  <2>1. /\ Len(front \o IovecLoop) = Len(front) + Len(IovecLoop)
        /\ \A k \in 1..Len(front) : (front \o IovecLoop)[k] = front[k]
    BY <1>5, <1>6, JoinedSeqs
  <2> QED
    BY <1>5, <2>1
<1>8. count \in Operations
  <2>1. Len(list) # 0 /\ list[1] = count
    BY <1>1, <1>2, <1>7
  <2> QED
    BY <2>1
<1>9. front \in Seq(Operations)
  BY <1>4, <1>8 DEF front
<1>10. labs[1] = "valued" /\ labs[2] = "bounded" /\ labs[3] = "armed"
  OBVIOUS
<1>11. VGoes(w, i, count, "valued", "bounded") /\ VGoes(w, i, save, "bounded", "armed")
  BY DEF count, save
<1> HIDE DEF labs
<1>12. \A k \in 1..Len(front) :
         VGoes(w, i, front[k], labs[k], labs[k + 1]) /\ labs[k] # "done"
  BY <1>5, <1>10, <1>11
<1>13. Way(w, i, front, labs[1], labs[Len(front) + 1])
  BY <1>9, <1>12, WayOf
<1>14. Way(w, i, front, "valued", "armed")
  BY <1>5, <1>10, <1>13
<1>15. Way(w, i, front \o IovecLoop, "valued", "done")
  BY <1>2, <1>14, WayOn
<1> QED
  BY <1>1, <1>15

LEMMA IovecRegWay ==
  ASSUME NEW w, NEW i, ~InMessage(w, i), w.args[i].type.ops \in Seq(Operations),
         w.args[i].type.ops = IovecRegType(w.args[i].type.ops[1].value).ops
  PROVE  Way(w, i, w.args[i].type.ops, "valued", "done")
<1> DEFINE reg == w.args[i].type.ops[1].value
           count == build_read_reg_break_count(reg)
           save == Op("SAVE_REG")
<1>1. /\ count.code = "READ_REG" /\ count.post = "SET_BREAK_COUNT_REG_VALUE"
      /\ count.pre = "SET_REG_INDEX" /\ count.value = reg
      /\ save.code = "SAVE_REG" /\ save.post = "SKIP"
  BY OpFields DEF build_read_reg_break_count
<1> HIDE DEF count, save
<1>2. /\ VDoes(w, i, "READ_REG", count, "valued", "counting")
      /\ VDoes(w, i, "SET_BREAK_COUNT_REG_VALUE", count, "counting", "bounded")
      /\ VDoes(w, i, "SAVE_REG", save, "bounded", "armed")
  BY <1>1, Zenon DEF VDoes, Reckons, Puts, Fro
<1>3. VGoes(w, i, count, "valued", "bounded") /\ VGoes(w, i, save, "bounded", "armed")
  BY <1>1, <1>2, VGoesOnce, VGoesTwice
<1> HIDE DEF reg
<1> QED
  BY <1>3, RegFrontWay DEF count, save, reg

(* The whole argument.                                                     *)
LEMMA VectorWay ==
  ASSUME NEW w, ArgsOfPoint(w.args), OwnVectors(w), NEW i \in DOMAIN w.args,
         w.args[i].type.name \in {"msghdr", "iovec_reg"}, read_more(w.args[i], w.side)
  PROVE  Way(w, i, get_op_list(w.args[i], w.side), "start", "done")
<1> DEFINE arg == w.args[i]
           None == <<>>
           address == IF arg.extra # <<>> THEN arg.extra
                      ELSE <<add_read_save_reg(arg.reg), Op("MOVE_REG_VALUE")>>
           values == FilterOps(arg, "FILTER_VALUE")
           list == arg.type.ops
<1>1. /\ arg.reg \in Nat /\ arg.filters \in Seq(Nat) /\ list \in Seq(Operations)
      /\ arg.extra \in Seq(Operations)
  BY DEF ArgsOfPoint
<1>2. /\ arg.type = MsghdrType \/ arg.type = IovecRegType(arg.type.ops[1].value)
      /\ arg.reg # REG_ARM64_MAX /\ (arg.extra = <<>> \/ SavesAddress(arg.extra))
  BY DEF OwnVectors
<1>3. ~IsText(arg) /\ ~IsBuffer(arg)
  <2>1. arg.type.parent = "struct"
    BY <1>2 DEF MsghdrType, IovecRegType, Type
  <2>2. arg.type.name # "string" /\ arg.type.name # "std"
    OBVIOUS
  <2> QED
    BY <2>1, <2>2 DEF IsText, IsBuffer
<1>4. get_op_list(arg, w.side) = address \o values \o (list \o None)
  <2> HIDE DEF arg
  <2> QED
    BY <1>2, <1>3 DEF get_op_list, arg
<1>5. list \o None = list
  BY <1>1
<1>6. Way(w, i, address, "start", "valued")
  BY <1>1, <1>2, AddressWay
<1>7. Way(w, i, values, "valued", "valued")
  BY <1>1, FilterWay
<1>8. Way(w, i, list, "valued", "done")
  <2>1. CASE InMessage(w, i)
    <3>1. arg.type = MsghdrType
      BY <1>2, <2>1 DEF InMessage, IovecRegType, Type
    <3> QED
      BY <2>1, <3>1, MsghdrWay
  <2>2. CASE ~InMessage(w, i)
    <3>1. list = IovecRegType(arg.type.ops[1].value).ops
      BY <1>2, <2>2 DEF InMessage, MsghdrType, Type
    <3> QED
      BY <1>1, <2>2, <3>1, IovecRegWay
  <2> QED
    BY <2>1, <2>2
<1> HIDE DEF address, values, list, arg, None
<1>9. Way(w, i, address \o values, "start", "valued")
  BY <1>6, <1>7, WayOn
<1>10. Way(w, i, address \o values \o list, "start", "done")
  BY <1>8, <1>9, WayOn
<1> QED
  BY <1>4, <1>5, <1>10 DEF arg

-----------------------------------------------------------------------------
(* The operations of an argument keep their places in the whole list.      *)
Leads(l, m) == Len(l) <= Len(m) /\ \A k \in 1..Len(l) : m[k] = l[k]

LEMMA LeadsOn ==
  ASSUME NEW S, NEW l \in Seq(S), NEW m \in Seq(S), NEW x \in Seq(S), Leads(l, m)
  PROVE  Leads(l, m \o x)
<1>1. /\ Len(m \o x) = Len(m) + Len(x) /\ Len(l) \in Nat /\ Len(m) \in Nat /\ Len(x) \in Nat
      /\ \A k \in 1..Len(m) : (m \o x)[k] = m[k]
  BY JoinedSeqs
<1>2. ASSUME NEW k \in 1..Len(l) PROVE (m \o x)[k] = l[k]
  <2>1. k \in 1..Len(m) /\ m[k] = l[k]
    BY <1>1 DEF Leads
  <2> QED
    BY <1>1, <2>1
<1>3. Len(l) <= Len(m \o x)
  BY <1>1 DEF Leads
<1> QED
  BY <1>2, <1>3 DEF Leads

LEMMA FlatLeads ==
  ASSUME NEW S, NEW lists \in Seq(Seq(S)), NEW i \in 0..Len(lists)
  PROVE  Leads(Flat(lists, i), FlattenSeq(lists))
<1> DEFINE n == Len(lists)
           T == {k \in 0..n : i <= k => Leads(Flat(lists, i), Flat(lists, k))}
<1>1. /\ n \in Nat /\ Flat(lists, n) = FlattenSeq(lists)
      /\ \A k \in 0..n : Flat(lists, k) \in Seq(S)
      /\ \A k \in 0..(n - 1) : Flat(lists, k + 1) = Flat(lists, k) \o lists[k + 1]
  BY FlatSteps
<1>2. Leads(Flat(lists, i), Flat(lists, i))
  <2>1. Len(Flat(lists, i)) \in Nat
    BY <1>1
  <2> QED
    BY <2>1 DEF Leads
<1>3. 0 \in T
  <2>1. i <= 0 => i = 0
    BY <1>1
  <2> QED
    BY <1>1, <1>2, <2>1
<1>4. ASSUME NEW k \in 0..(n - 1), k \in T PROVE k + 1 \in T
  <2>1. k + 1 \in 0..n /\ k \in 0..n /\ lists[k + 1] \in Seq(S)
    BY <1>1
  <2>2. CASE i <= k
    <3>1. Leads(Flat(lists, i), Flat(lists, k))
      BY <1>4, <2>2
    <3>2. Flat(lists, i) \in Seq(S) /\ Flat(lists, k) \in Seq(S)
      BY <1>1, <2>1
    <3>3. Leads(Flat(lists, i), Flat(lists, k) \o lists[k + 1])
      BY <2>1, <3>1, <3>2, LeadsOn
    <3> QED
      BY <1>1, <2>1, <3>3
  <2>3. CASE ~(i <= k)
    <3>1. i <= k + 1 => i = k + 1
      BY <1>1, <2>3
    <3> QED
      BY <1>2, <2>1, <3>1
  <2> QED
    BY <2>2, <2>3
<1> HIDE DEF T
<1>5. n \in T
  <2> HIDE DEF n
  <2>1. \A k \in 0..n : k \in T
    BY <1>1, <1>3, <1>4, UpTo
  <2> QED
    BY <1>1, <2>1
<1>6. i <= n
  BY <1>1
<1> QED
  BY <1>1, <1>5, <1>6 DEF T

LEMMA VectorIsLaid ==
  ASSUME NEW c \in Calls, OwnVectors(c), NEW i \in DOMAIN c.args,
         c.args[i].type.name \in {"msghdr", "iovec_reg"}, read_more(c.args[i], c.side)
  PROVE  \E r, s, e : Laid(c, i, r, s, e)
<1> DEFINE lists == ArgOps(c.args, c.side)
           all == FlattenSeq(lists)
           n == IF Len(all) < MaxOpCount(c.side) THEN Len(all) ELSE MaxOpCount(c.side)
<1>1. /\ ArgsOfPoint(c.args)
      /\ c.ops = SubSeq(all, 1, n)
      /\ c.ends = {Len(Flat(lists, j)) : j \in DOMAIN lists}
      /\ ArgEnd(c.args, c.side, i) = Len(Flat(lists, i))
  <2>1. ArgsOfPoint(c.args) /\ c.ops = PointOps(c.args, c.side) /\ c.ends = ArgEnds(c.args, c.side)
    BY ArgStreamAssumption
  <2>2. c.ops = SubSeq(all, 1, n)
    BY <2>1 DEF PointOps
  <2>3. DOMAIN lists = DOMAIN c.args
    BY DEF ArgOps
  <2>4. \A j : ArgEnd(c.args, c.side, j) = Len(Flat(lists, j))
    BY DEF ArgEnd, Flat
  <2> HIDE DEF lists, all, n
  <2> QED
    BY <2>1, <2>2, <2>3, <2>4 DEF ArgEnds
<1>2. /\ lists \in Seq(Seq(Operations)) /\ DOMAIN lists = 1..Len(lists) /\ Len(lists) \in Nat
      /\ i \in DOMAIN lists /\ lists[i] = get_op_list(c.args[i], c.side)
  <2>1. DOMAIN c.args = 1..Len(c.args) /\ Len(c.args) \in Nat
    BY <1>1 DEF ArgsOfPoint
  <2>2. \A j \in DOMAIN c.args : get_op_list(c.args[j], c.side) \in Seq(Operations)
    BY <1>1, ArgWalks
  <2>3. /\ DOMAIN lists = DOMAIN c.args
        /\ lists[i] = get_op_list(c.args[i], c.side)
    BY DEF ArgOps
  <2>4. lists \in Seq(Seq(Operations))
    BY <2>1, <2>2 DEF ArgOps
  <2> HIDE DEF lists
  <2> QED
    BY <2>3, <2>4
<1>3. Way(c, i, lists[i], "start", "done")
  BY <1>1, <1>2, VectorWay
<1> HIDE DEF lists
<1> DEFINE list == lists[i]
           s == Len(Flat(lists, i - 1))
           e == Len(Flat(lists, i))
<1>4. PICK q : /\ q[0] = "start" /\ q[Len(list)] = "done"
               /\ \A k \in 1..Len(list) : VGoes(c, i, list[k], q[k - 1], q[k])
               /\ \A k \in 0..Len(list) : q[k] = "done" => k = Len(list)
  BY <1>3 DEF Way
<1>5. /\ i - 1 \in 0..(Len(lists) - 1) /\ i - 1 \in 0..Len(lists) /\ i \in 0..Len(lists)
      /\ (i - 1) + 1 = i
  BY <1>2
<1>6. /\ Flat(lists, 0) = <<>> /\ all \in Seq(Operations)
      /\ Flat(lists, i - 1) \in Seq(Operations) /\ Flat(lists, i) \in Seq(Operations)
      /\ Flat(lists, i) = Flat(lists, i - 1) \o list
  <2>1. /\ Flat(lists, 0) = <<>> /\ Flat(lists, Len(lists)) = all
        /\ \A k \in 0..Len(lists) : Flat(lists, k) \in Seq(Operations)
        /\ \A k \in 0..(Len(lists) - 1) : Flat(lists, k + 1) = Flat(lists, k) \o lists[k + 1]
    BY <1>2, FlatSteps
  <2>2. Len(lists) \in 0..Len(lists)
    BY <1>2
  <2> QED
    BY <1>5, <2>1, <2>2
<1>7. list \in Seq(Operations)
  BY <1>2
<1>8. Leads(Flat(lists, i), all)
  BY <1>2, <1>5, FlatLeads
<1> HIDE DEF list
<1>9. /\ e = s + Len(list) /\ s \in Nat /\ e \in Nat /\ Len(list) \in Nat
      /\ \A k \in 1..Len(list) : Flat(lists, i)[s + k] = list[k]
  BY <1>6, <1>7, JoinedSeqs
<1>10. s < e
  <2>1. Len(list) # 0
    BY <1>4
  <2> QED
    BY <1>9, <2>1
<1>11. s = 0 \/ s \in c.ends
  <2>1. CASE i = 1
    BY <1>6, <2>1
  <2>2. CASE i # 1
    <3>1. i - 1 \in DOMAIN lists
      BY <1>2, <2>2
    <3> QED
      BY <1>1, <3>1
  <2> QED
    BY <2>1, <2>2
<1>12. e \in c.ends /\ e = ArgEnd(c.args, c.side, i)
  BY <1>1, <1>2
<1>13. Len(c.ops) = n /\ n \in 0..Len(all) /\ \A k \in 1..n : c.ops[k] = all[k]
  <2>1. MaxOpCount(c.side) \in Nat /\ Len(all) \in Nat
    BY <1>6 DEF MaxOpCount
  <2> HIDE DEF all
  <2>2. n \in 0..Len(all)
    BY <2>1
  <2> HIDE DEF n
  <2> QED
    BY <1>1, <1>6, <2>2
<1> HIDE DEF all, n, s
<1> DEFINE r == [k \in s..e |-> q[k - s]]
<1> HIDE DEF e
<1>14. \A k \in 0..Len(list) : r[s + k] = q[k]
  <2>1. ASSUME NEW k \in 0..Len(list) PROVE r[s + k] = q[k]
    <3>1. s + k \in s..e /\ (s + k) - s = k
      BY <1>9
    <3> QED
      BY <3>1
  <2> QED
    BY <2>1
<1> HIDE DEF r
<1>15. r[s] = "start" /\ r[e] = "done"
  <2>1. s + 0 = s /\ 0 \in 0..Len(list) /\ Len(list) \in 0..Len(list)
    BY <1>9
  <2> QED
    BY <1>4, <1>9, <1>14, <2>1
<1>16. ASSUME NEW k \in (s + 1)..e, k <= Len(c.ops)
       PROVE  VGoes(c, i, c.ops[k], r[k - 1], r[k])
  <2>1. PICK j \in 1..Len(list) : k = s + j
    <3>1. k - s \in 1..Len(list) /\ k = s + (k - s)
      BY <1>9
    <3> QED
      BY <3>1
  <2>2. j \in 0..Len(list) /\ j - 1 \in 0..Len(list) /\ k - 1 = s + (j - 1)
    BY <1>9, <2>1
  <2>3. r[k] = q[j] /\ r[k - 1] = q[j - 1]
    BY <1>14, <2>1, <2>2
  <2>4. k \in 1..n /\ k \in 1..e
    BY <1>9, <1>13, <1>16, <2>1
  <2>5. c.ops[k] = list[j]
    <3>1. all[k] = Flat(lists, i)[k]
      BY <1>8, <2>4 DEF Leads, e
    <3> QED
      BY <1>9, <1>13, <2>1, <2>4, <3>1
  <2> QED
    BY <1>4, <2>1, <2>3, <2>5
<1>17. ASSUME NEW k \in s..e, r[k] = "done" PROVE k = e
  <2>1. k - s \in 0..Len(list) /\ k = s + (k - s)
    BY <1>9
  <2>2. r[k] = q[k - s]
    BY <1>14, <2>1
  <2>3. k - s = Len(list)
    BY <1>4, <1>17, <2>1, <2>2
  <2> QED
    BY <1>9, <2>1, <2>3
<1>18. Laid(c, i, r, s, e)
  BY <1>9, <1>10, <1>11, <1>12, <1>15, <1>16, <1>17 DEF Laid
<1> QED
  BY <1>18

-----------------------------------------------------------------------------
(* The whole invariant: every vector tells where read_args is with it.     *)
VectorInv ==
  \E q : /\ LoopInv(q)
         /\ Behind(ctx)
         /\ \A i \in Vectors : \E r, s, e : Laid(call, i, r, s, e) /\ VectorTells(i, r, s, e)

LEMMA VectorsOfCall ==
  \A i \in Vectors : /\ i \in DOMAIN call.args
                     /\ call.args[i].type.name \in {"msghdr", "iovec_reg"}
                     /\ read_more(call.args[i], call.side)
BY DEF Vectors, args, side

LEMMA InitVector == Init /\ OwnVectors(call) => VectorInv
<1> SUFFICES ASSUME Init, OwnVectors(call) PROVE VectorInv
  OBVIOUS
<1>1. PICK q : LoopInv(q)
  BY InitLoop
<1>2. call \in Calls /\ ctx.op_key_index = 0 /\ ctx.loop_count = 0
  BY DEF Init, FreshCtx
<1>3. ASSUME NEW i \in Vectors
      PROVE  \E r, s, e : Laid(call, i, r, s, e) /\ VectorTells(i, r, s, e)
  <2>1. PICK r, s, e : Laid(call, i, r, s, e)
    BY <1>2, VectorsOfCall, VectorIsLaid
  <2>2. VectorTells(i, r, s, e)
    BY <1>2, <2>1 DEF Laid, VectorTells
  <2> QED
    BY <2>1, <2>2
<1> QED
  BY <1>1, <1>2, <1>3 DEF VectorInv, Behind

LEMMA NextVector ==
  ASSUME IInv, IInv', VectorInv, [Next]_vars
  PROVE  VectorInv'
<1>1. PICK q : /\ LoopInv(q) /\ Behind(ctx)
               /\ \A i \in Vectors :
                    \E r, s, e : Laid(call, i, r, s, e) /\ VectorTells(i, r, s, e)
  BY DEF VectorInv
<1>2. LoopInv(q)'
  BY <1>1, NextLoop
<1>3. call' = call /\ Behind(ctx)'
  BY <1>1, <1>2, BehindStays
<1>4. Vectors' = Vectors
  BY <1>3 DEF Vectors, args, side
<1>5. ASSUME NEW i \in Vectors
      PROVE  \E r, s, e : Laid(call, i, r, s, e)' /\ VectorTells(i, r, s, e)'
  <2>1. PICK r, s, e : Laid(call, i, r, s, e) /\ VectorTells(i, r, s, e)
    BY <1>1
  <2>2. VectorTells(i, r, s, e)'
    BY <1>1, <1>2, <2>1, VectorsOfCall, VectorStays
  <2>3. Laid(call, i, r, s, e)'
    BY <1>3, <2>1
  <2> QED
    BY <2>2, <2>3
<1> QED
  BY <1>2, <1>3, <1>4, <1>5 DEF VectorInv

(* What is saved of a vector, in the words of the property.                *)
LEMMA VectorMeans ==
  ASSUME TypeOK, NEW i \in Vectors, NEW v, VectorIn(call, i, v, buf.pieces)
  PROVE  v \in DOMAIN buf.pieces /\ VectorSaved(i, v)
<1> DEFINE ps == buf.pieces
           a == ps[v].at
           inMsg == InMessage(call, i)
           base == VectorBase(call, i, a)
           count == VectorCount(call, i, a)
<1>1. DOMAIN ps = 1..Len(ps)
  BY DEF TypeOK, Buffers
<1>2. \A k, want, at : SavedAt(ps, k, want, at) => HasPiece(k, want, at)
  BY <1>1 DEF SavedAt, HasPiece, IsStruct
<1>3. \A k, at : PairAt(call, ps, k, at) => IovecSaved(k, at)
  BY <1>2 DEF PairAt, IovecSaved, InWord, mem
<1>4. /\ v \in 1..Len(ps) /\ ps[v].kind = "raw"
      /\ call.args[i].extra = <<>> => a = Value(call, i)
      /\ inMsg => SavedAt(ps, v + 1, SIZEOF_MSGHDR, a)
      /\ \A j \in 0..(VectorTurns(count) - 1) :
           PairAt(call, ps, v + Lead(call, i) + 1 + 2 * j, base + SIZEOF_IOVEC * j)
  BY DEF VectorIn, PairsAt
<1>5. v + Lead(call, i) + 1 = (IF inMsg THEN v + 3 ELSE v + 2)
  BY <1>4 DEF Lead
<1>6. /\ inMsg <=> args[i].type.name = "msghdr"
      /\ base = IF inMsg THEN InWord(a + 16) ELSE a
      /\ count = IF inMsg THEN InWord(a + 24) ELSE Word(call.regs, args[i].type.ops[1].value)
      /\ RegOf(i) = Value(call, i) /\ args = call.args
  BY DEF InMessage, VectorBase, VectorCount, InWord, mem, args, RegOf, Value
<1> HIDE DEF ps, a, inMsg, base, count
<1>7. ASSUME NEW j \in 0..(VectorTurns(count) - 1)
      PROVE  IovecSaved((IF inMsg THEN v + 3 ELSE v + 2) + 2 * j, base + SIZEOF_IOVEC * j)
  BY <1>3, <1>4, <1>5
<1>8. inMsg => HasPiece(v + 1, SIZEOF_MSGHDR, a)
  BY <1>2, <1>4
<1> QED
  BY <1>1, <1>4, <1>6, <1>7, <1>8, Zenon DEF VectorSaved, ps, a

(* For any calls whose vectors are those of argtype: when the operations   *)
(* of a vector's argument are done its iovecs are saved one after the      *)
(* other, each with its own bytes, as many as the program says and 32 at   *)
(* most; whatever cannot be read but the pointers themselves.              *)
THEOREM VectorsAreInOrder ==
  ASSUME \A c \in Calls : OwnVectors(c)
  PROVE  Spec => []VectorInOrder
<1>1. Init => VectorInv
  <2>1. Init => OwnVectors(call)
    BY DEF Init
  <2> QED
    BY <2>1, InitVector
<1>2. IInv /\ IInv' /\ VectorInv /\ [Next]_vars => VectorInv'
  BY NextVector
<1>3. IInv /\ VectorInv => VectorInOrder
  <2> SUFFICES ASSUME IInv, VectorInv, ~buf.full, ~PointerLost, NEW i \in Vectors,
                      ctx.op_key_index >= ArgEnd(args, side, i)
               PROVE  \E v \in DOMAIN buf.pieces : VectorSaved(i, v)
    BY DEF VectorInOrder
  <2>1. PICK r, s, e : Laid(call, i, r, s, e) /\ VectorTells(i, r, s, e)
    BY DEF VectorInv
  <2>2. /\ s \in Nat /\ e \in Nat /\ s < e /\ ctx.op_key_index >= e
        /\ TypeOK /\ ctx.op_key_index \in Nat
    <3>1. TypeOK /\ ctx.op_key_index \in Nat
      BY ContextFields DEF IInv, TypeOK
    <3> QED
      BY <2>1, <3>1 DEF Laid, args, side
  <2>3. PICK v : VectorIn(call, i, v, buf.pieces)
    BY <2>1, <2>2 DEF VectorTells
  <2> QED
    BY <2>2, <2>3, VectorMeans
<1> QED
  BY <1>1, <1>2, <1>3, InvariantHolds, PTL DEF Spec
=============================================================================
