------------------------------ MODULE ReadArgs ------------------------------
(***************************************************************************)
(* read_args of ebpf/utils.h: the interpreter that executes the operations *)
(* of a point for one call of the traced program, and saves what it reads  *)
(* into the event buffer by the functions of ebpf/common/buffer.h.         *)
(*                                                                         *)
(* One step is one turn of the loop.  The memory of the program is given   *)
(* by the words and the texts the operations may look at; an access fails  *)
(* at address 0 and, up to MaxFaults times, anywhere: bpf_probe_read does  *)
(* not bring pages in.  Addresses carry no tag, numbers are below 2^31.    *)
(* What a filter says of the call is part of the call (see ArgFilter).     *)
(* The index byte of a saved piece is left out: the reader skips it.       *)
(***************************************************************************)
EXTENDS Integers, ArgTypes

CONSTANTS Calls,      \* the calls: records with the fields side, ops, regs,
                      \*   mem, text and filters, and what users need besides
          MaxFaults   \* most accesses that fail without need

ARGS_BUF_SIZE      == 32000
MAX_ELEMENT_SIZE   == 110     \* the largest piece saved without its length
MAX_BYTES_ARR_SIZE == 4096
MAX_STRING_SIZE    == 16384

Sides    == {"enter", "exit", "uprobe"}
Verdicts == {"reject", "match", "miss", "none"}

RegisterCodes ==
  {"NONE", "RESET_CTX", "SET_REG_INDEX", "SET_READ_LEN", "SET_READ_LEN_REG_VALUE",
   "SET_READ_LEN_POINTER_VALUE", "SET_READ_COUNT", "ADD_OFFSET", "SUB_OFFSET",
   "MOVE_REG_VALUE", "MOVE_POINTER_VALUE", "MOVE_TMP_VALUE", "SET_TMP_VALUE",
   "SET_BREAK_COUNT", "SET_BREAK_COUNT_REG_VALUE", "SET_BREAK_COUNT_POINTER_VALUE",
   "ADD_REG", "SUB_REG", "READ_REG", "READ_IL2CPP_STRING"}

FilterCodes == {"FILTER_VALUE", "FILTER_BUFFER", "FILTER_STRING"}

(* op_code: those that only touch the context, and the others.             *)
Codes ==
  RegisterCodes \cup FilterCodes
    \cup {"SKIP", "FOR_BREAK", "READ_POINTER", "READ_STD_STRING",
          "SAVE_ADDR", "SAVE_REG", "SAVE_POINTER", "SAVE_STRUCT", "SAVE_STRING",
          "SAVE_STRING16", "SAVE_PTR_STRING", "SAVE_PTR_STRING16"}

Operations == [code : Codes, pre : Codes, post : Codes, value : Nat]

ASSUME ReadArgsAssumption ==
  /\ MaxFaults \in Nat
  /\ \A c \in Calls :
       /\ c.side \in Sides
       /\ c.ops \in Seq(Operations)
       /\ \A r \in DOMAIN c.regs : c.regs[r] \in Nat
       /\ \A a \in DOMAIN c.mem : c.mem[a] \in Nat
       /\ \A a \in DOMAIN c.text : c.text[a] \in 1..MAX_STRING_SIZE
       /\ 0 \notin DOMAIN c.mem \cup DOMAIN c.text
       /\ \A i \in DOMAIN c.filters : c.filters[i] \in Verdicts

VARIABLES call,      \* the call that is reported
          ctx,       \* op_ctx, with the operation fetched last
          steps,     \* turns of the loop
          buf,       \* buf_off, the pieces saved, whether one found no room
          faulted,   \* history: the operations whose access failed without need
          phase      \* "read", then "sent" or "skipped"

vars == <<call, ctx, steps, buf, faulted, phase>>

ops  == call.ops
side == call.side

Least(m, n)  == IF m < n THEN m ELSE n

-----------------------------------------------------------------------------
(* The event buffer.  A piece is raw, a value of eight bytes; bytes, a     *)
(* length and so many bytes; or end, the mark that ends a string array.    *)
Piece(kind, len, want, at) == [kind |-> kind, len |-> len, want |-> want, at |-> at]

HasRoom(b, size) == b.off <= ARGS_BUF_SIZE - size

Saved(b, size, piece) ==
  [b EXCEPT !.off = b.off + size, !.pieces = Append(b.pieces, piece)]
NoRoom(b) == [b EXCEPT !.full = TRUE]

save_to_submit_buf(b, value) ==
  IF HasRoom(b, MAX_ELEMENT_SIZE + 1) THEN Saved(b, 9, Piece("raw", 8, 8, value))
  ELSE NoRoom(b)

(* Faulty: the room asked for does not count the header of the piece and   *)
(* its size, only that something is left (buffer.h:52).                    *)
BytesAnyRoom(b, kind, len, want, at) ==
  IF HasRoom(b, 1) THEN Saved(b, len + 5, Piece(kind, len, want, at)) ELSE NoRoom(b)

(* Faulty: what could not be read leaves no piece behind, not an empty one.*)
EmptyLeftOut(b, kind, len, want, at) ==
  IF len > 0 /\ HasRoom(b, MAX_BYTES_ARR_SIZE + 5)
  THEN Saved(b, len + 5, Piece(kind, len, want, at)) ELSE b

(* len bytes of the want that were asked for: all or, after a failed       *)
(* access, none.  The room asked for is that of the longest piece.         *)
save_bytes_to_buf(b, kind, len, want, at) ==
  IF HasRoom(b, MAX_BYTES_ARR_SIZE + 5) THEN Saved(b, len + 5, Piece(kind, len, want, at))
  ELSE NoRoom(b)

(* save_str_to_buf and save_utf16_to_buf, which always copies 512 bytes.   *)
IsWide(code) == code \in {"SAVE_STRING16", "SAVE_PTR_STRING16"}
TextLen(code, a) == IF IsWide(code) THEN 512 ELSE call.text[a]
CanSaveText(b, code, a) ==
  IF IsWide(code) THEN a # 0 /\ HasRoom(b, MAX_BYTES_ARR_SIZE + 5)
  ELSE a \in DOMAIN call.text /\ HasRoom(b, MAX_STRING_SIZE + 5)
SaveText(b, code, a) ==
  Saved(b, TextLen(code, a) + 5, Piece("bytes", TextLen(code, a), TextLen(code, a), a))

-----------------------------------------------------------------------------
(* Fetching: the post operation of the last one first, then the next of    *)
(* the list, whose unused entries are 0, the index of SKIP.                *)
ListedOp(key) == IF key < Len(ops) THEN ops[key + 1] ELSE Op("SKIP")
NextOp == ListedOp(ctx.op_key_index)

HasPost == ctx.post_code # "SKIP"
Code    == IF HasPost THEN ctx.post_code ELSE NextOp.code

Fetched ==
  IF HasPost THEN [ctx EXCEPT !.post_code = "SKIP"]
  ELSE [ctx EXCEPT !.op = NextOp, !.post_code = NextOp.post,
                   !.op_key_index = ctx.op_key_index + 1]

(* The register that READ_REG reads.                                       *)
RegIndex(c) == IF c.op.pre = "SET_REG_INDEX" THEN c.op.value ELSE c.reg_index
RegValue(c) == Word(call.regs, RegIndex(c))

(* What such an operation makes of the context c that was fetched.         *)
Effect(code, c) ==
  CASE code = "NONE" -> c
    [] code = "RESET_CTX" ->
         [c EXCEPT !.break_count = 0, !.reg_index = 0, !.read_addr = 0,
                   !.read_len = 0, !.reg_value = 0, !.pointer_value = 0]
    [] code = "SET_REG_INDEX" -> [c EXCEPT !.reg_index = c.op.value]
    [] code = "SET_READ_LEN" -> [c EXCEPT !.read_len = c.op.value]
    [] code = "SET_READ_LEN_REG_VALUE" ->
         [c EXCEPT !.read_len = Least(c.read_len, c.reg_value)]
    [] code = "SET_READ_LEN_POINTER_VALUE" ->
         [c EXCEPT !.read_len = Least(c.read_len, c.pointer_value)]
    [] code = "SET_READ_COUNT" -> [c EXCEPT !.read_len = c.read_len * c.op.value]
    [] code = "ADD_OFFSET" -> [c EXCEPT !.read_addr = c.read_addr + c.op.value]
    [] code = "SUB_OFFSET" -> [c EXCEPT !.read_addr = c.read_addr - c.op.value]
    [] code = "MOVE_REG_VALUE" -> [c EXCEPT !.read_addr = c.reg_value]
    [] code = "MOVE_POINTER_VALUE" -> [c EXCEPT !.read_addr = c.pointer_value]
    [] code = "MOVE_TMP_VALUE" -> [c EXCEPT !.read_addr = c.tmp_value]
    [] code = "SET_TMP_VALUE" -> [c EXCEPT !.tmp_value = c.read_addr]
    [] code = "SET_BREAK_COUNT" ->
         [c EXCEPT !.break_count = Least(c.op.value, MAX_LOOP_COUNT)]
    [] code = "SET_BREAK_COUNT_REG_VALUE" ->
         [c EXCEPT !.break_count = Least(c.reg_value, MAX_LOOP_COUNT)]
    [] code = "SET_BREAK_COUNT_POINTER_VALUE" ->
         [c EXCEPT !.break_count = Least(c.pointer_value, MAX_LOOP_COUNT)]
    [] code = "ADD_REG" -> [c EXCEPT !.read_addr = c.read_addr + c.reg_value]
    [] code = "SUB_REG" -> [c EXCEPT !.read_addr = c.read_addr - c.reg_value]
    [] code = "READ_REG" -> [c EXCEPT !.reg_index = RegIndex(c), !.reg_value = RegValue(c)]
    [] code = "READ_IL2CPP_STRING" -> [c EXCEPT !.read_addr = c.read_addr + 20]

-----------------------------------------------------------------------------
(* op_ctx is zeroed, so that the first turn has a post operation of code 0 *)
(* and does nothing.  The event starts with the number of the call or      *)
(* point and, except on return, lr, sp and pc.                             *)
FreshCtx ==
  [op |-> Op("SKIP"), post_code |-> "NONE", op_key_index |-> 0,
   reg_index |-> 0, reg_value |-> 0, pointer_value |-> 0, tmp_value |-> 0,
   read_addr |-> 0, read_len |-> 0,
   loop_count |-> 0, break_count |-> 0, loop_index |-> 0,
   apply_filter |-> FALSE, match_whitelist |-> FALSE]

Init ==
  /\ call \in Calls
  /\ ctx = FreshCtx
  /\ steps = 0
  /\ buf = [off |-> IF side = "exit" THEN 5 ELSE 32, pieces |-> <<>>, full |-> FALSE]
  /\ faulted = <<>>
  /\ phase = "read"

(* One turn of the loop that executes an operation with one of the codes.  *)
Turn(codes) ==
  /\ phase = "read"
  /\ steps < MaxOpCount(side)
  /\ Code \in codes
  /\ steps' = steps + 1
  /\ UNCHANGED call

NoFault == UNCHANGED faulted
MayFault(fault) ==
  /\ fault => Len(faulted) < MaxFaults
  /\ faulted' = IF fault THEN Append(faulted, Fetched.op) ELSE faulted

BadRegister == Code = "READ_REG" /\ RegIndex(Fetched) >= REG_ARM64_MAX

RegisterStep ==
  /\ Turn(RegisterCodes)
  /\ ~BadRegister
  /\ ctx' = Effect(Code, Fetched)
  /\ NoFault
  /\ UNCHANGED <<buf, phase>>

(* The word at read_addr, plus or minus an offset; 0 if it cannot be read. *)
PointerAddr(c) ==
  CASE c.op.pre = "ADD_OFFSET" -> c.read_addr + c.op.value
    [] c.op.pre = "SUB_OFFSET" -> c.read_addr - c.op.value
    [] OTHER                   -> c.read_addr

ReadPointer ==
  /\ Turn({"READ_POINTER"})
  /\ \E fault \in BOOLEAN :
       /\ MayFault(fault)
       /\ ctx' = [Fetched EXCEPT !.pointer_value =
                    IF fault THEN 0 ELSE Word(call.mem, PointerAddr(Fetched))]
  /\ UNCHANGED <<buf, phase>>

(* std::string: short if the lowest bit is 0 (or unreadable), its          *)
(* characters behind that byte; otherwise 16 bytes on is their address.    *)
ReadStdString ==
  /\ Turn({"READ_STD_STRING"})
  /\ LET c == Fetched
         short == Word(call.mem, c.read_addr) % 2 = 0
         far   == Word(call.mem, c.read_addr + 16)
     IN \/ /\ NoFault
           /\ ctx' = [c EXCEPT !.read_addr = IF short THEN c.read_addr + 1 ELSE far]
        \/ /\ MayFault(TRUE)
           /\ ~short
           /\ \E a \in {c.read_addr + 1, 0} : ctx' = [c EXCEPT !.read_addr = a]
  /\ UNCHANGED <<buf, phase>>

(* Faulty: the loop runs once more than its count.                         *)
OnceTooOften ==
  /\ Turn({"FOR_BREAK"})
  /\ LET c  == Fetched
         at == IF c.loop_count = 0 THEN c.op_key_index ELSE c.loop_index
     IN ctx' = IF c.loop_count > c.break_count
               THEN [c EXCEPT !.loop_count = 0, !.break_count = 0, !.loop_index = 0]
               ELSE [c EXCEPT !.loop_count = c.loop_count + 1,
                              !.loop_index = at, !.op_key_index = at]
  /\ NoFault
  /\ UNCHANGED <<buf, phase>>

(* Faulty: a loop that ends keeps its count for the next one.              *)
CountKept ==
  /\ Turn({"FOR_BREAK"})
  /\ LET c  == Fetched
         at == IF c.loop_count = 0 THEN c.op_key_index ELSE c.loop_index
     IN ctx' = IF c.loop_count >= c.break_count
               THEN [c EXCEPT !.break_count = 0, !.loop_index = 0]
               ELSE [c EXCEPT !.loop_count = c.loop_count + 1,
                              !.loop_index = at, !.op_key_index = at]
  /\ NoFault
  /\ UNCHANGED <<buf, phase>>

(* The head and the end of a loop are the same operation: the first one    *)
(* notes where the body starts, whichever reaches the count leaves.        *)
ForBreak ==
  /\ Turn({"FOR_BREAK"})
  /\ LET c  == Fetched
         at == IF c.loop_count = 0 THEN c.op_key_index ELSE c.loop_index
     IN ctx' = IF c.loop_count >= c.break_count
               THEN [c EXCEPT !.loop_count = 0, !.break_count = 0, !.loop_index = 0]
               ELSE [c EXCEPT !.loop_count = c.loop_count + 1,
                              !.loop_index = at, !.op_key_index = at]
  /\ NoFault
  /\ UNCHANGED <<buf, phase>>

SaveRaw ==
  /\ Turn({"SAVE_ADDR", "SAVE_REG", "SAVE_POINTER"})
  /\ ctx' = Fetched
  /\ buf' = save_to_submit_buf(buf,
              CASE Code = "SAVE_ADDR"    -> ctx.read_addr
                [] Code = "SAVE_REG"     -> ctx.reg_value
                [] Code = "SAVE_POINTER" -> ctx.pointer_value)
  /\ NoFault
  /\ UNCHANGED phase

(* At most 4096 bytes.  When they cannot be read, a length of 0 is saved.  *)
SaveStruct ==
  /\ Turn({"SAVE_STRUCT"})
  /\ LET c    == Fetched
         many == IF c.op.pre = "SET_READ_COUNT" THEN c.read_len * c.op.value ELSE c.read_len
         n    == Least(many, MAX_BYTES_ARR_SIZE)
     IN /\ ctx' = [c EXCEPT !.read_len = n]
        /\ \E fault \in BOOLEAN :
             /\ MayFault(fault)
             /\ fault => n > 0
             /\ buf' = save_bytes_to_buf(buf, "bytes",
                         IF fault \/ c.read_addr = 0 THEN 0 ELSE n, n, c.read_addr)
  /\ UNCHANGED phase

(* A text at read_addr; an empty piece when that fails.                    *)
SaveString ==
  /\ Turn({"SAVE_STRING", "SAVE_STRING16"})
  /\ ctx' = Fetched
  /\ \E fault \in BOOLEAN :
       /\ MayFault(fault)
       /\ buf' = IF ~fault /\ CanSaveText(buf, Code, ctx.read_addr)
                 THEN SaveText(buf, Code, ctx.read_addr)
                 ELSE save_bytes_to_buf(buf, "bytes", 0, 0, ctx.read_addr)
  /\ UNCHANGED phase

(* The pointer at read_addr and the text it points to; when there is none, *)
(* the end mark, and the loop is made to stop.                             *)
SavePtrString ==
  /\ Turn({"SAVE_PTR_STRING", "SAVE_PTR_STRING16"})
  /\ \E broken \in {"none", "pointer", "text"} :
       LET c   == Fetched
           ptr == IF broken = "pointer" THEN 0 ELSE Word(call.mem, c.read_addr)
           b   == save_to_submit_buf(buf, ptr)
       IN /\ MayFault(broken # "none")
          /\ IF broken # "text" /\ CanSaveText(b, Code, ptr)
             THEN buf' = SaveText(b, Code, ptr) /\ ctx' = c
             ELSE /\ buf' = save_bytes_to_buf(b, "end", 0, 0, ptr)
                  /\ ctx' = [c EXCEPT !.loop_count = c.break_count]
  /\ UNCHANGED phase

-----------------------------------------------------------------------------
Filter == Fetched.op.value
HasFilter == Filter \in DOMAIN call.filters

(* A blacklist ends the loop; a whitelist is judged when it has ended.     *)
ApplyFilter ==
  /\ Turn(FilterCodes)
  /\ HasFilter
  /\ LET verdict == call.filters[Filter]
     IN /\ ctx' = [Fetched EXCEPT
                     !.apply_filter = @ \/ verdict \in {"match", "miss"},
                     !.match_whitelist = @ \/ verdict = "match"]
        /\ phase' = IF verdict = "reject" THEN "skipped" ELSE "read"
  /\ NoFault
  /\ UNCHANGED buf

(* The event is sent; that of a return ends with the value returned.       *)
Submitted == IF side = "exit" THEN save_to_submit_buf(buf, 0) ELSE buf

(* A register or a filter that does not exist: return without a verdict.   *)
GivesUp ==
  /\ Turn({"READ_REG"} \cup FilterCodes)
  /\ BadRegister \/ (Code \in FilterCodes /\ ~HasFilter)
  /\ phase' = "sent"
  /\ buf' = Submitted
  /\ ctx' = Fetched
  /\ NoFault

(* The end of the list or of the turns that the loop may take.             *)
ReadEnds ==
  /\ phase = "read"
  /\ Code = "SKIP" \/ steps = MaxOpCount(side)
  /\ IF ctx.apply_filter /\ ~ctx.match_whitelist
     THEN phase' = "skipped" /\ UNCHANGED buf
     ELSE phase' = "sent" /\ buf' = Submitted
  /\ UNCHANGED <<call, ctx, steps, faulted>>

Next == \/ RegisterStep \/ ReadPointer \/ ReadStdString \/ ForBreak
        \/ SaveRaw \/ SaveStruct \/ SaveString \/ SavePtrString
        \/ ApplyFilter \/ GivesUp \/ ReadEnds

Spec == Init /\ [][Next]_vars

-----------------------------------------------------------------------------
Pieces == [kind : {"raw", "bytes", "end"}, len : 0..MAX_STRING_SIZE, want : Nat, at : Int]

Buffers == [off : Nat, pieces : Seq(Pieces), full : BOOLEAN]

Contexts ==
  [op : Operations, post_code : Codes, op_key_index : Nat,
   reg_index : Nat, reg_value : Nat, pointer_value : Nat, tmp_value : Int,
   read_addr : Int, read_len : Nat,
   loop_count : 0..MAX_LOOP_COUNT, break_count : 0..MAX_LOOP_COUNT, loop_index : Nat,
   apply_filter : BOOLEAN, match_whitelist : BOOLEAN]

(* The types of the state: op_ctx_t of ebpf/types.h, where the loop counts *)
(* have eight bits and never need more.                                    *)
TypeOK ==
  /\ call \in Calls
  /\ ctx \in Contexts
  /\ steps \in 0..MaxOpCount(side)
  /\ buf \in Buffers
  /\ faulted \in Seq(Operations) /\ Len(faulted) <= MaxFaults
  /\ phase \in {"read", "sent", "skipped"}

(* No piece is written beyond the end of the event buffer (event->args,    *)
(* ARGS_BUF_SIZE bytes): the room every save asks for, whatever is saved,  *)
(* covers what it adds (buffer.h).                                         *)
NeverOverruns == buf.off <= ARGS_BUF_SIZE
=============================================================================
