------------------------------ MODULE ArgTypes ------------------------------
(***************************************************************************)
(* The operations that the interpreter of ebpf/utils.h executes, the       *)
(* argument types of src/argtype as the operations they register, and the  *)
(* operation list that a point argument contributes to its point.          *)
(*                                                                         *)
(* An operation is a record [code, pre, post, value], as in the map        *)
(* op_list; its index there, by which a point refers to it, is abstracted. *)
(* A type is a record [name, base, parent, size, ops, child].              *)
(***************************************************************************)
EXTENDS Naturals, Sequences, SequencesExt

REG_ARM64_MAX     == 34      \* no register: the return value
MAX_LOOP_COUNT    == 32
MAX_BUF_READ_SIZE == 4096
SIZEOF_IOVEC      == 16
SIZEOF_MSGHDR     == 56

(* The word at an address of the program, or its register; 0 if unreadable.*)
Word(words, a) == IF a \in DOMAIN words THEN words[a] ELSE 0

-----------------------------------------------------------------------------
(* The operation manager: plain operations and the composed ones.          *)
Op(code) == [code |-> code, pre |-> "SKIP", post |-> "SKIP", value |-> 0]
OpValue(code, value) == [Op(code) EXCEPT !.value = value]
OpThen(code, value, post) == [OpValue(code, value) EXCEPT !.post = post]

ReadReg(reg, post) ==
  [code |-> "READ_REG", pre |-> "SET_REG_INDEX", post |-> post, value |-> reg]
ReadPtr(offset, post) ==
  [code |-> "READ_POINTER", pre |-> "ADD_OFFSET", post |-> post, value |-> offset]

add_read_save_reg(reg)           == ReadReg(reg, "SAVE_REG")
add_read_move_reg(reg)           == ReadReg(reg, "MOVE_REG_VALUE")
build_read_reg_break_count(reg)  == ReadReg(reg, "SET_BREAK_COUNT_REG_VALUE")
build_read_reg_len(reg)          == ReadReg(reg, "SET_READ_LEN_REG_VALUE")
build_read_ptr_break_count(off)  == ReadPtr(off, "SET_BREAK_COUNT_POINTER_VALUE")
build_read_ptr_len(off)          == ReadPtr(off, "SET_READ_LEN_POINTER_VALUE")
build_read_ptr_addr(off)         == ReadPtr(off, "MOVE_POINTER_VALUE")

save_struct(size) == OpThen("SET_READ_LEN", size, "SAVE_STRUCT")
set_read_len(size) == OpValue("SET_READ_LEN", size)

-----------------------------------------------------------------------------
(* Types of one saved piece, or none.                                      *)
Type(name, base, parent, size, ops) ==
  [name |-> name, base |-> base, parent |-> parent, size |-> size,
   ops |-> ops, child |-> <<>>]

NumType == Type("num", "NUM", "none", 8, <<>>)
PtrType == Type("ptr", "POINTER", "none", 8, <<>>)

StringType   == Type("string", "STRING", "none", 0, <<Op("SAVE_STRING")>>)
String16Type == Type("string16", "STRING", "none", 0, <<Op("SAVE_STRING16")>>)
Il2cppType   == Type("il2cpp_string", "STRING", "none", 0,
                     <<Op("READ_IL2CPP_STRING"), Op("SAVE_STRING16")>>)
StdType      == Type("std", "STRUCT", "struct", 0,
                     <<Op("READ_STD_STRING"), Op("SAVE_STRING")>>)

(* A buffer whose length is fixed, or in a register and at most 4096.      *)
BufferLenType(size) ==
  Type("buffer_len", "BUFFER", "buffer", size,
       <<set_read_len(size), Op("SAVE_STRUCT")>>)
BufferRegType(reg) ==
  Type("buffer_reg", "BUFFER", "buffer", 0,
       <<set_read_len(MAX_BUF_READ_SIZE), build_read_reg_len(reg), Op("SAVE_STRUCT")>>)

StructType(name, size) ==
  Type(name, "STRUCT", "struct", size, <<set_read_len(size), Op("SAVE_STRUCT")>>)
ArrayType(size) == Type("array", "ARRAY", "array", size, <<save_struct(size)>>)

(* The pointee of a pointer is always taken for a number of eight bytes    *)
(* (is_num); the operations of its type follow.                            *)
PointerType(child) ==
  [Type("ptr_to", "POINTER", "ptr", 8, <<save_struct(8)>> \o child.ops)
     EXCEPT !.child = <<child>>]

-----------------------------------------------------------------------------
(* Types with a loop: the operations between two FOR_BREAK are repeated.   *)
Loop(body) == <<Op("FOR_BREAK")>> \o body \o <<Op("FOR_BREAK")>>

StringArrayType ==
  Type("string_array", "STRUCT", "struct", 0,
       <<OpValue("SET_BREAK_COUNT", MAX_LOOP_COUNT)>>
         \o Loop(<<Op("SAVE_PTR_STRING"), OpValue("ADD_OFFSET", 8)>>))
String16ArrayType ==
  [StringArrayType EXCEPT !.name = "string16_array",
                          !.ops[3] = Op("SAVE_PTR_STRING16")]

(* One iovec: the struct, then what iov_base points to, iov_len bytes.     *)
iovec_ops ==
  <<set_read_len(SIZEOF_IOVEC), Op("SAVE_STRUCT"),
    set_read_len(MAX_BUF_READ_SIZE), build_read_ptr_len(8),
    Op("READ_POINTER"), Op("MOVE_POINTER_VALUE"), Op("SAVE_STRUCT")>>

IovecType == Type("iovec", "STRUCT", "struct", SIZEOF_IOVEC, iovec_ops)

(* Faulty: the address of the current iovec is not taken back before it is *)
(* moved on, so the next one is looked for behind the bytes just saved.    *)
LostAddressLoop ==
  Loop(<<Op("SET_TMP_VALUE")>> \o iovec_ops \o <<OpValue("ADD_OFFSET", SIZEOF_IOVEC)>>)

(* A vector of them: the address of the current one is kept in tmp_value.  *)
IovecLoop ==
  Loop(<<Op("SET_TMP_VALUE")>> \o iovec_ops
         \o <<Op("MOVE_TMP_VALUE"), OpValue("ADD_OFFSET", SIZEOF_IOVEC)>>)

IovecRegType(reg) ==
  Type("iovec_reg", "STRUCT", "struct", 0,
       <<build_read_reg_break_count(reg), Op("SAVE_REG")>> \o IovecLoop)

MsghdrType ==
  Type("msghdr", "STRUCT", "struct", SIZEOF_MSGHDR,
       <<set_read_len(SIZEOF_MSGHDR), Op("SAVE_STRUCT"), Op("SET_TMP_VALUE"),
         set_read_len(MAX_BUF_READ_SIZE), build_read_ptr_len(40),
         build_read_ptr_addr(32), Op("SAVE_STRUCT"), Op("MOVE_TMP_VALUE"),
         build_read_ptr_break_count(24), build_read_ptr_addr(16)>> \o IovecLoop)

-----------------------------------------------------------------------------
(* set_hex_format derives a new type, except from an array: the operations *)
(* stay, the name and the parent are no longer the ones tests ask for.     *)
HexOf(type) ==
  IF type.parent = "array" THEN type
  ELSE [type EXCEPT !.name = "fmt", !.parent = type.name]

(* A point argument: type, register, when its value is read ("enter",      *)
(* "exit", "all" or "uprobe"), the operations of a read_op expression, and *)
(* the indices of its filters.                                             *)
PointArg(type, reg, point) ==
  [type |-> type, reg |-> reg, point |-> point, extra |-> <<>>, filters |-> <<>>]

RetArg == PointArg(NumType, REG_ARM64_MAX, "exit")

(* compile_read_op: a sequence of terms, each an offset to add or subtract,*)
(* a register (the first term always is one), or "." for a dereference.    *)
ReadOpTerm(term) ==
  CASE term.kind = "first" -> <<add_read_move_reg(term.n)>>
    [] term.kind = "+reg"  -> <<add_read_move_reg(term.n), Op("ADD_REG")>>
    [] term.kind = "-reg"  -> <<add_read_move_reg(term.n), Op("SUB_REG")>>
    [] term.kind = "+"     -> <<OpValue("ADD_OFFSET", term.n)>>
    [] term.kind = "-"     -> <<OpValue("SUB_OFFSET", term.n)>>
    [] term.kind = "."     -> <<Op("READ_POINTER"), Op("MOVE_POINTER_VALUE")>>

ReadOp(terms) ==
  FlattenSeq([i \in DOMAIN terms |-> ReadOpTerm(terms[i])]) \o <<Op("SAVE_ADDR")>>

-----------------------------------------------------------------------------
(* PointArg::read_more.  A number or plain pointer of a uprobe is not read *)
(* further either, but its type has no operations, which is the same.      *)
read_more(arg, side) == arg.point \in {"all", side}

IsText(arg) == arg.type.name \in {"string", "std"}
IsBuffer(arg) == arg.type.parent = "buffer"
FilterOps(arg, code) == [i \in DOMAIN arg.filters |-> OpValue(code, arg.filters[i])]

(* PointArg::get_op_list on one side of the call.                          *)
get_op_list(arg, side) ==
  LET address == IF arg.extra # <<>> THEN arg.extra
                 ELSE <<add_read_save_reg(arg.reg), Op("MOVE_REG_VALUE")>>
      values  == IF IsText(arg) \/ IsBuffer(arg) THEN <<>>
                 ELSE FilterOps(arg, "FILTER_VALUE")
      content == CASE IsText(arg)   -> FilterOps(arg, "FILTER_STRING")
                   [] IsBuffer(arg) -> FilterOps(arg, "FILTER_BUFFER")
                   [] OTHER         -> <<>>
  IN IF arg.reg = REG_ARM64_MAX THEN <<>>
     ELSE address \o values
            \o IF read_more(arg, side) THEN arg.type.ops \o content ELSE <<>>

(* The operations of each argument of a point.                             *)
ArgOps(args, side) == [i \in DOMAIN args |-> get_op_list(args[i], side)]

(* Faulty: half as many turns for a system call.                           *)
HalfTheTurns(side) == IF side = "uprobe" THEN 64 ELSE 128

(* The list of a point: all of it for a system call, where one of more     *)
(* than 256 is refused; the first 64 operations for a uprobe.              *)
MaxOpCount(side) == IF side = "uprobe" THEN 64 ELSE 256
PointOps(args, side) ==
  LET all == FlattenSeq(ArgOps(args, side))
  IN SubSeq(all, 1, IF Len(all) < MaxOpCount(side) THEN Len(all) ELSE MaxOpCount(side))
=============================================================================
