----------------------------- MODULE ArgStream -----------------------------
(***************************************************************************)
(* The interpreter of the kernel side and the reader of the user side, put *)
(* together: the point arguments of a call give read_args its operations   *)
(* and tell the reader what to expect in the event.                        *)
(***************************************************************************)
EXTENDS ReadArgs, ParseArgs

(* Where the operations of each argument end, before any is cut off.       *)
ArgEnd(list, where, i) == Len(FlattenSeq(SubSeq(ArgOps(list, where), 1, i)))
ArgEnds(list, where) == {ArgEnd(list, where, i) : i \in DOMAIN list}

(* A call of a point with the arguments list.                              *)
Call(name, where, list, regs, words, text, filters) ==
  [name |-> name, side |-> where, args |-> list,
   ops |-> PointOps(list, where), ends |-> ArgEnds(list, where),
   regs |-> regs, mem |-> words, text |-> text, filters |-> filters]

-----------------------------------------------------------------------------
(* The operations that set the count of a loop, those that may stop it,    *)
(* and all that have to do with loops.                                     *)
CountCodes == {"SET_BREAK_COUNT", "SET_BREAK_COUNT_REG_VALUE",
               "SET_BREAK_COUNT_POINTER_VALUE"}
StopCodes == {"SAVE_PTR_STRING", "SAVE_PTR_STRING16"}
LoopCodes == CountCodes \cup StopCodes \cup {"FOR_BREAK", "RESET_CTX"}

LoopFree(op) == op.code \notin LoopCodes /\ op.post \notin LoopCodes
Counts(op) == /\ op.code \in CountCodes \/ op.post \in CountCodes
              /\ {op.code, op.post} \cap (LoopCodes \ CountCodes) = {}
Stops(op) == op.code \in StopCodes /\ op.post \notin LoopCodes

(* A type has no loop, or one: its count is set before its head, and only  *)
(* its body has operations that stop it.                                   *)
OneLoop(list) ==
  \/ \A k \in DOMAIN list : LoopFree(list[k])
  \/ \E head, tail \in DOMAIN list :
       /\ head < tail
       /\ list[head] = Op("FOR_BREAK") /\ list[tail] = Op("FOR_BREAK")
       /\ \A k \in DOMAIN list \ {head, tail} :
            \/ LoopFree(list[k])
            \/ Counts(list[k]) /\ k < head
            \/ Stops(list[k]) /\ head < k /\ k < tail

(* The arguments of a point: their types are built by ArgTypes, where all  *)
(* have at most one loop, and so are their read_op operations.             *)
ArgsOfPoint(list) ==
  /\ Len(list) \in Nat /\ DOMAIN list = 1..Len(list)
  /\ \A i \in DOMAIN list :
       /\ list[i].reg \in Nat
       /\ list[i].filters \in Seq(Nat)
       /\ list[i].type.ops \in Seq(Operations) /\ OneLoop(list[i].type.ops)
       /\ list[i].extra \in Seq(Operations)
       /\ \A k \in DOMAIN list[i].extra : LoopFree(list[i].extra[k])

ASSUME ArgStreamAssumption ==
  \A c \in Calls : /\ ArgsOfPoint(c.args)
                   /\ c.ops = PointOps(c.args, c.side)
                   /\ c.ends = ArgEnds(c.args, c.side)

-----------------------------------------------------------------------------
(* What the reader can read: most of the types that ArgTypes builds.       *)
ReadByName == {"iovec", "msghdr", "string_array", "dirent"}
IsNumber(type)  == type.base \in {"NUM", "POINTER"}
HasSize(type)   == \/ type.base = "ARRAY"
                   \/ type.base = "STRUCT" /\ type.name \notin ReadByName
AnyLength(type) == \/ type.base \in {"STRING", "BUFFER"}
                   \/ HasSize(type) /\ type.size = 0

(* A number; one piece of any length or of the size of the type; an array  *)
(* of strings.                                                             *)
SavesText(type) == type.ops \in {StringType.ops, String16Type.ops, Il2cppType.ops, StdType.ops}
SavesBuffer(type) ==
  \/ type.ops = BufferLenType(type.size).ops
  \/ Len(type.ops) = 3 /\ type.ops = BufferRegType(type.ops[2].value).ops
SavesStruct(type) ==
  /\ type.size \in 0..MAX_BUF_READ_SIZE
  /\ type.ops \in {StructType(type.name, type.size).ops, ArrayType(type.size).ops}
SavesStrings(type) == type.ops = StringArrayType.ops

Plain(type) ==
  /\ type.child = <<>> /\ type.ops \in Seq(Operations)
  /\ \/ IsNumber(type) /\ type.ops = <<>>
     \/ AnyLength(type) /\ (SavesText(type) \/ SavesBuffer(type))
     \/ HasSize(type) /\ SavesStruct(type)
     \/ type.base = "STRUCT" /\ type.name = "string_array" /\ SavesStrings(type)

ReadableType(type) ==
  \/ Plain(type)
  \/ type = MsghdrType
  \/ /\ Len(type.child) = 1 /\ Plain(type.child[1])
     /\ type.child = <<type.child[1]>>
     /\ type.ops = PointerType(type.child[1]).ops

(* The operations of a read_op expression.                                 *)
AddressOp(op) ==
  \/ op.code = "READ_REG" /\ op.post = "MOVE_REG_VALUE"
  \/ /\ op.code \in {"ADD_REG", "SUB_REG", "ADD_OFFSET", "SUB_OFFSET",
                      "READ_POINTER", "MOVE_POINTER_VALUE"}
     /\ op.post = "SKIP"
SavesAddress(list) ==
  /\ list # <<>> /\ list[Len(list)] = Op("SAVE_ADDR")
  /\ \A k \in 1..(Len(list) - 1) : AddressOp(list[k])

(* A call of such arguments.  On return, and only then, the last of them   *)
(* is the value returned; a msghdr is the one its register points to.      *)
IsReturn(c, i) == c.side = "exit" /\ i = Len(c.args)
Readable(c) ==
  /\ c.side = "exit" => c.args # <<>>
  /\ \A i \in DOMAIN c.args :
       LET arg == c.args[i]
       IN /\ ReadableType(arg.type)
          /\ arg.reg = REG_ARM64_MAX <=> IsReturn(c, i)
          /\ IsReturn(c, i) => IsNumber(arg.type) /\ arg.type.child = <<>>
          /\ \/ arg.extra = <<>>
             \/ SavesAddress(arg.extra) /\ arg.type # MsghdrType

(* A call whose vectors are those that argtype makes, each at an address   *)
(* that a register or a read_op expression gives.                          *)
OwnVectors(c) ==
  \A i \in DOMAIN c.args :
    LET arg == c.args[i]
    IN arg.type.name \in {"msghdr", "iovec_reg"} =>
         /\ arg.type = MsghdrType \/ arg.type = IovecRegType(arg.type.ops[1].value)
         /\ arg.reg # REG_ARM64_MAX
         /\ arg.extra = <<>> \/ SavesAddress(arg.extra)

args == call.args
mem  == call.mem

-----------------------------------------------------------------------------
(* The arguments that are read on this side and have a vector of iovecs,   *)
(* where the vector is and how long.                                       *)
Vectors == {i \in DOMAIN args : /\ args[i].type.name \in {"msghdr", "iovec_reg"}
                                /\ read_more(args[i], side)}
RegOf(i) == Word(call.regs, args[i].reg)
VectorLen(i) ==
  IF args[i].type.name = "msghdr" THEN Word(mem, RegOf(i) + 24)
  ELSE Word(call.regs, args[i].type.ops[1].value)
SmallVectors == \A i \in Vectors : VectorLen(i) \in 1..MAX_IOV_COUNT

(* Not all of what the arguments ask for was executed.                     *)
Partial ==
  \/ ctx.post_code # "SKIP"
  \/ ctx.op_key_index < Max(call.ends)

IsStruct(k, size) == buf.pieces[k].kind = "bytes" /\ buf.pieces[k].want = size
Torn == \E k \in DOMAIN buf.pieces :
          /\ IsStruct(k, SIZEOF_IOVEC) \/ IsStruct(k, SIZEOF_MSGHDR)
          /\ buf.pieces[k].len = 0
PointerLost == \E k \in DOMAIN faulted : faulted[k].code = "READ_POINTER"
CountLost == \E k \in DOMAIN faulted : faulted[k].post = "SET_BREAK_COUNT_POINTER_VALUE"

InWord(a) == Word(mem, a)
Parsed == ParseArgs(args, side, buf.pieces, mem) = Len(buf.pieces) + 1

-----------------------------------------------------------------------------
(* The reader takes every event apart exactly as it was put together, and  *)
(* to its end (parse.rs:5-7, "walks the same TLVs in the same order"),     *)
(* whatever could not be read of the program's memory, except where the    *)
(* code gives up: a full event buffer, a list that was cut short, a vector *)
(* of none or of more than six iovecs, a msghdr or iovec that could not be *)
(* copied, a vector whose length could not be read.                        *)
Understood ==
  phase = "sent" /\ ~buf.full /\ ~Partial /\ SmallVectors /\ ~Torn /\ ~CountLost
    => Parsed

(* The same without all but the first two excuses: the reader walks the    *)
(* same pieces in the same order (parse.rs:5-7), for every type it is      *)
(* given, the iovec_<reg> types included (complex_types.rs:300-304).       *)
EveryEventParsed == phase = "sent" /\ ~buf.full /\ ~Partial => Parsed

(* Piece v is the address of a vector's argument, the iovecs of the vector *)
(* follow one after the other, each with its own bytes: as many as the     *)
(* program says there are, one if it says none and 32 at most.             *)
HasPiece(k, want, at) == /\ k \in DOMAIN buf.pieces /\ IsStruct(k, want)
                         /\ buf.pieces[k].at = at
IovecSaved(k, at) ==
  /\ HasPiece(k, SIZEOF_IOVEC, at)
  /\ HasPiece(k + 1, Least(MAX_BUF_READ_SIZE, InWord(at + 8)), InWord(at))
VectorTurns(count) == IF count = 0 THEN 1 ELSE Least(count, MAX_LOOP_COUNT)
VectorSaved(i, v) ==
  LET a     == buf.pieces[v].at
      inMsg == args[i].type.name = "msghdr"
      base  == IF inMsg THEN InWord(a + 16) ELSE a
      count == IF inMsg THEN InWord(a + 24) ELSE Word(call.regs, args[i].type.ops[1].value)
      first == IF inMsg THEN v + 3 ELSE v + 2
  IN /\ buf.pieces[v].kind = "raw" /\ (args[i].extra = <<>> => a = RegOf(i))
     /\ inMsg => HasPiece(v + 1, SIZEOF_MSGHDR, a)
     /\ \A j \in 0..(VectorTurns(count) - 1) :
          IovecSaved(first + 2 * j, base + SIZEOF_IOVEC * j)

(* When the operations of an argument are done its vector is saved in      *)
(* order: tmp_value survives the body of the loop, which moves the address *)
(* away to the bytes of each iovec (complex_types.rs:315, 419), and no     *)
(* struct that could not be copied shifts the ones behind it.              *)
VectorInOrder ==
  ~buf.full /\ ~PointerLost =>
    \A i \in Vectors :
      ctx.op_key_index >= ArgEnd(args, side, i) => \E v \in DOMAIN buf.pieces : VectorSaved(i, v)

(* No loop reaches into the next argument: when the operations of an       *)
(* argument are done the loop of FOR_BREAK is closed, also after a string  *)
(* that could not be read has stopped it (utils.h:275).                    *)
LoopsClosed ==
  ctx.post_code = "SKIP" /\ ctx.op_key_index \in call.ends =>
    ctx.loop_count = 0 /\ ctx.break_count = 0 /\ ctx.loop_index = 0

(* 256 turns are enough for the arguments of every system call (read_args  *)
(* ends silently at MAX_OP_COUNT), with full string arrays and as many     *)
(* iovecs as the reader shows.                                             *)
ListFitsBudget ==
  steps = MaxOpCount(side) /\ Partial => side = "uprobe" \/ ~SmallVectors
=============================================================================
