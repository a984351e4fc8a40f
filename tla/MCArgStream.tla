---------------------------- MODULE MCArgStream ----------------------------
(***************************************************************************)
(* Calls after the shipped table (assets/syscall/config_syscall_aarch64)   *)
(* and a few uprobe points.                                                *)
(***************************************************************************)
EXTENDS ArgStream

Regs(x0, x1, x2, x3) == [r \in 0..3 |-> CASE r = 0 -> x0 [] r = 1 -> x1
                                          [] r = 2 -> x2 [] r = 3 -> x3]
None == <<>>

Enter(type, reg) == PointArg(type, reg, "enter")
More(type, reg)  == PointArg(type, reg, "exit")
Probe(type, reg) == PointArg(type, reg, "uprobe")
Num(reg) == Enter(NumType, reg)

(* A vector of n iovecs at 2000, each of len bytes.                        *)
Vector(n, len) ==
  [a \in {2000 + 8 * k : k \in 0..(2 * n - 1)} |->
     IF a % 16 = 0 THEN 3000 + (a - 2000) ELSE len]

(* A msghdr at 1000 with such a vector and a control buffer.               *)
Msg(n, len) ==
  Vector(n, len)
    @@ (1016 :> 2000) @@ (1024 :> n) @@ (1032 :> 1500) @@ (1040 :> 24)

(* n pointers at base to texts, then a null pointer; the texts' lengths.   *)
Strings(base, n) == [a \in {base + 8 * k : k \in 0..n} |->
                       IF a = base + 8 * n THEN 0 ELSE a + 10000]
Texts(base, n) == [a \in {base + 8 * k + 10000 : k \in 0..(n - 1)} |-> 6]

MsgArgs(more) == <<Num(0), PointArg(MsghdrType, 1, more), Num(2), RetArg>>
SendMsg(name, n, len) ==
  Call(name, "enter", SubSeq(MsgArgs("enter"), 1, 3), Regs(4, 1000, 0, 0), Msg(n, len), None, None)
RecvMsg(name, n) == Call(name, "exit", MsgArgs("exit"), Regs(4, 1000, 0, 0), Msg(n, 30), None, None)

Exec(name, n) ==
  Call(name, "enter", <<Enter(StringType, 0), Enter(StringArrayType, 1), Enter(StringArrayType, 2)>>,
       Regs(900, 1000, 5000, 0), Strings(1000, n) @@ Strings(5000, n),
       (900 :> 8) @@ Texts(1000, n) @@ Texts(5000, n), None)

Write(name, len) ==
  Call(name, "enter", <<Num(0), Enter(BufferRegType(2), 1), Num(2)>>,
       Regs(1, 1000, len, 0), None, None, None)

Accept(name) ==
  Call(name, "enter", <<Num(0), Enter(StructType("sockaddr", 110), 1),
                  Enter(PointerType(NumType), 2)>>,
       Regs(3, 1000, 1200, 0), None, None, None)
Pwait(name) ==
  Call(name, "exit", <<Num(0), PointArg(StructType("epoll_event", 12), 1, "all"),
                 More(ArrayType(4), 2), RetArg>>,
       Regs(3, 1000, 1200, 0), None, None, None)

LongTexts(name) ==
  Call(name, "enter", <<Enter(StringType, 0), Enter(StringType, 1), Enter(StringType, 2)>>,
       Regs(900, 950, 970, 0), None, (900 :> 16384) @@ (950 :> 1) @@ (970 :> 16384), None)

(* -w sym[str,std,str16,il2cpp,buf:16,*sockaddr,...] with read_op terms.   *)
Term(kind, n) == [kind |-> kind, n |-> n]
At(arg, terms) == [arg EXCEPT !.extra = ReadOp(terms)]
Reading(name) ==
  Call(name, "uprobe",
       <<Probe(StringType, 0), Probe(StdType, 1), Probe(StdType, 2), Probe(Il2cppType, 3),
         At(Probe(HexOf(NumType), 0), <<Term("first", 3), Term("+", 16), Term("-", 8),
                                        Term(".", 0), Term("+reg", 0), Term("-reg", 1)>>),
         Probe(PointerType(StructType("sockaddr", 110)), 3)>>,
       Regs(900, 1000, 1100, 1200), (1100 :> 3) @@ (1116 :> 950) @@ (1208 :> 700),
       (900 :> 6) @@ (950 :> 7) @@ (1001 :> 3), None)
ProbeMsg(name, n) ==
  Call(name, "uprobe", <<Probe(MsghdrType, 1), Probe(PtrType, 0)>>,
       Regs(4, 1000, 0, 0), Msg(n, 30), None, None)
ProbeBuffers(name) ==
  Call(name, "uprobe", [i \in 1..8 |-> Probe(BufferLenType(4096), 1)],
       Regs(4, 1000, 0, 0), None, None, None)
ProbeStrings(name, n) ==
  Call(name, "uprobe", <<Probe(StringArrayType, 1), Probe(NumType, 0)>>,
       Regs(4, 1000, 0, 0), Strings(1000, n), Texts(1000, n), None)

(* openat with a name filter; write with a scalar and a buffer filter.     *)
Filtered(arg, filters) == [arg EXCEPT !.filters = filters]
Open(name, filters) ==
  Call(name, "enter", <<Num(0), Filtered(Enter(StringType, 1), <<1, 2>>), Num(2)>>,
       Regs(4, 900, 0, 0), None, 900 :> 6, filters)
WriteIf(name, filters) ==
  Call(name, "enter", <<Filtered(Num(0), <<1>>), Filtered(Enter(BufferLenType(32), 1), <<2>>)>>,
       Regs(4, 1000, 0, 0), None, None, filters)

TableCalls ==
  {SendMsg("sendmsg", 1, 30), SendMsg("sendmsg two", 2, 30), SendMsg("sendmsg six", 6, 30),
   SendMsg("sendmsg none", 0, 30), SendMsg("sendmsg seven", 7, 30),
   SendMsg("sendmsg large", 8, 5000), SendMsg("sendmsg thirty", 30, 30),
   RecvMsg("recvmsg", 2), Exec("execve", 2), Exec("execve full", 33),
   Write("write", 100), Write("write none", 0), Write("write long", 5000),
   Accept("accept"), Pwait("epoll_pwait"), LongTexts("long texts"),
   Reading("reading"), ProbeMsg("msghdr probe", 2), ProbeMsg("msghdr probe five", 5),
   ProbeBuffers("buffers probe"), ProbeStrings("strings probe", 2),
   ProbeStrings("strings probe full", 33),
   Open("open match", <<"miss", "match">>), Open("open miss", <<"miss", "none">>),
   Open("open black", <<"reject", "match">>), Open("open unknown", <<"miss">>),
   WriteIf("write if", <<"none", "match">>), WriteIf("write not", <<"reject", "match">>)}

(* What is proved of readable calls is about these.                        *)
ASSUME TableIsReadable == \A c \in TableCalls : Readable(c)

(* writev(fd, iov, n): the type the table calls iovec, its count in x2.    *)
Writev(name, n) ==
  Call(name, "enter", <<Num(0), Enter(IovecRegType(2), 1), Num(2)>>,
       Regs(1, 2000, n, 0), Vector(n, 30), None, None)
VectorCalls == {Writev("writev", 1), Writev("writev two", 2), SendMsg("sendmsg", 2, 30)}
ASSUME VectorsAreOwn == \A c \in TableCalls \cup VectorCalls : OwnVectors(c)
=============================================================================
