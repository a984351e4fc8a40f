# TLA+ models of stackplz-rust

stackplz traces the system calls (`-s`) and the user functions (`-w`, `-c`) of
Android processes with eBPF. A Rust program parses the options, loads one eBPF
object, writes the filters into its maps, attaches its programs, and prints what
arrives in a perf buffer until Ctrl-C. This directory holds TLA+ modules of the
parts where order, sharing and history matter, configurations that check them
with TLC, and theorems about them checked with TLAPS.

Paths are relative to the repository; `filtering.h` stands for
`ebpf/common/filtering.h`, `cli/mod.rs` for `src/cli/mod.rs`, and so on.

## The system

| Part | State | Operations | Interacts by |
|---|---|---|---|
| Command line, options (`cli/`, `config/`) | option structs | parse, select a module | calls; ends in one module and its configuration |
| Run lifecycle (`cli/mod.rs`, `cli/stack_cmd.rs`) | `INTERRUPTED`, an mpsc channel, two threads | start, poll, report, end | flag and channel between main thread and module thread; signals |
| Map setup (`module/syscall_tracepoint.rs`) | what is attached, what is written | attach, write each map, open the perf buffer | eBPF maps, while the programs already run |
| Syscall programs (`ebpf/syscall.c`) | `ctx_regs_map`, `child_parent_map` | sys_enter, sys_exit, sched_process_fork | maps shared by all CPUs; perf events; signals to the tasks |
| Task filter (`filtering.h`, `config/syscall.rs`) | `common_list`, `thread_filter`, `common_filter` | should_trace | read by every program |
| Argument VM (`ebpf/utils.h`, `buffer.h`, `argtype/`) | registers of the interpreter, `op_list`, the event buffer | read_args, 34 operations | per-CPU context; `arg_filter` |
| Argument reader (`argtype/parse.rs`, `event/render.rs`) | a cursor | one reader per type | the event the VM has written, the same point arguments |
| Argument filters (`config/filter.rs`) | the filter registry, `arg_filter` | add_filter, filter operations | index written into point arguments |
| Syscall selection (`config/syscall_select.rs`) | the selection, the filters of each point | select, expand_spec, apply_filter_groups | point table, filter registry; ends in the options of the module |
| String comparison (`buffer.h`) | `str_buf`, `str_buf_map` | strcmp_by_map | one hash map for all CPUs |
| Stack programs (`ebpf/stack.c`) | saved registers of linked points | probe_stack_0..5, fork handler | as the syscall programs |
| Perf transport (`buffer.h`, `contract/decode.rs`, `event/`) | one ring per CPU | submit, poll, lost, decode | kernel to user |
| Registries (`argtype/op.rs`, `registry.rs`) | global tables behind mutexes | add, look up | indices used as map keys |
| Signal manager, unwinder, logger, assets | small | resume, load once, print, extract | files, `dlopen`, `kill` |

What makes it hard: the programs of different threads run on different CPUs at
the same time and share hash maps that have a limit and fail in silence; the
verdict about a call is taken twice, at its entry and at its return, from
identities that may change in between; threads die inside calls; ids are reused;
the programs run while their filters are still being written; the two threads of
the tracer, a channel with a timeout, and signals meet in any order.

The properties each part needs:

* *Programs*: enter and exit events pair up per thread; arguments belong to the
  call they are printed with; a filtered call is silent; a stop has a printed
  cause; the fork list holds the children of the chosen processes.
* *Task filter*: the levels decide in order; a blacklist only removes.
* *Selection*: the calls admitted are those that `-s` means and `--no-syscall`
  does not; a filter sits where its place behind the colon puts it, and nowhere else.
* *Setup*: no task or call outside the final filters is reported or stopped, or it is
  said which; children are followed once the run polls.
* *`common_list`*: which entries of one list are seen in another.
* *Perf transport*: no gap in what is printed is silent; nothing stays unread.
* *String comparison*: a match is one, or its cause has a name; no rule stays in the
  map.
* *Argument filters*: the verdict is what the rules say, whatever their order and
  whatever other texts have left behind.
* *Lifecycle*: the process ends when it should, with the right result or a known
  wrong one; a probe is attached as a whole while it polls, and not at all afterwards.
* *Argument VM and reader*: the reader understands what the VM has saved,
  whatever could not be read; vectors are walked in order; a loop ends with its
  argument; the event buffer is not overrun and the turns suffice.
* *Stack programs*: a hit is reported if it should be, as the point it hit.

## The modules

| Module | Models | Check |
|---|---|---|
| `Filtering` | `should_trace`, the syscall-number filter, the maps that the options become | through its users |
| `CommonList` | the eight lists in the keys of one map | through `TaskFilter` |
| `TaskFilter`, `MCTaskFilter` | what the filter promises, over all combinations | through `CommandLine` |
| `SyscallSelect` | `select()`: `-s`, `--no-syscall` and the placement of `-f` | through `CommandLine` |
| `CommandLine`, `MCCommandLine` | a command line and the maps it becomes | `task_filter` |
| `CommandLineProofs` | theorems about the task filter, the selection and both together | TLAPS |
| `CallReports` | abstract: the events of a thread alternate between enter and exit | refined by `SyscallTrace` |
| `SyscallTrace`, `MCSyscallTrace` | the three programs and the tasks they watch | `trace_*` |
| `SyscallTraceProofs` | theorems | TLAPS |
| `SyscallStartup` | attach and map writes, with sys_enter, lookup by lookup, and the fork handler running meanwhile | through `SyscallRun` |
| `PerfRing` | the perf buffer: a ring per CPU, losses, the poll loop and its callbacks | through `SyscallRun` |
| `SyscallRun`, `MCSyscallRun` | `run()` from the attach to the detach: the two composed | `startup_order` |
| `SyscallRunProofs` | theorems about `PerfRing` and `SyscallRun`, and that `SyscallRun` implements `PerfRing` | TLAPS |
| `StringMatch`, `MCStringMatch` | `strcmp_by_map` on several CPUs | `string_*` |
| `StringMatchProofs` | theorems | TLAPS |
| `ArgFilter`, `MCArgFilter` | the encoding of `-f` rules and the verdict of `read_args` | `filter_verdict` |
| `ArgFilterProofs` | theorems | TLAPS |
| `ArgTypes` | operations, argument types, the list a point argument contributes | through its users |
| `ReadArgs` | the interpreter `read_args` and the event buffer | through `ArgStream` |
| `ParseArgs` | the reader of an event's arguments | through `ArgStream` |
| `ArgStream`, `MCArgStream` | interpreter and reader composed | `arg_stream`, `iovec_stream` |
| `ReadArgsProofs` | theorems about `ArgTypes`, `ReadArgs` and `ArgStream` | TLAPS |
| `Lifecycle`, `MCLifecycle` | main thread, module thread, channel, flag, probes and their links | `lifecycle` |
| `LifecycleProofs` | theorems | TLAPS |
| `StackProbe`, `MCStackProbe` | the points of `-w`, their attach, `probe_stack_<i>` in the tasks that run hooked functions | `stack_hits` |
| `StackProbeProofs` | theorems | TLAPS |

Operators whose comment begins with *Faulty* are not part of a model: each is a
plausible bug of the code (a guard dropped, a reset forgotten, an order swapped)
put next to the definition it would replace, and shows that the property it is
paired with in `PROJECT.json` can fail.

### Filtering

A task is `[tid, pid, uid, comm]`. The maps are one record: each segment of
`common_list` is a set, `thread_filter` two sets by value, the fields of
`common_filter` and `base_config` are fields. `ShouldTrace` has the checks of
`should_trace` in their order. `MapsOf` is what `update_all_maps` leaves in the
end for a record of options, and `ForkRoots` the seeds of `child_parent_map`.
The uid groups are given as the set of uids they cover.

### SyscallTrace

State: the three maps (`maps`, `child_parent_map`, `ctx_regs_map`), the tasks
(`live`, `pid`, `uid`, `comm`), where each is in a call (`phase`, `call`), the
stopped ones, and the event of the last step. `kin`, `outcome` and the field
`own` of a saved entry are history: they record what happened and guard nothing.

| Action | Code |
|---|---|
| `EnterIgnored`, `EnterSave` | sys_enter up to line 98; up to the first `save_regs`, 108 |
| `EnterSkip`, `EnterSubmit` | sys_enter after `read_args`: 148-153, 155-164 |
| `ExitUnseen`, `ExitSilent`, `ExitSubmit` | sys_exit: returns before `load_regs`; finds nothing, a flag, or a rejection; submits |
| `Fork` with `ForkHandler` | the kernel's clone with the fork program, lines 37-56 |
| `Die`, `SetComm`, `SetUid`, `Denied`, `SigCont` | the kernel: what a task may do to itself |

A program runs to its end on its CPU; sys_enter is split after its first
`save_regs`, the point other CPUs can observe (the map may be full for them). What
is known of arm64 Linux and matters here: the child of a clone does not run
sys_exit; exit and exit_group never do; rt_sigreturn does, with no syscall number; a
call that seccomp denies runs sys_exit without sys_enter; names and uids may change
inside a call. An execve by a thread that is not the main one (which changes its
tid) is left out. Argument filters reject any call that has some: `-s name:f` gives
them to the enter side, those of a `-c` table may sit on the exit side.

`StableSpec` is the programs with tasks that keep their name and uid and are
never denied a call; `Spec` adds those changes. Most promises hold for the
first only, which is worth knowing; `FilteredCallSilent`, `OneGeneration` and
`StopAnnounced` hold for both.

The module, and `SyscallStartup`, take the programs for attached. As the source
stands the loader asks for names that `ebpf/syscall.c` does not use (below);
`ProgramNotFound` of `SyscallStartup` is that outcome.

### CommonList, TaskFilter

An entry `v` of a list has the key `Start(list) + v`, a 32-bit number. There are two
writers. The stack module checks the sum: `HasKey` is `common_list_key`
(bpf_common.rs:124), which refuses what would lie in another list, and `CheckedKeys`
are the keys of lists that pass. The syscall module adds unchecked
(syscall_tracepoint.rs:266): `AddedKeys`, where the sum wraps as in a release build.
`Found` is the lookup of `filtering.h`, a sum in 32 bits. `KeysMeanLists` says what the
kernel makes of both: of checked lists what the user gave, of unchecked ones that
and every number that `Strays`, one at or above the stride that stands just as far from
the id as its list does from the other (or 2^32 further).

`TaskFilter` has one state per options record, fork list and task, and says what the
filter promises: the eight levels, and in which direction each kind of list works.
These properties take the lists as the kernel sees them; `KeysMeanLists` is what
stands between them and the user's.

### SyscallSelect, CommandLine

`SyscallSelect` is `select()`. A token is a record: `all`, a `%group`, or a call by
name or number, with the filter groups behind its colon. `Expanded` is
`expand_spec` (names once, groups their members), `Repeated` the numbers that are
kept twice so that the loop refuses them, `Refuses` every way the loop gives up,
`Target` the argument that a filter goes to, `Registry` the numbering of the
`-f` options, of which a repeated one gets none. The order of the loop does not
show in the result, so there is none: what is left is sets.

`CommandLine` runs `select()` on a line and puts the selection into the options of
`TaskFilter`, as `build_config` does (cli/syscall_cmd.rs:97). `SelectionDecides`
holds the maps against the meaning of the two lists, token by token: groups that
overlap, names that repeat, a blacklist that is read first, `all` in any place. It
also shows that the white and the black list of calls never meet, which
`SyscallStartup` assumes.

`FiltersSitWhereNamed` says of every argument of a traced call which filters it has,
no more and no less: of several groups the one of its position, of a single group
those filters whose string argument it is (the first that is read on entry), or, for
a filter about numbers, those of the first argument (`Belongs`). Nothing in the code
asks whether an argument can take what it gets, and the property does not either: a
text rule may sit on a number.

### SyscallStartup, PerfRing, SyscallRun

`SyscallRun` is the whole of `SyscallTracepointModule::run()`, composed of two
modules. In `SyscallStartup`, `todo` is the sequence of maps still to be written,
in the order of `update_all_maps` (140-168) and `update_common_filter` (187-245).
A list is written entry by entry (`WriteEntry`), any entry first, which covers the
order of the lists and of the hash maps they come from; `WriteFails` may hit at
any write and drops the links.

A call goes through sys_enter one map lookup at a time, in the order of the code
(`Steps`): the checks of `should_trace`, the point arguments, the two lists of numbers,
the argument filters, the submission. Between any two of these steps user space, on
another CPU, may write the next entry, and a task may fork. `calls` holds the call in
flight on each CPU; a program runs to its end on its CPU, so that there is one at most.
Its field `since` is history and says how much was written when the call began: nothing
that has a point (`blind`), some point argument (`points`) or all (`complete`).

| Action | Code |
|---|---|
| `Enter` | a task makes a call, syscall.c:61-73 |
| `TakeCheck` | one check of `should_trace`, filtering.h:8-116 |
| `LookUpPoint`, `LookUpWhite`, `LookUpBlack` | syscall.c:76-98 |
| `ReadArgs` | the filters, 136-153; it may end early while `op_list` is incomplete |
| `SubmitCall` | event and signals, 155-164 |

What the number and buffer filters say of a call is fixed when it gets there. A text
filter may miss a match or find a false one when another CPU compares at the same
time (`StringMatch`): whatever such a filter says counts as kept here, so that
`Wanted` promises nothing about it. `followed` is history: the children that the
main thread of a process named and running at the start has forked since the run
polls.

`PerfRing` is the perf buffer. What the kernel and libbpf do is marked external
in the map: a ring that is full loses the event and counts it, the count becomes
a record in front of the next event that finds room, and a poll hands the records
that are there to a callback and releases them together.

| Action | Code (`module/syscall_tracepoint.rs`) |
|---|---|
| `Open`, `NotBuilt` | `build()`, 463-468, CPU by CPU, and its failure |
| `Submit`, `SubmitNowhere` | `events_perf_submit` (buffer.h:205): into the ring of this CPU, or on a CPU that has none |
| `Check`, `Timeout`, `Wake`, `BatchDone` | the loop, 472-477 |
| `Snapshot`, `Release` | libbpf: the records of one ring, from the read of its head to the new tail |
| `HandleEvent`, `HandleLost` | the callbacks, 447-461 |
| `PollFails`, `Signal`, `Close` | an EINTR in the poll, Ctrl-C elsewhere, 479-481 |

An event is what its submitter says of it: `SyscallRun` puts there whether the user
wants its task and its call. It opens the rings when all maps are written
(`OpenRing`), polls (`PollRings`), and drops the rings before the links
(`CloseRings`, `Detach`), so that the programs fire into nothing at both ends of the
run.

### StringMatch

The steps of `strcmp_by_map` that touch the shared map, one action each. A key is
compared on its full length, so a text cut to the length of the rule and padded with
zeros matches rules of that length and, when the text is one shorter and its NUL is
counted, of one less. The rules may have any lengths; `FalseMatchesExplained` says
where a false match comes from, always from the rule of another program that is
comparing at that moment, and that rules whose lengths are two apart are never
mistaken for each other. `str_buf_map` is keyed by thread and of no consequence to
others.

### ArgFilter

A call has up to three filter operations, in any order, on scalars, buffers and
strings. A 64-bit number is its eight bytes: `add_filter` does the byte swaps and
the shift of config/filter.rs:165-197 on them, `BufferMatch` and `TextMatch` what
`read_args` and `strcmp_by_map` do with the result. `str_len`, the length of the
last text that was saved, is state: a text that cannot be read, or finds no room in
the event, is compared under the length of the text before it (utils.h:243).
`VerdictFollowsRules` holds the verdict against what the rules ask for in the words
of `add_filter`, without lengths and masks: a number equal to, above or below
another (`AsksNumber`), a buffer that starts with some bytes (`StartsWith`), a text
that starts with a string. Where the code takes a rule otherwise, the property names
it: `Taken` (`gt` and `lt` are exchanged), `TakenBytes` (the hexadecimal digits of
`bx` are read as a decimal or octal number, an address is followed by four zeros),
`SaysBuffer` and `SaysText` for rules on an argument of the other kind. A filter
that is missing from `arg_filter` is in the property, too: those behind it are not
asked (`Reached`). Two cases are left out of it because the earlier length does
decide there (`Stale`): a text without room, and `bx` on a text that cannot be read.
A rule of kind `none` is an index that no filter has: `read_args` ends before its
verdict (`FilterMissing`). A `w:` or `b:` string has at most 256 bytes, the size of
`str_val`; a `w:` string of 64 bytes and more on a buffer shifts by 64 bits or more,
which C leaves undefined, and is excluded by the assumption.

### ArgTypes, ReadArgs, ParseArgs, ArgStream

`ArgTypes` has the operations of `argtype/op.rs`, the types that
`base_types.rs` and `complex_types.rs` register as sequences of them, and
`get_op_list`: what a point argument adds to the list of its point. The index of
an operation in `op_list` is abstracted, an operation is its content.

`ReadArgs` is `read_args`, one step per turn of its loop. State: `ctx` (`op_ctx_t`
and the operation fetched last), `steps`, `buf` (the offset and the pieces saved,
each a kind, a length and where it came from), `phase`.

| Action | Code (`utils.h`) |
|---|---|
| `RegisterStep` with `Effect` | the operations that touch the context only, 52-97, 111-152 |
| `ReadPointer`, `ReadStdString` | 157-165, 306-320 |
| `ForBreak` | head and end of a loop, 98-110 |
| `SaveRaw`, `SaveStruct`, `SaveString`, `SavePtrString` | 129-187, 238-305 with the functions of `buffer.h` |
| `ApplyFilter` | 188-237, with the verdict of a filter given by the call |
| `GivesUp` | the returns in the middle: no such register or filter |
| `ReadEnds` | the end of the list or of the turns, 340-356, and the submission |

Every step that reads the traced memory may fail, also where the address is
good (`bpf_probe_read` brings no page in); `MaxFaults` bounds how often. The
first turn does nothing: `op_ctx` is zeroed, and 0 is not `OP_SKIP`.

`ParseArgs` is the reader: for each type, how many pieces it takes and of which
shape, as a position in the sequence of pieces, or `Lost`. It reads counts from
the copy in the event, the interpreter from memory.

`ArgStream` puts both together for a call. Its assumption says what the arguments of
a point are: the operations of a type have one loop at most, those of a `read_op`
none, as every type and expression of `ArgTypes` does (proved). `Readable` says of a
call that the reader knows its types: all but those that it takes apart by name or
count and that are given another name or count than it expects (string16 arrays, the
two iovec types, a msghdr in hex or behind a pointer) and pointers to pointers; on
return the last argument is the value returned, and a msghdr is where its register
points. The table that TLC runs is readable, which it evaluates. `Understood` says
that the reader ends exactly at the end of the event. Where the code itself gives up
it is not stated; these are the desynchronisations the model shows to exist:

* the reader takes at most 6 iovecs (`MAX_IOV_COUNT`), the interpreter saves up
  to 32, and with a count of 0 still one (the head of the loop only closes it,
  and the body behind it runs once);
* a msghdr or iovec that cannot be copied is saved with length 0, and the reader
  takes 56 or 16 bytes regardless (parse.rs:310, 335);
* the count of a vector is read a second time (complex_types.rs:416), and may
  fail where the first copy did not;
* a piece that finds no room in the event is dropped, the next may fit;
* lists of uprobes are cut at 64 operations and turns: a msghdr of five iovecs
  is cut in the middle;
* an array longer than 4096 bytes is saved as 4096 (utils.h:177) and refused by
  the reader.

### Lifecycle

`main` is in `check` (line 198) or `recv` (201) or has its result. `worker` is the
place of the module thread: `setup` (load; StackMod writes its maps here), `attach`
(one program after the other, each with a link in a vector), `build` (SyscallMod
writes its maps; the perf buffer), `loop` (the test of the flag), `poll`,
`stopping`, `failed` (an error on its way to the channel), `returned`, `done` (the
sender is dropped). `links` are the links that are alive: a failure at any place of
the set-up, after any number of attaches, drops those made so far. SyscallMod
attaches three programs; StackMod has one probe with a program for each point of
`-w`, or a probe for every point of its `-c` files (stack_cmd.rs:102-191), which it
runs one after the other in the same thread: a later one is set up only when the
interrupt flag is set, and finds that out at its first test.

`Interrupt` is a signal on either thread; on the module thread in `poll` it may make
poll fail with EINTR. `Hang` is a print to a pipe that nobody reads. `fault`,
`struck` (an EINTR has failed a poll) and `late` (the first signal came while the
main thread waited) are history. `FailuresExplained` says when a run without a fault
fails all the same: there are two ways, which the comments at stack_probe.rs:274 and
cli/mod.rs:213 do not foresee (below), and no third.

### StackProbe

`points` is the result of `parse_hook_point` for the `-w` list of the run: a
number, `enter_key`, the function and side it is attached to, and whether a filter
sits on its arguments. `attached` counts the programs attached so far, `result`
is how far `StackProbeModule::run` has come. The tasks have `live`, `pid`, `comm`
and `stack`, the hooked functions each thread is in. `hit` is the point passed in
the last step and the event it sent, if any. `ctx_regs_map` is a set of entries.

| Action | Code |
|---|---|
| `WriteMaps`, `Attach`, `OpenBuffer`, `Ends` | stack_probe.rs 116-198, one turn of 203-233, 240-272, any error or the end of the poll loop |
| `Enter`, `Return` with `Probe` | a function is entered, or left through its exit offset, and `probe_stack_warp` runs (stack.c 39-116) |
| `Unwind`, `Fork`, `Die`, `SetComm`, `SigCont` | what tasks may do to themselves; a new process stands in the calls of its parent |

The maps are complete before the first attach, unlike in the syscall module.
Filters are those of `Filtering` without the permissive default
(bpf_common.rs:280). A value of a register is `kept` or `dropped` by the filter of
a point. The functions of a run are distinct, and the given exit offset is the
right one.

As the source stands, `get_exit_point` (point_parser.rs:414) copies `enter_key`
before line 416 sets it, so that exit points have `enter_key = 0` and never reach
`load_regs`: what enter points save is never read. So nothing is stated about saved
registers, but that they do not matter: `HitsReported` holds for exit points, too,
whatever is in the map. A mutant with the two lines swapped breaks it.

## What is checked

Runs that find no error:

| Run | Instance | Shows |
|---|---|---|
| `trace_stable` | 3 task ids, one process at first, `-p 1 --kill`, 4 calls, full-size maps (485 365 states) | types; exits close submitted enters with their own arguments (`PairedExit`); the event stream implements `CallReports`; every return of a reported call is reported (`ExitReported`); stops come with an event (`StopAnnounced`); one generation in the fork list |
| `trace_changing` | 2 task ids, 2 names, 2 users, denied calls, `ctx_regs_map` of one entry, trace-all with a blacklist (103 640 states) | a filtered call stays silent whatever the tasks do (`FilteredCallSilent`) |
| `task_filter` | every combination of the ten lists, an id of the next segment or the largest number in each, two fork lists, six kinds of task; every `-s` list of up to two tokens with three lists of `-f` options, or with a `--no-syscall` token (96 756 states) | first level decides; blacklists only remove; id whitelists and fork entries only add; blacklists alone trace nothing; what the kernel sees of a list that either module has written (`KeysMeanLists`); the admitted calls are what the line means (`SelectionDecides`); each argument has the filters that are placed on it (`FiltersSitWhereNamed`) |
| `startup_order` | 2 tasks, one of which may fork a process, whose pid may be named; 2 calls; filters by pid, tid, uid, group and name, `-s` names and `-s all`; 2 CPUs with rings of 2 records, up to 4 and 1 events, one call in flight (525 746 states) | no call that begins once there is a point argument is submitted or signalled for a task that the final filters exclude (`OnlyFilteredTasksFire`); with names no unwanted call at all, with `-s all` none that begins with complete maps (`FiresWanted`); only the first line of a CPU can be about an unwanted one (`PrintedIsWanted`); children of named processes are in the map (`ChildrenFollowed`); losses are announced (`GapsAnnounced`); what is in a ring is read (`EventsPrinted`) |
| `string_lengths` | 2 CPUs, two rules of length 1, one of length 2 and one of length 3 | no rule is left behind (`NoLeak`); a match is one, or comes from the rule of the other CPU (`FalseMatchesExplained`) |
| `filter_verdict` | up to 3 filters out of 13 rules on 12 arguments, with two lengths left by earlier texts (1 129 232 states) | the verdict is what the rules say, in any order, up to a filter that is missing (`VerdictFollowsRules`) |
| `arg_stream` | 28 calls with the types of the shipped table and of `-w`, one failing access at any operation (27 580 states) | the reader ends where the event ends (`Understood`); iovecs are saved in order each with its own bytes (`VectorInOrder`); no loop reaches into the next argument (`LoopsClosed`); 256 turns suffice for system calls (`ListFitsBudget`); the buffer is not overrun |
| `stack_hits` | 2 task ids, 2 functions, one with exit point and filter, calls 2 deep, a `ctx_regs_map` of one entry; and a list that expands to 8 points (305 906 states) | a hit is reported iff its point is attached, its task traced and its registers kept (`HitsReported`); its number is that of its own point in the kernel map and in the list of the printing side (`OwnPoint`); stops come with an event |
| `lifecycle` | SyscallMod; StackMod with one probe of 1 to 3 points or 1 to 3 probes of one (1 546 states) | Ctrl-C ends the process even if the module hangs; the end of the module ends it too; a fault is never a success; a failure without a fault is one of two named ones (`FailuresExplained`); a polling probe has all its links, one that is over none (`LinksFollowRun`) |

Runs that end in a counterexample, each for a line of the code that says
otherwise:

| Run | Line | What happens |
|---|---|---|
| `trace_thread_fork` | syscall.c:22, children of a chosen process are traced | the lookup is by tid: a child forked by another thread, or by a child, is not |
| `iovec_stream` | complex_types.rs:302-304, types are dispatched by name prefix | parse.rs:233 compares the whole name: `iovec_reg_2` of writev is read as a plain struct |
| `string_race` | buffer.h:249, found is match and not found is none | the delete of one CPU falls between update and lookup of another |

### Bounds

Three task ids are a process, a child and a grandchild, or two threads and a
stranger; an id is reused once free, so histories are not limited by the number of
ids. Four calls are one of each sort: plain with a filter, clone, exit,
rt_sigreturn. Maps of one to three entries are full at once, which 1024 would not
be. Two CPUs suffice for `StringMatch`: a comparison is disturbed by one other,
which has a rule of the same length, of one more, or of one less. Three operations
have every order of a blacklist, a matching and a failing whitelist filter; the
buffers and rules are one, two, three and eight bytes long, and there is one for
each with a match and without. Rings of two records are full at once; four events on
one CPU are enough for a loss, its announcement and a later event; records have one
size. One call in flight, on either CPU, meets every write between any two of its
lookups; calls do not write what others read. The process that may be forked has one
id, which is named by `-p` in one set of options and not in the others. Segments
four wide in numbers below 40 have every place a segment can overflow to. Two tokens
overlap in every way two can. Three probes have a first, a middle and a last one;
three links are none, some or all of a probe. In `StackProbe` calls two deep are a
call and one within it, of the same function or the other; one map entry is full at
once. Nothing counts without bound, so no state constraint is used.

Vectors of 0, 1, 2, 6, 7, 8 and 30 iovecs lie on both sides of the limits 6 and
32 and of the turns (256, 64); string arrays of 2 and 33 of the limit 32;
payloads of 24, 30, 100 and 5000 bytes of 4096; texts of 1, 6 and 16384 bytes of
the event buffer (three long ones do not fit). One fault at any operation shows
each substitute for a value that could not be read; the limits of the code are
kept at their real values.

`CHECK_DEADLOCK FALSE` stands where a system may really stop: all tasks are dead
(traces), the run has failed or ended (startup) or was refused or has ended (stack),
the verdict is reached (filters), the event is sent or skipped (arguments), the
process has ended (lifecycle).

### Fairness

`Lifecycle` and `SyscallRun` have liveness. `WF(MainStep)`: the main thread is
scheduled and `recv_timeout` returns after at most 200 ms. `WF(ModuleStep)`: the
module thread is scheduled and poll returns after at most 100 ms; `Hang` takes this
away for good. No fairness is put on signals, faults or the end of a loop: whether a
probe's run ever ends is up to the user. `SyscallRun` has `WF(ReadRings)`: the
thread that polls is scheduled, and poll returns when a ring has woken it or after
100 ms. There is none on the programs, so that `EventsPrinted` holds for a ring into
which nothing more comes, and none on the set-up, which may fail.

## What is proved

For every value of the constants that satisfies the modules' assumptions; no
bound on tasks, calls, filters, map sizes, CPUs or probes, unless stated.

| Theorem | Says |
|---|---|
| `SyscallTraceProofs!TypeCorrect` | `Spec => []TypeOK` |
| `FilteredCallsAreSilent` | `Spec => []FilteredCallSilent` |
| `ExitEventsArePaired` | `StableSpec => []PairedExit` |
| `StreamImplementsCallReports` | `StableSpec` implements `CallReports` |
| `ReturnsAreReported` | `StableSpec /\ CallsAreSaved => ExitReported`: as long as no call finds the map full when it saves its registers |
| `ForkListHasOneGeneration` | `Spec => []OneGeneration` |
| `StopsAreAnnounced` | `Spec => StopAnnounced` |
| `CommandLineProofs!LevelsDecideInOrder`, `BlacklistsNeverAdd`, `WhitelistsNeverRemove`, `BlacklistsAloneAreSilent` | the four promises of `TaskFilter`, for any lists of tasks, users and names |
| `KernelSeesTheLists` | `Spec => []KeysMeanLists`, for any stride and numbers, and both ways of writing |
| `LinesKeepPromises` | the same for `LineSpec`: the options of every command line |
| `SelectionMeansLists`, `FiltersAreNamed` | `LineSpec => []SelectionDecides`, `[]FiltersSitWhereNamed`, for any table of calls, groups and lists of any length |
| `ArgFilterProofs!FlagsAreRules`, `VerdictIsRules` | `Spec => []FilterInv` and with it `[]VerdictFollowsRules`, for any rules, texts and number of filters |
| `StackProbeProofs!ProbeInvariant`, `TypeCorrect` | `Spec => []ProbeInv`, for any points, tasks, functions and map size, and with it `[]TypeOK` |
| `HitsAreReported`, `PointsAreOwn`, `StopsAreAnnounced` | `Spec => []HitsReported`, `[]OwnPoint`, `StopAnnounced` |
| `SyscallRunProofs!TypeCorrect`, `LossesAreAnnounced` | `RingSpec => []RingTypeOK`, `RingSpec => []GapsAnnounced`, for any CPUs and ring sizes |
| `RunImplementsRing`, `RunAnnouncesLosses` | `RunSpec => RingSpec`, and with it `[]GapsAnnounced` |
| `FilteredTasksOnly`, `WantedCallsOnly`, `OnlyWantedIsPrinted`, `ChildrenAreFollowed` | `RunSpec => []OnlyFilteredTasksFire`, `[]FiresWanted`, `[]PrintedIsWanted`, `[]ChildrenFollowed` |
| `StringMatchProofs!TypeCorrect`, `RulesAreTakenOut` | `Spec => []TypeOK`, `Spec => []NoLeak` |
| `MatchesAreExplained` | `Spec => FalseMatchesExplained`, for rules of any lengths |
| `ReadArgsProofs!TypeCorrect`, `BufferIsNeverOverrun` | `Spec => []TypeOK`, `Spec => []NeverOverruns`, for any operation lists, memory and number of faults |
| `LoopsAreClosed` | `Spec => []LoopsClosed`, for any arguments whose types have at most one loop |
| `EventsAreUnderstood` | if every call is readable, `Spec => []Understood`, for any registers, memory, texts, filters and faults |
| `VectorsAreInOrder` | if the vectors of every call have the types of argtype (`OwnVectors`), `Spec => []VectorInOrder`, whatever the other arguments are |
| `TypesAreReadable`, `ReadOpIsReadable` | the types of `ArgTypes` that are readable, and every `read_op` |
| `TypesHaveOneLoop`, `ReadOpHasNoLoop` | every type of `ArgTypes`, of any size, register and pointee, has at most one; a `read_op` of any length none |
| `LifecycleProofs!TypeCorrect`, `LinksFollowTheRun`, `FailuresAreExplained` | `Spec => []TypeOK`, `[]LinksFollowRun`, `[]FailuresExplained`, for any number of probes and points, even without fairness |

The arguments:

* `FilteredCallSilent` and `PairedExit` speak of the step that submits; they
  rest on `CallInv`, which relates the saved entry of each thread to what
  sys_enter made of the call it is in: an entry is the call's own iff sys_enter
  let the call through, and then its flag is 1 iff a filter has skipped it. It is
  needed because the event says nothing of the entry a *silent* exit leaves.
  Its core is `SaveRegsEffect` (a failed update leaves an entry only if there
  was none) and `AbandonEffect`.
* `PairedExit` needs `StableInv` too: the filters still say of a call in
  progress what they said at its entry. The step to watch is `Fork`, which
  changes `child_parent_map` while calls are in progress: it lists a free id,
  which is no process of a live task (`SameVerdict`, `NextStableInv`).
* The refinement maps `open` of `CallReports` to the threads whose call was
  submitted; silent steps stutter, an unreported return drops its thread
  (`SilentStep`, `EndStep`, `StepImplements`).
* `ReturnsAreReported` adds `RoomInv`, that a call sys_enter has let through has an
  entry until it returns. Its hypothesis `CallsAreSaved` is about the moment of the
  first save only (`CanSave`: the thread has an entry, its own or one left behind,
  or the map has room): threads may be more than entries, and entries may leak. The
  proof is that nothing takes the entry away before the return, and that the second
  save, of the flag, then always has a place (`SaveRegsSucceeds`). Without the
  hypothesis the exit event is lost, which is what the code does.
* `MatchesAreExplained` uses `NoLeak` and `LongEnough`: what is found in the map is
  the rule of a program that compares, and the key made of a text that is long
  enough has the length of its rule, or is the whole text and one shorter
  (`FoundRule`).
* `FailuresAreExplained` uses `CauseInv`: a main thread that waits with the flag set
  was waiting when the signal came, since it looks at the flag before each wait; a
  module thread leaves its loop with a fault or the flag, and has an error to send
  only from a fault or an EINTR. `LinksFollowTheRun` uses `VectorInv`: the links
  that are alive are those of the programs attached so far, of the present probe and
  no other.
* The task filter has no history; `LevelsDecideInOrder` splits `ShouldTrace` at the
  least level with an opinion (`LeastIsMin`), the others follow from its levels.
  `KernelSeesTheLists` rests, for the checked lists, on `OneKeyOneEntry`: two keys
  are equal only if list and entry are (the entry is the remainder by the stride),
  and on `NoWrap`; for the unchecked ones on `OneWrap`, that at most one 2^32 is
  taken off a sum, and `FarNumbersStray`. The theorems speak of any options, those
  that `CommandLine` makes included.
* `LossesAreAnnounced` is inductive with `RingTypeOK` and `ReaderInv` (how far the
  reader is in the ring it reads): what is printed and announced, the records
  not yet seen and the loss not yet written always add up, record by record, to
  what was submitted. The steps to watch are `Submit`, which may write a loss and
  an event at once, and `Release`, which shifts the records under the reader.
* `FilteredTasksOnly` has to follow a call through its lookups. `CallInv` says of a
  call in flight what it has passed: if it began with a point argument written, then
  every map that a task filter reads was complete before (`OrderInv`, the order of
  `Writes`; `PointsComeLast` reads it off the sequence), so that each check it has
  passed is one of the final lists (`Kept`), and behind the last one its task is
  traced, and stays so while children are added (`TracedStays`). Of a call that
  began earlier nothing is known but that it has a point.
* `WantedCallsOnly` rests on `FireInv`: the whitelist of calls is empty until
  `op_list` is complete, and is always a part of the final one. So whatever a call
  has found there is in it for good, and its operations are all there when
  `read_args` runs, whenever the call began (`WhiteMeansOps`, `LookUpsKeep`). With
  `-s all` this is so only for calls that began with complete maps.
* `OnlyWantedIsPrinted` adds `EarlyCalls`: on a CPU whose ring is open, a call in
  flight that began before the maps were complete has nothing in the ring before it.
  There is one such call for each CPU, because a program runs to its end;
  `EventsWanted` carries the first place through rings, batches and callbacks.
* `ChildrenAreFollowed` rests on `FollowInv` and `SetupInv`, which says what the
  head of `todo` implies: once all is written, the entry of a named process that ran
  at the start is its own, whatever was forked during the seeding, since nobody can
  be forked with the id of a live task.
* `BufferIsNeverOverrun` is inductive together with `TypeOK`, which it needs for
  the length of a piece: each kind of save (`RawSaved`, `BytesSaved`,
  `TextSaved`) asks for the room of its longest piece and adds no more. The
  loop counts stay within 0..32 because `ForBreak` counts up only below
  `break_count`, and a text that stops a loop sets the one to the other
  (`ForBreakIInv`, `SavePtrStringIInv`). An operation list is any sequence of
  operations here, not only what `ArgTypes` builds.
* `LoopsAreClosed` needs to know where in its list the interpreter is. `Marked`
  gives each place a mark: outside of a loop, behind the operations that set its
  count (armed), or in its body; `PointIsMarked` finds one for every point, by an
  induction over its arguments (`FlatSteps`). `LoopInv` ties `op_ctx` to the mark:
  outside, all three counters are 0; armed, no turn has begun; in the body, either
  the count was 0 and the body is just passed through, or a turn runs and
  `loop_index` is a place of the body. The steps to watch are `ForBreak`, which
  cannot tell the head of a loop from its end, and `SavePtrString`, which stops a
  loop from within: outside of a body it would leave a count behind.
* `EventsAreUnderstood` relates three things: the place in the list, `op_ctx`, and
  how far the reader would get in what is saved so far. Its invariant `StageInv`
  gives each place a *stage* of an argument (`Mapped`: its value is read, is saved,
  a msghdr is copied, the turn of a loop has saved its pointer, ...), and `Located`
  says that what the stage claims holds (`Holds`): which pieces of this argument are
  there and what the reader has made of those before (`Reads`), the addresses and
  lengths in `op_ctx` on which the next pieces depend, and the turn of the loop.
  `Understood` alone is not inductive: it speaks of sent events only, and a reader
  at the end of the pieces saved so far may be anywhere in an argument. The proof
  has three parts. `CallIsMapped`: every list of readable arguments is a route
  through the stages, type by type (`TextRoute`, ..., `MsghdrRoute`) and joined by
  `RouteOn`. One lemma per code says what it makes of a stage (`EffectHolds`,
  `PointerHolds`, `StructHolds`, `PtrStringHolds`, `TurnHolds`), one per action
  (`SaveStructStage`, ...) fetches the operation and applies it. `ArrayIsRead` and
  `MsghdrIsRead` say that the reader makes as many turns as the interpreter did; the
  step to watch is `SavePtrString`, whose missing text must stop both at the same
  pair. Pieces only grow (`NextGrows`), and so what the reader has made of the first
  ones stays (`StaysRead`). The memory has nothing at the address 0
  (`ReadArgsAssumption`), as a text there would be an end for the reader only.
* `VectorsAreInOrder` does not use the reader, and needs no readable arguments
  around the vector. Its invariant `VectorInv` says for each vector (`VectorTells`):
  before its operations nothing, behind them that the vector is saved (`VectorIn`),
  and among them what the stage of the place claims (`Says`). There are twelve
  stages in the body of the loop, because every operation of it moves something:
  `tmp_value` holds the current iovec while `read_addr` and `pointer_value` go to
  its length and its bytes (`OnValues`), and the pieces saved so far are a header,
  whole iovecs and perhaps half of one (`OnLoop`). `ReckonsSays` is the lemma for
  the operations that only compute, `LooksSays` for a pointer, `PutsSays` for a
  save, `HeadSays` and `TailSays` for the two ends of the loop, `StepOn` the step
  among the operations. That an argument done stays done is not obvious, as a loop
  jumps backwards: `Behind` says that the body of the running loop lies behind every
  argument that is done (`PostStays`, `VectorStays`). `VectorIsLaid` finds the
  stages in the list of a call, for every `read_op` before them. `OwnVectors`, the
  hypothesis, says that the types named msghdr and iovec_reg are those that
  `argtype` makes; TLC evaluates it for the calls of the runs (`VectorsAreOwn`).
* `SelectionMeansLists`: `SelectionMade` says what the loop leaves when it does not
  give up, `LiveIsWanted` that the tokens it leaves are the calls the lists mean
  (`NamesAreMeant`), whatever repeats. That plain lists are not refused is
  `PlainIsAccepted`. `FiltersAreNamed` adds that a call has one live token
  (`TokenOfCall`), that `Target` finds the argument where a filter belongs
  (`TargetBelongs`, with `FirstStringFound` for a lone group), and that each group
  places its rules and no others (`RulesPlaced`).
* `VerdictIsRules` is the invariant `FilterInv`: the flags are the disjunction of
  what the filters passed so far say, all of these were found, and an early end
  comes only behind a rejection or at a filter that is missing. One filter agrees
  with its rule because the masked comparison of the eight bytes is one of the bytes
  (`BufferAgrees`, `BxAgrees`) and that of the texts one up to the NUL
  (`StringAgrees`), where no length of an earlier text decides (`Stale`).
* The theorems of `StackProbe` rest on `ProbeInv`: the number of a point is its
  place in the list and no two points are on the same side of a function
  (`Numbered`), threads stand in hooked functions only, and the map has one entry
  for each key. `PassReports` is the hit: that what was saved does not matter
  follows from `Numbered`, as the copy of a point is made before its original is
  marked and no point loads.

Induction over data is done by hand where a proof needs it: a set of numbers that
is not empty has a least element (`LeastExists`, from the library's facts about
well-founded relations), and so a set that has 0 and the successors of its elements
has them all (`UpTo`). `FlattenSeq`, a fold, is unrolled that way.

Only model-checked, all of `ArgStream`: `Understood` for a `read_op` of a msghdr;
`ListFitsBudget`, a fact about the shipped table and
not about the code, since other tables may have longer lists. And the liveness of
`Lifecycle` and `SyscallRun`, which is beyond the prover.

## Where the code and its texts disagree

Beside the three runs above, met while reading the code for the models:

* `ctx_regs_map` is to hold arguments "between function entry and return"
  (maps.h:33), but an entry is removed only in a sys_exit that gets past
  `should_trace` (syscall.c:181, 199). A thread renamed to a blacklisted name
  during a call leaves its entry behind; renamed back inside a later call whose
  sys_enter was ignored, it is reported with the old arguments. `PairedExit`
  is therefore stated for `StableSpec`.
* "黑名单同样对 追踪全部syscall模式 有效" (syscall.c:95: the blacklist holds in
  trace-all mode too) is not true during the setup: the list is the last map to
  be written (syscall_tracepoint.rs:159), long after the attach (line 110), and
  until then blacklisted calls are submitted and their tasks signalled (`FiresWanted`).
* The task filters are written before the point arguments, so that a call is not
  reported by half of them; but sys_enter reads them in that order, too
  (syscall.c:74, 81). A call in flight may be admitted by a whitelist whose
  blacklist is not there yet, and find its point a moment later: it is submitted and
  its task signalled, one call on each CPU at most. Its line can only be the first
  of its CPU (`OnlyFilteredTasksFire`, `PrintedIsWanted`).
* A named pid that a followed process forks later (ids come back) is entered as its
  child, over its own entry (syscall.c:46): it is traced by its entry in the list,
  its own children are not followed (`ChildrenFollowed`).
* `attach_tracepoints` (syscall_tracepoint.rs:127-129) looks for
  `raw_tracepoint__sys_enter` and so on; the functions of `ebpf/syscall.c` are
  `raw_syscalls_sys_enter`, `raw_syscalls_sys_exit` and
  `tracepoint__sched__sched_process_fork` (lines 12, 62, 169).
* Entries of threads that die in a call stay in `ctx_regs_map` for ever (only
  syscall.c:199 deletes); with enough of them new calls are not kept.
* Nobody removes entries of `child_parent_map`: a stranger who gets the id of a
  dead child is traced (syscall.c:29). The branch "not to be reached" at
  syscall.c:53 is where a child's own fork goes.
* `gt:` and `lt:` keep the opposite of what config/filter.rs:120-123 says
  (utils.h:196-203). `addr:` compares eight bytes, four of which are zero
  (filter.rs:165, utils.h:216). `bx:` reads its hex digits as a decimal number, or
  an octal one after a leading 0, and refuses letters (filter.rs:193, 247-256).
  `w:` and `b:` on a buffer compare it with zeros, but for as many of its highest
  bits as the string has bytes (utils.h:216).
* "value that would land in the next segment is an error rather than an aliased
  filter" (bpf_common.rs:310) holds for the stack module; the syscall module adds
  unchecked (syscall_tracepoint.rs:266). A `--no-uid` above the stride of 4194304
  is a `--pid` there. Both are in `CommonList`.
* A text that finds no room in the event, and `bx` on a text that cannot be read,
  are decided by the length of an earlier text (`Stale` of `ArgFilter`).
* A filter behind a colon (syscall_select.rs:15-18) is dropped without a word if
  the call has no string argument for it, or fewer arguments than groups, and all of
  them are with `-s all`. A repeated `-f` shifts the numbers of those after it
  (filter.rs:130), so that `f2` may name the fourth option or nothing.
* Children that are forked between the attach and the seeding of
  `child_parent_map` are not traced (syscall_tracepoint.rs:110, 144); nor are
  there lines, but signals, for calls before the rings are open, after they are
  closed, and on CPUs that came online later (`SubmitNowhere`).
* "Lost n events" (syscall_tracepoint.rs:460) comes only with the next event of the
  same CPU that finds room: losses at the end of a run are not announced.
* A poll error of the syscall module is logged and ends its loop as an interrupt
  would (syscall_tracepoint.rs:473-481): the run fails as one that "stopped without
  a signal", and the error itself is not in the message; an EINTR after Ctrl-Z and
  fg is one.
* A filter index that does not exist ends `read_args` before its verdict
  (utils.h:191, 209, 226), and the call is reported in spite of utils.h:346.
* In StackMod a Ctrl-C that hits the module thread in its poll is handed on as an
  error (stack_probe.rs:278), the "bogus" failure that the comment at 274-276 says
  is gone. One of the two cases of `FailuresExplained`; it is seen only if the main
  thread has begun its wait before the signal.
* `-f` filters on an argument of type buf or str with `format: hex` become scalar
  filters: `set_hex_format` gives the type a new index, and `get_op_list` compares
  indices (point_arg.rs:101-108, 147).
* `read_op` sums of registers add the second register to itself:
  `add_read_move_reg` has already moved it to the address when `OP_ADD_REG` adds
  it (op.rs:314, utils.h:133).
* `string16_array` and `iovec_x2` have operations of several pieces and the
  reader of a plain struct (parse.rs:233-245).
* "all modules stopped without a signal" (cli/mod.rs:215) is printed after
  signals too: the flag is read before `recv_timeout` (line 198) and not after,
  and the module thread, which polls for 100 ms, can end while the main thread
  waits up to 200 ms (`RecvDisconnected` of `Lifecycle`): the other case of
  `FailuresExplained`.
* The registers that an enter point saves for its exit point, to "persist args
  between function entry and return" (maps.h:33; stack.c:63, 67), are never
  loaded: exit points have `enter_key = 0` (above). Their events show the
  registers at the exit. The entries are never deleted either and fill the map.
* An exit offset is attached as an offset in the file with no symbol
  (point_arg.rs:240-242); README.md:172 calls it `+0x40`, an offset in the
  function.
* The points of `-w` are one probe, those of `-c` files one each
  (stack_cmd.rs:102-191). Several probes (args.rs:133, "repeatable") run one after
  the other, each until Ctrl-C (stack_cmd.rs:207-227): in effect the first one only.
* The stack module seeds `child_parent_map` "so children forked by the C handler
  stay traced" (stack_probe.rs:161) and never attaches that handler
  (stack.c:10): a child is traced only if its own ids or name are listed.
* Hits between the attach and the opening of the perf buffer are lost
  (stack_probe.rs:233, 260), but their `--kill` signals are sent.

## Not modelled

Event contents (lr, sp, pc, argument bytes, the index byte of a piece) and
rendering; traced memory that changes while a call is read; tagged addresses and
numbers of 2^31 and more in filters and in `read_args`; the padding of thread names;
the registry of operations (one thread fills it before the run); signal.rs and
unwind_ffi.rs, which nothing in the program calls; parsing of options, hook points
and JSON; `/proc`, package lists and kernel configuration; the logger and the assets
(pure I/O); the unwinder (a binary); generated headers. The per-point signal is
always 0 (syscall_tracepoint.rs:62-66). `PROJECT.json` lists every component with
its status, and the hazards no property covers yet.

## Plan

Order of work, the most important behaviour first; all but 11 are done.

1. `Filtering`, `SyscallTrace`, `CallReports`: the programs and their tasks.
2. `TaskFilter`, `CommonList`. 3. `SyscallStartup`. 4. `StringMatch`, `ArgFilter`.
5. `Lifecycle`.
6. `ArgTypes`, `ReadArgs`, `ParseArgs`, `ArgStream`: the arguments of an event.
7. `StackProbe`: the points of `-w` and their programs.
8. `PerfRing`, `SyscallRun`: the perf buffer and the whole run.
9. `SyscallSelect`, `CommandLine`: from a command line to the maps.
10. Proofs of 2 to 5 and 7 to 9, and of the loops and the buffer of 6.
11. To come: children of traced processes in a stack run, two points on one
    function; traced memory that changes between two reads of a call.
12. Proofs that the reader understands the events (`EventsAreUnderstood`) and that
    vectors are saved in order (`VectorsAreInOrder`); done.
