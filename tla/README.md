# A verification of SisOps

TLA+ specifications of the programs in this repository, model-checked with TLC,
and proofs about them checked with TLAPS. The repository holds four
programs of an operating systems course: a JOS kernel with two schedulers
(`sched/`), a shell (`shell/`), a FUSE file system (`fisopfs/`) and two
exercises with processes and pipes (`lab/`).

## Inventory

| Part | State | Operations | Interacts through |
|---|---|---|---|
| Environments and scheduling: `sched/kern/{env,sched,trap,syscall,spinlock,init}.c` | `envs` (status, id, parent, runs, cpunum, upcall, ipc fields, priority), the list of free slots, `cpus` (current environment, status), the big kernel lock, the boost counter | boot of the CPUs, trap entry and dispatch, `env_alloc/free/destroy/run`, `sched_yield` (round robin or priorities), `sched_halt`, system calls | shared tables under one lock; timer interrupts; code that runs after the lock was released |
| Memory: `sched/kern/pmap.c`, page system calls, `env_free` | free pages, reference counts, page directories and tables; per CPU the loaded directory and the TLB | `page_alloc/free/insert/remove`, `sys_page_*`, the page of an IPC, `load_icode`, `env_free` | called under the kernel lock; TLBs of other CPUs |
| User library: `sched/lib/{fork,pgfault,ipc}.c`, `pfentry.S`, `user/dumbfork.c` | page tables seen through `uvpt`, the exception stack | `fork`, `fork_v0`, `dumbfork`, page-fault upcall, `ipc_send`, `ipc_recv` | system calls, one by one |
| Console: `sched/kern/{console,monitor}.c`, `sched/lib/{console,readline}.c` | modifiers, circular input buffer, screen, the line being read | keyboard and serial interrupts, `cons_getc`, `cga_putc`, `readline`, the monitor's commands | devices that deliver at any moment; polling |
| Formatting and strings: `sched/lib/{printfmt,printf,string}.c` | the position in the format, the buffer of `cprintf` | `vprintfmt`, `snprintf`, `memmove`, `strtol` | `putch` of the caller |
| Debugging information: `sched/kern/kdebug.c` | the bounds of a search | `stab_binsearch`, `debuginfo_eip` | the linker's table |
| Shell, jobs: `shell/{sh,runcmd,printstatus}.c` | `status`, children, their process groups, pending SIGCHLD | `run_cmd`, `sigchld_handler`, `print_status_info` | the handler interrupts `run_cmd` anywhere |
| Shell, pipelines: `shell/exec.c` | a tree of processes, the pipe ends each has open | `exec_cmd` | pipes, `waitpid` |
| fisopfs: `fisopfs/{fs,fisopfs}.c` | inode table, bitmap, image on disk | the FUSE operations, `init`, `destroy` | the kernel's path walk and locks; threads of libfuse |
| `lab/primes.c`, `lab/xargs.c` | processes and pipes; an argument vector | a sieve of processes; batches of arguments | pipes, `wait` |
| Interrupt controllers, entry code, the shell's parser, user programs | | | see "Not modelled" |

What is hard, and what would make each part correct:

* **Kernel.** CPUs race for the lock; `env_run` uses the `Env` after it has
  released the lock; an environment may be destroyed while it runs elsewhere; IPC
  wakes an environment by a flag alone. Correct: an environment is on one CPU at
  most, none is lost or freed under a CPU's feet, the free list is exact, every
  runnable environment runs.
* **Memory.** Reference counts over failures half way; stale TLB entries.
  Correct: counts equal references, no page is lost, no stale translation.
* **Fork.** The parent writes its stack while its pages are being shared.
  Correct: parent and child have private memories, and each can take the fault
  that gives it its copy.
* **Console and support code.** Keys arrive in any order and at any time; buffers
  wrap and fill; a format ends inside an escape; areas overlap; a search looks
  again at what it has found. Correct: a queue of input, a screen that shows the
  line, exact output and copies, routines that return.
* **Shell.** A signal handler shares a global with the code it interrupts;
  signals merge; children end at any time. Correct: the prompt comes back when
  the foreground command is reaped, `$?` is its status, no zombies.
* **Pipelines.** Ends of pipes left open. Correct: data arrives in order and
  completely, and the pipeline always ends.
* **fisopfs.** Lookup by last name, a bitmap apart from the table, an image that
  is emptied before it is written, threads without locks. Correct: it is a tree
  of files that survives an unmount.

PROJECT.json lists every part with what is and is not modelled, and under
`hazards` the places where the code is hard to test.

## Modules

| Module | Models |
|---|---|
| `Kernel` | environments, schedulers, traps, system calls, lock, boot |
| `MCKernel` | the instances of `Kernel` |
| `KernelProofs` | theorems about `Kernel` |
| `PageOps` | `pmap.c` and the helpers of the page system calls, as functions on the kernel's memory structures |
| `PageOpsProofs`, `PmapProofs` | what each of these functions preserves; theorems about `Pmap` |
| `Pmap`, `MCPmap` | memory in the running kernel: system calls, IPC, loading and freeing on several CPUs, TLBs |
| `CowFork`, `MCCowFork` | `fork`, `fork_v0`, `dumbfork` and the page-fault handler, on `PageOps` |
| `CowForkProofs` | theorems about `CowFork`, on those of `PageOpsProofs` |
| `PrivateMemory` | what fork promises (abstract) |
| `Console`, `InputQueue` | keyboard, serial input, screen, `readline`, monitor; what the input buffer promises (abstract) |
| `Printfmt`, `Strings` | formatted output with its three users; `strnlen`, `strtol` |
| `MemMove` | `memmove` and the string instructions |
| `DebugInfo` | `stab_binsearch`, `debuginfo_eip` |
| `Support`, `MCSupport` | the last four side by side, each started alone |
| `SupportProofs` | theorems about `Console`, `Printfmt`, `Strings`, `MemMove` and `DebugInfo` |
| `FisopFs` | the file system, one operation per step, its image and crashes; how it implements `FileStore` |
| `FileStore` | what a file store promises (abstract) |
| `MCFisopFs` | paths and buffers of the instances |
| `FisopFsThreads`, `MCFisopFsThreads` | `create_file`, `unlink` and `write_file` interleaved on threads |
| `FisopFsProofs` | theorems about `FisopFs` and `FisopFsThreads` |
| `Shell`, `ShellProofs` | `run_cmd`, the SIGCHLD handler, children, signals; theorems about them |
| `ShellPipe`, `ShellPipeProofs` | `exec_cmd` for a pipeline of N commands; theorems about it |

### Kernel

Every CPU has a program counter `pc`. `OutsidePCs` are the places without the
lock: booting, waiting in `lock_kernel` (`irq`, `trap`, `wake`, `ap`), in
`env_run` past `unlock_kernel` (`restore`), in user mode, halted. `KernelPCs` are
inside. A handler is one action up to the point where it goes to the scheduler,
returns to `trap` or releases the lock; what follows `unlock_kernel` is an action
of its own (`Restore`), because other CPUs run then. The variables have the names
of the code's fields. An `env_id` is a pair (generation, slot); generations wrap
at `MaxGen`. `env_runs` is capped at 1.

`UserCalls` is what programs may do. `Misuse` is what they may do beyond the way
the library does it: set the status of a child that already ran (`restart`),
destroy a zombie again (`redestroy`), receive at a bad address (`badrecv`),
overflow the exception stack (`overflow`). The properties of the life cycle
need `Misuse` to be empty (or `{"overflow"}`); those of the lock do not.

### PageOps, Pmap

`PageOps` has one operator per routine of `pmap.c`, from one value of the memory
structures to the next; a system call of `Pmap` composes them as the code does.
Entries are kept under the environment and the address they translate, and `pde`
says which page holds the table. `page_free` over a page that is in use or free
already sets `double_free`, after which nothing happens. What `mem_init` maps
above UTOP never changes and is left out.

`Pmap` is about what runs around these routines. A system call ends at `ret`,
before `env_run` loads the page table again: between the two only
`tlb_invalidate` keeps the TLB right. The MMU fills the TLB whenever it likes
(`TlbFill`). `env_free` is one step per entry, table and directory. Life cycle and
scheduler are reduced to what memory needs (any runnable environment, any free
slot; `Kernel` has the rest). `sys_ipc_try_send` with nothing mapped at `srcva`
reads through an uninitialized pointer, and `SysIpcSendUnmapped` has every
outcome. Programs do not change the memory of a child that is running, unless
`Misuse` has `remap`.

### CowFork

Every system call of `fork`, `fork_v0` and `dumbfork` is a step of its own, and the
parent stores to its stack between any two of them. A fault pushes a frame on
`utf`; the handler runs step by step, and the end of `_pgfault_upcall` pushes the
return address on the program's stack, which may fault again. The addresses are
UTEMP and PFTEMP, one page of data, the stack and the exception stack. Contents
are one value per page. `remove_entries` and `free_tables` are the loops of
`env_free`, without another environment in between: the kernel's lock is held.
`Init` is a program that was loaded; with too few pages `load_icode` panics.

The refinement maps an environment to what it reads at each address; a page of a
child in the making counts once the parent is done with it. A parent whose system
call fails between the allocation of the child's page and the copy leaves that
page without a content for ever, so it never counts. `ShareAssumption` is that
`pp_ref` can count every mapping there can be, which holds in JOS, where each
environment has five addresses here and there are 1024 of them.

### Console, Printfmt, MemMove, DebugInfo

`Console` has the devices as processes (`KeyDown`, `KeyUp`, `SerialIn`), the rounds
of `cons_intr`, and a reader, which is a program in `getchar` and, when it is gone,
the monitor. A scan code is its low seven bits and the release bit; one key of
each kind stands for the others. In `Printfmt` a character of the format is a step
and a character of the output is one. In `MemMove` it is an iteration of `movsl` or
`movsb`, in `DebugInfo` a round of the binary search.

### FisopFs

`inodes` and `bitmap_inodes` are `super_b`; `disk` is the image; `ret` is what
the last operation returned. What the Linux kernel and libfuse do first (walk the
path with `getattr`, create only what is missing, not unlink what is open) is
external, and appears as guards. `strncpy` and `strlen` are modelled by what they
do, a missing NUL included. `Usage` adds what goes beyond ordinary use: `full`
(the last byte of `content`), `resize` (truncate to another size), `reuse` (rmdir
of a directory from which something was unlinked), `torn` (death during the save).
`SaveStart` leaves any prefix of the inodes in the image.

`Files` maps a table to a tree (`TreeOf`): what `Lookup` finds under each path, and
what `fisopfs_read` shows of it. While the image is being written the abstract
tree is already unmounted.

### Shell and ShellPipe

In `Shell` a waiting system call has two steps, entry and scan, so that a child
may end in between; a pending SIGCHLD is taken before the next user-mode
step. `own_group` is what `setpgid` did, and decides what `waitpid(0)` in the
handler may take. `raw` is a wait status as the kernel encodes it, and `Decoded`
is `print_status_info`. With `ForkFails`, `p` is -1 and `waitpid(p)` waits for
any child.

In `ShellPipe` manager k is the process that runs `exec_cmd` on the k-th PIPE
node. `fds` is the set of pipe ends a process has open; a fork copies it; end of
file and SIGPIPE depend on who has the other end. The commands are cat-like and
may stop at any time.

## Runs

| Run | Checks | Bounds |
|---|---|---|
| `kernel_protocol` | the inductive invariant `ProtocolInv` of the proofs; an environment is on one CPU (`OneCpuPerEnv`), is never lost (`NoOrphan`); no panic; a zombie is freed by its own CPU | 2 CPUs, 3 slots, 1 boot environment, round robin: a parent, a child and a third that fork, start, destroy, send, receive, fault and enter the monitor |
| `kernel_any_program` | `BigKernelLock`, `CurenvSet` under misuse and the priority scheduler | 2 CPUs, 2 slots, priorities 0 and 1, a boost every 2 calls |
| `kernel_rr_progress` | `NoStarvation`, `BootCompletes` under fairness | 2 CPUs, 3 environments that yield, send, receive and lower priorities |
| `kernel_bad_recv` | violation of `OneCpuPerEnv`: see the finding | as `kernel_protocol`, with `badrecv` |
| `pmap` | reference counts are exact after every step (`RefsExact`), a page has one use (`OneUse`), TLBs and loaded directories are live (`MmuCoherent`), a page is lost only when memory is full (`LostOnlyWhenFull`) | 2 environments, 2 CPUs, 2 addresses, 5 pages: one too few for two full address spaces and a spare, so that every allocation fails somewhere |
| `cow_fork` | `CowFork` implements `PrivateMemory`; who has copy-on-write pages can take the fault (`CowIsHandled`) | 2 environments, 2 forks (a slot is used again, a copy-on-write page is shared again), 13 pages; two environments with three page tables each, as in JOS, take 14 when they share nothing |
| `support_code` | the console is a queue and drains (`IsInputQueue`, `InputDrains`), the screen shows the line (`EchoIsLine`), no modifier sticks; output is delivered, unknown escapes are literal, numbers read back; copies are exact; addresses get their function, file and line; everything returns | buffers of 3, a screen of 3 by 2, 4 events; all formats of up to 3 of 11 characters, 5-bit ints; all copies within 9 bytes with words of 2; two tables of stabs, all addresses |
| `fs_store` | `FisopFs` implements `FileStore`; what exists is listed | 3 inodes, so that the table fills; 3 bytes; a file, a directory and a file in it |
| `fs_any_use` | `RootStays`, `BitmapExact`, `UniqueNames`, whatever programs do | 3 inodes, 1 byte (`full` on every write), equal last names, nested directories, NUL bytes |
| `fs_threads_one_dir` | `NoLostFile`, `WriteHitsItsFile` | 2 threads, 2 files of one directory |
| `shell_jobs` | `ForegroundDone`, `HandlerSparesForeground`, `StatusWithoutBack`, `ZombiesReaped` under fairness | 3 commands of every kind, forks that fail, exits with 0, 1 and 255, a signal with a core |
| `pipe_runs` | `WaitsForAll`, `NothingLost`, `NoLeakedEnds`, `PipelineEnds` under fairness | 4 commands (a manager between two managers), pipes of one place, 2 numbers, forks that fail, redirections |

Every property of a passing run has a mutant in PROJECT.json: a plausible bug in
one definition that TLC finds through that property.

The bounds are small but reach the cases that matter: two CPUs are enough for
every race that is about one environment and the CPU it is on, since the lock
admits one CPU at a time; three slots give a parent, a child and a bystander,
and reuse of a slot; five pages run out in every routine that
allocates, and with two addresses in one table the table outlives either entry;
two forks of two environments give a child of a child in a used slot; the input
buffer of three wraps and overflows; three inodes fill up and are reused; three commands give a
foreground command that runs beside a background one, and its successor; four
commands give a manager whose neighbours are managers. The two addresses of `pmap`
share a page table; with a table for each (`PDX <- MCPDXApart`) the four
properties hold as well.

## Fairness

* Kernel: a CPU executes its instructions (weak fairness of each of its steps).
  The timer interrupt is strongly fair: the local APIC keeps it pending until
  interrupts are enabled, so a CPU that is in user mode again and again takes it.
  Nothing is assumed of the spin lock beyond that a lock left free is taken:
  which CPU gets it is open. Nothing is assumed of programs.
* Shell: the shell's own steps and a child's way to `setpgid` are weakly fair.
  Commands may run for ever, and nobody needs to type.
* Support code: the CPU keeps executing, which includes a program that polls for
  input. Nobody has to type, and a program need not end.
* Pipelines: every process gets the CPU. A command reads to the end of its input
  or stops early; it does not stop reading and stay.

## Proofs

Every theorem holds for every value of the constants that the named assumptions
allow: any number of CPUs, environments, pages, commands, inodes, paths and
threads. TLC evaluates those assumptions in every run. Each proof goes the same
way: an inductive invariant, which TLC has checked on the instances of the runs,
one lemma per action, and the properties as consequences.

### Kernel (`KernelProofs`)

* `KernelSafe`: `Spec => []KernelInv`. `KernelInv` is the types, `BigKernelLock`
  and `CurenvSet`; together they are inductive, for every `Misuse` and either
  scheduler. `LockExcludes` and `TrapHasCurenv` are its consequences.
* `ProtocolSafe`: `Disciplined => (Spec => []ProtocolInv)`, with `Disciplined` for
  `Misuse \subseteq {"overflow"}`; its consequences `NeverOnTwoCpus` and
  `NoneOrphaned`; the action property `OwnerFreesZombie`; and, with no misuse at
  all, `NeverPanics`.

`OneCpuPerEnv` is not inductive. `sched_yield` picks a RUNNABLE slot, so one needs
that what is current on another CPU is RUNNING or DYING (`CurenvStatus`); IPC makes
a receiver RUNNABLE, so one needs that a receiver is blocked (`RecvingIsBlocked`);
`env_alloc` takes the head of the list without a look at its status, so one needs
that the list is exact (`FreeListExact`); and `sys_env_set_status` may start an
environment only if it has not run, so one needs that whatever runs or receives
has `env_runs = 1` (`RunsRecorded`). The proof has one lemma per handler, on top of
lemmas for what handlers share (`env_run`, `env_destroy`, `env_free`, the list).
The list is stated by the sequence of slots one meets from its head; pop and push
build the new sequence, and push needs the pigeonhole principle (a list of NENV
distinct slots would already hold the one that is freed). `NeverPanics` needs that
each caller of `env_destroy` has an environment in use in its hands.

### Memory (`PageOpsProofs`, `PmapProofs`)

`MemInv` is about a value of the memory structures: counts equal references, what
is on the free list has count 0, an entry is only where its table is, a table and
a directory are referred to once and are nobody's data. `PageOpsProofs` shows for
each routine of `pmap.c` and each helper of the system calls, on its success and
on each of its failures, that it preserves `MemInv` and which pages it loses.
Counting goes through the fibres of the entry functions: a store moves one element
from one fibre to another.

`PmapInv` adds what runs around the routines: one CPU in the kernel, where each
CPU can be, that who is not FREE has a directory, that what a CPU has loaded is
in use and, if it is not its current environment, is what it is taking apart or
loading. From it follow `CountsExact`, `PagesHaveOneUse` and the action property
`OnlyLastPageLost`. `TlbsAgree` adds `TlbCoherent`, which is inductive with
`PmapInv` when programs leave the memory of a running child alone
(`Misuse = {}`): `tlb_invalidate` acts on this CPU only.

These theorems have a hypothesis, `[]FewSharers`: no page is mapped as often as
`pp_ref` can count. It cannot be dropped: `pp_ref` has 16 bits, `page_incref`
has no test, and the 65536th mapping of a page makes its count 0, so that the
next `page_remove` frees it under the others. `CountsExactWhenFew` replaces the
hypothesis by one on the configuration alone (fewer addresses in all than
`MaxRef`), which shows that it is satisfiable; JOS with 1024 environments is
larger than that.

### Fork (`CowForkProofs`)

* `CowSafe`: `Spec => []CowInv`; its consequences `ForkTyped` and `ForkHandled`.
* `ForkIsPrivate`: the whole of `Spec => IsPrivateMemory`, for any number of
  environments, pages and values, any assignment of addresses to page tables, and
  each of the three forks.

`CowInv` is `MemInv` of the memory structures, so that every lemma about the
routines of `pmap.c` applies, and for each environment what its program counter
says: which entries it has and with which permissions (`EntriesAt`), that a
copy-on-write page comes with an upcall and a stack, except behind the page that a
fork is at (`UpcallAt`, `HandledAt`), what the frames on the exception stack can
be (`FramesAt`: at most two, and two only when the push of a return address faults
on the stack), how far the handler is and that the copy at PFTEMP has the content
of the page it replaces (`HandlerAt`), how far the fork is (`ForkAt`) and what the
child has by then (`ChildAt`). The heart is `OwnPages`: a page that an environment
may write is mapped nowhere else, but for three reasons (`Doubled`): the handler's
or the parent's temporary mapping of it, or the page that `duppage` has put into
the child and not yet marked in the parent. It is here that the order of the two
calls of `duppage`, and the second one for a page that is copy-on-write already,
are needed: a store of the parent to its stack in between gives it a page of
its own again.

The refinement then goes action by action: a system call does not change what
anybody reads, a store changes one address of one environment, and the page of an
embryo appears with the step after which the parent cannot change it any more.
The loops of `env_free` are recursive functions over the five addresses and are
unrolled (`RemoveRounds`, `TableRounds`).

### Shell (`ShellProofs`, `ShellPipeProofs`)

`ShellInv` says which child is which: pids beyond the last command are unused, a
child that runs has left the shell's group unless it is in the back, a foreground
child that is not reaped is the one that `run_cmd` waits for, and, without
background commands, in which form `status` carries what the child left.
`PromptAfterForeground`, `HandlerLeavesForeground` and `StatusIsOfLast` follow,
for any number of commands and every wait status.

`PipeInv` is for a pipeline of N commands. It says what each process has open at
each of its steps, that who has not been forked has nothing, that a manager that
waits has what it waits for, and where the numbers are: each is held by the
source, in a pipe, in a command's hands or put out, in order. The bookkeeping of
the numbers is a function `w`, which exists in every state. `AllArrives`,
`EndsDoNotLeak` and `PipelineAwaited` follow.

### fisopfs (`FisopFsProofs`)

A table is good (`GoodTable`) when inode 0 is the root, bit and name agree, a name
is there once, and each inode is what `create_file` makes of some path. Creation,
a change of size or content, and removal keep it good (`AddKeeps`, `EditKeeps`,
`DropKeeps`). `FsInv` says that the mounted table is good, and the image unless it
is being written: a mount takes it as it is. `RootIsKept`, `BitmapAgrees` and
`NamesAreUnique` follow for every use that programs make of it, with the one
hypothesis that the process does not die during the save (`"torn"`), after which
there is no root. `FoundIsListed` also supposes `PlainNames`: no two paths with one
last name, directories in the root. Without it the lookup, which compares last
names, and `create_file`, which puts every directory in the root, disagree with
the listing.

`FsIsFileStore` is the whole of `Spec => IsFileStore`, for every size of the table
and of a content. Its hypotheses are those under which the code keeps the promise:
`PlainNames`, `TextBuffers` (no NUL is written) and `Usage = {}` (no write up to
the last byte of `content`, no truncation to another size, no `rmdir` of an
emptied directory, no death during the save); the table of divergences below has
the instance that refutes a promise of the store without each of them, except for
`TextBuffers`, without which `strlen` ends a content at the NUL. `StoreInv` adds to `FsInv` that a file
holds as much text as its size says and leaves room for the NUL (`CleanFile`), so
that what `strlen` and `strncpy` do to `content` is what the abstract write does to
a sequence, and that what programs have open is a file. Each operation changes one
inode, and so one path of the tree (`InodeChange`); a removal of a directory that
`delete_dir` finds empty removes one without entries in the tree (`BelowIs`).

`ThreadInv` is what the steps of `create_file`, `unlink` and `write_file` rely on
between them: what a thread knows of its inode at each step, that a file whose bit
is not set is being served, that a file which is open or acknowledged is in the
table. `FilesAreKept` and `WritesHit` follow for any number of threads, under
`OneParent`: all files in one directory, whose lock serializes creations and
removals. With two directories the code loses files (see below).

`LowestOf` is defined with CHOOSE; that it finds the least element is proved with
the well-foundedness of the natural numbers (`LowestIs`).

### Support code (`SupportProofs`)

* `MemmoveCopies`. `MvInv` says, in the middle of a copy, which part of the
  destination has arrived (`Placed`), from the front or from the back; the
  direction is safe because a unit that is still to be read has not been
  overwritten. For every size of memory and of the words of `movsl`.
* `NothingSticks`. What the driver believes lags behind the keys by the scan codes
  that wait. `KeyInv` says that there is a path of values of `shift` over these
  codes, from the driver's value to one that the held keys explain. It exists for
  any keys in any order; that each scan code is a pair and that `E0` is not the code
  of a key is assumed of `Key`.
* `BufferIsQueue`: the whole of `Spec => IsInputQueue`, for every `CONSBUFSIZE` above
  1. `QInv` is the types of the buffer; the work is in the lemmas about `Content`, on
  where a position is counted around the buffer, and on the rounds of `cons_intr`,
  one of which may put several characters.
* `LineIsShown`. `EchoInv` says in which rounds something is still to be put on the
  screen, and that the screen shows the prompt and the line otherwise; an erasure,
  the end of a row and the scrolling of the screen each keep it. It needs that the
  longest line fits above the last row (`ConsoleAssumption`: 1024 characters in
  24 rows of 80) and that a serial character is one of `Char` (`SerialAssumption`).
* `AllIsDelivered`. `OutInv` relates what was put out to the buffer and the console:
  all on the console, console and buffer together, or the part that fits, according
  to who called `vprintfmt`.
* `UnknownIsLiteral`. `LitInv` (`FormatSafe`) says, for a format without a known
  conversion, that outside of an escape all of the format up to here has been put,
  but for the last character, perhaps (`TextAt`), and inside of one that all up to
  its `%` has. With it the walk back to the `%` (`AfterPercent`) and the NUL inside
  of an escape are right, for formats of every length and every argument.
* `NumbersReadBack`, for every number, width of an int, base, padding and flags. `ReadInv`
  follows the one escape of the format and says that what is out and what is to
  come, together, is read as the number. Under it are lemmas about `digits` and
  `Value`, which are recursive functions: that they exist (`TextsExist`,
  `SumsExist`), that each satisfies its equation, and that one reads what the other
  wrote (`TextsRead`). The last goes by the least number for which it would fail
  (`HasLeast`), since the library's induction theorems cannot be used. That a power
  of two is a positive number is in `PrintfmtAssumption`: the provers know nothing
  of `^`.
* `DebugInfoIsRight`. `SearchInv` says what a round of `stab_binsearch` knows: stabs of
  the type before `l` are not beyond the address, those after `r` are, and the left
  bound is one of the former. `DbInv` (`DebugInfoSafe`) adds what
  `debuginfo_eip` knows after each of its searches, file, function and line. Both
  hold for every table of any length with the order that the linker gives
  (`StabAssumption`) and the hypothesis `LinesApart`: no line of a function begins
  one byte after another. The search looks on for `addr + 1` after an exact match
  and takes such a line (see below), so that it cannot be dropped; the tables of
  `support_code` satisfy it.

### Only model-checked

Liveness (`NoStarvation`, `BootCompletes`, `ZombiesReaped`, `PipelineEnds`,
`InputDrains`, `Returns`): fairness and ENABLED are out of the prover's reach.
Every invariant, action property and refinement that a run checks has a theorem,
under the hypotheses named above.

## Known divergences

One disagreement between the code and its documentation is a run of its own
(`findings` in PROJECT.json). The following were met in the same models; where a
property states what is expected, TLC shows the disagreement with the constants
named here.

| Where | What happens | Seen with |
|---|---|---|
| `sched/kern/syscall.c:183` | `sys_env_set_status` makes a running child runnable, and a second CPU runs it | `KernelBadRecv` with `Misuse = {"restart"}`, `OneCpuPerEnv` |
| `sched/kern/env.c:471` | a second destroy frees a zombie that still runs | `KernelProtocol` with `Misuse = {"redestroy"}`, `ZombieFreedByOwner` |
| `sched/kern/trap.c:372` | a full exception stack panics the kernel; the comment says the environment is destroyed | `KernelAnyProgram`, `NoPanic` |
| `sched/kern/sched.c:105` | with more runnable environments than `BOOST_CYCLES` the boost starves the last slots | `KernelRRLive` with `Policy = "pr"`, 4 environments, `BOOST_CYCLES = 2`, `NoStarvation` |
| `sched/kern/sched.c:121` | the highest number runs first; `sched.md` says the lowest | `KernelAnyProgram` with `NBOOT = 2`, `set_priority` among `UserCalls` and `UserPriorities = {0}`, `PicksLowestNumber` |
| `sched/kern/pmap.c:578` | the TLB of another CPU keeps what a parent changed in a running child | `PmapCounts` with `Misuse = {"remap"}`, `MmuCoherent` |
| `sched/kern/syscall.c:57` | a page for which there is no page table is lost; the comment at line 234 asks to free it | `PmapCounts`; `LostOnlyWhenFull` allows it when memory is full |
| `sched/kern/syscall.c:380` | nothing mapped at `srcva`: `srcpte` is read uninitialized | `SysIpcSendUnmapped` in `Pmap` |
| `sched/lib/fork.c:28` | `&` of bit 1 and a Boolean is never true: a write to a page that is not copy-on-write is not refused | `PfAlloc` in `CowFork` |
| `sched/lib/pgfault.c:37` | without a page for the exception stack the failure is silent, and the child is destroyed at `fork.c:243` | `SetHandler`, `Upcall` in `CowFork` |
| `sched/kern/console.c:599` | one character too many empties the input buffer | `InputQueue`, `Put` |
| `sched/kern/console.c:571` | IRQ 1 is let through and has no gate: a key pressed in user mode destroys the program | `KbdIrq` in `Console` |
| `sched/lib/printfmt.c:111` | "pad on the right": numbers are padded on the left, with `-` | `printnum` in `Printfmt` |
| `sched/kern/kdebug.c:92` | after an exact match a stab that begins one byte later is taken | `StabAssumption` in `DebugInfo`, `LinesApart` in `SupportProofs` |
| `fisopfs/fs.c:92` | a lookup compares the last name only, so `/a` and `/d/a` are one inode; `fisopfs.md` says that the path identifies it | `FsStore` with `MAX_INODES = 4`, `FilePaths <- TwinFiles`, `LookupIsExact` |
| `fisopfs/fs.c:255` | a full `content` has no NUL, and the size runs past `MAX_CONTENT` | `FsStore` with `Usage = {"full"}`, `SizeBounded` |
| `fisopfs/fisopfs.c:239` | after a truncation the old bytes come back | `FsStore` with `Usage = {"resize"}`, `AppendGrows` |
| `fisopfs/fs.c:188` | a directory that holds a directory is removed | `FsAnyUse`, `RmdirOnlyEmpty` |
| `fisopfs/fs.c:383` | a directory that was emptied is not removed | `FsStore` with `Usage = {"reuse"}`, `RmdirRefusesOnlyFull` |
| `fisopfs/fisopfs.c:148` | after a crash during the save there is no root | `FsStore` with `Usage = {"torn"}`, `RootStays` |
| `fisopfs/fs.c:160` | two creations in two directories take one inode | `FsThreads` with `TwoDirs`, `DirPaths` and `Setup` `TheDir`, `NoLostFile` |
| `shell/runcmd.c:69`, `shell/sh.c:12` | the status of a background child overwrites that of the last command | `ShellJobs` with `MaxCmds = 2`, `ForkFails = FALSE`, `StatusOfLast` |
| `shell/runcmd.c:69` | a background child is reaped in silence | the same, `BackgroundNotified` |
| `shell/parsing.c:109` | `$?` of 10 is `:` | the same with `RawStatuses = {2560}`, `DollarIsNumeral` |
| `shell/exec.c:208` | when the second fork fails the left command is left behind | `PipeRuns`; `WaitsForAll` excepts it |

## Plan

Modelled so far: the kernel's environments, memory and console, the user library's
fork, the support code, the shell's jobs and pipelines, and the file system. What
is left, in order:

1. `Primes`: the sieve of processes in `lab/primes.c`, the dynamic sibling of
   `ShellPipe`.
2. A message-passing view of IPC (abstract: a rendezvous) that `Kernel` with
   `lib/ipc.c` implements.
3. The shell's parser against a reference definition, over bounded command lines.

## Not modelled

Registers, the headers of ELF images and entry code (assembly and constant
tables); the programming of devices and interrupt controllers, beyond the
interrupts and characters they cause; `mem_init`, which builds what never changes;
`mmio_map_region`; the kernel's own `check_*` tests; the simple string functions;
times, owners, modes and the length of names in fisopfs; environment variables and
the syntax of the shell; built-in commands, which change nothing that other parts
see; what user programs compute. PROJECT.json gives the reason for each.
