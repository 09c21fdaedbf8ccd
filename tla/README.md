# A TLA+ model of microdbg-linux

microdbg-linux emulates the Linux system calls for guest programs that run in
the microdbg debugger. The guest's threads are tasks of the debugger; each runs
in a goroutine of its own, and the handler of a system call runs in the
goroutine of the thread that made it. So all the handlers run concurrently, on
state that the `Syscall` object shares between them. That is what this project
models, checks with TLC and proves with TLAPS.

## The system

| part | source | state | operations |
| --- | --- | --- | --- |
| life cycle, dispatch | `kernel/kernel.go`, `kernel/syscall.go`, `context.go` | `k.err` (one word for all threads), the hook | `NewKernel`, `Close`, `armIntr`, `arm64Intr`, `Get`, `SetErrno` |
| futex | `kernel/futex.go` | `awaits`, `bitAwaits` (channels with reference counts), `rw` | wait and wake, plain and by bitset; `dtor` |
| descriptors | `kernel/fcntl.go`, `kernel/socket.go` | `flags`, `rw`; the debugger's descriptor table | `open`, `openat`, `close`, `pipe2`, `dup3`, `socket`, `fcntl`; `dtor` |
| file I/O | `kernel/fcntl.go`, `kernel/ioctl.go` | files, positions, pipes (all external) | `read`, `write`, `writev`, `lseek`, stat, access, links, `ioctl` |
| sched | `kernel/sched.go` | `tasks`, one reaper goroutine per task | `clone`; `execve` is refused |
| signal | `kernel/signal.go` | `set` (no lock), `table`, `rw` | `rt_sigaction`, `rt_sigprocmask`, `rt_tgsigqueueinfo` |
| mman | `kernel/mman.go` | the address space (external) | `mmap`, `mmap2`, `munmap`, `mprotect` |
| stateless calls | `sysinfo.go`, `time.go`, `random.go`, `prctl.go`, `resource.go` in `kernel/` | none | one handler each |
| variadic arguments | `gcc/va.go`, `gcc/std.go`, `gcc/*/va.go` | cursors into the register areas and the stack | `NewVaList`, `Extract`, `Skip`, `Read`, `ReadDouble`, `ReadStream` |
| numbers and types | `syscall.go`, `errno.go`, `kernel/stddef.go`, `kernel.go`, `debugger.go`, `internal/` | none | none |

How the parts meet: every handler is called by the interrupt hook, reports
through `k.err`, and works on the debugger's tables as well as on its own map.
`NewKernel` installs the hook and makes the maps of fcntl, futex and signal before
it returns the kernel; `Close` removes the hook and drops the maps, whatever calls
are in progress. Only futex takes its lock for that. The argument lists of `gcc` are for
the embedding program: no handler uses them.

What is hard about it:

* no lock spans two tables (the debugger's and `fcntl.flags`);
* a wake takes a channel out of a map, releases the lock and sends later;
* reference counts decide when an entry is deleted, in four functions;
* timeouts, wakes and `dtor` race for the same waiting thread;
* task numbers and descriptor numbers are used again;
* three places may close a task;
* a panic in a handler leaves a lock held if no `defer` releases it;
* `dtor` runs in the middle of calls;
* the signal mask is changed with no lock;
* `mmap` positions a file, finds memory and copies, in steps that others come between;
* an argument may begin in registers and continue on the stack, and a read that
  fails leaves the cursor moved and not aligned.

## Modules

| module | lines of the source | what it is |
| --- | --- | --- |
| `Futex` | `futex.go` | the component, its properties, the inductive invariant |
| `MCFutex`, `MCFutex*.cfg` | | two instances |
| `FutexTypeProofs`, `FutexWakeProofs`, `FutexProofs` | | proofs for any constants; each extends the one before it |
| `Fcntl` | `fcntl.go` 92-308, `socket.go` 69-102 | the two tables of a descriptor |
| `MCFcntl`, `MCFcntl.cfg` | | instance |
| `FcntlProofs` | | proofs |
| `Callers` | | guest threads in the handlers of one component: what Pipe, Mman and Signal share |
| `Pipe` | `fcntl.go` 280-391 | read, write, writev and close on a pipe |
| `MCPipe`, `MCPipe.cfg` | | instance |
| `Mman` | `mman.go` 17-90, `fcntl.go` 310-345 | mmap and munmap, and the position of the file |
| `MCMman`, `MCMman.cfg` | | instance |
| `Sched` | `sched.go` 15-81 | clone and the reapers |
| `MCSched`, `MCSched.cfg` | | instance |
| `Signal` | `signal.go` | what the next two share |
| `Sigaction` | `signal.go` 58-83 | the table of actions and its lock |
| `Sigmask` | `signal.go` 85-118 | the signal mask |
| `MCSigaction`, `MCSigmask`, and their `.cfg` | | an instance each |
| `HandlerProofs` | | proofs of Sigmask, Sigaction, Pipe and Mman |
| `Syscall` | `syscall.go`, and the returns of every handler | the table of the system calls and what each can come to |
| `Kernel` | `kernel.go` | life cycle, dispatch and errno |
| `MCKernel`, `MCKernel.cfg` | | instance |
| `KernelProofs` | | proofs of Kernel |
| `System` | `kernel.go`, `syscall.go`, with `futex.go` and `signal.go` | Kernel with the steps of Futex and Sigaction as handlers |
| `MCSystem`, `MCSystem*.cfg` | | two instances |
| `SystemProofs` | | proof that System implements Kernel |
| `VaList` | `gcc/` | the argument list of the four architectures |
| `VaArgs` | (external) | where a C compiler has put the arguments: what VaList implements |
| `MCVaList`, `MCVaList.cfg` | | instance |
| `SchedVaProofs` | | proofs of Sched and VaList |

An operator named "Mutant of X" is X with a plausible mistake in it. The
specifications do not use these; putting one in the place of its original shows
that the property it is meant for would notice.

### Futex

`awaits` and `bitAwaits` are the two maps, with a channel and a reference count
per entry; `closed` the closed channels; `readers` the threads that hold the
read lock of a bitset wake. The write lock is held over single steps only, so
it needs no variable. `pc[t]` is where thread `t` is: in guest code (`user`),
after the comparison of the word (`checked`), registered, parked in the
`select`, leaving, waking. `call` and `loc` are the arguments and the local
variables, `ret` what the last call returned.

The steps lie where other threads can come in between: the comparison of the
word (`Wait`, `WaitBitset`), the registration (`AddAwait`, `AddBitAwait`), the
`select` (`Park`, then one of `SelectTimeout`, `SelectClosed`,
`SelectBitClosed`, or a send by a waker), the deferred deregistration
(`DelAwait`). A wake looks the channel up (`Wake`), reads the word
(`WakeRead`) and sends (`WakeSend`) until its count is reached or nobody
receives (`WakeDone`). Channels are unbuffered: a send is one step of waker and
waiter, and is possible only to a thread that is parked. Guest stores to the
word (`Store`) come at any time. `asleep[k]` is a history variable: the threads
parked when the wake of `k` began that it should reach and has not yet reached.

Behaviours of the code that the model has, and no property forbids: a wake
between the comparison and the registration finds nobody, so the waiter can
sleep on a word that has changed; a waker's value can be stale, and the waiter
goes back to sleep; bitset entries are found by mask alone, so a bitset wake
may reach a thread on another address (which compares its word and goes back to
sleep), and does not reach plain waiters; after `dtor` a registration panics on
the nil map, and a `FUTEX_WAKE` that still has a channel panics sending on it.

### Fcntl

`file` is the debugger's table and `opened` the files not yet closed; both are
external. `flags` is `fcntl.flags`; `live` says that it has not been dropped;
`wedged` that a goroutine panicked with `f.rw` held. A handler that changes
both tables is two steps or more, and between them the descriptors it is
working on are its *window*. A flag word is the set of its one-bits; only the
bit `O_CLOEXEC` has a meaning here.

`want` is the flag word of the last call on a descriptor, and `raced` are the
descriptors where the windows of two calls met since the last undisturbed call
that gives the word afresh. So `FlagsExact` says precisely when the lack of a
lock does no harm: unless calls on one descriptor overlap. `shared` are the
files that a duplication has given two descriptors. Whether `DupFile` and
`Dup2File` share the file object or make a new one is the debugger's business:
the model allows both.

`F_SETFD` sets close-on-exec whatever its argument, and `F_SETFL` replaces the
whole word: both are modelled as they are.

### Sched

A task goes from `forked` to `running`, `done` and `closed`. Tasks, their
numbers and the end of their guest code are external. The model assumes that
the debugger gives a number again only after `Close`; the order of `Delete` and
`Close` in the reaper relies on that. Any running task may call `clone`.

### Pipe

`level` is what is in the pipe, `rEnd` and `wEnd` the two files, `busy` the
thread that holds the lock of the write end. A `read` is a lookup of the
descriptor (`Read`) and then chunks (`Take`) until it has all it was asked for:
`io.CopyN` takes an early end of file for an error, and what was taken is gone
(`TakeFails`). `write` and `writev` go chunk by chunk and buffer by buffer
(`NextChunk`); a chunk goes into the pipe word by word as there is room (`Push`).
`close` is two steps, as in Fcntl. `Chunk` is the buffer of `io.Copy`,
`Room` what the pipe holds, both in words. Calls on the wrong end fail with EIO and
move nothing, as calls on a descriptor that is not in the table fail with EBADF:
they are no steps.

### Mman

`mem` is what each page shows: nothing, zeros, or a block of the file. `mmap`
with a file positions it (`Seek`, unless the offset is 0; a file that cannot
seek is read up to the offset from where it is), or fails to: an offset that the
file does not have is ENODEV, and one that is negative, or too large to be read up
to, panics in `make` when the file cannot seek. Then `mmap` unmaps and maps (`Unmap`,
`Map`) or allocates (`Alloc`), copies page by page (`Copy`) and frees the range
if the file is too short (`Free`). `MovePosition` is a `read` or `lseek` of
another thread on the same file. `owner` is a history variable, whose page it
is; `calm` the calls that nobody has moved the file under.

A guest that unmaps or maps over pages of other threads loses them, whatever the
kernel does, so the properties are stated for one that minds its own pages
(`MayMapOver`, and the guard of `Munmap`). Two things follow from what is assumed
of the address space: `MAP_FIXED` over a range that is mapped in part unmaps
nothing and fails with EINVAL, and a copy that fails with `MAP_FIXED` may leave
its pages behind. The model has both, and `stray` records the second.

### Sigaction and Sigmask

`rt_sigaction` takes the lock, looks the old action up, assigns the new one and
releases the lock, each a step, with `dtor` at any of them (it takes no lock).
`heirs` records which call was handed which old action. The assignment to a nil
map panics with the lock held: this can happen in a call that `dtor` overtook, and
then every call behind it waits.

`rt_sigprocmask` writes the old mask to the guest (`Oldset`), reads the new set
(`Set`) and, for SIG_BLOCK and SIG_UNBLOCK, loads the word and stores it
(`Store`). With one buffer for both sets it reads back the mask it has just
written. `want` is the mask as the calls should have left it and `raced` the
signals in doubt. The model follows the names of the values of `how`, not their
numbers (the code counts them from 1).

### Syscall and Kernel

A call goes through the lookup of the handler (`Trap`), `SetErrno(0)` (`Reset`),
the handler and the register write (`RegWrite`). In Kernel a handler is at most
a write in the map of its component (`MapWrite`), which panics if the map is
nil, and an outcome (`Handle`): an errno with -1, a result, -1 without an errno,
or a panic, one of those that Syscall lists for it. `alone[t]` says that no
other call has written `k.err` since the call of `t` reset it. `Init` is what
`NewKernel` leaves: guest code runs under a kernel only after that.

### System

The same hook, but `futex` and `rt_sigaction` run their own steps: a step of
System is a step of Kernel's life cycle or hook, or one of Futex or Sigaction
(by `INSTANCE`) together with what it does to `k.err` and to the hook. The
three `dtor`s work on the components' own state. `ImplementsKernel` maps it
back: a thread that is registered in `awaits` or has stored its action has
written in a map; one that has its result and waits for the lock in `delAwait`
has returned, as far as `k.err` goes.

### VaList and VaArgs

`cur` are the cursors of the list: `__gr_offs` or `gp_offset`, `__vr_offs` or
`fp_offset`, and the stack. `Read`, `Skip` and `ReadDouble` are functions from a
cursor to a cursor and the place that was read, one per architecture; `Extract`
takes one argument: an integer, pointer, double, array or structure,
or one whose read fails. What the encoding package calls for each is external.

VaArgs keeps count of arguments, not of offsets: how many general and vector
registers are left and how many bytes of the stack have been read, by the rules
that the caller follows. `ReadsAsPlaced` says that VaList implements it.
Two corners are outside of this promise (`Awkward`): on the 64-bit
architectures a structure of two words when one register is left, which the
list reads half there and half on the stack while the caller puts it all on the
stack, and on arm a value of eight bytes that is not at a multiple of eight. From
there on (`lost`) VaArgs promises nothing.

## What the runs check

| run | instance | distinct states | properties |
| --- | --- | --- | --- |
| `futex` | 3 threads, 1 address, 1 mask, timeouts, wakes of 1 and 3 | 758568 | `IndInv`, `RegistryExact`, `CleanUntilClose`, `CloseReachesAll`, `NoSleeperLeftBehind` |
| `futex_live` | 2 threads, 2 addresses, 2 masks, fair | 100945 | `WakeStaysOnAddress`, `BitSendOpen`, `CloseReleasesAll`, `TimedWaitReturns`, `WakeReturns` |
| `fcntl` | 2 threads, 2 descriptors, 4 files, 2 flag words | 658984 | `IndInv`, `FlagsExact`, `DescriptorUsable`, `FilesReleased`, `LockHeldOnlyAfterDtor` |
| `pipe` | 3 threads, a pipe of 2 words, chunks of 2, fair | 43509 | `PipeInv`, `ChunksWhole`, `CloseReleases`, `GetsThrough` |
| `mman` | 2 threads, 3 pages, a file of 2 blocks | 2868674 | `MmanInv`, `HeldMapped`, `ContentExact`, `NothingLeaks` |
| `sched` | 3 tasks, 2 numbers, fair | 33561 | `IndInv`, `TasksExact`, `ClosedOnce`, `EveryTaskClosed` |
| `sigaction` | 3 threads, 2 signals, 3 actions, fair | 12374 | `SwapExact`, `StuckOnlyAfterDtor`, `CallEnds` |
| `sigmask` | 2 threads, 2 signals | 545729 | `MaskExact` |
| `kernel` | 2 threads, all 43 entries of the table | 1148429 | `IndInv`, `ErrnoTells`, `NilMapOnlyInClose` |
| `system` | 2 threads, 1 address, 1 mask, timeouts, 1 signal, 2 actions | 251688 | `ImplementsKernel` |
| `system_close` | 2 threads, 1 address, 1 mask, 1 signal, 2 actions, fair | 147250 | `CloseDrains` |
| `valist` | 4 architectures, 40 bytes of stack | 25384 | `VaInv`, `ReadsInArea`, `ReadsAsPlaced`, `NoByteTwice` |

All of them hold.

* **Futex.** The reference counts are exact whatever the order of joins,
  leaves, timeouts and wakes. A wake that stops short of its count has reached
  all who were parked when it began. A waker that holds a channel past the lock
  never disturbs a thread on another address. `dtor` reaches every registered
  thread, also those not yet in their `select`, and each gets out. Before
  `dtor` nobody meets a closed channel or a nil map.
* **Fcntl.** Without overlapping calls on one descriptor, its flag word is that
  of the last call, and a number that is free has no word that a socket could
  inherit. After an overlap the next undisturbed `open`, `dup3`, `pipe2` or
  `close` mends it. Files are neither leaked nor closed under a descriptor,
  but for a file object shared by a duplication. The lock can be left held, but
  only after `dtor`.
* **Sched.** The map of tasks is exact although numbers are used again, every
  task that ends is closed, once, and never while it runs.
* **Kernel.** `k.err` tells whether a call failed as long as no other call has
  written it, except for `clock_gettime` (-1 and no errno) and `F_GETFL` (which
  may return a stored -1). Nil maps are met only by calls that `Close`
  overtook.
* **System.** Kernel's picture of a handler is right for futex and
  `rt_sigaction`: their steps, interrupted by each other and by
  `Close`, come to no other outcomes and report them in no other order. Once
  `Close` has begun it ends, although it waits for wakes by bitset that hold the
  lock of futex, and so does every call in progress, but for one that
  waits for the signal table's lock behind a panic.
* **Pipe.** Chunks are not mixed; buffers of one `writev` may be apart, and the data
  of a read that fails is lost. As long as others keep the pipe from being full, or
  empty, for ever, each thread gets through in the end. Closing the
  read end gets everybody who waits out of their calls, and
  closing the write end the readers.
* **Mman.** Between unmapping and mapping with `MAP_FIXED` another thread may get
  the range: then the call fails and takes nothing from it. A mapping shows the
  blocks that were asked for unless somebody else moved the file, and a failing
  call leaves no page behind, but for `MAP_FIXED`.
* **Signal.** Actions are swapped exactly. A bit of the mask is as the last call
  on it left it, unless calls overlapped on that very signal.
* **Argument lists.** No read leaves the save areas, whatever went wrong before;
  each argument is read from where the caller put it, up to an awkward one or an
  error; and no byte is part of two arguments, also after errors.

### Bounds

* **Futex.** Three threads are needed for one to leave an entry that a second
  keeps while a third wakes; two for the properties of a pair. Two addresses have
  a waker and a waiter apart. Two values make the word change and change back; in
  `futex_live` the word keeps one value, so that nobody ever gets out by a wake,
  which is the hard case for a wait or a wake to end. The two masks there meet;
  for masks that do not there is the proof (`BitSends`). Channels are used again
  when nobody can refer to them any more, so that as many as there are threads
  are enough, and behaviours have no bound on their length.
* **Fcntl.** Two descriptors have the two ends of a pipe, a duplication, and every
  reuse of a number. Four files are one for each descriptor and one for each
  close in progress; a handler that needs another waits.
* **Pipe.** A chunk of two words in a pipe of two has to wait half way whenever
  something is in the pipe; reads ask for up to three.
* **Mman.** Three pages, two of them where `MapAlloc` allocates, and mappings of one
  or two: ranges overlap in part, and the file may be too short.
* **Sched.** Two numbers for three tasks force reuse.
* **Signal.** Two signals tell a disturbed one from one that is not; three actions
  let one be replaced twice.
* **System.** Two actions let two calls of `rt_sigaction` contend for the lock.
  `system_close` has a mask, so that wakes by bitset hold the lock that `Close`
  waits for, and one value and no timeouts, so that a wait has no way out but
  `Close` and the wakes.
* **VaList.** 40 bytes of stack are a few arguments past the registers, with every
  number of registers left at the start.

The history variables are functions of finite sets, so all the state spaces are
finite and are searched completely. Symmetry is used for threads, descriptors,
files, signals and actions, only in runs without liveness.

Deadlock is not checked: the system may stop. All threads can sleep in a futex
wait or in a read of a pipe, panic, or wait for a lock that a panic left held,
a cloned task object and an action are not used twice, and an argument list
ends. In `sigmask`, where nothing can block, it is checked.

### Fairness

Goroutines that can run are run: weak fairness of each handler's own steps.
Strong fairness is assumed of three things in Futex: the write lock, because
`sync.RWMutex` lets no stream of readers starve a writer; an expired timer and
a closed channel in a `select`, because they stay ready and `select` picks at
random among the ready cases. A thread is at one place at a time, so that one
condition of each kind covers all its steps. In Sigaction the lock is given
strongly fairly, `sync.RWMutex` handing it to those who wait in turn. In Pipe
a thread that waits for room, for data or for the lock of the file goes on if it can
again and again: the lock of an `os.File` goes to its waiters in turn. System has
both together, strong fairness for `Close`, whose `futex.dtor` waits for the lock,
and weak fairness for the hook. Nothing is assumed of guest code: no thread has to
make a call, store to a word or end.

`WakeReturns` is checked for positive counts. For a count that is negative as an
`int32` the loop ends only when nobody receives, and threads that are woken with
an unchanged value and come back to their `select` in time can keep it going:
the property does not hold for those, and the instance leaves them out. The
proofs cover any integer count.

## What is proved

TLAPS proves the following for every value of the constants (any number of
threads, addresses, masks, descriptors, files, tasks, signals and actions, pipes
and address spaces of any size, and argument lists of any length).

| theorem | says |
| --- | --- |
| `FutexProofs!Inductive`, `TypeCorrect` | `IndInv`, and `TypeOK` with it, hold always |
| `FutexProofs!Registry` | `RegistryExact` |
| `FutexProofs!WakeAddress` | `WakeStaysOnAddress` |
| `FutexProofs!Close` | `CloseReachesAll` |
| `FutexProofs!Clean` | `CleanUntilClose` |
| `FutexProofs!BitSends` | `BitSendOpen` |
| `FutexProofs!Wakes` | `NoSleeperLeftBehind`, an action property |
| `FcntlProofs!Inductive` | `IndInv` |
| `FcntlProofs!Flags` | `FlagsExact` |
| `FcntlProofs!Usable` | `DescriptorUsable` |
| `FcntlProofs!Files` | `FilesReleased` |
| `FcntlProofs!Lock` | `LockHeldOnlyAfterDtor` |
| `SchedVaProofs!Inductive` | `IndInv` of Sched |
| `SchedVaProofs!MapExact` | `TasksExact` |
| `SchedVaProofs!CloseOnce` | `ClosedOnce`, an action property |
| `SchedVaProofs!ListInductive` | `VaInv`, with the next |
| `SchedVaProofs!ListInArea` | `ReadsInArea` |
| `SchedVaProofs!ListForward` | `NoByteTwice`, an action property |
| `SchedVaProofs!ListImplementsArgs` | `ReadsAsPlaced`: VaList implements VaArgs |
| `HandlerProofs!MaskRight` | `MaskExact` |
| `HandlerProofs!ActionsInductive` | `ActInv` |
| `HandlerProofs!Swaps` | `SwapExact` |
| `HandlerProofs!Unstuck` | `StuckOnlyAfterDtor` |
| `HandlerProofs!PipeInductive` | `PipeInv` |
| `HandlerProofs!PipeChunks` | `ChunksWhole`, an action property |
| `HandlerProofs!MmanInductive` | `MmanInv` |
| `HandlerProofs!Held` | `HeldMapped` |
| `HandlerProofs!Contents` | `ContentExact` |
| `HandlerProofs!NoLeaks` | `NothingLeaks` |
| `KernelProofs!KernelInductive` | `IndInv` of Kernel |
| `KernelProofs!Errnos` | `ErrnoTells` |
| `KernelProofs!NilMaps` | `NilMapOnlyInClose` |
| `SystemProofs!SystemInductive` | `SysInv` |
| `SystemProofs!Implements` | `ImplementsKernel`: System implements Kernel |
| `SystemProofs!SystemIsSound` | `ErrnoTells` and `NilMapOnlyInClose` with the handlers of System in place |

Sched and VaList have nothing to do with each other: their proofs, and those of
Sigmask, Sigaction, Pipe and Mman, share a module only to keep the number of
proof modules small.

The assumptions are the named `ASSUME`s of `Futex`, `Fcntl`, `Sched`, `Callers`,
`Sigaction`, `Pipe` and `Mman`. The values that stand for "none" are not among the
things they stand in for; sets of flag words are sets of bits; there is a signal.
In Futex the set of threads is finite (its waiters are counted), counts and values
are integers, and the two kinds of channels differ. The sizes of Pipe and Mman are
natural numbers, the chunk is not empty, and the arena lies in the address space.
The proofs about System need no assumption, nor do those about Kernel. The
assumptions are evaluated in every run of their component. That a registration
finds a fresh channel is a guard in the model; as many channels as threads are enough
for it to hold always.

**Futex.** `RegistryExact` is not inductive by itself: one needs to know what a
thread holds at each point of control (`ControlInv`), that distinct keys have
distinct channels and that `dtor` empties the maps (`ChannelInv`), what a
bitset wake has yet to go through (`BitScanInv`) and where the threads that a
wake has still to reach are listening (`AsleepInv`). The counting rests on two
pairs of lemmas: a thread that joins or leaves changes the set of waiters of
one key by itself alone, and with it the count by one.

**Fcntl.** Every step of a thread `t` leaves the other threads where they are
(`Frame`), records in `raced` any window of another thread that it enters
(`Tracked`), and leaves each descriptor alone, or exact, or pending, or raced
(`Settled`). From these three, proved for each action, follow that no overlap
escapes the history (`RaceRecorded`), that the word a call is about to store is
the wanted one (`PendingWanted`), and `FlagsExact`. `FileInv` says which files
may be referred to twice; `FreeInv` that nothing is wanted of a free number,
which `socket` relies on.

**Sched.** A forked task is held by exactly one caller until it is stored, then
by its reaper (`CallerInv`, `TaskInv`); open tasks have distinct numbers.
`TasksExact` is inductive with these.

**VaList.** The vector cursor is always at a register and the general one never
before its area (`VaInv`). From that and a case for each architecture and kind
of read follows that no read leaves its area; and that what is read lies between
the cursors before and after, wherever in a slot or beyond the area these are
(`ReadForward`), so that `NoByteTwice` needs only that cursors are numbers. For
the refinement, a cursor that is not lost
is a number of registers and of words; each `Extract` is then one of the steps
`Word`, `Real`, `Long`, `Struct`, `Awkward` or `Error` of VaArgs.

**Sigmask.** A call that has loaded the mask has a value that is right for every
signal that no other call has set since (`MaskInv`), so that its store harms
only those, and they are in `raced`.

**Sigaction.** The caller between `Lock` and `Unlock` is the holder, what it has
looked up is still the entry, and an action is in one place only: with a caller,
in the table, or replaced (`ActInv`).

**Pipe.** `ChunksWhole` speaks of two successive words, and says nothing about who
may write the next one. `PipeInv` adds that: the holder of the write lock is in
the middle of the chunk that was written to last, with as many words to go as
that chunk, and a chunk that is not whole has its writer for holder until an end
is closed. So whoever writes a word is that writer, or the chunk was whole.

**Mman.** None of the three properties is inductive. A call that copies has its
range for itself, and nothing is expected yet of the pages that it has not come
to (`ArgsInv`); as long as nobody else has moved the file, its position is the
offset plus what has been copied (`CalmInv`), so that the block which is copied is
the one that was asked for. What `MAP_FIXED` is about to unmap belongs to the
caller or to nobody, and no other call with `MAP_FIXED` is about to use it
(`FixedInv`): only pages where `MapAlloc` allocates can be given to another thread,
and only after they are unmapped, when the call takes nothing away any more.

**Kernel.** The outcomes of the 43 entries of the table are compared once and for all: an errno
comes with a -1 always, and a -1 with an errno but for two calls (`GetFacts`).
With that `ErrnoTells` is inductive beside the order in which the hook and
the maps go (`LifeInv`), and that `k.err` is 0 in a handler that is alone
(`CallInv`).

**System.** A step of Futex or Sigaction says nothing of Kernel. The proof first sums
up what each can do to the calling thread's place and result (`WaitKind`,
`WakeKind`, `CallKind`), and that Kernel sees nothing of other threads move
(`Unseen`): but for the thread that a wake gets out of its wait, and then it is that
thread's call, not the waker's, that takes the step of Kernel.
With that each action has a lemma, that it keeps `SysInv` and is, seen through the
mapping, a step of Kernel or none (`Advances`): the registration in `awaits` and
the store of an action are `MapWrite`, the place where an errno or a result is
decided is `Handle`, each `dtor` is `Dtor`, and the rest of the handlers' steps
stutter. `SysInv` is needed for three things: a thread in one handler is in no
other, a wait that is leaving has a result that the table of system calls lists
for futex, and the maps go in the order of `Close`. Nothing of Futex's own
invariant is needed, so the refinement holds for any number of channels. With it
the theorems of KernelProofs hold of System, under the mapping (`SystemIsSound`).

Only model-checked are the liveness properties: `CloseReleasesAll`,
`TimedWaitReturns`, `WakeReturns`, `EveryTaskClosed`, `CallEnds`, `CloseReleases`,
`GetsThrough` and `CloseDrains`. Fairness and `ENABLED` are beyond the prover. Every other
property of a run is proved. The auxiliary invariants `ActInv`, `MaskInv` and
`SysInv` are there for the proofs, and no run lists them.

## External assumptions

* Each operation of the debugger's tables (`CreateFileDescriptor`,
  `CloseFileDescriptor`, `GetFile`, `DupFile`, `Dup2File`) is atomic, and a
  free number may be given again at once. `Dup2File` closes a file it replaces.
* A task number is given again only after `Close` of the task.
* A panic ends the goroutine of one thread and leaves the others running. If
  the debugger does not recover it, the process ends and there is nothing to
  check after that.
* `Kernel.Close` is called at most once, and no guest code runs under a kernel
  before `NewKernel` has returned it.
* A pipe is a pair of `os.File`s: a `Write` holds the file's lock until its
  chunk is in the pipe, a `Read` returns what there is, closing wakes those who
  wait.
* `MemMap`, `MemUnmap`, `MapAlloc` and `MapFree` are atomic and do all or
  nothing; new memory is zero; `MapFree` may refuse a range that `MapAlloc` has
  not given.
* `s.set`, a word of 64 bits, is loaded and stored whole, as on 64-bit hosts.
* `encoding.Decode` calls `Read` for integers and arrays, `ReadFloat` or
  `ReadDouble`, `ReadStream` for pointers, and for structures the fields with
  `Skip` over the padding. `debugger.Align` rounds towards plus infinity, for
  negative offsets too.

## What is not modelled

* The contents of files other than what `mmap` copies; the layouts that stat,
  `sysinfo` and the like write to the guest; paths. These handlers keep no state,
  and are modelled by their outcomes.
* `mprotect` beyond its outcomes: no property here tells protections apart.
* Guest memory, except for the futex words, the buffers of `rt_sigprocmask`, the
  pages of `mmap` and the argument areas: that a guest's buffer cannot be read
  or written is an outcome of the handler.
* Fcntl, Pipe, Mman and Sched inside System: together with futex they are out of
  TLC's reach, and they meet the rest only through `k.err` and the life cycle, of
  which Kernel has their outcomes. `fcntl.dtor` drops its map in System too.
* Constants and type declarations, and the wrapper in `internal/`.
* `NewKernel` for an architecture it does not know, which returns an error and
  leaves nothing behind.
* Two hazards that have no property: `pipe2` ignores that the guest's buffer cannot
  be written, and `clone` writes the child's number after the child has started.
  Both are how the code is written, and nothing in the repository says
  otherwise.
