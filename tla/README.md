# A verification of the RAND Elecorner 36 system

TLA+ models of the kernel under `kernel/`, of the C library and the dynamic
linker under `user/`, and of the simulator of an earlier design that is still
kept in `kernel/src`; checked with TLC on small instances, with theorems
checked by TLAPS. `PROJECT.json` maps every definition to the lines it models
and lists the components, runs, mutants, hazards and findings.

## The system and its parts

The kernel runs on one x86 CPU. Threads live in a table of 32 slots
(`threads[]`); a user process is a thread with a page directory of its own.
Interrupt and system call gates clear the interrupt flag, and kernel functions
that may also be called from threads take an `InterruptGuard`. So a handler is
atomic, and what interleaves is the handlers. Three exceptions matter. A system
call that blocks keeps interrupts off across the switch, and goes on with its
loop when it is scheduled again. Kernel threads (the shell, a thread that loads
a program) run unguarded code, such as the frame allocator and the first look
at the keyboard's ring, with interrupts on. And the power may fail between two
sector writes of the file system.

| Part | Source | Module |
|---|---|---|
| Thread table, scheduler, timer tick | `thread.cpp`, `task_scheduler.cpp`, `timer.cpp` | `TaskScheduler`, `TaskSchedulerProofs` |
| fork, exec, exit, wait, faults, kill | `syscall_gate.cpp`, `elf_loader.cpp`, `shell.cpp` | `Process` |
| Event channels, device interrupts | `event_channel.cpp`, `idt.cpp` | `EventChannel`; promise: `LossyQueue` |
| Messages between threads | `syscall_gate.cpp` | `IpcMessages`; promise: `Mailbox` |
| Frames | `pmm.cpp` | `Pmm`, `PmmProofs`, `PmmPreempt` |
| Copy-on-write, page tables, heap, mmap | `cow.cpp`, `vmm.cpp`, `syscall_gate.cpp` | `Memory`; promise: `PrivateMemory` |
| File mappings and their cache | `page_cache.cpp`, `vmm.cpp` | `PageCache` |
| Kernel heap | `kmalloc.cpp` | `Kmalloc` |
| Open files, vnodes, mappings of files | `vfs.cpp`, `syscall_gate.cpp` | `OpenFiles` |
| FAT16 | `fat16.cpp`, `vfs.cpp` | `Fat16`; promise: `FileStore` |
| Keyboard | `keyboard.cpp` | `Keyboard` |
| Console, kernel printf | `libc.cpp`, `vga_driver.cpp` | `Terminal`, `Printf` |
| Shell and its editor | `shell*.cpp` | `Shell`, `Editor` |
| Program loader, dynamic linker | `elf_loader.cpp`, `user/ldso` | `Loader` |
| C library | `user/libc` | `UserMalloc`, `Stdio`, `CStrings`, `Printf` |
| Simulator: processes and scheduling | `scheduler.cpp`, `process.cpp` | `SimScheduler` |
| Simulator: paging and swap | `memory_manager.cpp` | `SimMemory` |
| Simulator: IPC, devices | `ipc.cpp`, `io_manager.cpp` | `SimIpc`, `SimIo` |
| Simulator: kernel, applications | `kernel.cpp`, `app_runtime.cpp`, `event_bus.cpp` | `SimKernel`, `SimApps` |
| Simulator: files | `filesystem.cpp`, `fs_driver.cpp` | `SimFiles`, `SimFsDriver` |
| Simulator: logs, users, input | `logger.cpp`, `app_api.cpp`, `user_manager.cpp`, `kbd_driver.cpp`, `console_driver.cpp`, `input_manager.cpp` | `SimLogs`, `SimUsers`, `SimInput` |

The simulator is not linked into the kernel image (its files are marked "не
используется, не удалять"); its source is modelled as it stands.

## The models of the kernel

**TaskScheduler.** `threads` is the table with the fields scheduling reads,
`current_tid` the thread on the CPU, `aging_counter` the static counter of
`schedule()`, `dirs` the page directories allocated to processes, `cr3` the
register. Every handler that gives up the CPU ends in the same code, which is
`Dispatch`: sweep (free the terminated threads, wake the sleepers), pick, and
switch; CR3 is written only when the two slots name different directories. A
wake-up tick is kept as the number of ticks to go.

**Process** extends it with `parent_tid` and with `in_wait`, the threads inside
the loop of `sys_wait`. The calls are whole handlers; `sys_wait_resume` is the
next pass of the loop, when the thread is scheduled again. While a thread is in
the loop no timer interrupt is taken.

**EventChannel** extends TaskScheduler with the table of channels (ring and
list of waiters) and `waiting`, the channel a thread is inside `wait()` for.
`unlisted` is a history variable: the threads that `wait()` blocked without
putting them on a full list. The next event does not wake these, and
`NoMissedEvent` says that it wakes all others. `LossyQueue` is what a channel
promises: a queue that gives up its oldest event. **IpcMessages** does the same
for messages; `Mailbox` is its promise.

**Pmm** is the bitmap, the counters and `used_frames_` in one record, so that
other modules use its operators; `held` is what the callers hold.
**PmmPreempt** splits `alloc_frame` where a timer interrupt may come.

**Memory** has address spaces (page tables and entries with their mode),
contents of frames, heap ends and process states, over Pmm's operators.
Directories and page tables are counted in `used_frames_` without a number,
because no property depends on which frame holds one. `lost` counts frames that
`map_page` drops, `halted` is the `cli; hlt` of the out-of-memory path.
**PrivateMemory** is the promise: each process has memory of its own, fork
copies it, and nobody else's step changes it.

**PageCache** is the cache's array with its probe sequence, and the faults on
read-only file mappings that look frames up and insert them; frames that
nobody maps may be taken by another owner. **Kmalloc** is the block list over
frames of `alloc_blocks`. `kmalloc_init` has no caller (`CallsInit` is FALSE),
so every request gets an area of its own.

**OpenFiles** counts the references descriptors, mappings and the mount have on
files and vnodes, through `fopen`, `fclose`, `mmap`, `munmap`, `fork`, `exec`
and `exit`. **Fat16** has the allocation table in memory and on disk,
directories and files; an operation is a list of sector writes (`pending`), and
a crash may come between any two, after which the volume is mounted again from
the disk. Its promise **FileStore** is a tree of files in which an operation
changes the path it names only, and a failed or interrupted operation loses at
most that one.

**Keyboard** is the interrupt handler and the reader with its look at the ring
split where an interrupt may come. **Terminal** compares each of the three
screens with an endless sheet of lines. **Shell** is the line being typed with
history, completion, pipes and redirection, **Editor** the text of `writei` and
`writeo`. **Loader** lays out images, libraries, heap and stack, writes the
auxiliary vector, and follows the dynamic linker through loading, binding and
relocation. **UserMalloc** is the doubly linked block list over `sys_sbrk`.
**Stdio** has one stream on one file and standard output. **CStrings** and
**Printf** are operators, written once as the code computes and once as a
reference.

## The models of the simulator

Each subsystem is a record and its methods are operators on it, so that
**SimKernel** can run several of them in one step: its tick moves scheduler,
devices and applications, and the event of a dead process runs the clean-up of
IPC, devices and applications. `EventBus::publish` holds its mutex while it
calls subscribers, and one of them publishes again: locking a `std::mutex`
twice is undefined, so the step goes on or ends in the state "Hung".
**SimScheduler** has the queues of the four algorithms, **SimMemory** frames,
swap slots and page tables (every replacement algorithm is one choice of a
victim), **SimIpc** waiting lists and the wait graph, **SimIo** devices and the
disk schedules. **SimFiles** runs over the block driver **SimFsDriver**.
**SimLogs** covers the logger with its audit chain, the history of the bus, the
boot log and the call log of an application; **SimUsers** accounts and
sessions; **SimInput** the way of a key to the reader of a line.

## The runs

Seven runs must pass. Three of them hold several components side by side: which
one moves (`which`) is chosen at the start and the others rest, so their states
add up instead of multiplying.

| Run | Bounds | Shows |
|---|---|---|
| `sched` | 3 slots, priorities 1 and 3, quantum 2, aging every 3 ticks, 2 directories, sleeps of 0 and 2 ticks | one Running thread, on its own directory; each directory has one owner; the dead stay dead; a sleep is not cut short and ends; terminated slots are freed |
| `proc` | 4 slots, 2 directories | no directory is leaked or used after release by a process; no exit is missed, and a zombie ends its parent's wait |
| `ev` | 3 slots, list of 2, ring of 3, sleeps of 2 ticks | an event is slept through only by a waiter that found the list full; a channel is a LossyQueue; an event ends the wait |
| `ipc` | 3 slots, ring of 2, one payload | a ring is a mailbox; no message is slept through, and a message ends the receive call |
| `storage` | 7 frames in words of 2 and areas of 1 to 3; 3 processes with 2 heap pages, or with an area across two tables and 8 frames; cache of 2 slots and 3 pages; volume of 3 clusters, 2 root entries, 4 paths and 4 operations; buffers of 2 and 3 bytes | the books of the frame allocator and of the address spaces are exact, also when calls fail; sharing by copy-on-write is not observable; heap blocks are apart; a look-up finds the newest frame; the volume stays sound and is a FileStore through operations, failures and crashes; streams keep every byte in order |
| `programs` | 2 tasks, 2 paths and 2 files; heap of 24 units; 9 programs and 3 libraries; memories of 7 bytes in words of 2; 8-bit integers; screens of 2 rows; ring of 3 keys; lines of 5 and a history of 2 | files and vnodes live as long as their users; malloc's blocks tile the heap; a program's parts are apart and its symbols bound to the first definition; string functions and printf agree with their references; the screen shows what was written; keys arrive once, in order, and in the end; the arrows recall what was entered and the editor keeps what it read |
| `sim` | 2 processes and 2 frames, slots and pages; 3 processes with locks, 2 with a pipe and a queue; one device; 2 inodes on 8 blocks; logs of 1 to 4 entries; 2 accounts; 4 keys and 2 readers; every order of 4 disk requests on 5 cylinders | queues agree with states; frames, slots and page tables name each other; the wait graph is the waiting lists and a deadlock is found exactly when there is one; nothing is left of a dead process; cached paths lead where a walk leads, and blocks have one owner and its data; logs keep the newest and the audit chain verifies; sessions belong to enabled accounts; only keys that are down repeat |

Five runs show a disagreement between the code and what is written about it:

| Run | Violated | Why |
|---|---|---|
| `proc_wait` | `WaitReturns` | a slot keeps its `parent_tid`, so a parent whose child was killed, or reaped before, waits for ever |
| `pmm_preempt` | `AllocUnique` | `alloc_frame` in two preemptible kernel threads hands out one frame twice |
| `memory_kernelwrites` | `MemoryIsPrivate` | CR0.WP is off, so the kernel's own stores ignore copy-on-write |
| `page_cache` | `MappedShowsFile` | the cache names a frame that was freed and has another owner |
| `ldso_relative` | `RelativeOnce` | a library's relative relocations are applied twice |

The bounds keep the cases that matter: three or four slots give a running
thread, one that waits and one that is killed and whose slot is used again;
rings of two or three wrap and overflow, and the list of waiters fills up with
the registrations of killed threads; directories, frames, clusters, entries,
descriptors, objects and slots run out in every run where the code has a path
for that. One payload is enough for `ipc` because messages also differ by their
sender. In `storage`, programs store values other than 0, the contents of a
page nobody wrote, so that a store can be told from a page whose contents were
lost; the instance that is compared with private memory has its heap in one
page table and no stores by system calls, because with either the refinement
fails (see below). Words of two bytes of two bits have every alignment and
every carry of the code's words of four bytes, and an 8-bit integer has its
minimum and a number of digits that exceeds and stays below a field's width. Paths
of the volume have one or two names, so a directory is renamed within its level
only. In `sim` the kernel has one lock and one device request per process, since its
subsystems are also looked at alone; the files' bounds are one inode whose
owner or permissions changed, and no operation on the root itself. Deadlock is
checked in `sched`, `proc`, `ev` and `ipc`; elsewhere the system may really
stop: memory or the disk is full, the program has been started, the machine is
halted, or a bound is reached.

Fairness is weak fairness of the timer tick (the chip is programmed once and
interrupts for ever), of the next pass of a blocking loop (a thread on the CPU
executes its next instruction, and no interrupt can come between) and, in
`programs`, of the keyboard's reader, which is alone on the CPU there. No
thread is assumed to yield, to send or to exit, and no key to be pressed.

This does not keep a thread from starving: ties go to the lowest tid and aging
stops at priority 1, so two threads that compute keep a third with a higher tid
from running. The properties that say a wait ends (`ZombieIsReaped`,
`EventEndsWait`, `MessageEndsRecv`) are therefore stated for a thread that is
`NotStarved`: one that runs again and again if it is ready again and again. A
thread that stays Blocked meets this condition, so a lost wake-up still
violates them.

Every property of a passing run has a mutant: an operator named after the one
it replaces (`Claim_NoCount` for `Claim`) with which TLC finds the property
violated. Properties that conjoin several have further mutants in the modules,
one for each other conjunct that a plausible slip would break.

## What else the models show

These states are reachable in the models, or follow from their definitions, and
have no run of their own; most are matters no document speaks about.

Kernel:

- `sys_exit` makes its slot name the kernel's directory before the switch
  compares the slots, so CR3 stays on the freed directory when a kernel thread
  comes next. Processes themselves always run in their own space
  (`ProcessRunsInOwnSpace`).
- A fork that fails between two page tables makes every copy-on-write page of
  the parent writable, also one that an earlier child shares
  (`MemoryIsPrivate` fails with one page per table and eight frames).
- `fork` copies a file mapping without its type and vnode (`ForkMapped` in
  OpenFiles): with it a vnode is released that was never acquired, so the run
  forks processes without file mappings only.
- `vfs_open` with `O_CREAT` creates in the root whatever the path, `O_TRUNC` has
  no effect, and `fat16_write` replaces the whole file whatever the offset.
- The keyboard's two Shift keys share a flag, and two readers can take one
  character twice.
- `ShellRedirect::append` has no caller, so nothing is ever captured.
- `writeo` keeps only what fits the editor's buffer of a longer file.
- A waiter that finds the list of a channel full is woken by nobody.

Loader and C library:

- A program with an interpreter must not be position independent: its headers
  are announced without the load address.
- Only the libraries the program itself names are loaded, a library that cannot
  be opened is passed over, and one that finds the table of objects full stays
  mapped and unknown.
- printf prints nothing for a `%` at the end of the format, and its result does
  not count the characters of numbers.
- `sys_print` stops at a zero byte of a buffer.

Simulator:

- An I/O request without a process is never resumed, `Sleep` never ends,
  `onIpcReady` has no caller, and waiting on an unknown semaphore or mutex
  suspends for good; destroying one strands its waiters, and a pipe remembers
  one blocked reader.
- A resumed process that was not suspended is queued twice; aging of the
  multilevel queue never happens; the priority algorithm does not look at the
  running process.
- `allocate` can evict pages of the request it serves (`OnlyModest` keeps the
  run to requests that fit), and the address it returns is one `accessMemory`
  does not find.
- The audit chain stops verifying once its channel has dropped entries, or with
  a second audit channel; the call log with a limit of 1 grows without bound.
- A transaction's rollback undoes nothing; a directory may be moved below
  itself or below a file; on a full disk a write succeeds without blocks.
- Typed characters appear twice, Enter pushes an empty line, output drops what
  was typed, and the console is not told when a reader dies.

## Proofs

`TaskSchedulerProofs` proves, for every number of threads, priorities,
channels, sleep times and directories that satisfy `SchedulerAssumption`:

- `TypeCorrectness`: `Spec => []TypeOK`;
- `OneThreadRuns`: `Spec => []OneRunning`;
- `DirectoryFollowsThread`: `Spec => []RunsOnItsDirectory`;
- `KilledThreadStaysDead`: `Spec => KilledStaysDead`, if thread 0 is not among
  the threads killed. The assumption is needed: the fall-back of
  `pick_next_thread` runs thread 0 whatever its state.

None of these is inductive by itself. A switch runs a thread found Ready in the
table, so its slot must name a directory that CR3 can take (`HasDirectory`),
and this has to survive the sweep, in which dead threads lose theirs. `IInv`
conjoins the three invariants with it. `Ongoing` is the invariant of a table in
the middle of a handler in which the current thread has not given up the CPU,
`Handed` that of one in which it has; `Preempted` and `AgedOngoing` lead from
one to the other, `SweepHanded` and `PickNext` through the sweep and the
choice, and `DispatchInv` and `ScheduleInv` show that a switch re-establishes
`IInv`. `NextInv` then has one step per handler. The second part follows the
terminated threads through the same lemmas (`DispatchDead`, `ScheduleDead`,
`NextDead`).

`PmmProofs` proves `FramesAlwaysExact`: `PmmSpec => []FramesExact`, for every
number of frames, word size, region, limit of the counters and length of areas
that satisfy `PmmAssumption` (the region is part of the memory, areas are not
empty). The searches return frames that exist and are free (`FirstIsFree`,
`RunIsFree`; `ScannedExist` is the step that the last incomplete word of the
bitmap makes necessary), and each call changes `used_frames_` by as much as the
number of set bits (`ClaimCounts`, `FreeCounts`, `BlocksCounts`). `FramesExact`
is not inductive: giving back the last reference to a frame outside the region
would clear a bit that must stay set, so `PmmInv` adds that only frames of the
region are ever handed out.

Only model-checked: everything about the other modules, the liveness properties
(fairness is outside the prover's reach) and the refinements. What the
recursive definitions compute (CStrings, Printf, SimIpc's search and others) is
compared with their references over all inputs of the bounds; proving it would
take induction over data, which the prover does not do.

## Not modelled

- Disk, AHCI, ATA and PCI drivers: register input and output with busy waits.
  Fat16 takes a disk whose single sector writes succeed. `ahci.cpp:244` waits
  for a command without a limit; a command that neither completes nor fails
  stops the machine, and nothing in the code says otherwise.
- Mouse, clock, TSS, descriptor tables, boot loaders, pixels and mode registers
  of the displays: straight-line code on hardware, with no state that two
  actors share.
- Self tests, `memory_validator.cpp`: they run once at boot.
- The stubs of `syscalls_posix.cpp`, `readdir` and `stat`, the shell's commands
  that only print, and the simulator's monitor and tables of names: nothing
  changes state.
- `%f`, `math.cpp`, the 32-bit wrap of sleep times and of request sizes in
  malloc: the models keep these values within range.
- `MAP_FIXED` over mapped pages, and a heap that grows into the range of mmap:
  no document says what should happen, so there is nothing to check against.
- Scenarios, statistics, charts and reports of the simulator, which only record.
- User-space drivers and test programs: they are the callers whose calls the
  actions stand for.
