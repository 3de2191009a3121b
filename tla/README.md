# Verification of the operating-systems projects

This directory is a TLA+ verification of the programs in this repository: two
trees of the xv6 kernel (one with a ticket scheduler, one with an I/O counter),
a parallel compressor, a key-value store and a shell.  Modules are checked with
TLC on small instances; the theorems are checked by the TLA+ proof system for
every value of the constants.

    tlc -config Processes.cfg MCProcesses.tla           # a run (see "Runs")
    tlapm ProcTable_proofs.tla                          # the proofs

`S/` below stands for `src/Scheduling_&_Virtual_memory/xv6/`, `Y/` for
`src/xv6-system_calls/xv6/`.  The kernel files of the two trees are the same but
for the scheduler, `settickets`, `getpinfo` and the page below the text (`S/`) and
`getiocount` (`Y/`); the models read `S/` unless they say otherwise.  `S/Makefile`
runs the kernel on one processor, `Y/Makefile` on two.

## Inventory

Each part: its state; its operations; what it shares with others; what is hard;
what makes it correct.

1. **Process table and scheduler** (`S/proc.c`, `proc.h`, `trap.c`, `sysproc.c`,
   `pstat.h`, `init.c`).  State: `ptable` with its spinlock, `nextpid`, per CPU
   `c->proc` and the scheduler's context.  Operations: `allocproc`, `fork`,
   `exit`, `wait`, `sleep`, `wakeup`, `kill`, `yield`, `sched`, `scheduler`,
   `settickets`, `getpinfo`, the clock and fault traps.  Every blocking part of
   the kernel sleeps and wakes through it.  Hard: `ptable.lock` is acquired by
   one thread and released by another across `swtch()`; `fork` works on its slot
   without the lock; a wakeup may come before the sleep; `wait` against `exit`
   over several generations.  Correct: one CPU per process, no lost wakeup, no
   orphan, unique pids, no starvation, a share in proportion to the tickets.
2. **Spinlocks** (`S/spinlock.c`).  `locked`, `cpu`, per CPU `ncli`, `intena`.
   Hard: interrupts on the CPU that holds the lock; locks released in another order than taken.  Correct: mutual exclusion,
   nesting restores the interrupt flag.
3. **Sleep locks** (`S/sleeplock.c`).  A flag and an owner under a spinlock;
   waiters sleep in the process table.  Correct: exclusion, no waiter forgotten.
4. **Clock and `sys_sleep`** (`S/trap.c`, `S/sysproc.c`).  `ticks` under
   `tickslock`; in ProcTable as the channel on which `sys_sleep` waits.
5. **Buffer cache** (`S/bio.c`).  A list of buffers with reference counts, dirty
   and valid flags, a sleep lock each.  The log pins buffers with `B_DIRTY`.
   Correct: one buffer per block, no recycling of a buffer in use, never out of
   buffers.
6. **IDE driver** (`S/ide.c`).  A queue between `iderw` and the interrupt handler.
   Hard: an error of the disk is told to nobody.  Correct: each request is started once and
   answered, in order.
7. **Write-ahead log** (`S/log.c`).  In memory the list of logged blocks,
   `outstanding`, `committing`; on disk a header and the log blocks.  Used by
   every file system call between `begin_op` and `end_op`.  Hard: concurrent
   operations share one transaction; the machine may stop between two writes, and
   again during recovery.  Correct: atomic and durable groups of operations, no
   operation runs out of log.
8. **Inodes and blocks** (`S/fs.c`).  The inode cache, the bitmap.  Hard: `iput`
   looks at the reference count in one critical section and drops it in another, and frees
   while others look an inode up.  Correct: no block or inode in two uses,
   none lost.
9. **Directories and path names** (`S/fs.c`, `S/sysfile.c`).  Correct: link
   counts equal the directory entries, no deadlock between inode locks.
10. **File table and descriptors** (`S/file.c`, `S/sysfile.c`).  Correct:
    reference counts equal the descriptors that name a file.
11. **Pipes** (`S/pipe.c`).  A circular buffer, two open flags.  Correct: the
    bytes come out in order, nobody sleeps for an end that is closed.
12. **Virtual memory, page allocator, exec** (`S/vm.c`, `S/kalloc.c`, `S/exec.c`).
    Hard: failures half way, sums of sizes that wrap.  Correct: a page has one owner, failures
    give everything back.
13. **Console, serial line, keyboard** (`S/console.c`, `uart.c`, `kbd.c`).  A
    circular input buffer edited in an interrupt handler, and the modifier keys and
    escape codes that `kbdgetc` keeps between two bytes.  Correct: what is typed is what
    is read, once, and nobody sleeps on input that is there.
14. **I/O counter** (`Y/sysfile.c`, `Y/sysproc.c`).  `iocount` under its own lock,
    which `sys_read`, `sys_write` and `sys_getiocount` take.  Correct: no call is lost.
15. **System call dispatch** (`S/syscall.c`).  Sequential, stateless.
16. **Boot, interrupt controllers, assembly.**  Hardware set-up.
17. **User programs and library** (`S/sh.c`, `umalloc.c`, `usertests.c`, ...).
18. **Parallel zip** (`src/ParallelZip/pzip.c`; `pzipfinal.c` is the same program,
    `pzipnew.c` an earlier draft).  One producer, one consumer per processor, a
    circular queue under a mutex with two condition variables, an output array.
    Hard: wakeups shared by several consumers, the end of the work, chunks out of
    order, runs across chunks.  Correct: the queue is a bounded FIFO, the
    program ends, its output is the run length encoding of its input.
19. **wish** (`src/Wisconsin_Shell/wish.c`).  The path array, the token array,
    child processes, an input whose offset they share.  Hard: what the child does when `execv`
    fails.  Correct: one process at a time reads or runs a command; `exit` and the end of the
    input end them all.
20. **Key-value store** (`src/KeyValueStore/kv.c`).  An array of keys and value
    pointers, a text file.  Hard: pointers shared after a delete, a file longer
    than the array.  Correct: it behaves as a map, also across restarts.
21. **`mkfs`, tests, scripts** and 22. the **locks report** (no code).

The hazards of each part, with their lines, are in `PROJECT.json`.

## Modules

| module | models | kind |
|---|---|---|
| `ProcTable` | part 1 (and 4) | state machine, safety, liveness |
| `TicketSched` | the arithmetic of the scheduler's turns | state machine with counters |
| `Spinlocks` | part 2, with `sched`, `scheduler` and interrupts | state machine per instruction |
| `BlockStore` | what `bread`, `bwrite` and `brelse` promise | abstract specification |
| `BufCache` | parts 3, 5, 6 | state machine, refines `BlockStore`; liveness |
| `AtomicDisk` | what the log promises | abstract specification |
| `Log` | part 7 | state machine, refines `AtomicDisk`; liveness |
| `FsDisk` | parts 8, 9 inside one transaction: `fs.c` as operators on a disk | operators |
| `Mkfs` | `mkfs.c`: the disk the machine boots from | operators |
| `Fs` | parts 9, 10: every call of `sysfile.c` and `file.c`, with crashes | state machine |
| `FsTests` | the file tests of `usertests.c` and other programs, on `Fs` | programs, with results |
| `InodeLocks` | parts 8, 9: the inode cache and the locks inside the calls | state machine |
| `Pipe` | part 11 | state machine, safety, liveness |
| `Memory` | part 12, 15 | state machine |
| `MemTests` | the memory tests of `usertests.c`, on `Memory` | programs, with results |
| `ConsoleInput`, `Keyboard` | part 13 | state machines |
| `IoCounter` | part 14 and its tests | state machine |
| `Sh`, `Umalloc` | part 17: parser and processes of `sh.c`; the allocator | state machines |
| `Text`, `Strings` | part 17: `grep.c`, `wc.c`, `printf.c`, `string.c`, `ulib.c` | operators against definitions |
| `BoundedFifo` | what `put`/`get` of pzip promise | abstract specification |
| `Rle` | the two encoders of pzip and a reference definition | operators |
| `Pzip` | part 18 | state machine, refines `BoundedFifo`; liveness |
| `Wish` | part 19 | state machine, liveness |
| `PersistentMap` | what the key-value store promises of its keys | abstract specification |
| `Kv` | part 20 | state machine, refines `PersistentMap` |
| `ProcTable_proofs`, `Memory_proofs` | | theorems about the module of that name |
| `FsDisk_proofs`, `Fs_proofs` | | lemmas about the operators of `FsDisk`; theorems about `Fs` |
| `Storage_proofs` | | theorems about `Log` and `BufCache` |
| `Locks_proofs` | | theorems about `Spinlocks` and `Pipe` |
| `Kernel_proofs` | | theorems about `TicketSched`, `IoCounter`, `ConsoleInput` and `Keyboard` |
| `Programs_proofs` | | theorems about `Pzip`, `Kv` and `Wish` |
| `MC...` | | instances for TLC |

`MCProcesses`, `MCKernel` and `MCPrograms` put modules that share no state into one
specification: its variable `part`, which never changes, says which of them a behaviour is
about, and the others stay in an initial state.  A property of one module is thus
checked on all behaviours of that module, in one run.  Modules that do share state
are composed by extension: `Fs` over `FsDisk`, `FsTests` over `Fs` and `Mkfs`, `MemTests`
over `Memory`, `Pzip` over `Rle`.  What one layer assumes of the one below is what the
run of the lower one shows: `Fs` takes transactions as atomic (`AtomicGroups` of `Log`),
`Log` takes blocks as atomic and locked (`CacheIsStore` of `BufCache`, of the blocks that the
disk reads and writes without error), critical sections are single steps elsewhere (`OneInside` of
`Spinlocks`).  `Fs` is coarser than `InodeLocks` where `iput()` is concerned; see there.

### ProcTable

`state`, `pid`, `parent`, `chan`, `killed`, `tickets`, `inuse` are the fields of
`struct proc`, one function per field over the slots; `nextpid` is the global.
`ctx` says where `p->context` will resume (`forkret`, `yield`, `sleep`) and `pc`
what the kernel thread of the slot is doing.  `lock` is the CPU that holds
`ptable.lock`.  `at`, `cur`, `cursor` and `turn` are `scheduler()`'s position,
`c->proc`, `p` and `i` on each CPU.

The step is the critical section.  A section that ends in `sched()` ends its step
with the lock still held by the CPU (operator `Sched`); the scheduler of that CPU
goes on under it (`SchedNext`, `SchedPick`, `SchedSlice`, `SchedRelease`) and the
thread it switches to releases it (`Forkret`, `YieldReturn`, `SleepReturn`).  What
`fork` does outside the lock (`ForkFail`, `ForkCopy`) are steps of their own.
`wait()` is `WaitReap`, `WaitFail` and `WaitSleep`, three ends of one scan.
Closing files and dropping the working directory in `exit()` do not change the
table and are left out, as is `exec`.  The first process runs `init.c`: it only
forks and waits, and exits when `fork` fails, which panics the kernel
(`InitExits`); every other program makes any call at any time.

### TicketSched

`ticksAcc` is a counter that ProcTable has no use for and that would make its state
space infinite.  TicketSched keeps `scheduler()`'s loop on one CPU, the tickets and
`ticksAcc`, and nothing else: a process that runs comes back because the clock
ticked or because it sleeps, and may be woken at any later time.

### Log and AtomicDisk

`home`, `logData` and `head` are the disk: data blocks, log blocks and header
block.  `cache` is what `bread()` returns.  `logged` is `log.lh`.  Each process is
idle, trying `begin_op()`, asleep, in its operation, or between the size test of
`log_write()` and its `acquire` (state `append`).  `phase` and `tail` follow
`commit()` and `recover_from_log()`, one disk write per step.  `Crash` may happen in
every state; it keeps the disk and forgets the rest.  A block write is atomic, as
xv6 assumes.  `Replayed` is the disk a recovery would leave, and the refinement
mapping: `AtomicDisk` sees `Replayed` as `durable`, the cache as `current`, and
operations as `active`.  Its `Commit` step is allowed only when no operation is in
progress.

### Pipe

`holder` is who has `p->lock`; `nread`, `nwrite`, `data`, `readopen`, `writeopen` are the fields of
`struct pipe`, `left` is `n - i`.  `open` holds the processes with a descriptor: `fork`
adds one (`Inherit`), `Close` is `fileclose`, after which the last holder of an end is
on its way into `pipeclose` (pc `close`).  `pc` is `acquire` from the start of a call and
from a wakeup until the process gets `p->lock`, `io` and `copy` in the loops under it,
`dozing` between the last test of a loop and `sleep()`'s `acquire(&ptable.lock)`: there
`kill()` finds the process RUNNING.  `ncpu` is the number of
processors, 1 or 2 as in the two Makefiles: on one, a holder of a spinlock is not
interrupted, so that `kill()` runs only while `p->lock` is free.  Bytes
are numbered as they go in, which makes order and loss visible.

### Spinlocks

One step per access to `lk->locked`, the interrupt flag, `ncli` or `intena`.  A thread is a
stack of frames, each at some step of its code: a pass of `scheduler`, `yield`, a call that
sleeps, or the handler of the clock.  The locks nest as in the code: `SleepCall` takes
`ptable.lock` under the caller's lock and lets that one go first, as `sleep()` does, and takes it again
after the wakeup; `Tick` wakes sleepers with `tickslock` held, and `TickProc`, which found a process
running, yields afterwards.  The caller's lock and `tickslock` are one lock here, since `sys_sleep()` holds
that one.  An interrupt puts the frame of the handler on top when the flag
allows it, and `swtch` is what carries `ptable.lock` from a process to the scheduler.
Dying is what the code's own `panic` calls do (release of a lock that is not held, `sched`
with a wrong `ncli`, re-acquiring a lock).

### BufCache and BlockStore

A buffer is its block number, flags, reference count, sleep lock and data; `lru` is the list
of `bio.c`, `queue` that of `ide.c`, `platter` the disk.  `bget` is a hit or a miss and then
`acquiresleep`; in between the buffer belongs to nobody, which is where it could be recycled.
`LogWrite` pins a buffer, as `log_write` does.  The refinement mapping sees the data of a valid
buffer, or else the platter, as the store, and the sleep lock as the holder.

The disk may report an error for the blocks of `BadBlock` (`Outcomes`).  `ideintr` then skips
`insl` and marks the buffer valid all the same (`S/ide.c:118`), so that a reader sees what the
recycled buffer held before, and nobody looks at what became of a write.  The refinement is
therefore stated for the other blocks, while what is said of locks, counts and the queue holds for all.

### FsDisk, Mkfs, Fs and FsTests

A disk is a record of inodes, bitmap and the contents of files (`FsDisk`), and every operator
returns the disk it leaves: `balloc`, `bmap` with its indirect block, `itrunc`, `writei`,
`dirlink`, `namex` as the code does them, in its order of allocation.  Sizes are in units: a
block is `BSIZE` units.  `Fs` has a step per system call, and one per transaction where the code
uses several (`filewrite`, `exit`).  `ftable`, descriptors and working directories are as in
`file.c` and `proc.h`; an inode is held by the files and directories that refer to it.  A crash
keeps the disk and forgets the memory.

`iput` reads the reference count in one critical section and drops it in another (`S/fs.c:336-351`).
What is told from this in a step per transaction is which references it saw: those of descriptors and working
directories, and maybe one of another process that is in the middle of a call (`OthersMayRefer`; it is false when no
other process exists).  Then the inode is left to that process, whose own `iput` may come later (`OthersIput`),
or never, when it saw a reference too.  So nothing here says that an inode without links is freed in the
end; `InodeLocks` has the steps of `iput` and shows that it may not be (`names_orphan`).

`FsTests` runs 27 programs step by step, each call with
the results that the C code of the test accepts, all interleavings of their processes included;
its test `any` is any call of any of two processes, with crashes.

### InodeLocks

The inode cache of `fs.c` slot by slot with reference counts, `valid` and sleep locks.  A call is
a list of steps (look up in a locked directory, lock, unlock, put in its three parts), and another
process may run between any two of them.  `ilock` of a locked inode waits, so that deadlocks show.

Two history variables say where the code is known to be wrong.  `buried` are inodes named in a directory that
was removed while in use.  `strayed` says that a path went through the `..` of such a directory: it may lead
to an inode that is already free, and `ilock()` panics (`fs_dotdot`).  `FreedAlone`, and the parts of
`NamesSound` about allocation, link counts and panics, are claimed as long as that has not happened; the
calls of the run include one on `..`.

### Memory and MemTests

`kmem` says how often a page is in the free list, a page directory a set of pages with their frames and user
flags, and its tables.  Growing, copying for `fork` and loading for `exec` take a step per page, so
that processes compete for the last frames and every call can fail at every page.  `panic` says
which of the kernel's own checks failed.

Sizes are `uint`s below `WORD`.  `exec()` adds `sz + ph.vaddr + ph.memsz` (`S/exec.c:52`) and checks only
`vaddr + memsz` for wrapping: when the whole sum wraps, `allocuvm()` sees a smaller size and keeps the old one
(`SegEnd`, `Wanted`), and `loaduvm()` may find no table and panic.  `LoadsSound` says that it does so only for
such a segment.  `FilesAssumption` leaves out programs with segments at kernel addresses, where the tables of
the kernel's part would be found; a short `readi()` ends like any failing `exec()`.

`MemTests` runs `sbrktest`, `mem`, `forktest`, `bigargtest`, `exectest` and `validatetest`, with sizes
scaled to the memory.

### ConsoleInput and Keyboard

`input` is the struct of `console.c` with its three counters modulo `WRAP`; typing a character is one
step, reading one step per byte, because `cons.lock` is released by `sleep` only.  `Keyboard` has the
static `shift` of `kbdgetc` and the bytes in the controller; the keyboard, with some keys of every
class and the codes a PC keyboard sends for them, is external.

### IoCounter

The load and the store of `iocount` are separate steps on any number of processors; the lock is a
variable that the three system calls take.  The processes run `test_1` to `test_5` with shorter
loops, starting from every value of the counter, so that it also wraps in the middle of a test.

### Kv, Wish, Sh, Umalloc, Text and Strings

`Kv` keeps the array as pairs of a key and a buffer and says which buffers are allocated:
`deleteKey` frees one that another entry still has, and the C library ends a run that frees a buffer twice.
A run of the program loads the file, executes
commands and rewrites the file a line at a time, and may be stopped while it does.  Loading does not grow the
array: a file with more lines than `INITIAL_CAPACITY` is written past its end (`kv.c:126-133`), and
then anything may happen (`run` is `wild`).  Of a value only the buffer is kept.  The code copies it without
its NUL (`kv.c:52-53`, `59-60`, `130-131`), so that what is printed and saved is the value and what follows it in
memory; the model takes that to stay on the value's line.  So `PersistentMap` is a set of keys, and of the values
`ValuesLive` says only that they have not been freed (`kv_delete` shows that it fails).

`Wish` has a process per `fork`.  The offset in the input belongs to the open file and is one for
all; a `fork` copies the buffer that `getline()` reads ahead into (`BufLines` lines of a file, one of a
terminal), and `exit()` of a process that has lines left in it moves the offset back by them (`Exits`), as the C
library's does.  The child of a failed `execv` goes on as a second shell with its copy.

`Sh` parses sequences of tokens into
the command tree, and runs the tree with a process per `fork1` and the descriptors each one holds.
`Umalloc` is the ring of free blocks by address.  `Text` and `Strings` are operators, called with
every sample of a set: `sample` is chosen in the initial state and the properties compare the
translated function with a definition of what it should compute.

### Pzip, Rle and BoundedFifo

What a thread does from `pthread_mutex_lock` to the next unlock or wait is one step.
A waiting thread is in `waitFill` or `waitEmpty`; `pthread_cond_signal` removes one
member (any), `broadcast` all, and `SpuriousWakeup` any at any time.  Compressing a
chunk is one step, outside the mutex.  `Rle` models the bytes: `EncodeByte` the loop of
`consumer()`, including that a `char` never equals an `unsigned char` above 127, and
`MergeRun` the loop of `compressOutput()`, which merges what those comparisons
split.  `Reference` is the run length encoding of the whole input without NULs.
`PrintedInOrder` says what the threads owe to the printing: the encodings of the first chunks of the
input, in its order; `OutputCorrect` that what is printed at the end is `Reference`.

## Runs

| run | instance | checks |
|---|---|---|
| `processes` | table: 3 slots, 2 CPUs, 4 pids, tickets 1, kill(3); spinlocks: 2 processors, 2 processes, one of which sleeps; names: 2 processes, 2 calls each of nine, 5 cache slots, 5 inodes | the six safety invariants of `ProcTable`; `SpinSound`; `NamesSound` (references, slots, link counts), `FreedAlone` |
| `proc_live` | 3 slots, 1 CPU, 3 pids, tickets up to 2, kill(2) | `RunnableRuns`, `OrphanReaped`, `KilledExits` |
| `fs` | 3 processes, 9 inodes, 12 blocks of 4 units, 5 files, 27 programs and any calls of 2 processes | `DiskSound` (fields, blocks, panics), `TreeSound` (link counts, tree, what is in use is kept), `RefsSound` (descriptors), `TestsPass` |
| `kernel` | pipe: 2 readers, 1 writer, buffer of 2, counters modulo 4, 5 bytes, 1 or 2 CPUs; 24 frames, 3 processes, 4 calls; log of 5, 2 operations; 3 processes with 1-3 tickets; 5 counter tests | `PipeSound` (order and wakeups), `FreedIsUnused`, `CallsEnd`; `MemorySound`; `TestsPass` (of memory and of the counter); `LogSound`, `AtomicGroups`, `SleepersWoken`; `FairShare`; `NoneLost` |
| `programs` | 3 keys, 4 commands; scripts of 3 lines; 940 shell lines; 14 heap units; the samples of `Text` and `Strings`; 3 consumers, 7 chunks; input buffer of 2, 5 keys; 3 presses and releases; cache of 2 buffers, 3 blocks, one of them bad | `KvIsMap`; `WishSound`, `ShSound`; `HeapSound`; `LibrarySound`; `PzipSound`, `OutputCorrect`, `QueueIsFifo`; `ProgramsEnd`; `ConsoleSound`; `KeysSound`; `BuffersSound`, `CacheIsStore`, `BlockArrives` |
| `names_deadlock` | the names of `processes` | `NoDeadlock` is violated |
| `names_orphan` | the names of `processes` | `LastPutFrees` is violated |
| `fs_dotdot` | as `fs`, any calls | `LockedHasType` is violated |
| `mem_null` | the memory of `kernel`, any calls | `AcceptedIsMapped` is violated |
| `log_full` | 3 blocks, 3 operations of 1 block, log of 3 | `NoPanic` is violated |
| `kv_delete` | the store of `programs` | `ValuesLive` is violated |
| `wish_end` | a program that is in no directory, then `exit`, from a file or a terminal | `WishEnds` is violated |

A property called `...Sound` is the conjunction of a module's type invariant and its
safety invariants, which are defined by name just before it, each with what it says of the
code.  To see which part a changed model breaks, list the parts in the `.cfg` instead.

**Bounds.**  Three slots let init, a parent and a child meet, which is enough for
every two-process race in the table.  A family of three generations, where an orphan is
itself a zombie when its parent exits, needs a fourth slot: that case is left to the
theorem, which covers any number.  `MaxPid` bounds the forks of a behaviour: four
pids fill three slots and reuse one.  `UserCalls` are the calls of a user process:
`getpinfo()` only copies and `yield` comes with the clock, so that they are left to the proof.
`MaxTickets` is 1 on two CPUs, where `settickets()` is called with a number that is refused and one that is not;
in `proc_live`, where `RunnableRuns` is about the tickets of others, it is 2: a process sets its own, keeps the CPU for
the turns they give it, and the others are still reached.
Two CPUs are enough for every race on the
lock hand-off, which concerns the CPU that leaves a process and one that would take
it; the proofs cover any number.  `MaxPass` bounds the passes over the table of `TicketSched`.
In the log two operations can fill different parts of one transaction, absorb each other's blocks
and be caught by a crash in all phases; a log of five blocks admits both at once.
In the pipe a write may fill the buffer half way, both counters wrap, and a second reader
joins and leaves at any time.  In `fs` every allocation can fail: the tests that fill the disk do
fill it, files reach the indirect block (`NDIRECT` is 2), and the table has fewer files than the
processes have descriptors.  The names of `processes`: two calls of each process cover a lookup against a removal
and the reuse of its slot.  Its spinlocks: two processors and two processes meet every hand-over
of `ptable.lock`; interrupts are taken only on one process and one scheduler (`Interrupted`), which meets an
interrupted and an undisturbed thread on either side of every lock; the proof has no such bound.
For the memory 24 frames are what three small processes nearly fill, so that every call runs out of
memory at every page in some behaviour; `WORD` is 64, and four of the programs have a second segment whose sum
wraps or just does not, below a table that is there or one that is not.  Two buffers for three blocks are recycled, and two
users make each wait for the other; keys 1 to 5 pass the size of the console's buffer and wrap its counters.
Four commands fill the array of `kv`, make it grow and leave a file that the next run overruns.  Scripts of
three lines let a shell fork a shell that reads on, and a buffer of two lines ends in the middle of them.
In pzip the queue is shorter than the work, so
that the producer waits, and there are more consumers than chunks left at the end.
Deadlock is checked in `processes`, `proc_live`, `fs`, `kernel`, `mem_null`, `fs_dotdot` and `log_full`; a part
whose processes have finished stutters there explicitly, calls on names included, which may also wait for each other
(`names_deadlock`).  It is not checked in `programs`, `kv_delete` and `wish_end`, whose user programs end, and in `names_deadlock`
and `names_orphan`, where processes stop after their calls or in that deadlock.

**Fairness.**  `ProcTable!FairSpec` is stated for one CPU, since an `xchg` spinlock
promises nothing to competing CPUs.  The scheduler and a thread that resumes are
weakly fair: they run with interrupts off and nothing stops them.  A thread in the
kernel is strongly fair, not weakly: the clock may take the CPU away between any two
of its steps, but a time slice is long enough for some step in some slice.  The
clock is weakly fair: while a process computes with interrupts on, a tick comes.
`InitWaits` is what `init.c` does: it calls `wait()` again and again.  For `Log`, the
disk answers and operations in progress end; there is no
fairness of `begin_op()`, since the property is about being woken, not admitted.
`Pipe!FairSpec` assumes that the holder of `p->lock` goes on and that whoever waits for
it gets it; `CallsEnd` is stated for one processor, where the lock is free whenever a waiter is
scheduled.  For `BufCache`, the disk interrupts when it has finished and a process in the
kernel goes on; nothing says that a process asks for a block.  A sleep lock is not fair: who lets it go may
take it again before the process it woke runs, any number of times.  So `BlockArrives` promises that
somebody comes to use a block that a process waits for, and not that this process does; and it promises nothing
once `bget()` has panicked for want of a buffer.  For `Wish` and `Sh`, processes
go on and programs end.  For `Pzip` each thread goes on when it can, hence the mutex does not
starve one thread for ever.  `ProgramsEnd` is about `sh` and `Pzip`; `wish` does not always end (`wish_end`).

**Disagreements found** (the `violation` runs).

* `names_deadlock`: `create()` and `sys_unlink()` drop the directory with `iunlockput(dp)` while
  they hold the lock of the inode in it, and `iput()` takes the directory's lock again
  (`S/fs.c:334`).  Another process that locked the directory in between and waits for
  that inode deadlocks with the first; `S/usertests.c:855-856` runs `linkunlink` "to look for
  deadlocks".
* `fs_dotdot`: a process whose working directory was removed still finds `..` in it; when
  the parent is gone too, `ilock()` panics at its own assertion (`S/fs.c:309`).
* `mem_null`: the checks of `S/syscall.c` compare a pointer with the size only, but `exec()`
  leaves page 0 unmapped: a null pointer passed to a system call stops the kernel,
  against `S/syscall.c:56-57` ("Check that the pointer lies within the process address space").
* `log_full`: `mkfs.c` makes the log area `LOGSIZE` blocks, header included;
  `begin_op()` shares out `LOGSIZE` blocks and `log_write()` panics at
  `LOGSIZE - 1`, against `S/param.h:11` ("max data blocks in on-disk log").
  Operations that keep their promise can panic the kernel.
* `names_orphan`: two processes that drop the last two references of a removed file may both see `ref` = 2
  (`S/fs.c:336-338`) before either decrements it (`349-351`), and neither frees it, against the comment of `iput()`,
  `S/fs.c:327-328` ("If that was the last reference and the inode has no links to it, free the inode").
* `kv_delete`: `deleteKey()` moves the entries up and then frees the value of the last place, which is that of another
  key by now (`kv.c:85`), against `src/KeyValueStore/README.md:34` ("deletes the relevant key-value pair").
* `wish_end`: the child of a failed `execv` reads on as a second shell, so that `exit` ends only that one; and from a
  terminal `main()` calls `getline()` for ever after the end of the input (`wish.c:233-237`), against
  `src/Wisconsin_Shell/Readme.md:34` and `38`.

**Observations.**  Met while modelling, and visible in the modules; the properties named here are
defined in their modules, and a cfg that lists one shows its violation.  They are not runs of their own.

* `wait()` leaves `inuse` at 1 in a free slot (`FreeSlotNotInUse` of `ProcTable`);
  `kill(0)` marks a free slot, and the next process there is born killed (`BornAlive`).
* `log_write()` tests the size before it acquires `log.lock` (`LogFits` of `Log`).
* On two CPUs `kill()` may come between the test of `killed` and `sleep()` (`KilledAwake` of
  `Pipe`; `sys_sleep()` has the same window, but there the next tick wakes the process).
  `pipewrite()` returns -1 to a killed writer without waking the readers of what it has
  written: this is why `NoLostWakeup` of `Pipe` excepts killed writers.
* `link(x, ".")` locks a directory twice; `create()` in a removed directory loses the inode;
  `NINODE` (50) is smaller than `NFILE` (100).
* A failed read of the disk still marks the buffer valid (`S/ide.c:118`; `Outcomes` of `BufCache`); blocks pinned by the log
  can fill the cache, and `bget()` panics.
* A reader of the console that is killed loses the bytes it had taken.
* When both keys of a modifier are down, releasing one clears the bit of both (`S/kbd.c:26`).
* `sbrk(-n)` beyond the size frees all pages, returns -1 and keeps the size; a segment at
  address 0 makes `loaduvm()` write where the last one was; a segment whose size wraps in `exec()` makes it panic,
  although its comment (`S/vm.c:195-196`) takes the pages for mapped.
* `sh.c`: the first of two redirections of the same descriptor is undone by the second; `a & b` is a syntax
  error; after a failed second `fork` a pipeline's shell exits without waiting.
* `kv.c` copies values without their NUL, writes past its array when the file has more lines than
  `INITIAL_CAPACITY`, and truncates the file before it rewrites it.
* `wish.c` finds programs only in the first directory of the path, since the string is not
  reset; the child of a failed `execv` becomes a second shell on the same input.  With an empty path,
  `path`, `ls`, `ls` in a file makes it read the last line twice, since `exit()` of the child gives its unread lines
  back; with one more `ls` it never comes to the end.
* The comment of the user's `printf()` (`S/printf.c:38`) does not list `%c`, which the code prints; `cprintf()` has no `%c`.
* `grep` loses the beginning of a line when a read of a pipe brings no newline.

## Proofs

`ProcTable_proofs` proves `TypeOK`, `OneCpuPerProcess`, `NoOrphan`, `NoLostWakeup`,
`EmbryoOwned` and `PidNamesOneSlot` for any number of slots, CPUs and tickets, from
`ProcAssumption` alone.  They are not inductive one by one.  The inductive invariant
`IInv` is their conjunction with

* `LockInv`: a CPU in the loop of `scheduler()` holds `ptable.lock`, and one that waits
  for it has a null `c->proc`.  Without it two schedulers could pick one slot;
* `ForkInv`: `np` is set exactly between `allocproc()` and the final `release` of `fork()`,
  by a process that is alive; the embryo has no parent before the fields are copied
  and its forker afterwards.  Without it an embryo could have a parent that `exit()`
  has left behind, and publishing it would break `NoOrphan`;
* `ParentInv`: the first process is alive and has no parent, nobody is its own parent, a
  free slot has no parent.  `exit()` needs it to know that what it hands to `initproc` is
  in good hands, and that it does not wait for itself;
* `PidInv`: every pid in the table, free slots included, is below `nextpid`.

There is one lemma per action, each with one step per part of `IInv` that the action
can disturb.  `PcStep` covers the actions that only move a thread to another place.
`ExitStep` is the one with a real argument: after `exit()` nobody sleeps with a zombie
child, since the only processes that gained one are the parent, which was woken, and
init, which was woken if a zombie was among the children it received.  `NextIInv`
combines the lemmas, and `Invariance` is `Spec => []IInv`.

`Kernel_proofs` is about four small modules that share no state.  It proves `FairShare` of `TicketSched` for any number of processes and any tickets.
`Quota(p)` is `pass` whole turns plus what the current pass has brought `p` so far; `IInv`
says that every process has had at most its quota and a process that always computes
exactly its quota.  `FairShare` follows by multiplying out (`QuotaShare`); products of
variables are done in small steps because the SMT backend is weak at them.

`Locks_proofs` proves `FreedIsUnused` and `PipeSound` of `Pipe` for any number of readers and writers.  For
`FreedIsUnused`: an end of the
pipe is open exactly as long as one of its processes has not left it (`EndInv`), a process
on its way into `pipeclose()` is the last of its end (`OpenInv`), and only a process inside
a call holds `p->lock` (`LockInv`).  Hence the process that sees both ends closed is the
last one altogether.

`PipeSound` needs `SInv` in addition: `RingInv` says that `nread` and `nwrite` are the numbers of bytes
read and written modulo `W` and that the buffer holds at most `PIPESIZE` bytes in between, each in its
place (the lemmas about `%` show that wrapped counters still tell how full the buffer is);
`ReaderSleepInv` and `WriterSleepInv` say that who sleeps has a reason to, or that the holder of
`p->lock` is on its way to wake him, as long as no writer is killed; `KillInv` that on one processor no killed process
dozes.

`Kernel_proofs` proves `NoneLost` (and `IoTypeOK`) of `IoCounter` for any number of processes and any width of
the counter, and that `getiocount()` returns the number of calls counted at that moment.
Inductive is that the lock is held exactly by the process inside a call, and that what it
loaded is still the value of the counter.

`Kernel_proofs` proves `ConsoleSound` of `ConsoleInput` for any readers, size of the buffer and width of the indices.  With
the types, `ConsoleSound` is inductive: the order `r`, `w`, `e` (`ConsTypeOK`) and what lies between them carry each
other.  All indices are counted from `r` (`Places`); `Plus` and `Dist` then calculate like + and - on numbers
below `WRAP` (`PlusPlus`, `OnceAround`, `Between`), bytes less than a bufferful apart are in different slots
(`SlotsDiffer`), and a span splits at any index (`Joined`).  That `^U` stops between `w` and `e` (`KillToIs`) needs that a
set of numbers has a least element.

`Kernel_proofs` proves `KeysSound` of `Keyboard` for any number of keys pressed and of bytes that wait in the
controller.  What `kbdgetc()` has done so far says little when bytes are waiting: the half of an escape may be read.
Inductive is instead where the waiting bytes will take it (`KbdInv`): there is a state `t`, reached from `shift` and
`chars` by reading `port` to its end (`Reads`), which agrees with the keys that are down and with what was
meant (`Agrees`).  A press or a release appends bytes, and then `t` moves on; `kbdgetc()` takes a byte
away at the front, and `t` stays.  With `port` empty, `t` is the state itself.

`Storage_proofs` proves `LogSound` and that `Log` implements `AtomicDisk` (`AtomicGroups`), for any blocks,
contents, operations and sizes, from `LogAssumption`.  Its inductive invariant has three parts.

* `LogShape`: the types, and no block twice in the log or in the header.
* `AccountInv`: `begin_op()` reserves `MAXOPBLOCKS` blocks for each operation, and a block that an
  operation in progress has logged counts against its own reserve.  The log plus the reserves of all
  operations is never above `LOGSIZE` plus the blocks so counted; since no operation writes more than
  its reserve, the log never passes `LOGSIZE` (`LogIsNotOverrun`), although `log_write()` tests the size
  before it takes the lock.
* `PhaseInv`: what the log blocks, the header and the home blocks hold in each phase of `commit()` and
  of the recovery.  A recovery that is itself interrupted starts again from the same header, and the
  home blocks it has already installed are those of the header: hence `Replayed` changes at one write
  only, that of the header in `commit()`.

`OpAtomic`, `DiskStepAtomic` and `CrashAtomic` then map every step to a step of `AtomicDisk` or to a
stutter.  A panic stops the machine, so that no operation is active afterwards.

`Storage_proofs` proves `BuffersSound` and that `BufCache` implements `BlockStore` (`CacheIsStore`), for any
processes, blocks and number of buffers, from `CacheAssumption`, and for any set of
blocks at which the disk may fail (of these `BlockStore` says nothing).  Inductive are, together, that a reference
count is the number of processes that have the buffer (`RefInv`: what has no reference is nobody's, and may be
recycled), that the lock of a buffer is held by exactly the process past `acquiresleep()` (`LockInv`), that the
queue holds the buffers of the processes that wait for the disk (`QueueInv`), and that a buffer which is valid and
not dirty equals its block on the disk, if that is a good one, while a request is a read of an invalid buffer or
a write of a dirty one (`DataInv`).  In the refinement a read that ends (`Ideintr`) or a valid buffer that is locked
(`Acquiresleep`) is `Hold`, `LogWrite` is `Update`, `Releasesleep` is `Give`, and recycling a buffer changes nothing
because of `DataInv`; what happens to a bad block is a stutter.

`Locks_proofs` proves `SpinSound` of `Spinlocks` for any number of processors and processes,
from `SpinAssumption`.  Inductive is that the place of a frame in its code determines what it
holds: which locks, how often it has called `pushcli()`, and whether interrupts may be on
(`Threads`), also where `sleep()` lets the outer of two locks go first.  An interrupt puts a handler on a thread only where interrupts are on, and there the frame
below holds nothing (`Rests`): so only the top frame of a thread holds locks, and the `ncli` of a processor is the
depth of the top frame it runs (`Processors`).  A thread that is on no processor stands at `swtch()`, and its `ptable.lock` is
the one that the scheduler which gave it up goes on to release (`Placed`, `SwitchStep`).  `Locks`: a lock is taken exactly while some
frame is between its `acquire` and its `release`.  There are three kinds of step:
`LocalStep` (one frame moves, on one processor), `QuietStep` (nothing of a lock changes) and `SwitchStep`.

`Programs_proofs` proves `PzipSound` and that the queue of `Pzip` implements `BoundedFifo` (`QueueIsFifo`), for
any files, number of consumers, length of the queue and size of a chunk, from `PzipAssumption`.  The inductive
invariant `PzipInv` says how far the producer is (`Progress`: what it has put are the chunks of the
files before `file`, and those of `file` up to `chunk`), that the ring from `useptr` on holds the last `numfull` of them in order
(`QueueInv`, with the lemmas about `%` that a ring needs), that each consumer has at most one chunk, another one than
any other place has (`HandsInv`), that a chunk which was taken has its encoding in its slot of the output, or a consumer at work on it (`OutputInv`), and that consumers
leave only when all chunks are put and taken (`EndInv`).  The number of chunks of the files is
computed by recursion on the number of files.  The induction theorems of the library
cannot be instantiated, but every non-empty set of numbers has a least element
(`Least`, from the theorems on finite sets), which is as good: the least counterexample is not 0 and
its predecessor is none.

`Programs_proofs` proves that `Kv` implements `PersistentMap` (`KvIsMap`) for any keys, buffers, capacity and
commands, from `KvAssumption` (there is a key, and the table has at least one slot).  The map is one of keys;
that a key keeps its value is false (`ValuesLive`), and is not part of it.  `KvInv`: a key is in the array and in the file
once; how the last run ended is known until the next one has read the file (`Began`); and while
the file is read or rewritten, array and file agree up to the line reached (`LoadedSoFar`, `SavedSoFar`).  The mapping takes the
file for the map until it is loaded, and the array afterwards.  Writing past the array (`wild`) happens only when the file has more
keys than `INITIAL_CAPACITY`, after a run that ended or was stopped: there the promise of the map ends.

`Programs_proofs` proves `WishSound` of `Wish` for any scripts and programs.  Inductive is that there is one process
that has the turn: it is neither waiting nor gone, or has gone and its parent has not been told yet (`Turn`).  `fork` and
`wait` hand the turn over, and the shell that a failed `execv` leaves behind has it as the child it
still is.  With it go what a shell has in its buffer and the shared offset, which stay within the input whoever moves
them (`ShellOK`).

`Memory_proofs` proves `MemorySound` of `Memory` for any number of pages and processes, sizes of pages and
tables, width of a `uint`, programs and calls, from `MemoryAssumption` (a table has more than one entry, as `NPTENTRIES` does; the
machine has the pages that `userinit()` needs, or it panics before the first process; `KERNBASE` is so far below
the largest `uint` that `sbrk()` and the stack of `exec()` do not wrap) and `FilesAssumption` (the
check of `memsz` and `filesz` in `exec()`, and segments linked below `KERNBASE`).  `MemorySound` counts pages and looks at processes between
calls; inductive is `MemInv`, which says instead where the pages are at every step of every call:

* `GoodTable`: the directory, the tables and the pages of a page table are all different, and every mapped page has its
  table.  Since a table in the middle of a call may be freed whole (`freevm` after a failure), this holds of
  the table that `exec()` is filling and of that of the child too.
* `Shaped`: which pages are mapped.  Between calls a process is `Tidy`: `initcode` with page 0, the pages 1 up to
  its size, or nothing after an `sbrk` that took all; in a call the page reached is known (`Growing`, `Copying`,
  `Executing`).  That `mappages()` meets no page that is present follows from the page reached.  That `loaduvm()` finds the
  tables (`SegmentTabled`) comes from a quirk of this `exec()`: it adds `ph.vaddr` to a size that starts at `PGSIZE`, so that what
  it allocates reaches beyond the end of the segment, unless the sum wraps: then the size stays, the tables may be missing, and
  `LoadsSound` allows the panic.
* `Embryos`: the child of a `fork` in progress is an embryo of its own, with the pages copied so far and their user
  flags (hence `GuardStays` in children).
* `Divided`: every page is free, or exactly one process has it.

`Conserves` is what the functions of `kalloc.c` and `vm.c` promise: the free pages and those of a page table are together
what they were, and stay apart.  It is proved once for each function (`MapIs`, `AllocIs`, `FreevmIs` and the like), composes, and is
cited for each call; `OneStep` and `TwoStep` carry it to all processes.  `Rounds` and
`PagesBelow` are the arithmetic of `PGROUNDUP`: page i begins below an address exactly if i is below the rounded address.  At
the end `EntriesCounted` turns disjointness into the counts of `FramesAccounted`.  `AcceptedIsMapped` is false (see `mem_null`), and
`MemInv` allows the trap.

`FsDisk_proofs` and `Fs_proofs` prove `RefsSound`, `DiskSound` and `TreeSound` of `Fs` for any numbers of processes, files,
descriptors, inodes and blocks, any disks to start from that are sound (`DisksAssumption`; TLC evaluates it for those
of `Mkfs`) and any calls (`CallsAssumption` says only that paths and data are sequences), from `DiskAssumption` and
`FsAssumption`.  The three are inductive one upon the other.

* `TablesInv`, for `RefsSound`: a file counts its descriptors (`FilesInv`; `FdSet` and `FdCopied` say what one
  assignment and a `fork` do to the set of them), an absent process has none, and the file of a write in several
  transactions is open.
* `Sound(d)`, for `DiskSound`, is `DiskTypes` and `BlocksAccounted`, inode by inode.  It is kept by each function of
  `fs.c`, whatever the arguments: these return a disk that is `Safe`, sound or stopped by a panic that a sound disk may meet.
  That `balloc()`, called n times, takes n different free blocks (`BallocIs`) comes from a least counterexample, as in
  the proofs of pzip.  The other panics cannot be reached because a sound bitmap has the blocks of a
  file, and because of the links that `Tree` counts.
* `Tree(d, L)`, for `TreeSound`, with L what is `lost`: `LinkCounts`, `Directories` and `TreeShape`, and two facts
  without which they are not inductive.  `Orphans`: what is in a directory without links, or in a lost one, is lost
  itself, so that a link count that is off is always one of `lost`.  `Nameless`: a directory
  that no name leads to is empty, so that `rmdir` of a directory takes no subtree with it.  `NewEntry` and
  `EntryRemoved` are the heart of it: an entry comes or goes together with the links it stands for.  Each call
  is then one or two such changes (`NameWritten`, `LinkMade`, `UnlinkIs`) between changes of blocks only, which
  keep the tree (`SameInode`).
* `HeldInv`: what a descriptor or a working directory refers to is allocated, of the kind it was opened as,
  and not shorter than the offset.  `PutKeeps`: an `iput()` keeps the tree and this, whether it frees the inode or
  leaves it to another call whose reference it saw.

The proof changed the model.  `lost` used to hold only what was named in a directory without links.  That is not
enough for `LinkCounts`, which was false beyond the bounds of the run: make a directory s in a removed directory,
a file in s, remove s, and let the process that works in s leave it.  The file keeps its link, and no
directory has its name.  A name made in a lost directory is now lost too (`Removed`), which is what the
code does to such files: they are never freed.  `sys_link()` counts the link before it
looks for the directory of the new name, and so does `SysLink` now.

Model-checked only:

* everything about liveness, which needs fairness and ENABLED: `RunnableRuns`, `OrphanReaped`, `KilledExits`, `CallsEnd`,
  `BlockArrives`, `SleepersWoken`, `ProgramsEnd`;
* what is computed over data by recursive operators, which the provers cannot use: `ShSound`, `LibrarySound`, `HeapSound`,
  and `OutputCorrect`, the bytes that pzip prints;
* `TestsPass`, which is about particular programs;
* `NamesSound` and `FreedAlone` of `InodeLocks`: the calls are lists of steps there, which share an inode cache.  Both are
  stated up to the first path through the `..` of a removed directory (`strayed`), after which they are false; what
  the calls do to the disk as a whole is proved of `Fs`.

## Not modelled

* Registers of devices, the screen and the serial line, interrupt controllers, boot code and
  assembly: they are hardware set-up and pure I/O.  `swtch()` is modelled by what it does.
* Bits of page table entries other than present and user; alignment checks of ELF headers.
* Utilities that are a few calls of the library (`cat`, `echo`, `ln`, `ls`, `mkdir`, `rm`, `kill`, `zombie`):
  the calls are in `Fs`.
* The tests of `usertests.c` on pipes and preemption: `Pipe` and `ProcTable` have every interleaving of
  what they do.
* The bytes of the values of `kv`, lines longer than its buffers (`num[100]`, 255 bytes), and what follows a value in
  memory.  Values are printed and saved with whatever comes up to the next NUL.
* Requests of 2 GB and more to `malloc()`, where `nu * sizeof(Header)` overflows, and its conversion from bytes to
  units: `Umalloc` counts in units.
* Of `strncpy()` and `safestrcpy()` only the length of what they leave is compared.
* Segments of a program at kernel addresses, and the rest of an ELF header.
* In pzip, failures of `mmap()`, `munmap()` and `malloc()`; `pzipnew.c` is a draft with a wrong
  size of the last chunk, and is not delivered.
* Scripts that compare outputs with expected files.
