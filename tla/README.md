# TLA+ models of the operating-systems labs

This directory holds a formal model of the four labs of the repository: a shell
(`src/lab1`), an xv6 kernel with semaphores (`src/lab2`), an xv6 kernel with a
scheduler study (`src/lab3`) and a FAT32 file system on FUSE (`src/lab4`).
`PROJECT.json` is the machine-readable index: components, runs, mutants, the map from
definitions to source lines, findings, hazards and theorems.

How to run: `tlc -config MCFatFs.cfg MCFatFs` (each `.cfg` belongs to the `MC` module
whose name it starts with; `MCProcesses.cfg`, `MCSemOpenRace.cfg` and `MCSemCloseRace.cfg` belong to `MCProc`), and
`tlapm ProcProofs.tla` for the proofs (each module whose name ends in `Proofs`).

## 1. Inventory

The kernels of lab2 and lab3 are the same xv6 but for `proc.c`, `sysproc.c`, `syscall.c`
and their headers, and their user programs are the same but for the labs' own. What they
share is mapped once: the step-by-step models to lab3's copy, the system calls as the
programs see them, and the programs, to lab2's.

| Part | State it keeps | Operations | Interacts with | What is hard | What makes it correct |
|---|---|---|---|---|---|
| Processes and scheduler (`kernel/proc.c`, `trap.c`, `sysproc.c`) | process table, `c->proc`, `p->lock`, `wait_lock`, `tickslock`, `ticks` | scheduler, sched, yield, sleep, wakeup, fork, exit, wait, kill, sys_sleep, clockintr | everything sleeps and wakes through it | CPUs interleave; a lock is taken by one thread and released by another across `swtch()`; sleep/wakeup races; reparenting | one CPU per kernel stack; no panic; no lost wakeup; no lost zombie; no lock cycle; round robin does not starve |
| Semaphores (`lab2/kernel/proc.c`) | `sems[]`: open, value, lock with a name page | sem_open, sem_close, sem_up, sem_down | sleep/wakeup, kalloc | open/close without the lock | value never negative, no lost up, one opener, no page leaked |
| `pingpong` (`lab2/user/pingpong.c`) | two semaphore numbers, counters | the program | semaphores, fork, wait | order of output of two processes | Ping, Pong, Ping, ...; ends; leaves the table as it was |
| Log (`kernel/log.c`) | log header in memory and on disk, outstanding, committing | begin_op, log_write, end_op, commit, recovery | buffer cache, every file system call | crashes between any two disk writes, group commit, space reservation | atomic and durable operations, no panic |
| Buffer cache and sleep locks (`bio.c`, `sleeplock.c`) | LRU list, refcnt, valid, locked | bread, bwrite, brelse, bpin, bunpin, acquiresleep | disk driver, log, inodes | two processes miss on one block; all buffers in use | one buffer per block, one holder |
| Disk driver (`virtio_disk.c`) | descriptor ring, free descriptors | virtio_disk_rw, interrupt | buffer cache | interrupt against submitter, descriptors exhausted | a sleeper is woken by its own completion |
| Inodes, directories (`fs.c`) | inode table, block bitmap, on-disk inodes | iget, iput, ilock, itrunc, bmap, dirlink, namex | log, buffer cache | last iput against a new iget; lock order in path walks | the table agrees with the disk; no inode freed while referenced; exact link and reference counts |
| Files, pipes, file calls (`file.c`, `pipe.c`, `sysfile.c`) | file table, pipe ring, descriptors | open, close, dup, read, write, link, unlink, pipe | inodes, sleep/wakeup | reader/writer and close races; unwinding after a failure | reference counts; bytes in order; end of file |
| Console and UART (`console.c`, `uart.c`) | two rings with free-running indices | consoleread, consoleintr, uartputc, uartstart | interrupts, sleep/wakeup | ring full and empty, wrap-around | no byte lost or duplicated once accepted |
| User programs (`user/usertests.c`, `sh.c`, `init.c`, `grind.c`, ...) | descriptors, buffers, children | sequences of system calls, and what they demand of each | every system call | several processes; every table, the disk and the memory at their limits | no program sees a result it does not accept; nothing leaks |
| Memory (`kalloc.c`, `vm.c`, `exec.c`) | free list, page tables | kalloc, kfree, uvmcopy, uvmdealloc, exec | fork, exit, sbrk | a failure half way | no page leaked, none freed twice |
| FAT file system (`lab4/esqueleto`) | FAT, directory clusters and data on the image; tree, file records, `nentries`, errno in memory | mknod, open, release, read, write, truncate, unlink, utime, readdir, getattr, mkdir, rmdir; `fs.log` | FUSE, the image | long sequences of calls, memory against image, full disk, stale errno | data where reads look for it, chains disjoint and complete |
| Directory tree (`hierarchy_tree.c`, `fat_fs_tree.c`) | a search tree whose nodes are also linked as a hierarchy | insert, search, delete, list | FAT operations | the shape of the tree depends on the order of calls; two structures share the nodes | a path names one file; children lists and sizes are exact |
| Shell: parsing, commands (`lab1/parsing.c`, `command.c`) | queues of arguments and commands | parse_pipeline, to_string | the supplied `parser.o` | error recovery in mid-line | printing is the inverse of parsing |
| Shell: execution (`mybash.c`, `builtin.c`, `execute.c`) | descriptors, children, wait counter | main loop, builtins, execute_pipeline | fork, exec, pipe, wait | children run concurrently; a descriptor left open keeps a pipe alive; fork or pipe fails half way | no leaked descriptor, as many waits as children, the prompt returns |

Not core: boot code, system call dispatch, `printf`, `string.c`, the benchmarks of lab3,
`mkfs`, and the formatting helpers of lab4 and lab1.

## 2. Plan

The order is by importance. Done so far: 1 to 13.

1. `Proc`, `ProcProofs` - process table, scheduler, locks; the proofs.
2. `Semaphore`; `PingPong` composes `Semaphore` with the user program and refines
   `Alternate`.
3. `Log` refines `AtomicDisk`.
4. `FatFs` - the root directory's files.
5. `Parsing`; `Shell` composes it with the execution of pipelines.
6. First theorems: type correctness, one CPU per process, sched() never panics, no lock
   cycle.
7. `Bcache` refines `BlockStore`, the buffer map that `Log` assumes; `Virtio` shows what
   `Bcache` assumes of the disk driver; `Console` refines `LineQueue`.
8. `Itable` and `Pipe`: the inode table and a pipe, step by step, with concurrent calls.
9. `FileSys` and `UserMem`, composed in `Kernel`: all system calls on files, pipes,
   processes and memory, with failures at every limit.
10. `Usertests`, `UsertestsProc` and `UserProgs`: the tests, the shell and the other programs, run
    on `Kernel`.
11. `HTree`: the tree of the FAT daemon. `TextTools` and `Umalloc`: `grep`, `wc` and `malloc()` of the
    user programs.
12. Proofs: `StorageProofs` (`Log`, `Bcache` and `Virtio`) and `SemaphoreProofs` (with `PingPong`), with the refinements of
    `AtomicDisk`, `BlockStore` and `Alternate`; `StreamProofs` (`Pipe`, and `Console` with the refinement of
    `LineQueue`), `ShellProofs`, `ItableProofs`; parents and zombies in `ProcProofs`.
13. `FatFsProofs`: chains, data, memory and entries of the FAT; `KernelProofs`: the reference counts, the pages, the pipes and the disk blocks of
    `Kernel`.
14. mkdir and rmdir for `FatFs`; `SchedStats`: the counters of lab3.

## 3. Modules

### Proc (lab2 and lab3 `kernel/proc.c`, `trap.c`, `sysproc.c`)

A slot of the table is a number; its fields are the variables `state`, `chan`, `killed`,
`parent`, `pid`. `pc[p]` is where the kernel thread of `p` is, `ret[p]` where it goes on
when `sched()` returns to it, `idx[p]` its loop variable. For each CPU: `cproc` (`c->proc`),
`sidx` (the scan of `scheduler()`), `intr` (a handler on top of the thread), `widx` (its
`wakeup()`). A lock's variable holds the CPU that owns it, as in `holding()`.

*Grain.* A section between `acquire(x)` and `release(x)` that touches only what `x` protects
and acquires nothing else is one step, enabled while `x` is free. Where a lock is held while
another is acquired, or across `swtch()`, it is held over several steps and every acquisition
is a step: those are the interleavings that matter. A loop over the table takes one step per
slot. `Trap` is the entry of a system call or a fault; `Sysret` the way back through
`usertrap()` with its test of `killed()`. Names, files, memory and exit status are data that no guard reads.
`SchedStampsTicks` selects lab3's `sched()`, which stamps the process with `ticks` under
`tickslock`.

### Semaphore, PingPong, Alternate (lab2)

`Semaphore` is `sem_open`, `sem_close`, `sem_up`, `sem_down` called by any number of
processes. The reads of `s->open` and the writes of `sem_open()` happen without a lock, so
each is a step. `initlock()` frees the lock whoever holds it and `release()` panics when the
caller is not the owner (`panicked`). The name of the lock is a page from `kalloc()`.
`sem_close()` sets `s->open`, frees the name and releases the lock in steps of their own, because the others read `s->open` without the
lock. `granted` is a history variable.

The table is global and nothing in the code keeps two calls apart: programs that know nothing of each other may
use one number, and with `Excluded = {}` all calls overlap in the model. Three overlaps break the code, and each can be left out
by name:

| In `Excluded` | What then does not happen | What it does when it happens |
|---|---|---|
| `"open"` | a `sem_open()` that finds the semaphore closed while another call on it is in progress; a bad number | both callers get 1 (run `sem_open_race`); the page of a refused number is lost |
| `"use"` | a call that begins while a `sem_open()` is initializing | `initlock()` frees a lock that is held, and `release()` panics: TLC finds it in 8 states when only the other two are excluded |
| `"close"` | two `sem_close()` of one semaphore at once | the name is freed twice (run `sem_close_race`) |

Everything else overlaps in the passing run and in the theorems: attempts to open what is open, as `pingpong.c:20-23` makes them, and
`sem_up()` and `sem_down()` before, during and after a `sem_close()`, with sleepers that the close leaves behind.

`PingPong` extends it with the program: `at[p]` is the statement the process is at. It
refines `Alternate`, in which Ping and Pong take turns.

### Log, AtomicDisk (lab3 `kernel/log.c`)

The disk is `disk` (home blocks), `dhead` (header block) and `dlog` (log blocks); a crash
keeps only these. `cache`, `pins`, `holder` are the buffer cache as the log sees it:
`Recycle` drops a buffer that is neither locked nor pinned, at any time. Every `bwrite()` is
a step; `ReadHead`, `RecoverInstall`, `RecoverErase` are recovery, and `Crash` is possible
in every state, recovery included. An operation is `BeginOp`, then any number of `Modify` and
`LogWrite` up to `OpBlocks` blocks, then `EndOp`; the last one commits.

The refinement maps `mem` to what operations read, `stable` to what recovery would produce
from the disk as it is now, and `active` to the operations in progress. The step that writes
the header is the step that changes `stable`.

### Bcache, BlockStore (lab3 `kernel/bio.c`, `sleeplock.c`)

Buffers are numbers; `lru` is the list from its head. `bget()` is one step up to
`acquiresleep()`, which is a step of its own, so another process may come in between;
`brelse()` releases the sleep lock in one step and the reference in another. A woken process
tests again, and `KillWake` wakes it without reason. `Rw` is `virtio_disk_rw()` as `Virtio`
justifies it: the transfer happens once, between the call and the return, and the buffer is
locked all the while. The callers follow the kernel's convention: data are changed under the sleep
lock and then written or pinned; `Bunpin` comes after the write, as in `install_trans()`.
`BlockStore` gives each block one content and one holder. A block's content is that of its
valid buffer, or else what is on the disk. `bget()` panics when it needs a buffer and finds none; `CacheIsStore` says that it does so only
when every buffer is pinned or in the hands of a process, whatever the number of buffers.

### Virtio (lab3 `kernel/virtio_disk.c`)

`avail` and `used` are the rings, `info[d]` the request whose chain starts at `d`, `pending`
the device's interrupt line. The device (`Complete`, external) serves requests in any order and also
while the handler runs, which is why the handler is three steps: the acknowledgement, a turn of its
loop, and the release of the lock. `moved` is a history variable.

### Console, LineQueue (lab3 `kernel/console.c`, `uart.c`)

`r`, `w`, `e` are the indices of `cons` modulo `IdxMod`, a multiple of the size of the buffer as
2^32 is. A read holds `cons.lock` over its loop; the handler takes it for each character, and its
echo takes the transmit register. `tx` counts the characters in the output ring. The user
(`Type`) and the UART (`Sent`) are external. In `LineQueue` there is a line being edited and a
queue that read() takes from; a full buffer completes the line.

### Itable (lab3 `kernel/fs.c`, `sysfile.c`)

Open, create, link, unlink, read and close of the files in one directory, by any number of processes.
`itab` is the inode table, `dino` the inodes on the disk, `dent` the directory and `dhold` the sleep lock
of its inode. A step ends where a lock or a buffer is let go: `iput()` is four steps (the test under
`itable.lock`, the inode freed on the disk, the copy invalidated and the sleep lock released, the reference dropped)
and `ialloc()` looks at one disk inode per step and calls `iget()` in another. `ilock` and `iput` return to the
point in `then`, as their callers do. The contents of a file are the number of its allocation (`gen`), and a
process remembers the one it opened (`want`). Failures of `filealloc()` and `dirlink()` are choices. The history
variable `lost` names the inodes that the last step of `iput()` leaves allocated without a name or a reference.

### Pipe (lab3 `kernel/pipe.c`, `file.c`)

A pipe, the reference counts of its two files, and processes that read, write, close and kill. Taking the lock, a
round of a loop and the call of `sleep()` are steps. The bytes are numbered as they are accepted; the counters wrap at
`WRAP`. A copy from or to user memory may fail at any byte. The history variable `cut` is set when a killed writer returns
with bytes in the pipe, and reset by the next wakeup of the readers.

There is no liveness property: `acquire()` is a spin lock without order, so the code does not promise that a
process ever gets `pi->lock`.

### Kernel = FileSys + UserMem (lab2 kernel)

`FileSys` gives each call on paths, directories and inodes as an operator from the file system it finds to the one it
leaves, whatever happens on the way: `create()`, `sys_link()` and `sys_unlink()` with every `goto bad` and `fail`, `writei()`
that stops when the disk is full, `bmap()` with the indirect block, `namex()` with `.` and `..`. Reference counts in memory
and link counts on the disk are both kept. `UserMem` has the size of an address space, the page-table pages below it and
the number of free pages: `uvmalloc()` and `uvmcopy()` fail in the middle, `exec()` fails after it has built half an image.
`Kernel` adds processes, descriptors, the file table and pipes. A system call is one step (the modules above show the steps
inside); a write takes one per transaction, and a call that sleeps waits for its condition. A killed process may still
complete the call it is in, as when the kill comes late. Loops (`writei()`, the walk of a path, `mappages()`, the descriptors
of `exit()`) are recursive functions of the number of turns. What a program does between two calls is the constant operator
`Settle`; the runs give it `RunControl` of `Usertests`, and the proofs nothing: they hold whatever it does.

### Usertests, UsertestsProc, UserProgs (lab2 `user/`)

A program is a script: system calls with the results that the program accepts, branches on a result, and the scripts of its
children. A result outside the accepted set, where the program prints an error and exits, sets `failed`. Each test of
`usertests.c` is a script of its own, named as the function. `UserProgs` has the small commands, `init`, `stressfs`, `forktest`,
the calls of `grind`, and the shell: its parser (`parsecmd()` and below) works on lines of tokens and gives the
script of `runcmd()`. What tests write is what they read back; the rest of the memory's contents is left out.
`LOOP` stands for the long repetitions.

### TextTools (lab2 `user/grep.c`, `wc.c`)

A text is read in pieces, any number of characters that fit in the buffer: a step is one `read()` and what the
program does with it. `match()`, `matchhere()` and `matchstar()` are the recursive matcher of `grep.c`. The
reference, `Means`, says the same without recursion: there are places that cut the line into the items of the pattern.

### Umalloc (lab2 `user/umalloc.c`)

The heap counts in units of a `Header`. `heap` has the `ptr` and `size` fields of the headers, `freep` and the break.
`malloc()` and `free()` are one step each, with their loops round the ring as recursive operators. The program may call
`sbrk()` too, so what `morecore()` gets need not touch the heap it had.

### MCProc, MCStorage, MCFiles, MCUserPrograms, MCFatFs

Each explores several modules that share no variable, one at a time: `MCProc` `Proc`, `Semaphore` and `PingPong`, `MCStorage` the layers below the file system (`Log`,
`Bcache`, `Virtio`), `MCFiles` what a descriptor stands for (`Itable`, `Pipe`, `Console`), `MCUserPrograms` the
machines, `TextTools` and `Umalloc`, and with `MCProgress` what `Proc` and `PingPong` do in the end, `MCFatFs` `FatFs` and `HTree`. A variable chosen in the initial state says which.

### FatFs (lab4)

FUSE runs single-threaded, so an operation is one step; the interest is in sequences of
calls. The image is `fat`, `data`, `dir`; the daemon's memory is `tree`, `file`, `nentries`,
`children_read`, `errno`. A cluster has `CS` units, and a unit holds the file and the position
for which it was written, so `DataInPlace` needs no separate account of the contents.
Operations call one another as in the code: a write is the cluster walk of `fat_file_pwrite`,
the directory entry, and the line in `fs.log`, which is itself a write (and may create the file).
A write to the table outside the mapped volume kills the daemon (`up = FALSE`).

`WriteCluster` is one turn of the loop of `fat_file_pwrite`. Before the loop a cluster is linked behind the first one it writes to, so a
write meets the end of the chain inside the loop (`fat_file.c:577-580`) when it goes on past that cluster. It then links another one,
stays where it is and overwrites what it has just written, and the new cluster is not marked as used. The history variable
`fs.spilled` says that a write has taken this branch. What the image promises of data and chains is stated up to there
(`DataKept`, `ChainsKept`), because it is false afterwards, which is what the run `fat_long_write` shows; that memory and image
agree and that entries are not overwritten is stated, checked and proved whatever the lengths.

### HTree (lab4 `hierarchy_tree.c`, `fat_fs_tree.c`)

A node is its path, and paths are numbers in the order of `strcmp()`. `t` has the fields of the nodes; the recursive
functions of the code are operators that return the tree and the root of the subtree. `delete_root()` moves nodes and
never data, so a node keeps its path. Callers insert below a directory that is there (also a file that is there, when a
directory is listed again) and delete what has no children. The history variable `files` is what the tree should
hold; `broken` is set when `data_destroy()` has freed a file twice, and nothing is modelled after that.

### Parsing, Shell (lab1)

`Parsing` has the loops of `parse_scommand` and `parse_pipeline` over lines of tokens, as
recursive functions; `parser.o` comes without source and is taken from `parser.h`. `Shell` is
the main loop and `execute_pipeline`, with one step per `pipe()`, `fork()` and wait, and each
child a process that sets up its descriptors, `exec`s and then reads and writes as its program
does. `yes`, `echo`, `cat` and `head` stand for the four ways a program may treat its input
and output.

## 4. Runs

| Run | Instance | Shows |
|---|---|---|
| `processes` | 4 slots, 2 CPUs, fork/exit/wait/kill/fault; calls on semaphores: 3 processes, 2 semaphores, 3 pages, kills, every overlap but the three; `pingpong 3` with semaphore 1 taken | `OneCpuPerProc`; `SchedPrecondition`; `ZombieHasParent`; `NoLostExit`; `NoLockCycle` with lab2's `sched()`; `NoLostUp`, `PagesAccounted`; `PingThenPong` |
| `locks_lab3` | 2 slots, 2 CPUs, lab3's `sched()` | `NoLockCycle` is violated |
| `sem_open_race` | 2 processes, 1 semaphore, two `sem_open()` at once | `OpenExclusive` is violated |
| `sem_close_race` | 2 processes, 1 semaphore, two `sem_close()` at once | `NameInUse` is violated |
| `storage` | log: 3 processes, 3 blocks, 2 values, log of 4; cache: 3 processes, 2 buffers, 3 blocks, 2 values, 2 pins; disk: 3 processes, 8 descriptors | `CrashAtomic`, `NoPanic`, `SleeperHasReason`, `QuietIsDurable`; `CacheIsStore`; `TransferDone`, `NoLostCompletion` |
| `files` | inodes: 2 processes, 2 names, 3 disk inodes, 2 entries in the table, 4 calls; pipe: a writer, a reader and one with both ends, 2 bytes, 5 written, counters modulo 4; console: 2 readers, 1 writer, rings of 2 and 1 | `ItableCoherent`, `OpenFileStays`, `ItableExact`; `PipeFifo`, `PipeSleepers`; `InputIsQueue`, `ConsoleSleepers` |
| `user_programs` | 87 machines, 9 processes, 13 inodes, blocks of 4, 2 direct and 2 indirect blocks; texts of up to 4 characters in a buffer of 4; a heap of 13 units; 2 slots, 1 CPU, timer, all calls; `pingpong 3` with semaphore 1 taken | `ProgramsPass`, `RefsExact`, `LinksExact`, `NothingLeaks`; `PiecesDontMatter`; `HeapPartition`; `SchedulerIsFair`, `WaiterReturns`; `GameFinishes` |
| `fat` | 2 files, 7 clusters of 2 units, 4 entries, writes of 1 and 5 units; a tree of up to 7 paths | `DataKept`, `ChainsKept`, `MemoryMatchesImage`, `OthersKept`; `TreeExact` |
| `fat_long_write` | the same volume | `DataInPlace` is violated by one write of 5 units |
| `fat_create` | the same, root not listed first | `OthersKept` is violated |
| `shell` | 14 lines, 3 children, 2 pipes of capacity 1 | `ParsedAsTyped`, `FdsRestored`, `ChildrenCounted`, `PromptReturns` |
| `shell_three` | one line of three commands | `FdsRestored` is violated |

**Bounds.**

- `processes`: four slots are init and three generations. With fewer, the parent of an exiting
  process is init itself, which its exit wakes, and a missing wakeup in `reparent()` goes unseen. Two CPUs
  give every pair of concurrent sections. Timers and `sleep(n)` are left to `user_programs` and
  `locks_lab3`: with them the state space passes what TLC does in minutes. The invariants and the
  absence of lock cycles, those through `tickslock` included, are proved with all of them and without these
  bounds. `MaxPid` bounds the number of forks, `TickMod` the ticks. For the semaphores, three processes are an opener and two users, two
  sleepers and an upper, or a closer and two that go on; `MaxValue` bounds the ups.
- `user_programs`, progress: one CPU is the hard case for starvation, since with two the other CPU helps;
  `sleep(n)` waits for the clock, whose ticks wrap.
- `storage`: in the cache, one block more than buffers, so that every buffer is recycled, and more callers and pins than buffers, so
  that `bget()` finds none and panics, as the kernel may with 30 buffers for up to 64 processes. 8 descriptors are the
  code's `NUM`, enough for two of three processes. In the log, three processes are one committing, one asleep in
  `begin_op()` and one active; a log of 4 with 2 blocks reserved per operation reaches the limit. Larger instances (two
  blocks per operation, four blocks) were checked as well, with the same result.
- `files`: three disk inodes, the directory's included, are few enough that `ialloc()` takes the one just freed, and that it fails; two entries
  for three inodes fill the table and `iget()` panics; four calls are a create, an unlink, a create that takes the inode and one more. Three processes with four calls, and two with
  five, were checked as well, with the same result. In the pipe, writes and reads of 3 bytes are longer than the
  pipe, and 5 bytes take the counters past their end. A console buffer of 2 is full with one unfinished line, and the
  indices wrap after two buffers.
- `user_programs`: each machine is one initial state, with the memory, the disk and the files that its
  program is about: all tests of files and of processes with room for five processes; the tests of limits with 3 to 9 free blocks, 20 or 30 free pages, or more
  processes than the table holds; eleven shells with lines whose result is checked; a fresh boot of `init`; `stressfs`,
  `forktest` and pairs of `grind`. Files grow through the direct into the indirect block. Symbolic sizes keep the
  proportions of the tests (longer than a page, longer than a pipe, longer than a file can be). `MAXARGS` of the
  shell is 4 instead of 10. The run takes the programs as they are in lab2.
  The texts of `grep` and `wc` are all those of up to four characters, with and without a last newline, and a line of three
  fills the buffer; the patterns have every operator, alone and combined. The heap holds three to four blocks, so that a
  freed block has neighbours on both sides, and is exhausted.
- `fat`: 7 clusters for three files with up to 3 clusters each: the disk fills up. A write of 5 units into clusters of 2 crosses one
  boundary in a file that has its clusters, and two at the end of a chain, where it spills. On an image with clusters of 512 bytes the 4096 bytes of a FUSE
  write cross seven. Seven paths make every shape of the search tree up to the depth at which
  `delete_root()` walks down more than one node.
- `shell`: `Lines` has each shape the parser and the executor distinguish; three children are
  a background one and a pipeline; `fork()` and `pipe()` fail at the limits.

Deadlock is checked except where the system may stop: the shell after `exit`. The end of `pingpong` (`Over`) and a panicked kernel (`Halted`) are
steps of their own.

**Fairness.** `Proc`: every CPU keeps executing: it scans, finishes handlers and switches, and a
spinning `acquire()` eventually succeeds (strong fairness, since others take the lock in between);
timers keep firing; a system call makes progress although it may be preempted. User programs
are not made to call anything, so `SchedulerIsFair` holds although other processes compute for ever.
`PingPong`: strong fairness of each process, which is what `SchedulerIsFair` shows of the scheduler,
plus acquisition of the semaphore's lock. `Shell`: weak fairness of the shell and of each child; the
host's scheduler gives no less. The user is not made to type.

**Mutants.** Every property of a passing run has a mutant of a mapped definition (`mutants` in
`PROJECT.json`): a plausible slip in the code, such as a dropped wakeup or a loop that stops one
short, that makes TLC report that property.

## 5. Findings

Six runs exhibit behaviour that contradicts what the repository says of itself; the quotations
are in `PROJECT.json`.

- `locks_lab3`: lab3's `sched()` acquires `tickslock` under `p->lock`, the reverse of
  `clockintr()` and `sys_sleep()`; two CPUs spin on each other for ever. lab2's does not.
- `sem_open_race`: two concurrent `sem_open(s, v)` both return 1.
- `sem_close_race`: two concurrent `sem_close(s)` both find it open, and the second frees the page of the name again.
- `fat_long_write`: a write that goes on past the second cluster at the end of a chain overwrites its own data, and leaves the
  cluster it links marked as free, so that another file may get it too.
- `fat_create`: a file created before the first listing overwrites the first directory entry.
- `shell_three`: each middle command of a pipeline leaves a read end open in the shell. As a
  consequence `yes | head | cat` never brings back the prompt: `PromptReturns` fails as well.

Met while modelling, represented in the modules where the control is there, and not the subject
of a run of their own:

- `iput()` drops its reference without a second look after it has freed the inode. A process that takes the
  freed inode in the meantime, and whose `create()` then fails or whose file is unlinked at once, sees two references and leaves the inode to
  the first process: it stays allocated, without name or reference, although the comment of `iput()` (`fs.c:332`) says the last reference
  frees it. `ItableExact` is exact up to this (`lost`).
- `pipewrite()` of a process killed after it stored some bytes returns without waking the readers; they sleep
  on with bytes in the pipe (`cut` in `PipeSleepers`). `kill()` between the test of `killed()` and `sleep()` leaves a killed process asleep.
- A byte that `piperead()` cannot copy out is lost.
- `..` of a working directory that has been removed names its former parent, which may have been freed: `ilock()` panics. A file created in
  a removed working directory is never freed. Neither is in `usertests`; `LinksExact` is checked without them.
- The shell's `>>` does not append: the file is not truncated, and writing starts at its beginning. In `echo a > x > y` the first
  redirection is applied last and wins. Both are expected results of machines in `user_programs`.
- The comment of `fsfull` (`usertests.c:2333`) says that `balloc()` panics without blocks; `balloc()` (`fs.c:86`) returns 0, and no table of
  tests holds `fsfull`. A machine of `user_programs` runs it: the write comes back short and every block is freed.
- `kill(0)` finds an UNUSED slot, whose pid is 0, and marks it killed; `allocproc()` does not
  reset the mark, so the next process in that slot is born killed. `KillPids` has no 0.
- `sem_open()` accepts `sem == NSEM` and negative values, and leaks the page on a bad number;
  `sem_close()` wakes `&s->locked` while `sem_down()` sleeps on `s`.
- `begin_op()` hands out reservations for `LOGSIZE` blocks, but `log_write()` panics at
  `log.size - 1`, before it looks for an entry to absorb into: an operation that used its whole
  reservation would panic. The operations of `fs.c` and `sysfile.c` stay below it (`OpBlocks`).
  `NBUF` equals `LOGSIZE`.
- FAT: a truncation that
  frees no cluster leaves the size as it was (against `fat_file.h:178-180`); a stale `errno` makes a write do
  nothing; a write before the first listing finds no `fs.log` and crashes, as does a full disk;
  a full directory gives position 0; truncate counts as an open; a new directory's cluster is not cleared.
- `delete_root()` of the FAT's tree, for a node with two subtrees of which the right one has a left one, calls itself on the
  node it has destroyed: `data_destroy()` frees the file a second time. When it walks down more than one node, `minimum_parent` is
  `minimum` itself, and the subtree of the deleted node is lost. `TreeExact` holds up to there (`broken`).
- `grep` drops a last line without a newline, and stops at a line that fills its buffer.
- Shell: after a syntax error the commands before it are executed, although `parsing.h` says NULL;
  `wait(NULL)` may reap a background child and leave a foreground one running; a pipe wins over `<`, and
  `>` wins over a pipe.

## 6. Proofs

Every theorem holds for all values of the constants that the `ASSUME` of the component's module allows; a theorem
with a further hypothesis names it. The hypotheses:

| Hypothesis | Says | Justified by |
|---|---|---|
| `ProcAssumption` | at least one slot and one CPU; calls and timers are those of the model | `param.h` |
| `InitSpared` | nobody calls `kill(1)` | no program of the repository does; a killed init panics in `exit()` |
| `Discipline` | the three overlaps of `Excluded` do not happen; values not negative; no number `NSEM` | each of the three breaks the code (runs `sem_open_race`, `sem_close_race`, and section 3); all other overlaps are in. `PingPongAlternates` does not need it |
| `PingPongAssumption` | two processes, at least one round, some semaphores already open | `pingpong.c` |
| `LogAssumption` | `MAXOPBLOCKS <= LOGSIZE <= NLOG` (the blocks `mkfs` makes), and an operation writes fewer than `MAXOPBLOCKS` blocks | `param.h`, `mkfs.c`; the operations of `fs.c` and `sysfile.c` |
| `PipeAssumption` | the modulus of the counters is a multiple of `PIPESIZE` and greater; each end is open in some process | 2^32 and 512 |
| `ConsoleAssumption` | the modulus of the indices is a multiple of `INPUT_BUF_SIZE` and greater | 2^32 and 128 |
| `BcacheAssumption` | at least one buffer | `param.h`; the panic of `bget()` is part of what is proved |
| `ItableAssumption` | numbers and finite sets | fewer entries than inodes are allowed, as in the kernel (50 for 200): the panic of `iget()` is part of what is proved |
| `FatAssumption` | numbers; the files on the image fit in it and in the root directory; no program uses the name of the log or of an entry's marks | readdir does not show `fs.log` (`fat_fuse_ops.c:197`) |
| `ListFirst` | the root is listed before a file is created | without it the run `fat_create` is a counterexample |
| `ShellAssumption`, `ShortPipelines` | at least one process and one pipe; at most two commands in a line, only for `FdsRestored` | for three commands the run `shell_three` is a counterexample |
| `KernelAssumption` | at least init and one more process, three descriptors, one file; one pipe fewer than files at the least; numbers | `param.h`; pipes are pages of their own (`pipe.c:28`), limited by memory only, and each open one has an entry in the file table |
| `ArgumentsTyped` | the paths of calls are sequences, the bytes of a write are a sequence, sizes are numbers | the scripts are written so: checked as an invariant on the 87 machines of `user_programs`; it says nothing about what the paths name or whether calls succeed |
| `IsMachine`, for `NothingLeaks` | numbers of pages and of blocks; an inode for the console and each file on the disk; files with a length | what `mkfs` makes; `MachinesAreMachines` lets TLC check it of the 87 machines |

### ProcProofs

- `IndInvHolds`: `Spec => []IndInv`, and `TypeCorrect` from it;
- `OneCpu`: `Spec => []OneCpuPerProc`;
- `SchedSafe`: `Spec => []SchedPrecondition`;
- `NoDeadlock`: `Spec => []NoLockCycle`, when `SchedStampsTicks` is FALSE;
- `FamilyInvHolds`, and from it `ZombiesAreReapable` (`ZombieHasParent`) and `NoExitIsLost` (`NoLostExit`), given
  `InitSpared`.

*Argument.* None of the properties is inductive: that two CPUs do not run one process depends on
`p->lock` being held across `swtch()`, and on who holds it at every point of the kernel.
`IndInv` says that the point a thread is at determines the locks its CPU holds (`PLockInv`,
`WaitLockInv`, `TicksLockInv`, `IntrInv`), that the state of a thread on no CPU determines its
point (`OffCpuInv`, `OnCpuInv`, `RetInv`), that no process is on two CPUs (`OneCpuInv`) and that
the slots being filled by forks are distinct and USED (`ForkInv`). There is one lemma per action,
and in it one step per conjunct of `IndInv`. The locks are held in one order - `tickslock` and
`wait_lock` before any `p->lock`, never both of the former - so a CPU that spins on a `p->lock`
waits for one that holds nothing else and acquires nothing; `NoDeadlock` turns a supposed cycle
into two such CPUs. With lab3's `sched()` that last step fails, and `locks_lab3` is the counterexample.

`FamilyInv` is about the scans of the table. A process that exits holds `wait_lock` from `reparent()` on, and
below its loop variable it has no children any more (`KidsInv`); a process in `wait()` has met no zombie below its own
(`WaitInv`); a parent asleep with a zombie child will be woken by the holder of `wait_lock`, whose
`wakeup()` has not passed the parent's slot (`ExitInv`, `SleeperInv`). Init is the end of every chain of parents, so it must
not exit (`InitLives`).

### SemaphoreProofs

- `SemInvariant`, `SemNoLostUp` (`NoLostUp`), `SemPagesAccounted` (`PagesAccounted`), given `Discipline`;
- `PingPongAlternates`: `PPSpec => PingThenPong`, the refinement of `Alternate`.

*Argument.* `SemInv`: whoever opens a semaphore is alone with it and one process at a time closes it (`AloneInv`), so the unlocked
accesses that remain, the tests of `s->open` against `sem_close()`, do no harm; the point of a process then determines the lock it holds (`LockInv`) and the page it has (`PageInv`), and a sleeper
has seen 0 under the lock (`ValueInv`). `PPInv` has the turn: of the two values and the two processes between
`sem_down()` and `sem_up()`, exactly one has the token (`TurnInv`), and it says which word is next.

### StorageProofs: the log

- `LogInvariant`, `LogNeverPanics` (`NoPanic`), `LogSleepers` (`SleeperHasReason`), `LogQuietIsDurable` (`QuietIsDurable`);
- `LogIsCrashAtomic`: `Spec => CrashAtomic`, the refinement of `AtomicDisk`.

*Argument.* `LogInv` says what each point of `commit()` and of recovery has written (`HeaderInv`, `CommitInv`, `CopyInv`),
that a buffer that is neither pinned nor locked agrees with the disk (`LogCacheInv`, `LogPinInv`), and that the log has room
for what the operations in progress may still log (`RoomInv`). The last is the difficult one: `begin_op()` counts
`outstanding * MAXOPBLOCKS`, `log_write()` needs one block more than it adds, and what keeps them apart is that operations
write fewer blocks than they reserve. In the refinement every step but the writing of the header leaves `stable`, what
recovery would make of the disk, as it is; the header changes it to `mem`, and a crash takes `mem` back to it.

### StorageProofs: the cache and the disk

- `CacheInvariant`; `CacheRefinesStore`: `CacheSpec => BStore!Spec`;
- `CacheImplementsStore`: `CacheSpec => CacheIsStore`, which adds that `bget()` panics only when every buffer is pinned or in use; neither has a
  hypothesis on the number of buffers;
- `VirtioInvariant`, `DiskLosesNothing` (`NoLostCompletion`), `DiskTransferDone` (`TransferDone`); the only assumption is that
  `NUM` is a number.

*Argument for `Bcache`.* `CacheInv`: the list is a permutation of the buffers (`LruInv`), no block has two (`OneBuffer`), the reference
count is the number of users and the pin (`RefInv`), so that what `bget()` recycles is nobody's; the sleep lock belongs to one
user past `acquiresleep()` (`LockInv`); a valid buffer that nobody is going to write is equal to its block
(`CleanInv`), so that recycling loses nothing.

*Argument for `Virtio`.* `VirtioInv` follows the chain of a request from `avail` to `used` and out of it: it is in one ring at most, once
(`RingInv`), it starts at the lowest descriptor of the process (`InfoInv`), and `b->disk` is set as long as it is in a ring. What is
not in `avail` has been moved (`MovedInv`). What the device adds after the last turn of the handler's loop has an interrupt of its
own (`LeaveInv`), without which `NoLostCompletion` is not inductive.

### StreamProofs

- `PipeInvariant`, `PipeIsFifo` (`PipeFifo`), `PipeSleepersHaveReason` (`PipeSleepers`);
- `ConsoleInvariant`, `ConsoleNeverForgets` (`ConsoleSleepers`);
- `ConsoleIsQueue`: `ConsoleSpec => InputIsQueue`, the refinement of `LineQueue`.

*Argument.* The counters are the numbers of bytes taken and sent, modulo `WRAP`, at most `PIPESIZE` apart (`CountInv`); byte
`i` is at `(i - 1) % PIPESIZE` (`BytesInv`). That the two moduli fit together is a handful of lemmas on remainders. The reference
counts are the descriptors and the closes under way (`DescInv`).

For the console it is enough that the complete lines and the line being typed together fit the buffer (`RoomInv`): then
`(w - r) % IdxMod` and `(e - w) % IdxMod` are their lengths, and a slice of the buffer is a function of an unwrapped index and a length
(`Part`), about which the lemmas say what storing, taking and erasing do. `ConsoleSleepers` holds with `cons.lock` taken
too, because `consoleread()` takes characters only when there are some, so that nobody sleeps, and that is what
makes it inductive (`WakeInv`).

### ItableProofs

- `ItInvariant`, `OpenFileAlways` (`OpenFileStays`), `ExactAlways` (`ItableExact`) and `CoherentAlways` (`ItableCoherent`, which says that the one panic
  on these paths is that of a full table), for a table of any size.

*Argument.* `iput()` frees an inode after a test that it made four steps ago, and what it relies on is spread over all
processes. `ItInv` is an account of it: a reference is an open file, or a process has it through `ip` or `src` at a known point of its
call (`RefInv`); a link is a name or the debt of a process that has counted and not yet entered, or cleared and not yet
discounted (`LinkInv`); so an inode with one reference and no link has no name and no other user (`FreeInv`,
`DoneInv`), and one that `ialloc()` has taken is nobody else's (`FreshInv`). While `iput()` has its copy invalid, the only other process
at the entry is one that creates a file with the inode and waits for the lock: that is the race of `iputDrop`,
and `LostInv` says exactly which inodes it loses. The directory's lock keeps what a process has looked up
(`NameInv`). The invariant is by steps of one process: the lemmas before the actions say what a step that changes one entry, one
process and one inode must show for each conjunct.

### ShellProofs

- `ShellInvariant`, `ShellCountsChildren` (`ChildrenCounted`);
- `ShellRestoresFds` (`FdsRestored`), given `ShortPipelines`.

*Argument.* `CountInv` says for each point of `execute_pipeline()` how many children are still to be waited for (`ToWait`); the
rest are those of background pipelines. `FdsInv` has the ends that are open at each point. The parser is opaque: it gives a
list of commands and a Boolean.

### FatFsProofs

- `FatInvariant`, and from it `FilesReadBack` (`DataKept`), `ClustersOwnedOnce` (`ChainsKept`), `EntriesMatch`
  (`MemoryMatchesImage`) and `EntriesOfOthersKept` (`OthersKept`), given `ListFirst`, for writes of any length.

*Argument.* The properties speak of chains, which are iterations of `NextCluster`; what a change of one table entry does to an iteration
is hard to say. `FatInv` says instead that the clusters have labels: each one in use has an owner (an entry of the directory) and a
place in its chain, the next cluster has the same owner and the next place, no two have the same label, and the first
one of an entry has place 0 (`Links`); unit `k` of a file is in the cluster with place `k \div CS` (`Placed`). A write that has
taken the branch of `fat_file.c:577` ends this description, and `FatInv` says that `fs.spilled` holds or the labels exist (`Stored`). The lemmas about
calls change labels: `LinkAfter` (preallocation), `AddFile` (mknod), `CutAfter` (truncate), `RemoveFile` (unlink). `LoopFills` is the
loop of `fat_file_pwrite()`, by induction on its turns: as long as it has not spilled, it is in the cluster of the place of
its offset, what it has passed is written, and nothing else has changed. Only at the end, and where a call seeks, does `WalkAt` show that `Seek`
comes to the cluster with the place, and `ChainIs` that `Chain` is the set of an owner's clusters. `LoopTyped` says what the loop leaves alone
whether it spills or not.
The rest of `FatInv` has memory and image side by side (`Named`, `Counted`, `InMemory`, `AllRead`), and the log in the tree from the
first listing on, which is why logging does not crash.

### KernelProofs

- `RefsExactHolds`: `KernelSpec(machine) /\ []ArgumentsTyped => []RefsExact`, for every machine with a number of pages, every size of
  the tables and every program. `KernelSpec` is `Boot` of one machine and any number of steps; the runs start from 87 of them.
- `NothingLeaksHolds`: `KernelSpec(machine) /\ []ArgumentsTyped => []NothingLeaks`, for every machine that is one (`IsMachine`): pages
  (`PagesKept`), blocks of the disk (`BlocksKept`) and pipes (`PipesHeld`).

*Argument.* A call like `create()` or `sys_link()` takes references with `namei()`, `iget()` and `ialloc()` and gives them back in
many small steps, differently on each of its error paths. `Holds(B, s, a, b, c)` says that the file system `s` has the counts of `B`
and one reference to each of `a`, `b` and `c`; each helper of `fs.c` has a lemma on what it does to what the call
holds, and a call on names is `Neutral` when it ends with nothing. Both loops that matter, the walk of `namex()` and the blocks of
`writei()`, are by induction on the number of turns. Once the kernel has panicked the counts of inodes are not asked for.

`RefInv` is the inductive invariant. `RefsExact` alone is not: `fileclose()` gives back the inode of a file only if a free entry
has none, `allocproc()` may take a slot only if it has no descriptors left, and `wait()` may free a zombie only if `exit()` has closed
everything; so `RefInv` adds that an entry with an inode is in use, and that only a live process has descriptors and a
directory. The loop of `exit()` over the descriptors is a third induction (`CloseAllReady`); `fork()` adds a whole row of
descriptors at once, and `RowAdded` says that a file then occurs as often again as in the row of the parent. The counts are
cardinalities, which change by one where one value of a function does (`CountChange`).

`PipeInv` says that each end of a pipe is one entry of the file table and is open as long as there is that entry; so `pipeclose()` is
called once for each end, a pipe is open as long as a file names it, and `pipealloc()` finds a pipe that is not: with one file to spare
there are at most `NFILE - 1` ends. Without it `PagesKept` is not inductive, as closing an end twice would free a page twice.
`PageInv` is `PagesKept` with numbers for the sizes: `Footprint` is the page table, the trapframe and the frames of a process as a function of
its size and its lowest tables, and the lemmas on `uvmalloc()`, `uvmdealloc()`, `uvmcopy()` and `execMem` say that what each takes
from the free list, or gives back when it fails half way, is the change of the footprint. Sums over the process table change by one term
(`SummedChange`). `KernelInv` is `RefInv`, `PipeInv` and `PageInv` together.

`BlockInv` is about the disk: the blocks that are clear in the bitmap and those of the inodes (`Stock`) are as many as at the boot.
`bmap()` and `itrunc()` move blocks between the two, and nothing else does, so each helper of `fs.c` is `Steady`. The count alone is
not inductive: a write into a directory or into a freed inode would leave entries that `dirlookup()` follows to no inode, and the
blocks of no inode are counted nowhere. So `BlockInv` adds that a directory is a list of entries that name inodes (`Sound`), that no file open
for writing is a directory or free (`Writable`) and that a live process has a directory (`Rooted`). `Writable` uses the exact counts
of `RefsExact`: an inode that a file names has a reference, and `iput()` frees, and `ialloc()` gives a type to, only one that has none (`Retypes`).
`open()` establishes it: it refuses to open a directory for writing, and `create()` returns only files and devices. The directory that `mkfs` makes, and every file
on the disk at the boot, are covered by `BootBlocks`.

Iterations need induction over numbers. The library's theorems take an operator as a parameter, which the provers cannot
instantiate; `LeastNumber` and `AllNumbers` state it with sets, from `WFMin`.

### What the proofs changed

TLC takes the first true guard of a `CASE` and the provers any: three definitions had guards that overlap (`ReparentWake` of
`Proc`, the cluster walks of `FatFs`, the reparenting in `Kernel`) and are now written with `IF`. In `FileSys`, `UserMem` and `Kernel` recursive operators became
functions, so that the modules can be reasoned about. The type
invariants of `Log`, `Pipe` and `Bcache` gained the points of the program. The loop of `fat_file_pwrite()` has a name of its own
(`WriteLoop`), and `FatAssumption` says that `DirCap` and `MaxSize` are numbers and that no file has the name of a mark.

### Only model-checked

- Liveness (`SchedulerIsFair`, `WaiterReturns`, `GameFinishes`, `PromptReturns`): fairness and `ENABLED` are out of the prover's reach.
- `ParsedAsTyped`, `PiecesDontMatter`, `HeapPartition` and `TreeExact`: they are about recursive definitions on lines, texts, heaps and
  trees, and need induction over data.
- `ProgramsPass`, which is about the scripts of the run. `LinksExact` does not hold of every program: a file created
  in a removed working directory breaks it (section 5). It is checked on programs that do not.

## 7. Not modelled

Listed with reasons in `PROJECT.json`. Besides what the plan has left: boot and trap assembly, page
table layout, `printf` and `string.c`, `mkfs`, the contents of memory and so `bsstest`, the options of
`usertests`, `gettoken()` and `nulterminate()` of the shell, `printf` and the string functions of the user library, the iterators of the FAT's tree, the benchmarks of lab3, dates and 8.3 names of the
FAT, the parser object without source. Spin locks are atomic and memory is sequentially consistent:
`acquire()` and `release()` have the barriers that this needs. The unlocked accesses of the semaphores are
separate steps, in program order.

Two details of modelled functions are left out. `wait()` may fail to copy the status out, and then returns -1 and leaves the zombie
(`proc.c:507`): the programs modelled give it 0 or a variable of their own, for which the copy does not fail. `uartputc_sync()` tests the transmit
register and stores into it in one step (`Echo`), although another CPU may store in between; the second character then
replaces the first on the terminal, and no state that the properties speak of differs.
