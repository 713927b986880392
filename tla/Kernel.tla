------------------------------- MODULE Kernel -------------------------------
(***************************************************************************)
(* xv6 as its programs see it: the system calls of kernel/sysfile.c and    *)
(* kernel/sysproc.c on processes, descriptors, files, pipes, inodes and    *)
(* memory, with everything they do when a table, the disk or the memory is *)
(* full.  A system call is one step; a write in several transactions takes *)
(* a step for each, and the calls that sleep wait for their condition.     *)
(*                                                                         *)
(* The processes run scripts: user programs as sequences of instructions,  *)
(* each a system call with the results that the program accepts.  The      *)
(* program of a process is the code it still has to run, so fork() gives   *)
(* the child its branch and exec() replaces it.  A result that the program *)
(* reports as an error sets failed.  A pid is the slot of the process: no  *)
(* program here keeps the pid of a child it has waited for.                *)
(***************************************************************************)
EXTENDS FileSys, UserMem

CONSTANTS NPROC,        \* processes; 1 is init
          NOFILE,       \* descriptors of a process
          NFILE,        \* entries of the file table
          NPIPE,        \* pipes, as many as the files can hold
          PIPESIZE,     \* units that a pipe holds
          MAXWRITE,     \* units that filewrite() puts in one transaction
          Programs(_, _), \* the script of a binary, given its arguments
          Settle(_)     \* what a program does by itself up to its next call

\* Two processes and the three descriptors of the shell on the console; a pipe
\* takes two files when it is made and one as long as it is there.
ASSUME KernelAssumption == /\ {NPROC, NOFILE, NFILE, NPIPE, MAXWRITE} \subseteq Nat
                           /\ NPROC >= 2 /\ NOFILE >= 3 /\ NFILE >= 1
                           /\ NPIPE >= NFILE - 1

VARIABLES fs,           \* the file system, see FileSys
          file,         \* ftable
          pipe,         \* the pipes
          free,         \* length of the free list of kalloc()
          pr,           \* the process table
          us,           \* user side of a process: code, registers, buffer
          failed,       \* the instruction whose result was not accepted
          total         \* pages and blocks of this machine; never changes

vars == <<fs, file, pipe, free, pr, us, failed, total>>

Proc == 1..NPROC
INIT == 1
Fd == 0..(NOFILE - 1)
File == 1..NFILE
Pipe == 1..NPIPE

NoFile == [ref |-> 0, type |-> "none", r |-> FALSE, w |-> FALSE, ip |-> None, off |-> 0, pipe |-> None]
NoPipe == [open |-> FALSE, data |-> <<>>, readopen |-> FALSE, writeopen |-> FALSE]
NoProc == [st |-> "unused", parent |-> None, ofile |-> [fd \in Fd |-> None], cwd |-> None,
           sz |-> 0, low |-> 0, killed |-> FALSE, xst |-> 0]
Smallest(S) == CHOOSE x \in S : \A y \in S : x <= y

---------------------------------------------------------------------------
(* Scripts.  to names the register that takes the result, want the results *)
(* that the program accepts.  Descriptors and pids are named by register;  *)
(* registers "0", "1" and "2" hold these numbers.                          *)

MAXRET == 600
OK == 0..MAXRET
FAIL == {-1}
ANY == -1..MAXRET
Reg == {"0", "1", "2", "_", "fd", "fd1", "fd2", "fd3", "pid", "pid1", "pid2", "pid3",
        "n", "m", "st", "a", "b", "r", "w"}
NoReg == [x \in Reg |-> CASE x = "1" -> 1 [] x = "2" -> 2 [] OTHER -> 0]

GOOD == PGSIZE          \* an address in the data of the program
BAD == 1000             \* an address nothing maps, as 0x80000000 or ~0

Open(path, mode, to, want) == [op |-> "open", path |-> path, mode |-> mode, to |-> to, want |-> want]
Close(fd) == [op |-> "close", fd |-> fd, to |-> "_", want |-> ANY]
Dup(fd, to, want) == [op |-> "dup", fd |-> fd, to |-> to, want |-> want]
WriteAt(fd, src, va, want) == [op |-> "write", fd |-> fd, src |-> src, va |-> va, done |-> 0,
                               to |-> "n", want |-> want]
Write(fd, src, want) == WriteAt(fd, src, GOOD, want)
ReadAt(fd, n, va, want) == [op |-> "read", fd |-> fd, n |-> n, va |-> va, to |-> "n", want |-> want]
Read(fd, n, want) == ReadAt(fd, n, GOOD, want)
Fstat(fd) == [op |-> "fstat", fd |-> fd, to |-> "_", want |-> {0}]
Link(old, new, want) == [op |-> "link", path |-> old, new |-> new, to |-> "_", want |-> want]
Unlink(path, want) == [op |-> "unlink", path |-> path, to |-> "_", want |-> want]
Mkdir(path, want) == [op |-> "mkdir", path |-> path, to |-> "_", want |-> want]
Mknod(path, want) == [op |-> "mknod", path |-> path, to |-> "_", want |-> want]
Chdir(path, want) == [op |-> "chdir", path |-> path, to |-> "_", want |-> want]
PipeAt(va, want) == [op |-> "pipe", va |-> va, to |-> "_", want |-> want]
MkPipe(want) == PipeAt(GOOD, want)
\* The child runs its branch; with both it goes on like the parent.
Fork(child, to, want) == [op |-> "fork", child |-> child, both |-> FALSE, to |-> to, want |-> want]
ForkBoth(to, want) == [op |-> "fork", child |-> <<>>, both |-> TRUE, to |-> to, want |-> want]
ExecArgs(path, args, ok, want) == [op |-> "exec", path |-> path, args |-> args, argsOk |-> ok, to |-> "_", want |-> want]
Exec(path, args, want) == ExecArgs(path, args, TRUE, want)
Exit(st) == [op |-> "exit", st |-> st]
ExitReg(r) == [op |-> "exitreg", r |-> r]
Wait(to, want) == [op |-> "wait", to |-> to, want |-> want]
Kill(pid) == [op |-> "kill", pid |-> pid, to |-> "_", want |-> ANY]
Sbrk(n, to, want) == [op |-> "sbrk", n |-> n, to |-> to, want |-> want]
Sleep == [op |-> "sleep", to |-> "_", want |-> {0}]
Getpid(to) == [op |-> "getpid", to |-> to, want |-> OK]
Touch(va, store) == [op |-> "touch", va |-> va, store |-> store]
Spin == [op |-> "spin"]                             \* for(;;) ;
Choose(alts) == [op |-> "choose", alts |-> alts]
\* Control inside a program: no step of its own, Settle runs it.
If(r, in, then, else) == [op |-> "if", r |-> r, in |-> in, then |-> then, else |-> else]
While(r, in, body) == [op |-> "while", r |-> r, in |-> in, body |-> body]
Set(r, n) == [op |-> "set", r |-> r, n |-> n]
Add(r, n) == [op |-> "add", r |-> r, n |-> n]
Copy(r, from) == [op |-> "copy", r |-> r, from |-> from]
AtLeast(r, from) == [op |-> "atleast", r |-> r, from |-> from]
Expect(r, in) == [op |-> "expect", r |-> r, in |-> in]
Check(in) == [op |-> "check", in |-> in]            \* what the reads put in the buffer
Entries(names) == [op |-> "entries", names |-> names]   \* each name once in the directory read
WriteBuf(fd) == [op |-> "writebuf", fd |-> fd]      \* write what was read
StatEach == [op |-> "stateach"]                     \* stat() every entry read from a directory
Repeat(n, body) == FlattenSeq([k \in 1..n |-> body])

\* The scripts are well formed: at the call that a process makes next, a path
\* is a sequence of elements, a write is somewhere in a sequence of units, and
\* sbrk() and exec() are given a number and a list.
PathCalls == {"open", "link", "unlink", "mkdir", "mknod", "chdir", "exec"}
IsPath(path) == path.elems \in Seq(ToSet(path.elems))
IsSource(i) == i.src \in Seq(ToSet(i.src)) /\ i.done \in 0..Len(i.src)
TypedCall(i) == /\ i.op \in PathCalls => IsPath(i.path)
                /\ i.op = "link" => IsPath(i.new)
                /\ i.op = "write" => IsSource(i)
                /\ i.op = "sbrk" => i.n \in Int
                /\ i.op = "exec" => Len(i.args) \in Nat
ArgumentsTyped == \A p \in Proc : us[p].code # <<>> => TypedCall(Head(us[p].code))

User(code) == Settle([code |-> code, reg |-> NoReg, buf |-> <<>>, err |-> ""])
NoUser == User(<<>>)

\* The instruction of process p, and what is left of a process u after it
\* returned n.
At(p, op) == /\ pr[p].st = "live" /\ failed = "" /\ fs.panic = ""
             /\ us[p].code # <<>> /\ Head(us[p].code).op = op
Alive(p, op) == At(p, op) /\ ~pr[p].killed
I(p) == Head(us[p].code)
Resume(u, n) ==
    LET i == Head(u.code)
    IN  Settle([u EXCEPT !.code = Tail(@), !.reg[i.to] = n,
                         !.err = IF n \in i.want THEN "" ELSE i.op])
Returned(u, n, p) == [u EXCEPT ![p] = Resume(u[p], n)]
ReturnWith(u, n, p) == /\ us' = Returned(u, n, p)
                       /\ failed' = us'[p].err
Return(n, p) == ReturnWith(us, n, p)

---------------------------------------------------------------------------
(* Descriptors and files (file.c and the first part of sysfile.c).         *)

argfd(p, r) == LET fd == us[p].reg[r] IN IF fd \in Fd THEN pr[p].ofile[fd] ELSE None

\* fdalloc() and filealloc(): the lowest free entry, or none.
freeFds(p) == {fd \in Fd : pr[p].ofile[fd] = None}
freeFiles == {f \in File : file[f].ref = 0}

filedup(tab, f) == [tab EXCEPT ![f].ref = @ + 1]

\* fileclose() on the state s = [file, pipe, fs, free]: the last close drops
\* the inode or one end of the pipe, and the last end frees the pipe's page.
pipeclose(s, q, writable) ==
    LET s1 == IF writable THEN [s EXCEPT !.pipe[q].writeopen = FALSE]
              ELSE [s EXCEPT !.pipe[q].readopen = FALSE]
    IN  IF s1.pipe[q].readopen \/ s1.pipe[q].writeopen THEN s1
        ELSE [s1 EXCEPT !.pipe[q] = NoPipe, !.free = @ + 1]

fileclose(s, f) ==
    LET ff == s.file[f]
        s1 == [s EXCEPT !.file[f] = NoFile]
    IN  IF ff.ref > 1 THEN [s EXCEPT !.file[f].ref = @ - 1]
        ELSE IF ff.type = "pipe" THEN pipeclose(s1, ff.pipe, ff.w)
        ELSE IF ff.type \in {"inode", "device"} THEN [s1 EXCEPT !.fs = iput(@, ff.ip)]
        ELSE s1

Here == [file |-> file, pipe |-> pipe, fs |-> fs, free |-> free]
Becomes(s) == file' = s.file /\ pipe' = s.pipe /\ fs' = s.fs /\ free' = s.free

SysDup(p) ==
    /\ Alive(p, "dup")
    /\ LET f == argfd(p, I(p).fd) IN
       IF f = None \/ freeFds(p) = {} THEN Return(-1, p) /\ UNCHANGED <<pr, file>>
       ELSE LET fd == Smallest(freeFds(p)) IN
            /\ pr' = [pr EXCEPT ![p].ofile[fd] = f]
            /\ file' = filedup(file, f)
            /\ Return(fd, p)
    /\ UNCHANGED <<fs, pipe, free>>

SysClose(p) ==
    /\ Alive(p, "close")
    /\ LET f == argfd(p, I(p).fd) IN
       IF f = None THEN Return(-1, p) /\ UNCHANGED <<pr, file, pipe, fs, free>>
       ELSE /\ pr' = [pr EXCEPT ![p].ofile[us[p].reg[I(p).fd]] = None]
            /\ Becomes(fileclose(Here, f))
            /\ Return(0, p)

\* sys_open(): the inode is found or created before a file and a descriptor
\* are looked for; without them the inode is put back, a created one stays.
SysOpen(p) ==
    /\ Alive(p, "open")
    /\ LET i == I(p)
           c == IF "CREATE" \in i.mode THEN create(fs, pr[p].cwd, i.path, "file")
                ELSE namei(fs, pr[p].cwd, i.path)
           fs1 == IF c.ip = None THEN c.fs ELSE ilock(c.fs, c.ip)
           type == fs1.ino[c.ip].type
           f == Smallest(freeFiles)
           fd == Smallest(freeFds(p))
           fs2 == IF "TRUNC" \in i.mode /\ type = "file" THEN itrunc(fs1, c.ip) ELSE fs1
       IN  IF ~i.path.ok THEN Return(-1, p) /\ UNCHANGED <<fs, file, pr>>
           ELSE IF c.ip = None THEN fs' = c.fs /\ Return(-1, p) /\ UNCHANGED <<file, pr>>
           ELSE IF \/ "CREATE" \notin i.mode /\ type = "dir" /\ i.mode # {}
                   \/ freeFiles = {} \/ freeFds(p) = {}
           THEN fs' = iput(fs1, c.ip) /\ Return(-1, p) /\ UNCHANGED <<file, pr>>
           ELSE /\ fs' = fs2
                /\ file' = [file EXCEPT ![f] =
                     [ref |-> 1, type |-> IF type = "dev" THEN "device" ELSE "inode",
                      r |-> "WRONLY" \notin i.mode, w |-> i.mode \cap {"WRONLY", "RDWR"} # {},
                      ip |-> c.ip, off |-> 0, pipe |-> None]]
                /\ pr' = [pr EXCEPT ![p].ofile[fd] = f]
                /\ Return(fd, p)
    /\ UNCHANGED <<pipe, free>>

\* piperead(): blocks while the pipe is empty and a writer is left; a unit
\* that cannot be copied out is lost.
piperead(p, q) ==
    LET i == I(p)
        k == Lesser(i.n, Len(pipe[q].data))
    IN  /\ pipe[q].data # <<>> \/ ~pipe[q].writeopen
        /\ IF k > 0 /\ ~userRange(pr[p].sz, i.va, 1)
           THEN pipe' = [pipe EXCEPT ![q].data = Tail(@)] /\ Return(0, p)
           ELSE /\ pipe' = [pipe EXCEPT ![q].data = SubSeq(@, k + 1, Len(@))]
                /\ ReturnWith([us EXCEPT ![p].buf = @ \o SubSeq(pipe[q].data, 1, k)], k, p)

\* fileread() of an inode, from the offset of the file f.
readInode(p, f) ==
    LET i == I(p)
        got == readi(fs, file[f].ip, file[f].off, i.n)
        k == Len(got)
    IN  IF k > 0 /\ ~userRange(pr[p].sz, i.va, k) THEN Return(-1, p) /\ UNCHANGED file
        ELSE /\ file' = [file EXCEPT ![f].off = @ + k]
             /\ ReturnWith([us EXCEPT ![p].buf = @ \o got], k, p)

\* sys_read() and fileread(); the console has no input here and reads as its
\* end of file.
SysRead(p) ==
    /\ At(p, "read")
    /\ LET f == argfd(p, I(p).fd) IN
       IF f = None THEN Return(-1, p) /\ UNCHANGED <<file, pipe>>
       ELSE IF ~file[f].r THEN Return(-1, p) /\ UNCHANGED <<file, pipe>>
       ELSE IF file[f].type = "pipe" THEN piperead(p, file[f].pipe) /\ UNCHANGED file
       ELSE IF file[f].type = "device" THEN Return(0, p) /\ UNCHANGED <<file, pipe>>
       ELSE readInode(p, f) /\ UNCHANGED pipe
    /\ UNCHANGED <<fs, free, pr>>

\* After k more units of a write: it returns, or goes on in a later step.
Wrote(p, k) ==
    IF I(p).done + k = Len(I(p).src) THEN Return(Len(I(p).src), p)
    ELSE us' = [us EXCEPT ![p].code[1].done = @ + k] /\ UNCHANGED failed
Part(p, limit) == LET i == I(p) IN SubSeq(i.src, i.done + 1, Lesser(Len(i.src), i.done + limit))
SourceOk(p) == userRange(pr[p].sz, I(p).va, Len(I(p).src))

\* pipewrite(): as much as fits; blocks when the pipe is full, and fails when
\* no reader is left or the writer is killed.
pipewrite(p, q) ==
    LET room == PIPESIZE - Len(pipe[q].data)
    IN  \/ /\ ~pipe[q].readopen \/ pr[p].killed
           /\ Return(-1, p) /\ UNCHANGED pipe
        \/ /\ pipe[q].readopen /\ ~pr[p].killed /\ room > 0
           /\ IF SourceOk(p)
              THEN pipe' = [pipe EXCEPT ![q].data = @ \o Part(p, room)] /\ Wrote(p, Len(Part(p, room)))
              ELSE Return(I(p).done, p) /\ UNCHANGED pipe

\* filewrite() to an inode: MAXWRITE units in one transaction, a step here;
\* w is what writei() did with them.
writeInode(p, f, w) ==
    /\ fs' = w.fs
    /\ file' = [file EXCEPT ![f].off = IF w.n > 0 THEN @ + w.n ELSE @]
    /\ IF w.n = Len(Part(p, MAXWRITE)) THEN Wrote(p, w.n) ELSE Return(-1, p)

SysWrite(p) ==
    /\ At(p, "write")
    /\ LET f == argfd(p, I(p).fd) IN
       IF f = None THEN Return(-1, p) /\ UNCHANGED <<fs, file, pipe>>
       ELSE IF ~file[f].w THEN Return(-1, p) /\ UNCHANGED <<fs, file, pipe>>
       ELSE IF file[f].type = "device"
       THEN Return(IF SourceOk(p) THEN Len(I(p).src) ELSE 0, p) /\ UNCHANGED <<fs, file, pipe>>
       ELSE IF file[f].type = "pipe" THEN pipewrite(p, file[f].pipe) /\ UNCHANGED <<fs, file>>
       ELSE writeInode(p, f, writei(fs, file[f].ip, file[f].off, Part(p, MAXWRITE), SourceOk(p))) /\ UNCHANGED pipe
    /\ UNCHANGED <<free, pr>>

\* filestat(): the size goes to register "n", the inode number to "m".
SysFstat(p) ==
    /\ Alive(p, "fstat")
    /\ LET f == argfd(p, I(p).fd) IN
       IF f = None THEN Return(-1, p)
       ELSE IF file[f].type = "pipe" THEN Return(-1, p)
       ELSE ReturnWith([us EXCEPT ![p].reg["n"] = Len(fs.ino[file[f].ip].data),
                                  ![p].reg["m"] = file[f].ip], 0, p)
    /\ UNCHANGED <<fs, file, pipe, free, pr>>

\* pipealloc(): two files and a page, q the pipe in it.
pipealloc(q, f0, f1) ==
    LET end(r, w) == [ref |-> 1, type |-> "pipe", r |-> r, w |-> w, ip |-> None, off |-> 0, pipe |-> q]
    IN  /\ pipe' = [pipe EXCEPT ![q] = [open |-> TRUE, data |-> <<>>, readopen |-> TRUE, writeopen |-> TRUE]]
        /\ file' = [file EXCEPT ![f0] = end(TRUE, FALSE), ![f1] = end(FALSE, TRUE)]
        /\ free' = free - 1

\* sys_pipe(): the descriptors go to registers "r" and "w"; anything missing
\* undoes the rest.
SysPipe(p) ==
    /\ Alive(p, "pipe")
    /\ LET f0 == Smallest(freeFiles)
           d0 == Smallest(freeFds(p))
           f1 == Smallest(freeFiles \ {f0})
           d1 == Smallest(freeFds(p) \ {d0})
       IN  IF \/ Cardinality(freeFiles) < 2 \/ free = 0 \/ Cardinality(freeFds(p)) < 2
              \/ ~userRange(pr[p].sz, I(p).va, 2)
           THEN Return(-1, p) /\ UNCHANGED <<file, pipe, free, pr>>
           ELSE /\ pipealloc(Smallest({x \in Pipe : ~pipe[x].open}), f0, f1)
                /\ pr' = [pr EXCEPT ![p].ofile[d0] = f0, ![p].ofile[d1] = f1]
                /\ ReturnWith([us EXCEPT ![p].reg["r"] = d0, ![p].reg["w"] = d1], 0, p)
    /\ UNCHANGED fs

---------------------------------------------------------------------------
(* The calls on names, see FileSys.                                        *)

NameCall(p, call) ==
    /\ fs' = call.fs
    /\ Return(call.ret, p)
    /\ UNCHANGED <<file, pipe, free>>

SysLink(p) == /\ Alive(p, "link")
              /\ NameCall(p, sys_link(fs, pr[p].cwd, I(p).path, I(p).new))
              /\ UNCHANGED pr
SysUnlink(p) == /\ Alive(p, "unlink")
                /\ NameCall(p, sys_unlink(fs, pr[p].cwd, I(p).path))
                /\ UNCHANGED pr
SysMkdir(p) == /\ Alive(p, "mkdir")
               /\ NameCall(p, sys_mkdir(fs, pr[p].cwd, I(p).path))
               /\ UNCHANGED pr
SysMknod(p) == /\ Alive(p, "mknod")
               /\ NameCall(p, sys_mknod(fs, pr[p].cwd, I(p).path))
               /\ UNCHANGED pr
SysChdir(p) == /\ Alive(p, "chdir")
               /\ LET c == sys_chdir(fs, pr[p].cwd, I(p).path) IN
                  NameCall(p, c) /\ pr' = [pr EXCEPT ![p].cwd = c.cwd]

---------------------------------------------------------------------------
(* Processes and memory (sysproc.c, proc.c, exec.c).                       *)

SysFork(p) ==
    /\ Alive(p, "fork")
    /\ LET unused == {q \in Proc : pr[q].st = "unused"}
           q == Smallest(unused)
           m == forkMem(free, pr[p].sz)
           fork == Resume(us[p], q)
           code == IF I(p).both THEN Tail(us[p].code) ELSE I(p).child
           child == Settle([us[p] EXCEPT !.code = code, !.reg[I(p).to] = 0])
           copies(f) == Cardinality({fd \in Fd : pr[p].ofile[fd] = f})
       IN  IF unused = {} \/ ~m.ok THEN Return(-1, p) /\ UNCHANGED <<fs, file, free, pr>>
           ELSE /\ free' = m.free
                /\ file' = [f \in File |-> [file[f] EXCEPT !.ref = @ + copies(f)]]
                /\ fs' = iget(fs, pr[p].cwd)
                /\ pr' = [pr EXCEPT ![q] = [pr[p] EXCEPT !.parent = p, !.low = m.low, !.killed = FALSE, !.xst = 0]]
                /\ us' = [us EXCEPT ![p] = fork, ![q] = child]
                /\ failed' = fork.err \o child.err
    /\ UNCHANGED pipe

\* exec(): the file must hold a program, and there must be memory for it.
SysExec(p) ==
    /\ Alive(p, "exec")
    /\ LET i == I(p)
           n == namei(fs, pr[p].cwd, i.path)
           data == readi(ilock(n.fs, n.ip), n.ip, 0, 2)
           elf == Len(data) = 2 /\ fs.ino[n.ip].type = "file" /\ data[1] = "elf"
           m == execMem(free, pr[p].sz, pr[p].low, i.args, i.argsOk)
           main == Programs(data[2], i.args)
       IN  IF ~i.path.ok \/ ~i.argsOk THEN Return(-1, p) /\ UNCHANGED <<fs, free, pr>>
           ELSE IF n.ip = None THEN fs' = n.fs /\ Return(-1, p) /\ UNCHANGED <<free, pr>>
           ELSE /\ fs' = iput(ilock(n.fs, n.ip), n.ip)
                /\ IF ~elf \/ ~m.ok THEN Return(-1, p) /\ UNCHANGED <<free, pr>>
                   ELSE /\ free' = m.free
                        /\ pr' = [pr EXCEPT ![p].sz = m.sz, ![p].low = m.low]
                        /\ us' = [us EXCEPT ![p] = User(main)]
                        /\ failed' = us'[p].err
    /\ UNCHANGED <<file, pipe>>

\* exit(): close the files, drop the directory, give the children to init.
closeAll(s, ofile) ==
    LET closed[k \in 0..NOFILE] ==
            IF k = 0 THEN s
            ELSE IF ofile[k - 1] = None THEN closed[k - 1] ELSE fileclose(closed[k - 1], ofile[k - 1])
    IN  closed[NOFILE]

reparent(tab, p) == [q \in Proc |-> IF tab[q].parent = p THEN [tab[q] EXCEPT !.parent = INIT] ELSE tab[q]]

exit(p, status) ==
    LET s == closeAll(Here, pr[p].ofile)
    IN  /\ Becomes([s EXCEPT !.fs = iput(@, pr[p].cwd)])
        /\ pr' = [reparent(pr, p) EXCEPT ![p] = [@ EXCEPT !.st = "zombie", !.xst = status, !.cwd = None,
                                                          !.ofile = [fd \in Fd |-> None]]]
        /\ us' = [us EXCEPT ![p] = NoUser]
        /\ UNCHANGED failed

SysExit(p) == Alive(p, "exit") /\ exit(p, I(p).st)
SysExitReg(p) == Alive(p, "exitreg") /\ exit(p, us[p].reg[I(p).r])

\* usertrap() finds the process killed, on the way into or out of a call or
\* at a timer interrupt; a sleeping process is woken by kill() to get there.
Die(p) == /\ pr[p].st = "live" /\ pr[p].killed /\ failed = "" /\ fs.panic = ""
          /\ exit(p, -1)

\* wait(): the first zombie child of the table; its status goes to "st".
SysWait(p) ==
    /\ At(p, "wait")
    /\ LET kids == {q \in Proc : pr[q].st # "unused" /\ pr[q].parent = p}
           dead == {q \in kids : pr[q].st = "zombie"}
           q == Smallest(dead)
       IN  \/ /\ dead # {}
              /\ free' = freeproc(free, pr[q].sz, pr[q].low)
              /\ pr' = [pr EXCEPT ![q] = NoProc]
              /\ ReturnWith([us EXCEPT ![p].reg["st"] = pr[q].xst], q, p)
           \/ /\ dead = {} /\ (kids = {} \/ pr[p].killed)
              /\ Return(-1, p) /\ UNCHANGED <<free, pr>>
    /\ UNCHANGED <<fs, file, pipe>>

SysKill(p) ==
    /\ Alive(p, "kill")
    /\ LET q == us[p].reg[I(p).pid] IN
       IF q \in Proc /\ pr[q].st # "unused"
       THEN pr' = [pr EXCEPT ![q].killed = TRUE] /\ Return(0, p)
       ELSE UNCHANGED pr /\ Return(-1, p)
    /\ UNCHANGED <<fs, file, pipe, free>>

SysSbrk(p) ==
    /\ Alive(p, "sbrk")
    /\ LET m == growproc(free, pr[p].low, pr[p].sz, I(p).n) IN
       /\ free' = m.free
       /\ pr' = [pr EXCEPT ![p].sz = m.sz, ![p].low = m.low]
       /\ Return(IF m.ok THEN pr[p].sz ELSE -1, p)
    /\ UNCHANGED <<fs, file, pipe>>

\* sys_sleep() returns after any number of other steps.
SysSleep(p) == Alive(p, "sleep") /\ Return(0, p) /\ UNCHANGED <<fs, file, pipe, free, pr>>
SysGetpid(p) == Alive(p, "getpid") /\ Return(p, p) /\ UNCHANGED <<fs, file, pipe, free, pr>>

\* A load or store of the program: a page fault is the process's end.
UserTouch(p) ==
    /\ Alive(p, "touch")
    /\ IF userAccess(pr[p].sz, I(p).va, I(p).store)
       THEN /\ us' = [us EXCEPT ![p] = Settle([@ EXCEPT !.code = Tail(@)])]
            /\ failed' = us'[p].err
            /\ UNCHANGED <<fs, file, pipe, free, pr>>
       ELSE exit(p, -1)

\* rand(): the program takes one of its branches.
UserChoose(p) ==
    /\ Alive(p, "choose")
    /\ \E alt \in I(p).alts :
         us' = [us EXCEPT ![p] = Settle([@ EXCEPT !.code = alt \o Tail(@)])]
    /\ failed' = us'[p].err
    /\ UNCHANGED <<fs, file, pipe, free, pr>>

---------------------------------------------------------------------------
Step(p) == \/ SysDup(p) \/ SysClose(p) \/ SysOpen(p) \/ SysRead(p) \/ SysWrite(p)
           \/ SysFstat(p) \/ SysPipe(p) \/ SysLink(p) \/ SysUnlink(p) \/ SysMkdir(p)
           \/ SysMknod(p) \/ SysChdir(p) \/ SysFork(p) \/ SysExec(p) \/ SysExit(p)
           \/ SysExitReg(p) \/ Die(p) \/ SysWait(p) \/ SysKill(p) \/ SysSbrk(p)
           \/ SysSleep(p) \/ SysGetpid(p) \/ UserTouch(p) \/ UserChoose(p)

\* Process 2, which init started, has run its program to the end.
Finished == /\ us[2].code = <<>> /\ pr[2].st # "live"
            /\ \A p \in Proc \ {INIT} : pr[p].st = "unused"
Halted == (Finished \/ failed # "" \/ fs.panic # "") /\ UNCHANGED vars

Next == ((\E p \in Proc : Step(p)) /\ UNCHANGED total) \/ Halted

---------------------------------------------------------------------------
(* A machine gives the scripts of init and of process 2 (the shell that    *)
(* init has started on the console, or nothing when the machine is fresh   *)
(* from mkfs), the files on the disk, and the pages and blocks left.       *)

Inode(type, nlink, data) ==
    [type |-> type, nlink |-> nlink, data |-> data, nb |-> CeilDiv(Len(data), BSIZE), ind |-> 0]

\* The root directory, the files from inode 3 on, and inode 2 for the console.
Disk(machine) ==
    LET names == machine.names
        console == IF machine.fresh THEN <<>> ELSE <<Entry("console", 2)>>
    IN  [i \in Inum |->
           IF i = ROOTINO
           THEN Inode("dir", 1, <<Entry(".", 1), Entry("..", 1)>> \o console
                                \o [k \in DOMAIN names |-> Entry(names[k], k + 2)])
           ELSE IF i = 2 THEN IF machine.fresh THEN NoInode ELSE Inode("dev", 1, <<>>)
           ELSE IF i - 2 \in DOMAIN names THEN Inode("file", 1, machine.files[i - 2])
           ELSE NoInode]

Summed(f, n) == LET sum[k \in 0..n] == IF k = 0 THEN 0 ELSE sum[k - 1] + f[k] IN sum[n]
PagesOf(p) == IF pr[p].st = "unused" THEN 0 ELSE Footprint(pr[p].sz, pr[p].low)

\* A machine has pages and blocks, and inodes for the console and for the
\* files that it names.
IsMachine(machine) ==
    /\ machine.pages \in Nat /\ machine.blocks \in Nat
    /\ machine.names \in Seq(ToSet(machine.names)) /\ Len(machine.names) + 2 <= NINODES
    /\ \A k \in DOMAIN machine.names : Len(machine.files[k]) \in Nat

ImageSize == (IMAGE + 2) * PGSIZE
ImageTables == tablesFor(IMAGE + 1)
Boot(machine) ==
    LET disk == Disk(machine)
        n == IF machine.fresh THEN 1 ELSE 2
        p0 == [NoProc EXCEPT !.st = "live", !.cwd = ROOTINO, !.sz = ImageSize, !.low = ImageTables,
                             !.ofile = [fd \in Fd |-> IF fd <= 2 /\ n = 2 THEN 1 ELSE None]]
    IN  /\ fs = [ino |-> disk, free |-> machine.blocks, panic |-> "",
                 ref |-> [i \in Inum |-> CASE i = ROOTINO -> n [] i = 2 -> n - 1 [] OTHER -> 0]]
        /\ file = [f \in File |-> IF f = 1 /\ n = 2
                                 THEN [NoFile EXCEPT !.ref = 6, !.type = "device", !.r = TRUE, !.w = TRUE, !.ip = 2]
                                 ELSE NoFile]
        /\ pipe = [q \in Pipe |-> NoPipe]
        /\ free = machine.pages
        /\ pr = [p \in Proc |-> CASE p = INIT -> p0 [] p = n /\ n # INIT -> [p0 EXCEPT !.parent = INIT] [] OTHER -> NoProc]
        /\ us = [p \in Proc |-> CASE p = INIT -> User(machine.init) [] p = n /\ n # INIT -> User(machine.main) [] OTHER -> NoUser]
        /\ failed = ""
        /\ total = [pages |-> machine.pages + n * Footprint(ImageSize, ImageTables),
                    blocks |-> machine.blocks + Summed([i \in Inum |-> disk[i].nb], NINODES)]

KernelSpec(machine) == Boot(machine) /\ [][Next]_vars

---------------------------------------------------------------------------
\* Nothing a program does ends in a panic of the kernel or in a result that
\* the program does not accept, whatever the other processes do meanwhile.
ProgramsPass == failed = "" /\ fs.panic = ""

\* No reference is lost or counted twice, in the good paths and in the error
\* paths of the system calls, whatever the programs call and in any order: the
\* count of a file is the number of descriptors on it, and the count of an
\* inode in memory is the number of files and current directories that hold it
\* (a panic stops the kernel in the middle of a call).
RefsExact ==
    /\ \A f \in File : file[f].ref = Cardinality({x \in Proc \X Fd : pr[x[1]].ofile[x[2]] = f})
    /\ fs.panic = "" => \A i \in Inum :
          fs.ref[i] = Cardinality({f \in File : file[f].ip = i}) + Cardinality({p \in Proc : pr[p].cwd = i})

\* The links on the disk are the entries that name the inode, and an inode
\* without links is held by somebody: unlink() of the last name of an open
\* file, a failed link() and a failed mkdir() leave nothing behind.
LinksExact ==
    /\ \A i \in Inum \ {ROOTINO} : fs.ino[i].type # "free" =>
          fs.ino[i].nlink = Cardinality({x \in Inum \X (1..MAXFILE * BSIZE) :
                              /\ fs.ino[x[1]].type = "dir" /\ x[2] \in DOMAIN fs.ino[x[1]].data
                              /\ fs.ino[x[1]].data[x[2]].inum = i
                              /\ fs.ino[x[1]].data[x[2]].name # "."})
    /\ \A i \in Inum : fs.ino[i].type # "free" => fs.ino[i].nlink > 0 \/ fs.ref[i] > 0

\* Every page is free or belongs to a process or a pipe.
PagesKept ==
    total.pages = free + Cardinality({q \in Pipe : pipe[q].open}) + Summed([p \in Proc |-> PagesOf(p)], NPROC)

\* Every block is free or belongs to an inode, in a kernel that has not panicked.
BlocksKept ==
    fs.panic = "" => total.blocks = fs.free + Summed([i \in Inum |-> fs.ino[i].nb + fs.ino[i].ind], NINODES)

\* A pipe is held by an entry of the file table: pipeclose() frees its page
\* with the second of its ends, on the error paths of sys_pipe() too.
PipesHeld == \A q \in Pipe : pipe[q].open => \E f \in File : file[f].pipe = q

\* Nothing leaks: no call of a user program loses a page, a block or a pipe.
NothingLeaks == PagesKept /\ BlocksKept /\ PipesHeld
=============================================================================
