------------------------------- MODULE Itable -------------------------------
(***************************************************************************)
(* The inode table (kernel/fs.c) and the system calls that look up, create,*)
(* link, unlink, use and close the files of one directory                  *)
(* (kernel/sysfile.c), step by step.  A step ends where another process    *)
(* can get in: after itable.lock, the sleep lock of an inode or the buffer *)
(* of a disk inode is let go.  The directory is there for good; its own    *)
(* sleep lock is a variable.                                               *)
(*                                                                         *)
(* The contents of an inode are the number of its allocation (gen): a      *)
(* process that works on a file that is no longer the one it opened sees   *)
(* another number.  Every call is inside a transaction (module Log).       *)
(***************************************************************************)
EXTENDS Integers, FiniteSets

CONSTANTS IProc,        \* the processes
          INames,       \* the names in the directory
          INodes,       \* inodes on the disk, numbered from 1 (sb.ninodes - 1)
          ISlots,       \* entries of the table (NINODE)
          MaxCalls      \* bound on the system calls

ASSUME ItableAssumption == /\ INodes \in Nat \ {0} /\ ISlots \in Nat \ {0} /\ MaxCalls \in Nat
                           /\ 0 \notin IProc /\ 0 \notin INames
                           /\ IsFiniteSet(IProc) /\ IsFiniteSet(INames)

VARIABLES dino,         \* the inodes on the disk
          itab,         \* itable.inode: inum, ref, valid, holder of the lock, copy of the disk inode
          dent,         \* the directory: the inode number of each name, 0 if there is none
          dhold,        \* the process that holds the lock of the directory, or 0
          ipr,          \* where each process is; fd: its open file, want: what it opened
          calls,        \* system calls made: bound
          lost,         \* inodes that iput() dropped without a second look: history
          ipanic

ivars == <<dino, itab, dent, dhold, ipr, calls, lost, ipanic>>

Inum == 1..INodes
Slot == 1..ISlots
Content == [alloc : BOOLEAN, nlink : Nat, gen : Nat]
Unread == [alloc |-> FALSE, nlink |-> 0, gen |-> 0]

ItableTypeOK ==
    /\ dino \in [Inum -> Content]
    /\ itab \in [Slot -> [inum : 0..INodes, ref : Nat, valid : BOOLEAN, holder : IProc \cup {0}, mem : Content]]
    /\ dent \in [INames -> 0..INodes]
    /\ dhold \in IProc \cup {0}
    /\ \A p \in IProc : ipr[p].ip \in 0..ISlots /\ ipr[p].fd \in 0..ISlots /\ ipr[p].inum \in 0..INodes
    /\ calls \in 0..MaxCalls /\ lost \subseteq Inum /\ ipanic \in BOOLEAN

Idle == [pc |-> "idle", then |-> "", call |-> "", ip |-> 0, src |-> 0, name |-> 0, to |-> 0, inum |-> 0,
         fd |-> 0, want |-> 0]

\* A formatted disk, iinit() done.
ItableInit ==
    /\ dino = [i \in Inum |-> Unread]
    /\ itab = [s \in Slot |-> [inum |-> 0, ref |-> 0, valid |-> FALSE, holder |-> 0, mem |-> Unread]]
    /\ dent = [n \in INames |-> 0] /\ dhold = 0
    /\ ipr = [p \in IProc |-> Idle]
    /\ calls = 0 /\ lost = {} /\ ipanic = FALSE

ip(p) == itab[ipr[p].ip]
On(p, l) == ~ipanic /\ ipr[p].pc = l
To(p, l) == [ipr EXCEPT ![p].pc = l]
Call(p, l, then) == [ipr EXCEPT ![p] = [ipr[p] EXCEPT !.pc = l, !.then = then]]
\* The call is over: what the process keeps is its open file.
Return(p) == [ipr EXCEPT ![p] = [Idle EXCEPT !.fd = ipr[p].fd, !.want = ipr[p].want]]
Back(p) == IF ipr[p].then = "return" THEN Return(p) ELSE To(p, ipr[p].then)

---------------------------------------------------------------------------
\* iget() of inode i, under itable.lock: the entry of the inode, or the first
\* that is free.  The process goes on at pc with it.
InTable(i) == {s \in Slot : itab[s].ref > 0 /\ itab[s].inum = i}
Unref == {s \in Slot : itab[s].ref = 0}
First(S) == CHOOSE s \in S : \A t \in S : s <= t

iget(p, i, pc, then) ==
    IF InTable(i) \cup Unref = {} THEN ipanic' = TRUE /\ UNCHANGED <<itab, ipr>>
    ELSE LET s == First(IF InTable(i) # {} THEN InTable(i) ELSE Unref) IN
         /\ itab' = [itab EXCEPT ![s] = [itab[s] EXCEPT !.inum = i, !.ref = @ + 1,
                                                        !.valid = InTable(i) # {} /\ @]]
         /\ ipr' = [ipr EXCEPT ![p] = [ipr[p] EXCEPT !.ip = s, !.pc = pc, !.then = then]]
         /\ UNCHANGED ipanic

\* ilock(): the sleep lock, then the disk if the copy is not valid.
ilock(p) ==
    /\ On(p, "ilock") /\ ip(p).holder = 0
    /\ IF ip(p).ref < 1 THEN ipanic' = TRUE /\ UNCHANGED <<itab, ipr>>
       ELSE /\ itab' = [itab EXCEPT ![ipr[p].ip].holder = p]
            /\ ipr' = IF ip(p).valid THEN Back(p) ELSE To(p, "iread")
            /\ UNCHANGED ipanic
    /\ UNCHANGED <<dino, dent, dhold, calls, lost>>

ilockRead(p) ==
    /\ On(p, "iread")
    /\ itab' = [itab EXCEPT ![ipr[p].ip] = [ip(p) EXCEPT !.mem = dino[ip(p).inum], !.valid = TRUE]]
    /\ ipanic' = ~dino[ip(p).inum].alloc                     \* panic("ilock: no type")
    /\ ipr' = Back(p)
    /\ UNCHANGED <<dino, dent, dhold, calls, lost>>

\* The caller changes the link count, then iupdate().
SetLinks(p, n) ==
    LET c == [ip(p).mem EXCEPT !.nlink = n]
    IN  /\ itab' = [itab EXCEPT ![ipr[p].ip] = [ip(p) EXCEPT !.mem = c]]
        /\ dino' = [dino EXCEPT ![ip(p).inum] = c]

\* iput(): the last reference to a file without links frees the inode.  The
\* sleep lock is taken with itable.lock held, so it must be free.
\* A bug: the other references are not looked at.
iputAnyRef(p) ==
    /\ On(p, "iput")
    /\ IF ip(p).valid /\ ip(p).mem.nlink = 0
       THEN /\ ipanic' = (ip(p).holder # 0)
            /\ itab' = [itab EXCEPT ![ipr[p].ip].holder = p]
            /\ ipr' = To(p, "ifree")
       ELSE /\ itab' = [itab EXCEPT ![ipr[p].ip].ref = @ - 1]
            /\ ipr' = Back(p)
            /\ UNCHANGED ipanic
    /\ UNCHANGED <<dino, dent, dhold, calls, lost>>
iput(p) ==
    /\ On(p, "iput")
    /\ IF ip(p).ref = 1 /\ ip(p).valid /\ ip(p).mem.nlink = 0
       THEN /\ ipanic' = (ip(p).holder # 0)
            /\ itab' = [itab EXCEPT ![ipr[p].ip].holder = p]
            /\ ipr' = To(p, "ifree")
       ELSE /\ itab' = [itab EXCEPT ![ipr[p].ip].ref = @ - 1]
            /\ ipr' = Back(p)
            /\ UNCHANGED ipanic
    /\ UNCHANGED <<dino, dent, dhold, calls, lost>>

\* itrunc(), type = 0 and iupdate(): from here on ialloc() may take the inode.
iputFree(p) ==
    /\ On(p, "ifree")
    /\ LET c == [ip(p).mem EXCEPT !.alloc = FALSE]
       IN  /\ itab' = [itab EXCEPT ![ipr[p].ip] = [ip(p) EXCEPT !.mem = c]]
           /\ dino' = [dino EXCEPT ![ip(p).inum] = c]
    /\ ipr' = To(p, "idone")
    /\ UNCHANGED <<dent, dhold, calls, lost, ipanic>>

\* A bug: valid is left set.
iputDoneKeepsValid(p) ==
    /\ On(p, "idone")
    /\ itab' = [itab EXCEPT ![ipr[p].ip].holder = 0]
    /\ ipr' = To(p, "idrop")
    /\ UNCHANGED <<dino, dent, dhold, calls, lost, ipanic>>
iputDone(p) ==
    /\ On(p, "idone")
    /\ itab' = [itab EXCEPT ![ipr[p].ip] = [ip(p) EXCEPT !.valid = FALSE, !.holder = 0]]
    /\ ipr' = To(p, "idrop")
    /\ UNCHANGED <<dino, dent, dhold, calls, lost, ipanic>>

\* The reference goes, and nothing is tested again: a process that took the
\* freed inode meanwhile, and has unlinked it or failed to enter it, saw two
\* references and left the inode to this one.
iputDrop(p) ==
    /\ On(p, "idrop")
    /\ LET i == ip(p).inum
           Forgotten == /\ ip(p).ref = 1 /\ dino[i].alloc /\ dino[i].nlink = 0
                        /\ ~ \E q \in IProc : On(q, "iget") /\ ipr[q].inum = i
       IN  lost' = IF Forgotten THEN lost \cup {i} ELSE lost
    /\ itab' = [itab EXCEPT ![ipr[p].ip].ref = @ - 1]
    /\ ipr' = Back(p)
    /\ UNCHANGED <<dino, dent, dhold, calls, ipanic>>

---------------------------------------------------------------------------
\* A system call begins: with the lock of the directory, or (use, close) with
\* the file that the process has open.
Begin(p, call, n, m) ==
    /\ On(p, "idle") /\ calls < MaxCalls /\ dhold = 0
    /\ call \in {"open", "create"} => ipr[p].fd = 0
    /\ ipr' = [ipr EXCEPT ![p] = [ipr[p] EXCEPT !.pc = "dir", !.call = call, !.name = n, !.to = m]]
    /\ dhold' = p /\ calls' = calls + 1 /\ UNCHANGED lost
    /\ UNCHANGED <<dino, itab, dent, ipanic>>

BeginUse(p) ==
    /\ On(p, "idle") /\ calls < MaxCalls /\ ipr[p].fd # 0
    /\ ipr' = [ipr EXCEPT ![p] = [ipr[p] EXCEPT !.pc = "ilock", !.then = "unlock", !.call = "use",
                                                 !.ip = ipr[p].fd]]
    /\ calls' = calls + 1 /\ UNCHANGED lost
    /\ UNCHANGED <<dino, itab, dent, dhold, ipanic>>

BeginClose(p) ==
    /\ On(p, "idle") /\ ipr[p].fd # 0
    /\ ipr' = [ipr EXCEPT ![p] = [ipr[p] EXCEPT !.pc = "iput", !.then = "return", !.call = "close",
                                                 !.ip = ipr[p].fd, !.fd = 0]]
    /\ UNCHANGED <<dino, itab, dent, dhold, calls, lost, ipanic>>

\* dirlookup() in the locked directory.  namex() and create() let the
\* directory go once they have the inode, sys_unlink() does not.
After(call) == IF call = "unlink" THEN "clear" ELSE IF call = "link" THEN "count" ELSE "fill"
Lookup(p) ==
    /\ On(p, "dir") /\ dent[ipr[p].name] # 0
    /\ iget(p, dent[ipr[p].name], "ilock", After(ipr[p].call))
    /\ dhold' = IF ipr[p].call = "unlink" THEN p ELSE 0
    /\ UNCHANGED <<dino, dent, calls, lost>>

NotThere(p) ==
    /\ On(p, "dir") /\ dent[ipr[p].name] = 0
    /\ IF ipr[p].call = "create" THEN /\ ipr' = [ipr EXCEPT ![p] = [ipr[p] EXCEPT !.pc = "ialloc", !.inum = 1]]
                                      /\ UNCHANGED dhold
       ELSE ipr' = Return(p) /\ dhold' = 0
    /\ UNCHANGED <<dino, itab, dent, calls, lost, ipanic>>

\* sys_open(): a file and a descriptor for the locked inode, or none.
OpenFile(p) ==
    /\ On(p, "fill")
    /\ \/ /\ itab' = [itab EXCEPT ![ipr[p].ip].holder = 0]
          /\ ipr' = [ipr EXCEPT ![p] = [Idle EXCEPT !.fd = ipr[p].ip, !.want = ip(p).mem.gen]]
       \/ /\ itab' = [itab EXCEPT ![ipr[p].ip].holder = 0]
          /\ ipr' = Call(p, "iput", "return")
    /\ UNCHANGED <<dino, dent, dhold, calls, lost, ipanic>>

\* ialloc(): one disk inode per step; then iget() in a step of its own.
ialloc(p) ==
    /\ On(p, "ialloc")
    /\ LET i == ipr[p].inum IN
       IF ~dino[i].alloc
       THEN /\ dino' = [dino EXCEPT ![i] = [alloc |-> TRUE, nlink |-> 0, gen |-> dino[i].gen + 1]]
            /\ ipr' = To(p, "iget") /\ UNCHANGED dhold
       ELSE IF i < INodes THEN ipr' = [ipr EXCEPT ![p].inum = i + 1] /\ UNCHANGED <<dino, dhold>>
       ELSE ipr' = Return(p) /\ dhold' = 0 /\ UNCHANGED dino
    /\ UNCHANGED <<itab, dent, calls, lost, ipanic>>

iallocGet(p) ==
    /\ On(p, "iget")
    /\ iget(p, ipr[p].inum, "ilock", "init")
    /\ UNCHANGED <<dino, dent, dhold, calls, lost>>

\* create(): one link, then the entry; when it cannot be written, no link.
createInit(p) ==
    /\ On(p, "init")
    /\ SetLinks(p, 1) /\ ipr' = To(p, "enter")
    /\ UNCHANGED <<dent, dhold, calls, lost, ipanic>>

createEnter(p) ==
    /\ On(p, "enter")
    /\ dent' = [dent EXCEPT ![ipr[p].name] = ipr[p].inum]
    /\ dhold' = 0 /\ ipr' = To(p, "fill")
    /\ UNCHANGED <<dino, itab, calls, lost, ipanic>>

\* A bug: the failed file keeps its link.
createFailKeepsLink(p) ==
    /\ On(p, "enter")
    /\ itab' = [itab EXCEPT ![ipr[p].ip].holder = 0] /\ UNCHANGED dino
    /\ ipr' = Call(p, "iput", "leave")
    /\ UNCHANGED <<dent, dhold, calls, lost, ipanic>>
createFail(p) ==
    /\ On(p, "enter")
    /\ LET c == [ip(p).mem EXCEPT !.nlink = 0]
       IN  /\ itab' = [itab EXCEPT ![ipr[p].ip] = [ip(p) EXCEPT !.mem = c, !.holder = 0]]
           /\ dino' = [dino EXCEPT ![ip(p).inum] = c]
    /\ ipr' = Call(p, "iput", "leave")
    /\ UNCHANGED <<dent, dhold, calls, lost, ipanic>>

\* sys_unlink(): the entry, and with the directory free the link count.
unlinkClear(p) ==
    /\ On(p, "clear")
    /\ ipanic' = (ip(p).mem.nlink < 1)                       \* panic("unlink: nlink < 1")
    /\ dent' = [dent EXCEPT ![ipr[p].name] = 0]
    /\ dhold' = 0 /\ ipr' = To(p, "discount")
    /\ UNCHANGED <<dino, itab, calls, lost>>

\* sys_link(): the link is counted before the entry is made.
linkCount(p) ==
    /\ On(p, "count")
    /\ SetLinks(p, ip(p).mem.nlink + 1)
    /\ ipr' = [ipr EXCEPT ![p] = [ipr[p] EXCEPT !.src = ipr[p].ip, !.pc = "unlock", !.then = "dir2"]]
    /\ UNCHANGED <<dent, dhold, calls, lost, ipanic>>

linkDir(p) ==
    /\ On(p, "dir2") /\ dhold = 0
    /\ dhold' = p /\ ipr' = To(p, "dirlink")
    /\ UNCHANGED <<dino, itab, dent, calls, lost, ipanic>>

\* dirlink(): with the name there, its inode is referred to for a moment.
linkExists(p) ==
    /\ On(p, "dirlink") /\ dent[ipr[p].to] # 0
    /\ iget(p, dent[ipr[p].to], "iput", "bad")
    /\ UNCHANGED <<dino, dent, dhold, calls, lost>>

linkEnter(p) ==
    /\ On(p, "dirlink") /\ dent[ipr[p].to] = 0
    /\ dent' = [dent EXCEPT ![ipr[p].to] = ip(p).inum]
    /\ dhold' = 0 /\ ipr' = Call(p, "iput", "return")
    /\ UNCHANGED <<dino, itab, calls, lost, ipanic>>

\* bad: the directory is full or has the name; the link is taken back.
linkBad(p) ==
    /\ On(p, "bad") \/ (On(p, "dirlink") /\ dent[ipr[p].to] = 0)
    /\ dhold' = 0
    /\ ipr' = [ipr EXCEPT ![p] = [ipr[p] EXCEPT !.ip = ipr[p].src, !.pc = "ilock", !.then = "discount"]]
    /\ UNCHANGED <<dino, itab, dent, calls, lost, ipanic>>

\* nlink--, iupdate() and iunlockput().
Discount(p) ==
    /\ On(p, "discount")
    /\ LET c == [ip(p).mem EXCEPT !.nlink = @ - 1]
       IN  /\ itab' = [itab EXCEPT ![ipr[p].ip] = [ip(p) EXCEPT !.mem = c, !.holder = 0]]
           /\ dino' = [dino EXCEPT ![ip(p).inum] = c]
    /\ ipr' = Call(p, "iput", "return")
    /\ UNCHANGED <<dent, dhold, calls, lost, ipanic>>

\* iunlock(): a use of the open file ends, or sys_link() goes on.
iunlock(p) ==
    /\ On(p, "unlock")
    /\ itab' = [itab EXCEPT ![ipr[p].ip].holder = 0]
    /\ ipr' = IF ipr[p].call = "use" THEN Return(p) ELSE Back(p)
    /\ UNCHANGED <<dino, dent, dhold, calls, lost, ipanic>>

\* create() that failed lets the directory go.
createLeave(p) ==
    /\ On(p, "leave")
    /\ dhold' = 0 /\ ipr' = Return(p)
    /\ UNCHANGED <<dino, itab, dent, calls, lost, ipanic>>

AllIdle == \A p \in IProc : ipr[p].pc = "idle"
ItableDone == AllIdle /\ calls = MaxCalls /\ UNCHANGED ivars

ItableNext ==
    \/ \E p \in IProc :
         \/ ilock(p) \/ ilockRead(p) \/ iput(p) \/ iputFree(p) \/ iputDone(p) \/ iputDrop(p) \/ iunlock(p)
         \/ BeginUse(p) \/ BeginClose(p) \/ Lookup(p) \/ NotThere(p) \/ OpenFile(p)
         \/ ialloc(p) \/ iallocGet(p) \/ createInit(p) \/ createEnter(p) \/ createFail(p)
         \/ unlinkClear(p) \/ linkCount(p) \/ linkDir(p) \/ linkExists(p) \/ linkEnter(p) \/ linkBad(p)
         \/ Discount(p) \/ createLeave(p)
         \/ \E n, m \in INames, call \in {"open", "create", "unlink", "link"} :
              (call = "link" \/ m = n) /\ Begin(p, call, n, m)
    \/ ItableDone

ItableSpec == ItableInit /\ [][ItableNext]_ivars

---------------------------------------------------------------------------
\* Every entry is in use and some inode has none.
TableFull == \E i \in Inum : InTable(i) \cup Unref = {}

\* The table is a cache of the disk: two entries never stand for one inode,
\* and the copy in an entry that nobody has locked is what the disk has,
\* although ialloc() may take a freed inode before iput() drops its entry.
\* And one panic of fs.c and sysfile.c is reached, that of iget() when the
\* table is full: ilock() reads no free inode, sys_unlink() meets no file
\* without links, and the lock that iput() takes with itable.lock held is
\* free, as its comment says.
ItableCoherent ==
    /\ \A s, t \in Slot : itab[s].ref > 0 /\ itab[t].ref > 0 /\ itab[s].inum = itab[t].inum => s = t
    /\ \A s \in Slot : itab[s].ref > 0 /\ itab[s].valid /\ itab[s].holder = 0 => itab[s].mem = dino[itab[s].inum]
    /\ ipanic => TableFull

\* An open file stays the file that was opened, whoever unlinks it, links it
\* or creates others meanwhile: its inode is not freed or given away.
OpenFileStays ==
    \A p \in IProc : ipr[p].fd # 0 =>
        LET s == itab[ipr[p].fd] IN s.ref > 0 /\ dino[s.inum].alloc /\ dino[s.inum].gen = ipr[p].want

\* When no call is under way the counts are exact, whichever calls failed half
\* way: the links of an inode are its names, the references to an entry are
\* the open files, and an inode is allocated as long as it has either.  An
\* inode stays allocated without any only in the race of iputDrop.
Names(i) == Cardinality({n \in INames : dent[n] = i})
Opens(i) == Cardinality({p \in IProc : ipr[p].fd # 0 /\ itab[ipr[p].fd].inum = i})
ItableExact ==
    AllIdle /\ ~ipanic =>
        /\ \A i \in Inum : /\ dino[i].alloc <=> Names(i) + Opens(i) > 0 \/ i \in lost
                           /\ dino[i].alloc => dino[i].nlink = Names(i)
        /\ \A s \in Slot : /\ itab[s].ref = IF itab[s].ref > 0 THEN Opens(itab[s].inum) ELSE 0
                           /\ itab[s].holder = 0
        /\ dhold = 0
=============================================================================
