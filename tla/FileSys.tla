------------------------------ MODULE FileSys ------------------------------
(***************************************************************************)
(* The inode layer and the path names of xv6 (kernel/fs.c) and the file    *)
(* system calls built on them (kernel/sysfile.c), at the granularity of    *)
(* one system call: every operator takes the file system it finds and      *)
(* returns the one it leaves, whatever happens on the way.  The locks and  *)
(* the log transactions that make a call atomic are the business of the    *)
(* modules Itable, Log and Bcache.                                         *)
(*                                                                         *)
(* A file system is a record: ino, the inodes of the disk; ref, the        *)
(* references counted in the inode table; free, the clear bits of the      *)
(* block bitmap; panic, the message of the panic that stopped the kernel.  *)
(* A block holds BSIZE units; a unit is a character of a file or an entry  *)
(* of a directory.  The block numbers themselves are abstracted to how     *)
(* many blocks an inode owns (nb of data, ind: the indirect block).        *)
(***************************************************************************)
EXTENDS Integers, Sequences, FiniteSets, SequencesExt

CONSTANTS NINODES,      \* inodes on the disk, 1 is the root directory
          NINODE,       \* entries of the inode table in memory
          BSIZE,        \* units of a block
          NDIRECT,      \* direct blocks of an inode
          NINDIRECT     \* blocks the indirect block lists

ASSUME FsAssumption == /\ {NINODES, NINODE, BSIZE, NDIRECT} \subseteq Nat \ {0}
                       /\ NINDIRECT \in Nat

Inum == 1..NINODES
ROOTINO == 1
MAXFILE == NDIRECT + NINDIRECT
None == 0                       \* the null pointer

NoInode == [type |-> "free", nlink |-> 0, data |-> <<>>, nb |-> 0, ind |-> 0]
Entry(name, inum) == [name |-> name, inum |-> inum]

CeilDiv(a, b) == (a + b - 1) \div b
Panic(fs, what) == [fs EXCEPT !.panic = IF @ = "" THEN what ELSE @]

---------------------------------------------------------------------------
(* The inode table.  iget() takes a reference and panics when NINODE       *)
(* different inodes are in use; ilock() reads the inode and panics when it *)
(* is not allocated; the last iput() of an unlinked inode frees it.        *)

iget(fs, i) ==
    IF fs.ref[i] = 0 /\ Cardinality({j \in Inum : fs.ref[j] > 0}) = NINODE
    THEN Panic(fs, "iget: no inodes") ELSE [fs EXCEPT !.ref[i] = @ + 1]

ilock(fs, i) == IF fs.ino[i].type = "free" THEN Panic(fs, "ilock: no type") ELSE fs

itrunc(fs, i) ==
    [fs EXCEPT !.free = @ + fs.ino[i].nb + fs.ino[i].ind,
               !.ino[i].data = <<>>, !.ino[i].nb = 0, !.ino[i].ind = 0]

iput(fs, i) ==
    LET last == fs.ref[i] = 1 /\ fs.ino[i].nlink = 0
        fs1  == IF last THEN [itrunc(fs, i) EXCEPT !.ino[i] = NoInode] ELSE fs
    IN  [fs1 EXCEPT !.ref[i] = @ - 1]

\* ialloc(): the first free inode of the disk, with a reference; None when
\* there is none.
ialloc(fs, type) ==
    LET unused == {i \in Inum : fs.ino[i].type = "free"}
        i == CHOOSE i \in unused : \A j \in unused : i <= j
    IN  IF unused = {} THEN [fs |-> fs, ip |-> None]
        ELSE [fs |-> iget([fs EXCEPT !.ino[i].type = type], i), ip |-> i]

---------------------------------------------------------------------------
(* Contents.  bmap() allocates the block it is asked for, and the indirect *)
(* block before it; when the disk is full the block is missing but the     *)
(* indirect block stays with the inode.                                    *)

balloc(fs) == IF fs.free = 0 THEN [fs |-> fs, ok |-> FALSE]
              ELSE [fs |-> [fs EXCEPT !.free = @ - 1], ok |-> TRUE]

bmap(fs, i, bn) ==
    IF bn < fs.ino[i].nb THEN [fs |-> fs, ok |-> TRUE]
    ELSE LET needInd == bn >= NDIRECT /\ fs.ino[i].ind = 0
             b1  == balloc(fs)
             fs1 == IF needInd THEN [b1.fs EXCEPT !.ino[i].ind = 1] ELSE fs
             b2  == balloc(fs1)
         IN  IF needInd /\ ~b1.ok THEN b1
             ELSE IF b2.ok THEN [b2 EXCEPT !.fs.ino[i].nb = @ + 1] ELSE b2

Lesser(a, b) == IF a < b THEN a ELSE b

readi(fs, i, off, n) ==
    LET size == Len(fs.ino[i].data)
    IN  IF off > size THEN <<>> ELSE SubSeq(fs.ino[i].data, off + 1, Lesser(off + n, size))

Overwrite(data, off, src) ==
    SubSeq(data, 1, off) \o src \o SubSeq(data, off + Len(src) + 1, Len(data))

\* A turn of the loop of writei(), w.n units into src: what fits in the next
\* block; the loop has ended (w.end) when everything is written, the disk is
\* full, or the units cannot be copied from the caller (~ok).
writeBlock(w, i, off, src, ok) ==
    LET b == bmap(w.fs, i, (off + w.n) \div BSIZE)
        m == Lesser(Len(src) - w.n, BSIZE - ((off + w.n) % BSIZE))
    IN  IF w.end \/ w.n = Len(src) THEN w
        ELSE IF ~b.ok \/ ~ok THEN [w EXCEPT !.fs = b.fs, !.end = TRUE]
        ELSE [w EXCEPT !.fs = [b.fs EXCEPT !.ino[i].data =
                                  Overwrite(@, off + w.n, SubSeq(src, w.n + 1, w.n + m))],
                       !.n = @ + m]

\* Every turn but the last writes a unit or more.
writeBlocks(fs, i, off, src, ok) ==
    LET turn[k \in 0..Len(src)] ==
            IF k = 0 THEN [fs |-> fs, n |-> 0, end |-> FALSE]
            ELSE writeBlock(turn[k - 1], i, off, src, ok)
    IN  turn[Len(src)]

writei(fs, i, off, src, ok) ==
    IF off > Len(fs.ino[i].data) \/ off + Len(src) > MAXFILE * BSIZE
    THEN [fs |-> fs, n |-> -1]
    ELSE writeBlocks(fs, i, off, src, ok)

---------------------------------------------------------------------------
(* Directories and path names.  A path is a record: ok, its string could   *)
(* be copied from the caller; abs, it starts with a slash; elems, its      *)
(* elements.  An element longer than DIRSIZ is cut by skipelem().          *)

Path(abs, elems) == [ok |-> TRUE, abs |-> abs, elems |-> elems]
Rel(elems) == Path(FALSE, elems)
Abs(elems) == Path(TRUE, elems)
BadPath == [ok |-> FALSE, abs |-> FALSE, elems |-> <<>>]

\* "name15" stands for a name of DIRSIZ + 1 characters, "name14" for the same
\* name without its last one.
skipelem(elem) == IF elem = "name15" THEN "name14" ELSE elem

\* The slot of a name in a directory, None when it is not there.
dirSlot(fs, dp, name) ==
    LET data == fs.ino[dp].data
        hits == {s \in DOMAIN data : data[s].inum # None /\ data[s].name = name}
    IN  IF hits = {} THEN None ELSE CHOOSE s \in hits : \A t \in hits : s <= t

dirlookup(fs, dp, name) ==
    LET s == dirSlot(fs, dp, name)
        inum == fs.ino[dp].data[s].inum
    IN  IF s = None THEN [fs |-> fs, ip |-> None]
        ELSE [fs |-> iget(fs, inum), ip |-> inum]

\* dirlink(): the first free entry, or one at the end.
firstFree(data) ==
    LET frees == {s \in DOMAIN data : data[s].inum = None}
    IN  IF frees = {} THEN Len(data) ELSE (CHOOSE s \in frees : \A t \in frees : s <= t) - 1
Written(w) == [fs |-> w.fs, ok |-> w.n = 1]
Exists(found) == [fs |-> iput(found.fs, found.ip), ok |-> FALSE]
dirlink(fs, dp, name, inum) ==
    IF dirSlot(fs, dp, name) # None THEN Exists(dirlookup(fs, dp, name))
    ELSE Written(writei(fs, dp, firstFree(fs.ino[dp].data), <<Entry(name, inum)>>, TRUE))

\* A turn of the loop of namex(): from the inode w.ip, of which a reference is
\* held, to the one that elem names in it; stop, at the last element when the
\* parent is wanted.  After a failure w.ip is None.
walkElem(w, elem, stop) ==
    LET fs1  == ilock(w.fs, w.ip)
        next == dirlookup(fs1, w.ip, skipelem(elem))
    IN  IF w.ip = None THEN w
        ELSE IF fs1.panic # "" THEN [fs |-> fs1, ip |-> None]
        ELSE IF fs1.ino[w.ip].type # "dir" THEN [fs |-> iput(fs1, w.ip), ip |-> None]
        ELSE IF stop THEN [fs |-> fs1, ip |-> w.ip]
        ELSE IF next.ip = None THEN [fs |-> iput(fs1, w.ip), ip |-> None]
        ELSE [fs |-> iput(next.fs, w.ip), ip |-> next.ip]

walkPath(fs, ip, elems, parent) ==
    LET walk[k \in 0..Len(elems)] ==
            IF k = 0 THEN [fs |-> fs, ip |-> ip]
            ELSE walkElem(walk[k - 1], elems[k], parent /\ k = Len(elems))
    IN  walk[Len(elems)]

namex(fs, cwd, path, parent) ==
    LET start == IF path.abs THEN ROOTINO ELSE cwd
    IN  IF parent /\ path.elems = <<>>
        THEN [fs |-> iput(iget(fs, start), start), ip |-> None]
        ELSE walkPath(iget(fs, start), start, path.elems, parent)
namei(fs, cwd, path) == namex(fs, cwd, path, FALSE)
nameiparent(fs, cwd, path) == namex(fs, cwd, path, TRUE)
BaseName(path) == skipelem(Last(path.elems))

---------------------------------------------------------------------------
(* The system calls on names.  Each returns fs, the result ret and, where  *)
(* there is one, the inode it leaves referenced.                           *)

Ret(fs, n) == [fs |-> fs, ret |-> n]

\* create(): a new inode with its name; an existing file or device is
\* returned when a file is wanted.  The steps, from the last one to the first:
\* give everything up, write the name, write "." and "..", take an inode, look
\* the name up, find the directory.
createFail(fs, ip, dp) ==
    [fs |-> iput(iput([fs EXCEPT !.ino[ip].nlink = 0], ip), dp), ip |-> None]
createDone(link, ip, dp, type) ==
    IF ~link.ok THEN createFail(link.fs, ip, dp)
    ELSE [fs |-> iput([link.fs EXCEPT !.ino[dp].nlink = IF type = "dir" THEN @ + 1 ELSE @], dp), ip |-> ip]
createLink(dots, ip, dp, name, type) ==
    IF ~dots.ok THEN createFail(dots.fs, ip, dp)
    ELSE createDone(dirlink(dots.fs, dp, name, ip), ip, dp, type)
dotdot(dot, ip, dp) == IF ~dot.ok THEN dot ELSE dirlink(dot.fs, ip, "..", dp)
createDots(fs, ip, dp, type) ==
    IF type = "dir" THEN dotdot(dirlink(fs, ip, ".", ip), ip, dp) ELSE [fs |-> fs, ok |-> TRUE]
createNew(new, dp, name, type) ==
    IF new.ip = None THEN [fs |-> iput(new.fs, dp), ip |-> None]
    ELSE createLink(createDots([new.fs EXCEPT !.ino[new.ip].nlink = 1], new.ip, dp, type),
                    new.ip, dp, name, type)
createOld(fs, ip, type) ==
    IF type = "file" /\ fs.ino[ip].type \in {"file", "dev"} THEN [fs |-> fs, ip |-> ip]
    ELSE [fs |-> iput(fs, ip), ip |-> None]
createName(old, dp, name, type) ==
    IF old.ip = None THEN createNew(ialloc(old.fs, type), dp, name, type)
    ELSE createOld(ilock(iput(old.fs, dp), old.ip), old.ip, type)
createIn(dir, name, type) ==
    IF dir.ip = None THEN dir
    ELSE createName(dirlookup(ilock(dir.fs, dir.ip), dir.ip, name), dir.ip, name, type)
create(fs, cwd, path, type) == createIn(nameiparent(fs, cwd, path), BaseName(path), type)

\* sys_mkdir() and sys_mknod() put the inode they created.
Made(c) == IF c.ip = None THEN Ret(c.fs, -1) ELSE Ret(iput(c.fs, c.ip), 0)
sys_mkdir(fs, cwd, path) == IF path.ok THEN Made(create(fs, cwd, path, "dir")) ELSE Ret(fs, -1)
sys_mknod(fs, cwd, path) == IF path.ok THEN Made(create(fs, cwd, path, "dev")) ELSE Ret(fs, -1)

\* sys_link(): the count of the inode goes up before the name is written and
\* comes down again when it cannot be (linkBad).
\* A bug: the error path forgets to take the count back.
linkBadForgets(fs, ip) == Ret(iput(fs, ip), -1)
linkBad(fs, ip) == Ret(iput([fs EXCEPT !.ino[ip].nlink = @ - 1], ip), -1)
linkDone(l, ip, dp) == IF l.ok THEN Ret(iput(iput(l.fs, dp), ip), 0) ELSE linkBad(iput(l.fs, dp), ip)
linkName(dir, ip, name) ==
    IF dir.ip = None THEN linkBad(dir.fs, ip)
    ELSE linkDone(dirlink(ilock(dir.fs, dir.ip), dir.ip, name, ip), ip, dir.ip)
linkInode(fs, ip, cwd, new) ==
    IF fs.ino[ip].type = "dir" THEN Ret(iput(fs, ip), -1)
    ELSE linkName(nameiparent([fs EXCEPT !.ino[ip].nlink = @ + 1], cwd, new), ip, BaseName(new))
linkOld(o, cwd, new) == IF o.ip = None THEN Ret(o.fs, -1) ELSE linkInode(ilock(o.fs, o.ip), o.ip, cwd, new)
sys_link(fs, cwd, old, new) ==
    IF old.ok /\ new.ok THEN linkOld(namei(fs, cwd, old), cwd, new) ELSE Ret(fs, -1)

\* A bug: the loop starts after the first real entry.
isdiremptySkips(fs, dp) == \A s \in DOMAIN fs.ino[dp].data : s <= 3 \/ fs.ino[dp].data[s].inum = None
isdirempty(fs, dp) == \A s \in DOMAIN fs.ino[dp].data : s <= 2 \/ fs.ino[dp].data[s].inum = None

\* sys_unlink(): of the inode ip that name stands for in dp, both locked.
unlinkPut(fs, ip) == Ret(iput([fs EXCEPT !.ino[ip].nlink = @ - 1], ip), 0)
unlinkInode(fs, ip, dp, name) ==
    IF fs.ino[ip].nlink < 1 THEN Ret(Panic(fs, "unlink: nlink < 1"), -1)
    ELSE IF fs.ino[ip].type = "dir" /\ ~isdirempty(fs, ip) THEN Ret(iput(iput(fs, ip), dp), -1)
    ELSE unlinkPut(iput([fs EXCEPT !.ino[dp].data[dirSlot(fs, dp, name)] = Entry("", None),
                                   !.ino[dp].nlink = IF fs.ino[ip].type = "dir" THEN @ - 1 ELSE @], dp), ip)
unlinkName(hit, dp, name) ==
    IF hit.ip = None THEN Ret(iput(hit.fs, dp), -1)
    ELSE unlinkInode(ilock(hit.fs, hit.ip), hit.ip, dp, name)
unlinkIn(dir, name) ==
    IF dir.ip = None THEN Ret(dir.fs, -1)
    ELSE IF name \in {".", ".."} THEN Ret(iput(ilock(dir.fs, dir.ip), dir.ip), -1)
    ELSE unlinkName(dirlookup(ilock(dir.fs, dir.ip), dir.ip, name), dir.ip, name)
sys_unlink(fs, cwd, path) ==
    IF path.ok THEN unlinkIn(nameiparent(fs, cwd, path), BaseName(path)) ELSE Ret(fs, -1)

Moved(fs, n, cwd) == [fs |-> fs, ret |-> n, cwd |-> cwd]
\* A bug: the reference to what is no directory is not put back.
chdirToForgets(fs, ip, cwd) ==
    IF fs.ino[ip].type # "dir" THEN Moved(fs, -1, cwd) ELSE Moved(iput(fs, cwd), 0, ip)
chdirTo(fs, ip, cwd) ==
    IF fs.ino[ip].type # "dir" THEN Moved(iput(fs, ip), -1, cwd) ELSE Moved(iput(fs, cwd), 0, ip)
chdirFound(n, cwd) == IF n.ip = None THEN Moved(n.fs, -1, cwd) ELSE chdirTo(ilock(n.fs, n.ip), n.ip, cwd)
sys_chdir(fs, cwd, path) ==
    IF path.ok THEN chdirFound(namei(fs, cwd, path), cwd) ELSE Moved(fs, -1, cwd)
=============================================================================
