------------------------------- MODULE FatFs --------------------------------
(***************************************************************************)
(* The FAT file system of lab4: the cluster chains of fat_table.c, the     *)
(* files of fat_file.c and the FUSE operations of fat_fuse_ops.c on the    *)
(* files of the root directory.                                            *)
(*                                                                         *)
(* FUSE runs single-threaded (-s), so an operation is one step; the hard   *)
(* part is the sequence of calls of any number of client programs, and     *)
(* what is on the image (fat, data, dir) against what is in memory (file,  *)
(* nentries, children_read).  A cluster has CS units of data.  A unit      *)
(* holds the file and the position it was written for, so a byte that a    *)
(* read would find in the wrong place shows.                               *)
(*                                                                         *)
(* errno is a variable: operations that do not reset it see what an        *)
(* earlier one left.  An access outside the mapped table kills the daemon. *)
(* Reads and writes of the image itself do not fail.                       *)
(***************************************************************************)
EXTENDS Integers, FiniteSets

CONSTANTS
    Files,        \* names that programs use
    OnImage,      \* those that are on the image from the start, one unit long
    N,            \* data clusters, the root directory's included
    CS,           \* units per cluster
    DirCap,       \* entries of the root directory's cluster
    Lengths,      \* sizes passed to write
    LogLen,       \* length of a line of fs.log
    MaxSize,      \* bound: no file, fs.log included, grows past this
    ListFirst     \* TRUE: the root is listed before files are used

ASSUME FatAssumption ==
    /\ OnImage \subseteq Files /\ Files \cap {"fs.log", "end", "deleted"} = {}
    /\ IsFiniteSet(OnImage) /\ Cardinality(OnImage) < DirCap
    /\ N \in Nat /\ Cardinality(OnImage) < N /\ DirCap \in Nat /\ MaxSize \in Nat
    /\ CS \in Nat \ {0}
    /\ Lengths \subseteq Nat \ {0}
    /\ LogLen \in Nat \ {0}
    /\ ListFirst \in BOOLEAN

Names == Files \cup {"fs.log"}
FREE == 0
EOC == 1                  \* FAT_CLUSTER_END_OF_CHAIN: no cluster has number 1
Clusters == 2..(N + 1)
RootCluster == 2
Units == 0..(CS - 1)
Slots == 0..(DirCap - 1)
Blank == <<"", 0>>        \* a unit nobody has written
Entry(nm, st, sz) == [name |-> nm, start |-> st, size |-> sz]
End == Entry("end", 0, 0)
Deleted == Entry("deleted", 0, 0)
NoFile == [start |-> 0, size |-> 0, pos |-> 0]

VARIABLES
    fs,     \* the image and the daemon's memory
    open    \* the files that programs have open

vars == <<fs, open>>

-----------------------------------------------------------------------------
(* fat_table.c *)

Min(a, b) == IF a < b THEN a ELSE b

\* fat_table_get_next_cluster: what is no cluster number is the end.
NextCluster(fat, c) == IF fat[c] \in Clusters THEN fat[c] ELSE EOC

\* fat_table_get_next_free_cluster
NextFree(fat) ==
    LET free == {c \in Clusters : fat[c] = FREE} IN
    IF free = {} THEN EOC ELSE CHOOSE c \in free : \A d \in free : c <= d

\* The cluster k links after c; EOC past the end.
Walk(fat, c, k) ==
    LET w[i \in 0..k] == IF i = 0 THEN c
                         ELSE IF w[i - 1] = EOC THEN EOC
                         ELSE NextCluster(fat, w[i - 1])
    IN w[k]

\* fat_table_seek_cluster, and when it fails.
Seek(fat, c, off) == Walk(fat, c, off \div CS)
SeekFails(fat, c, off) == off >= CS /\ Walk(fat, c, off \div CS - 1) = EOC

\* The clusters from c to the end of its chain.
Chain(fat, c) == {Walk(fat, c, k) : k \in 0..N} \ {EOC}

\* The loop that marks the clusters from c on as not used.
FreeChain(fat, c) ==
    [d \in Clusters |-> IF c # EOC /\ d \in Chain(fat, c) THEN FREE ELSE fat[d]]

\* fat_table_get_clusters_for_size, at least 1.
NumClusters(size) == IF size = 0 THEN 1 ELSE (size + CS - 1) \div CS

-----------------------------------------------------------------------------
(* fat_file.c *)

\* The daemon touches memory it has not mapped.
Segfault(s) == [s EXCEPT !.up = FALSE]

\* write_dir_entry: the root directory has one cluster.
WriteDirEntry(s, pos, e) ==
    IF DirCap <= pos THEN [s EXCEPT !.errno = "ENOSPC"]
                     ELSE [s EXCEPT !.dir[pos] = e]

\* The same for the entry of f, at pos_in_parent.
WriteEntry(s, f) ==
    WriteDirEntry(s, s.file[f].pos, Entry(f, s.file[f].start, s.file[f].size))

\* Mutant: a turn writes at the start of the cluster, whatever the offset.
WriteClusterNoMask(f, w) ==
    LET k == Min(CS, w.rem)
        next == NextCluster(w.fat, w.cluster)
        more == w.rem > k
    IN
    IF w.rem = 0 THEN w ELSE
    [w EXCEPT
       !.data[w.cluster] = [u \in Units |-> IF u < k THEN <<f, w.off + u>> ELSE @[u]],
       !.off = @ + k,
       !.rem = @ - k,
       !.fat[w.cluster] = IF more /\ next = EOC THEN NextFree(w.fat) ELSE @,
       !.cluster = IF more /\ next # EOC THEN next ELSE @,
       !.spilled = @ \/ (more /\ next = EOC)]

\* One turn of the loop of fat_file_pwrite on cluster w.cluster.  When the
\* chain ends here and units are left, the turn links a cluster, does not mark
\* it as used and does not go to it: spilled records that this has happened.
WriteCluster(f, w) ==
    LET mask == w.off % CS
        k == Min(CS - mask, w.rem)
        next == NextCluster(w.fat, w.cluster)
        more == w.rem > k
    IN
    IF w.rem = 0 THEN w ELSE
    [w EXCEPT
       !.data[w.cluster] = [u \in Units |-> IF u \in mask..(mask + k - 1)
                                            THEN <<f, w.off + u - mask>> ELSE @[u]],
       !.off = @ + k,
       !.rem = @ - k,
       !.fat[w.cluster] = IF more /\ next = EOC THEN NextFree(w.fat) ELSE @,
       !.cluster = IF more /\ next # EOC THEN next ELSE @,
       !.spilled = @ \/ (more /\ next = EOC)]

\* The loop: n turns are enough for n units.
WriteLoop(f, w, n) ==
    LET turn[i \in 0..n] == IF i = 0 THEN w ELSE WriteCluster(f, turn[i - 1])
    IN turn[n]

\* A file always gets the cluster after the one it writes to.
Preallocate(s, c) ==
    LET new == NextFree(s.fat) IN
    IF NextCluster(s.fat, c) # EOC THEN s
    ELSE IF new = EOC THEN Segfault([s EXCEPT !.fat[c] = EOC])
    ELSE [s EXCEPT !.fat = [@ EXCEPT ![c] = new, ![new] = EOC]]

\* fat_file_pwrite of n units at off.
Pwrite(s, f, off, n) ==
    LET d == s.file[f]
        c == Seek(s.fat, d.start, off)
        s1 == Preallocate(s, c)
        w == WriteLoop(f, [fat |-> s1.fat, data |-> s1.data, cluster |-> c,
                           off |-> off, rem |-> n, spilled |-> s1.spilled], n)
        s2 == [s1 EXCEPT !.fat = w.fat, !.data = w.data, !.spilled = w.spilled,
                         !.file[f].size = IF off + n > @ THEN off + n ELSE @]
    IN
    IF off > d.size \/ SeekFails(s.fat, d.start, off) THEN [s EXCEPT !.errno = "EOVERFLOW"]
    ELSE IF s.errno # "none" THEN s
    ELSE IF c = EOC THEN Segfault(s)
    ELSE IF s1.up THEN WriteEntry(s2, f) ELSE s1

\* Mutant: fat_file_truncate does not write the directory entry.
TruncNoEntry(s, f, off) ==
    LET d == s.file[f]
        last == Seek(s.fat, d.start, off)
        next == NextCluster(s.fat, last)
        cut == [s.fat EXCEPT ![last] = EOC]
    IN
    IF off > d.size \/ NumClusters(off) >= NumClusters(d.size) THEN s
    ELSE [s EXCEPT !.fat = FreeChain(cut, next), !.file[f].size = off]

\* fat_file_truncate: cut the chain at the cluster of off, free the rest.
Trunc(s, f, off) ==
    LET d == s.file[f]
        last == Seek(s.fat, d.start, off)
        next == NextCluster(s.fat, last)
        cut == [s.fat EXCEPT ![last] = EOC]
    IN
    IF off > d.size \/ NumClusters(off) >= NumClusters(d.size) THEN s
    ELSE IF SeekFails(s.fat, d.start, off) THEN [s EXCEPT !.errno = "EOVERFLOW"]
    ELSE IF last = EOC THEN Segfault(s)
    ELSE WriteEntry([s EXCEPT !.fat = FreeChain(cut, next),
                              !.file[f].size = off], f)

\* fat_file_pread at off: a read that finds something dates the entry.
Pread(s, f, off) ==
    IF off > s.file[f].size THEN [s EXCEPT !.errno = "EOVERFLOW"]
    ELSE IF off = s.file[f].size THEN s
    ELSE IF SeekFails(s.fat, s.file[f].start, off) THEN [s EXCEPT !.errno = "EOVERFLOW"]
    ELSE WriteEntry(s, f)

\* fat_file_init: an empty file with a cluster of its own.
FileInit(s, f) ==
    LET c == NextFree(s.fat) IN
    IF c = EOC THEN Segfault(s)
    ELSE [s EXCEPT !.fat[c] = EOC,
                   !.file[f] = [start |-> c, size |-> 0, pos |-> 0]]

\* Mutant: fat_file_dentry_add_child does not count the new entry.
AddChildNotCounted(s, f) ==
    LET s1 == WriteDirEntry(s, s.nentries, Entry(f, s.file[f].start, 0)) IN
    IF s1.errno # "none" THEN s1 ELSE [s1 EXCEPT !.file[f].pos = s.nentries]

\* fat_file_dentry_add_child: the entry goes to position nentries.
AddChild(s, f) ==
    LET s1 == WriteDirEntry(s, s.nentries, Entry(f, s.file[f].start, 0)) IN
    IF s1.errno # "none" THEN s1
    ELSE [s1 EXCEPT !.file[f].pos = s.nentries, !.nentries = @ + 1]

\* fat_file_read_children: the entries up to the end mark; a name that is
\* in the tree already is not inserted again.
ReadChildren(s) ==
    LET ends == {i \in Slots : s.dir[i] = End}
        end == IF ends = {} THEN DirCap
               ELSE CHOOSE i \in ends : \A j \in ends : i <= j
        at(f) == {i \in 0..(end - 1) : s.dir[i].name = f}
        first(f) == CHOOSE i \in at(f) : \A j \in at(f) : i <= j
    IN
    [s EXCEPT
       !.file = [f \in Names |->
                    IF f \in s.tree \/ at(f) = {} THEN s.file[f]
                    ELSE [start |-> s.dir[first(f)].start,
                          size |-> s.dir[first(f)].size, pos |-> first(f)]],
       !.tree = @ \cup {f \in Names : at(f) # {}},
       !.nentries = end,
       !.children_read = TRUE]

-----------------------------------------------------------------------------
(* fat_fuse_ops.c *)

Clear(s) == [s EXCEPT !.errno = "none"]

\* fat_fuse_mknod: the file is in the tree before its entry is written.
Mknod(s, f) ==
    LET s1 == FileInit(Clear(s), f) IN
    IF s1.up THEN AddChild([s1 EXCEPT !.tree = @ \cup {f}], f) ELSE s1

\* fat_fuse_log_activity: append a line to fs.log.
LogActivity(s) ==
    IF "fs.log" \notin s.tree THEN Segfault(s)
    ELSE Pwrite(s, "fs.log", s.file["fs.log"].size, LogLen)

\* fat_fuse_log_init
LogInit(s) ==
    LET s1 == Mknod(s, "fs.log") IN
    IF "fs.log" \in s.tree THEN s
    ELSE IF s1.up /\ s1.errno = "none" THEN LogActivity(s1) ELSE s1

LogRoom == fs.file["fs.log"].size + LogLen <= MaxSize

\* fat_fuse_readdir of the root.
Readdir ==
    /\ fs.up
    /\ fs' = LET s1 == IF fs.children_read THEN Clear(fs)
                       ELSE ReadChildren(Clear(fs))
             IN LogInit(s1)
    /\ UNCHANGED open

\* fat_fuse_getattr of a name that does not exist.
Lookup(f) ==
    /\ fs.up /\ f \notin fs.tree
    /\ fs' = [fs EXCEPT !.errno = "ENOENT"]
    /\ UNCHANGED open

\* The kernel calls mknod for a name that getattr does not find.  Programs
\* stay within the one cluster of entries that a directory has.
Create(f) ==
    /\ fs.up /\ f \notin fs.tree
    /\ ListFirst => fs.children_read
    /\ fs.nentries < DirCap
    /\ fs' = Mknod(fs, f)
    /\ UNCHANGED open

\* fat_fuse_open and fat_fuse_release
Open(f) ==
    /\ fs.up /\ f \in fs.tree \ open
    /\ open' = open \cup {f}
    /\ UNCHANGED fs

Release(f) ==
    /\ fs.up /\ f \in open
    /\ open' = open \ {f}
    /\ UNCHANGED fs

\* fat_fuse_read: logs, unless the read failed.
Read(f, off) ==
    /\ fs.up /\ f \in open /\ LogRoom
    /\ fs' = LET s1 == Pread(Clear(fs), f, off) IN
             IF s1.errno # "none" THEN s1 ELSE LogActivity(s1)
    /\ UNCHANGED open

\* fat_fuse_write: logs, then writes.
Write(f, off, n) ==
    /\ fs.up /\ f \in open /\ LogRoom
    /\ off <= fs.file[f].size /\ off + n <= MaxSize
    /\ fs' = LET s1 == LogActivity(fs) IN
             IF s1.up THEN Pwrite(s1, f, off, n) ELSE s1
    /\ UNCHANGED open

\* fat_fuse_utime: writes the entry with other dates.
Utime(f) ==
    /\ fs.up /\ f \in fs.tree
    /\ fs' = WriteEntry(Clear(fs), f)
    /\ UNCHANGED open

\* fat_fuse_truncate
Truncate(f, off) ==
    /\ fs.up /\ f \in fs.tree
    /\ fs' = Trunc(Clear(fs), f, off)
    /\ UNCHANGED open

\* Mutant: unlink frees all clusters but the first.
UnlinkKeepsFirst(f) ==
    /\ fs.up /\ f \in fs.tree \ open
    /\ fs' = LET d == fs.file[f]
                 s1 == [Clear(fs) EXCEPT
                          !.fat = FreeChain(@, NextCluster(@, d.start)),
                          !.file[f] = NoFile, !.tree = @ \ {f}]
             IN WriteDirEntry(s1, d.pos, Deleted)
    /\ UNCHANGED open

\* fat_fuse_unlink: free the chain, mark the entry, leave the tree.  libfuse
\* does not unlink a file that is open.
Unlink(f) ==
    /\ fs.up /\ f \in fs.tree \ open
    /\ fs' = LET d == fs.file[f]
                 s1 == [Clear(fs) EXCEPT !.fat = FreeChain(@, d.start),
                                         !.file[f] = NoFile, !.tree = @ \ {f}]
             IN WriteDirEntry(s1, d.pos, Deleted)
    /\ UNCHANGED open

\* Unmount and mount again, or mount after the daemon died: the tree has
\* only the root.
Remount ==
    /\ fs.up => open = {}
    /\ fs' = [Clear(fs) EXCEPT !.up = TRUE, !.tree = {}, !.nentries = 0,
                               !.file = [f \in Names |-> NoFile],
                               !.children_read = FALSE]
    /\ open' = {}

-----------------------------------------------------------------------------
\* An image with the files OnImage, each in one cluster, just mounted.
Init ==
    /\ open = {}
    /\ \E name \in [0..(Cardinality(OnImage) - 1) -> OnImage] :
          /\ \A f \in OnImage : \E i \in DOMAIN name : name[i] = f
          /\ fs = [fat |-> [c \in Clusters |->
                        IF c <= RootCluster + Cardinality(OnImage) THEN EOC ELSE FREE],
                   data |-> [c \in Clusters |-> [u \in Units |->
                        IF u = 0 /\ c - RootCluster - 1 \in DOMAIN name
                        THEN <<name[c - RootCluster - 1], 0>> ELSE Blank]],
                   dir |-> [i \in Slots |-> IF i \in DOMAIN name
                        THEN Entry(name[i], RootCluster + 1 + i, 1) ELSE End],
                   file |-> [f \in Names |-> NoFile],
                   tree |-> {},
                   nentries |-> 0,
                   children_read |-> FALSE,
                   errno |-> "none",
                   up |-> TRUE,
                   spilled |-> FALSE]

Next ==
    \/ Readdir
    \/ Remount
    \/ \E f \in Files :
          \/ Lookup(f) \/ Create(f) \/ Open(f) \/ Release(f) \/ Utime(f) \/ Unlink(f)
          \/ \E off \in 0..MaxSize :
                Read(f, off) \/ Truncate(f, off) \/ \E n \in Lengths : Write(f, off, n)

Spec == Init /\ [][Next]_vars

-----------------------------------------------------------------------------
(* Properties *)

Live == {i \in Slots : fs.dir[i] \notin {End, Deleted}}

\* Every unit of every file on the image is where a read looks for it: the
\* chain reaches it, and it holds what was last written at that position.
\* fat_file.h:184 promises it of every write.
DataInPlace ==
    \A i \in Live : \A k \in 0..(fs.dir[i].size - 1) :
        LET c == Seek(fs.fat, fs.dir[i].start, k) IN
        c # EOC /\ fs.data[c][k % CS] = <<fs.dir[i].name, k>>

\* A long write that goes past the end of the chain (fat_file.c:577) puts its
\* units over its own; when the root is listed first, nothing else that the
\* operations do breaks DataInPlace.
DataKept == fs.spilled \/ DataInPlace

\* No cluster is in the chains of two files, and every cluster in use is in
\* the chain of a file: none is lost.
ChainsPartition ==
    /\ \A i, j \in Live : i # j =>
          Chain(fs.fat, fs.dir[i].start) \cap Chain(fs.fat, fs.dir[j].start) = {}
    /\ {c \in Clusters : fs.fat[c] # FREE} \ {RootCluster} =
          UNION {Chain(fs.fat, fs.dir[i].start) : i \in Live}

\* The same write links a cluster that stays FREE, and so can be given to
\* another file; when the root is listed first, nothing else that the
\* operations do breaks ChainsPartition.
ChainsKept == fs.spilled \/ ChainsPartition

\* The memory agrees with the image: the entry at pos_in_parent of a file in
\* the tree is its own, with the size and the first cluster it has in memory,
\* after a long write too.
MemoryMatchesImage ==
    \A f \in fs.tree :
        fs.dir[fs.file[f].pos] = Entry(f, fs.file[f].start, fs.file[f].size)

\* An operation on one file leaves the directory entries of the others.
OthersKept ==
    [][\A i \in Slots :
          fs.dir[i] \notin {End, Deleted} =>
             fs'.dir[i].name \in {fs.dir[i].name, "deleted"}]_vars
=============================================================================
