---------------------------- MODULE ItableProofs ----------------------------
(***************************************************************************)
(* Proofs about module Itable, for any number of processes, names, inodes  *)
(* and calls.                                                              *)
(*                                                                         *)
(* ItInv accounts for everything that makes the table and the disk agree:  *)
(* a reference is an open file or the inode a process works on, at a known *)
(* point of a system call; a link is a name or a debt of a process between *)
(* the count and the entry; and an inode on its way out or in has no other *)
(* user.  It holds until iget() finds the table full, the only panic,      *)
(* after which nothing happens.                                            *)
(***************************************************************************)
EXTENDS Itable, FiniteSetTheorems, WellFoundedInduction, TLAPS

-----------------------------------------------------------------------------
(* Where a process is *)

LockPcs == {"iread", "ifree", "idone", "fill", "init", "enter", "clear", "count",
            "unlock", "discount"}
FreePcs == {"ifree", "idone", "idrop"}
IpPcs == LockPcs \cup {"ilock", "iput", "idrop", "dir2", "dirlink"}
IPcs == IpPcs \cup {"idle", "dir", "ialloc", "iget", "bad", "leave"}
Thens == {"", "unlock", "return", "clear", "count", "fill", "init", "leave", "dir2", "bad",
          "discount"}
ICalls == {"", "open", "create", "unlink", "link", "use", "close"}

Entry == [inum : 0..INodes, ref : Nat, valid : BOOLEAN, holder : IProc \cup {0}, mem : Content]
Process == [pc : IPcs, then : Thens, call : ICalls, ip : 0..ISlots, src : 0..ISlots,
            name : INames \cup {0}, to : INames \cup {0}, inum : 0..INodes,
            fd : 0..ISlots, want : Nat]

\* What a process has, by its record: the lock of ip, references through ip
\* and src, a copy of the inode that it has read.
Locking(r) == r.pc \in LockPcs
HasIp(r) == r.pc \in IpPcs /\ r.call # "use"
HasSrc(r) == r.pc = "bad" \/ (r.pc = "iput" /\ r.then = "bad")
HasRead(r) == \/ r.pc \in (LockPcs \ {"iread", "idone"}) \cup {"dir2", "dirlink"}
              \/ r.pc = "iput" /\ r.then # "bad"
Proper(r) == HasIp(r) /\ r.pc \notin {"idone", "idrop"}

\* It refers to entry s; it works on the inode there; it has read it.
Touches(r, s) == r.fd = s \/ (HasIp(r) /\ r.ip = s) \/ (HasSrc(r) /\ r.src = s)
Uses(r, s) == r.fd = s \/ (Proper(r) /\ r.ip = s) \/ (HasSrc(r) /\ r.src = s)
Knows(r, s) == r.fd = s \/ (HasRead(r) /\ r.ip = s) \/ (HasSrc(r) /\ r.src = s)

\* What it is about: a new inode, a new name, a name to clear, a name that is
\* in the way of a link, a link that is counted and has no name.
Creating(r) == r.pc \in {"init", "enter"} \/ (r.pc \in {"ilock", "iread"} /\ r.then = "init")
Fresh(r) == r.pc = "iget" \/ Creating(r)
Naming(r) == r.pc = "ialloc" \/ Fresh(r)
Clearing(r) == r.pc = "clear" \/ (r.pc \in {"ilock", "iread"} /\ r.then = "clear")
InTheWay(r) == r.pc = "iput" /\ r.then = "bad"
Owes(r) == \/ r.pc \in {"enter", "discount", "dir2", "dirlink"}
           \/ r.pc = "unlock" /\ r.call = "link"
           \/ r.pc \in {"ilock", "iread"} /\ r.then = "discount"
Debt(r, s) == (Owes(r) /\ r.ip = s) \/ (HasSrc(r) /\ r.src = s)
InDir(r) == \/ r.pc \in {"dir", "clear", "leave", "dirlink", "bad"}
            \/ Naming(r) \/ Clearing(r) \/ InTheWay(r)
            \/ r.pc \in {"iput"} \cup FreePcs /\ r.then = "leave"

\* The points of the system calls.
PutPoint(r) == \/ r.then = "return" /\ r.call \in {"open", "create", "unlink", "link", "close"}
               \/ r.then = "leave" /\ r.call = "create"
LockPoint(r) == \/ r.then = "unlock" /\ r.call = "use"
                \/ r.then = "clear" /\ r.call = "unlink"
                \/ r.then \in {"count", "discount"} /\ r.call = "link"
                \/ r.then = "fill" /\ r.call \in {"open", "create"}
                \/ r.then = "init" /\ r.call = "create"
Control(r) ==
    /\ r.pc = "dir" => r.call \in {"open", "create", "unlink", "link"}
    /\ r.pc \in {"ilock", "iread"} => LockPoint(r)
    /\ r.pc = "iput" => PutPoint(r) \/ (r.then = "bad" /\ r.call = "link")
    /\ r.pc \in FreePcs => PutPoint(r)
    /\ r.pc = "fill" => r.call \in {"open", "create"}
    /\ r.pc \in {"ialloc", "iget", "init", "enter", "leave"} => r.call = "create"
    /\ r.pc = "clear" => r.call = "unlink"
    /\ r.pc = "discount" => r.call \in {"unlink", "link"}
    /\ r.pc \in {"count", "dir2", "dirlink", "bad"} => r.call = "link"
    /\ r.pc = "unlock" => (r.then = "dir2" /\ r.call = "link") \/ r.call = "use"

\* The variables of a call that have a value there.
Arguments(r) ==
    /\ r.pc \in IpPcs => r.ip # 0
    /\ r.call = "use" => r.ip = r.fd
    /\ r.call \in {"open", "create", "close"} => r.fd = 0
    /\ r.call \in {"open", "create", "unlink", "link"} => r.name # 0 /\ r.to # 0
    /\ Naming(r) => r.inum # 0
    /\ HasSrc(r) => r.src # 0
    /\ r.pc \in {"dir2", "dirlink"} \/ (r.pc = "unlock" /\ r.call = "link") => r.src = r.ip

-----------------------------------------------------------------------------
(* The inductive invariant *)

TypeInv ==
    /\ dino \in [Inum -> Content] /\ itab \in [Slot -> Entry]
    /\ dent \in [INames -> 0..INodes] /\ dhold \in IProc \cup {0}
    /\ ipr \in [IProc -> Process]
    /\ calls \in 0..MaxCalls /\ lost \subseteq Inum /\ ipanic = FALSE

ControlInv == \A p \in IProc : Control(ipr[p]) /\ Arguments(ipr[p])

\* Who holds the lock of the directory, and those of the inodes.
DirInv == \A p \in IProc : dhold = p <=> InDir(ipr[p])
HoldInv == \A s \in Slot, p \in IProc : itab[s].holder = p <=> Locking(ipr[p]) /\ ipr[p].ip = s

\* Every reference is an open file, or a process has it through ip or src.
FdOf(s) == {p \in IProc : ipr[p].fd = s}
IpOf(s) == {p \in IProc : HasIp(ipr[p]) /\ ipr[p].ip = s}
SrcOf(s) == {p \in IProc : HasSrc(ipr[p]) /\ ipr[p].src = s}
RefInv ==
    \A s \in Slot :
        itab[s].ref = Cardinality(FdOf(s)) + Cardinality(IpOf(s)) + Cardinality(SrcOf(s))

\* An inode has one entry.
EntryInv ==
    /\ \A s \in Slot : itab[s].ref > 0 => itab[s].inum \in Inum
    /\ \A s, t \in Slot :
          itab[s].ref > 0 /\ itab[t].ref > 0 /\ itab[s].inum = itab[t].inum => s = t

\* A valid copy is what the disk has of an allocated inode, until iput() has
\* freed it; what a process has read stays valid while it has a reference.
Matches(s) == itab[s].mem = dino[itab[s].inum] /\ dino[itab[s].inum].alloc
ValidInv ==
    /\ \A s \in Slot : itab[s].ref > 0 /\ itab[s].valid =>
          Matches(s) \/ \E p \in IProc : ipr[p].pc = "idone" /\ ipr[p].ip = s
    /\ \A p \in IProc, s \in Slot : Knows(ipr[p], s) => itab[s].valid

\* The process that frees an inode has the only reference to it.  When the
\* disk has it free, it has no name and only a process that creates a file
\* may come to its entry.
FreeInv ==
    \A p \in IProc : ipr[p].pc = "ifree" => /\ itab[ipr[p].ip].ref = 1
                                            /\ itab[ipr[p].ip].mem.nlink = 0
DoneInv ==
    \A p \in IProc : ipr[p].pc = "idone" =>
        /\ ipr[p].fd # ipr[p].ip
        /\ \A n \in INames : dent[n] # itab[ipr[p].ip].inum
        /\ \A q \in IProc \ {p} :
              Touches(ipr[q], ipr[p].ip) => ipr[q].pc = "ilock" /\ ipr[q].then = "init"

\* What a name, an open file or a process at work refers to is allocated.
AllocInv ==
    /\ \A p \in IProc, s \in Slot : Uses(ipr[p], s) => dino[itab[s].inum].alloc
    /\ \A p \in IProc : /\ ipr[p].fd # 0 => dino[itab[ipr[p].fd].inum].gen = ipr[p].want
                        /\ ipr[p].pc = "iget" => dino[ipr[p].inum].alloc
    /\ \A n \in INames : dent[n] # 0 => dino[dent[n]].alloc

\* A link is a name or is owed by a process.
OwesTo(r, i) == \E s \in Slot : Debt(r, s) /\ itab[s].inum = i
Owing(i) == {p \in IProc : OwesTo(ipr[p], i)}
LinkInv == \A i \in Inum : dino[i].alloc => dino[i].nlink = Names(i) + Cardinality(Owing(i))

\* An inode that ialloc() has taken has no name and no other user.
FreshInv ==
    \A p \in IProc : Fresh(ipr[p]) =>
        /\ \A n \in INames : dent[n] # ipr[p].inum
        /\ \A q \in IProc \ {p}, s \in Slot : Uses(ipr[q], s) => itab[s].inum # ipr[p].inum
        /\ Creating(ipr[p]) => itab[ipr[p].ip].inum = ipr[p].inum
NameInv ==
    \A p \in IProc : /\ Naming(ipr[p]) => dent[ipr[p].name] = 0
                     /\ Clearing(ipr[p]) => dent[ipr[p].name] = itab[ipr[p].ip].inum
                     /\ InTheWay(ipr[p]) => dent[ipr[p].to] = itab[ipr[p].ip].inum

\* The inodes that nobody will ever free are those that iput() forgot.
Named(i) == \E n \in INames : dent[n] = i
Entered(i) == \E s \in Slot : itab[s].ref > 0 /\ itab[s].inum = i
Taken(i) == \E p \in IProc : ipr[p].pc = "iget" /\ ipr[p].inum = i
Reached(i) == Named(i) \/ Entered(i) \/ Taken(i)
LostInv == \A i \in Inum : i \in lost <=> dino[i].alloc /\ ~Reached(i)

ItInv ==
    /\ TypeInv /\ ControlInv /\ DirInv /\ HoldInv /\ RefInv /\ EntryInv /\ ValidInv
    /\ FreeInv /\ DoneInv /\ AllocInv /\ LinkInv /\ FreshInv /\ NameInv /\ LostInv

-----------------------------------------------------------------------------
(* Counting *)

\* A finite set that is equal to another up to one element.
Weight(b) == IF b THEN 1 ELSE 0
LEMMA CountStep ==
    ASSUME NEW S, NEW T, NEW x, IsFiniteSet(S), IsFiniteSet(T), T \ {x} = S \ {x}
    PROVE  Cardinality(T) = Cardinality(S) + Weight(x \in T) - Weight(x \in S)
<1>1. ASSUME NEW U, IsFiniteSet(U)
      PROVE  Cardinality(U) \in Nat /\ Cardinality(U \ {x}) = Cardinality(U) - Weight(x \in U)
  <2>1. Cardinality(U) \in Nat
    BY <1>1, FS_CardinalityType
  <2>2. CASE x \in U
    BY <1>1, <2>1, <2>2, FS_RemoveElement DEF Weight
  <2>3. CASE x \notin U
    <3>1. U \ {x} = U
      BY <2>3
    <3>2. Weight(x \in U) = 0
      BY <2>3 DEF Weight
    <3> HIDE DEF Weight
    <3> QED BY <2>1, <3>1, <3>2
  <2> QED BY <2>1, <2>2, <2>3
<1>2. Cardinality(S) \in Nat /\ Cardinality(S \ {x}) = Cardinality(S) - Weight(x \in S)
  BY <1>1
<1>3. Cardinality(T) \in Nat /\ Cardinality(T \ {x}) = Cardinality(T) - Weight(x \in T)
  BY <1>1
<1> QED BY <1>2, <1>3 DEF Weight

LEMMA CountPositive ==
    ASSUME NEW S, IsFiniteSet(S)
    PROVE  Cardinality(S) \in Nat /\ (Cardinality(S) = 0 <=> S = {})
BY FS_CardinalityType, FS_EmptySet

LEMMA CountOne ==
    ASSUME NEW S, IsFiniteSet(S), Cardinality(S) <= 1, NEW x \in S, NEW y \in S
    PROVE  x = y
<1> SUFFICES ASSUME x # y PROVE FALSE
  OBVIOUS
<1>1. IsFiniteSet(S \ {x}) /\ Cardinality(S \ {x}) = Cardinality(S) - 1
  BY FS_RemoveElement
<1>2. S \ {x} # {}
  OBVIOUS
<1> QED BY <1>1, <1>2, CountPositive

LEMMA ProcSets ==
    /\ \A s : IsFiniteSet(FdOf(s)) /\ IsFiniteSet(IpOf(s)) /\ IsFiniteSet(SrcOf(s))
    /\ \A i : IsFiniteSet(Owing(i))
BY ItableAssumption, FS_Subset DEF ItableAssumption, FdOf, IpOf, SrcOf, Owing

LEMMA ProcSetsNext ==
    /\ \A s : IsFiniteSet(FdOf(s)') /\ IsFiniteSet(IpOf(s)') /\ IsFiniteSet(SrcOf(s)')
    /\ \A i : IsFiniteSet(Owing(i)')
BY ItableAssumption, FS_Subset DEF ItableAssumption, FdOf, IpOf, SrcOf, Owing

\* The references that a process has to entry s.
RefsOf(r, s) == Weight(r.fd = s) + Weight(HasIp(r) /\ r.ip = s) + Weight(HasSrc(r) /\ r.src = s)

\* A step of process p is no other's, and leaves what is referred to in place.
Mine(p) == \A q \in IProc \ {p} : ipr'[q] = ipr[q]
Kept == \A s \in Slot : itab[s].ref > 0 => itab'[s].inum = itab[s].inum

\* The step of a process changes the references by its own.
LEMMA RefStep ==
    ASSUME RefInv, NEW p \in IProc, Mine(p),
           \A s \in Slot : itab[s].ref \in Nat /\ itab'[s].ref = itab[s].ref + RefsOf(ipr'[p], s) - RefsOf(ipr[p], s)
    PROVE  RefInv'
<1> SUFFICES ASSUME NEW s \in Slot
             PROVE  itab'[s].ref = Cardinality(FdOf(s)') + Cardinality(IpOf(s)') + Cardinality(SrcOf(s)')
  BY DEF RefInv
<1>1. Cardinality(FdOf(s)') = Cardinality(FdOf(s)) + Weight(p \in FdOf(s)') - Weight(p \in FdOf(s))
  <2>1. FdOf(s)' \ {p} = FdOf(s) \ {p}
    BY DEF FdOf, Mine
  <2> QED BY <2>1, ProcSets, ProcSetsNext, CountStep
<1>2. Cardinality(IpOf(s)') = Cardinality(IpOf(s)) + Weight(p \in IpOf(s)') - Weight(p \in IpOf(s))
  <2>1. IpOf(s)' \ {p} = IpOf(s) \ {p}
    BY DEF IpOf, Mine
  <2> QED BY <2>1, ProcSets, ProcSetsNext, CountStep
<1>3. Cardinality(SrcOf(s)') = Cardinality(SrcOf(s)) + Weight(p \in SrcOf(s)') - Weight(p \in SrcOf(s))
  <2>1. SrcOf(s)' \ {p} = SrcOf(s) \ {p}
    BY DEF SrcOf, Mine
  <2> QED BY <2>1, ProcSets, ProcSetsNext, CountStep
<1>4. /\ p \in FdOf(s)' <=> ipr'[p].fd = s
      /\ p \in FdOf(s) <=> ipr[p].fd = s
      /\ p \in IpOf(s)' <=> HasIp(ipr'[p]) /\ ipr'[p].ip = s
      /\ p \in IpOf(s) <=> HasIp(ipr[p]) /\ ipr[p].ip = s
      /\ p \in SrcOf(s)' <=> HasSrc(ipr'[p]) /\ ipr'[p].src = s
      /\ p \in SrcOf(s) <=> HasSrc(ipr[p]) /\ ipr[p].src = s
  BY DEF FdOf, IpOf, SrcOf
<1>5. /\ Cardinality(FdOf(s)) \in Nat /\ Cardinality(IpOf(s)) \in Nat /\ Cardinality(SrcOf(s)) \in Nat
      /\ itab[s].ref = Cardinality(FdOf(s)) + Cardinality(IpOf(s)) + Cardinality(SrcOf(s))
  BY ProcSets, CountPositive DEF RefInv
<1>6. itab'[s].ref = itab[s].ref + RefsOf(ipr'[p], s) - RefsOf(ipr[p], s)
  OBVIOUS
<1>7. \A b \in BOOLEAN : Weight(b) \in {0, 1}
  BY DEF Weight
<1> QED BY <1>1, <1>2, <1>3, <1>4, <1>5, <1>6 DEF RefsOf, Weight

\* What a process refers to is referred to.
LEMMA Referred ==
    ASSUME RefInv, NEW p \in IProc, NEW s \in Slot, Touches(ipr[p], s)
    PROVE  itab[s].ref > 0
<1>1. /\ Cardinality(FdOf(s)) \in Nat /\ Cardinality(IpOf(s)) \in Nat /\ Cardinality(SrcOf(s)) \in Nat
      /\ itab[s].ref = Cardinality(FdOf(s)) + Cardinality(IpOf(s)) + Cardinality(SrcOf(s))
      /\ Cardinality(FdOf(s)) = 0 <=> FdOf(s) = {}
      /\ Cardinality(IpOf(s)) = 0 <=> IpOf(s) = {}
      /\ Cardinality(SrcOf(s)) = 0 <=> SrcOf(s) = {}
  BY ProcSets, CountPositive DEF RefInv
<1>2. FdOf(s) # {} \/ IpOf(s) # {} \/ SrcOf(s) # {}
  BY DEF FdOf, IpOf, SrcOf, Touches
<1> QED BY <1>1, <1>2

\* The inodes that a process has at hand are entries of the table.
LEMMA AtHand ==
    ASSUME TypeInv, ControlInv, NEW p \in IProc
    PROVE  /\ ipr[p].fd # 0 => ipr[p].fd \in Slot
           /\ ipr[p].pc \in IpPcs => ipr[p].ip \in Slot /\ Touches(ipr[p], ipr[p].ip)
           /\ HasSrc(ipr[p]) => ipr[p].src \in Slot /\ Touches(ipr[p], ipr[p].src)
<1>1. /\ ipr[p].fd \in 0..ISlots /\ ipr[p].ip \in 0..ISlots /\ ipr[p].src \in 0..ISlots
  BY DEF TypeInv, Process
<1>2. \A s \in 0..ISlots : s # 0 => s \in Slot
  BY ItableAssumption DEF Slot, ItableAssumption
<1>3. /\ HasSrc(ipr[p]) => ipr[p].src # 0
      /\ ipr[p].pc \in IpPcs => ipr[p].ip # 0 /\ (HasIp(ipr[p]) \/ ipr[p].ip = ipr[p].fd)
  BY DEF ControlInv, Arguments, HasIp
<1> QED BY <1>1, <1>2, <1>3 DEF Touches

\* The only reference is somebody's alone.
LEMMA LastReference ==
    ASSUME RefInv, NEW p \in IProc, NEW s \in Slot, HasIp(ipr[p]), ipr[p].ip = s, itab[s].ref = 1
    PROVE  /\ \A q \in IProc : Touches(ipr[q], s) => q = p
           /\ ipr[p].fd # s
           /\ HasSrc(ipr[p]) => ipr[p].src # s
<1>2. /\ Cardinality(FdOf(s)) \in Nat /\ Cardinality(IpOf(s)) \in Nat /\ Cardinality(SrcOf(s)) \in Nat
      /\ 1 = Cardinality(FdOf(s)) + Cardinality(IpOf(s)) + Cardinality(SrcOf(s))
      /\ Cardinality(FdOf(s)) = 0 <=> FdOf(s) = {}
      /\ Cardinality(IpOf(s)) = 0 <=> IpOf(s) = {}
      /\ Cardinality(SrcOf(s)) = 0 <=> SrcOf(s) = {}
  BY ProcSets, CountPositive DEF RefInv
<1>3. p \in IpOf(s)
  BY DEF IpOf
<1>4. FdOf(s) = {} /\ SrcOf(s) = {} /\ Cardinality(IpOf(s)) <= 1
  BY <1>2, <1>3
<1>5. \A q \in IpOf(s) : q = p
  BY <1>3, <1>4, ProcSets, CountOne
<1> QED BY <1>4, <1>5 DEF FdOf, IpOf, SrcOf, Touches

LEMMA NamesStep ==
    ASSUME NEW n \in INames, \A m \in INames \ {n} : dent'[m] = dent[m], NEW i
    PROVE  /\ Names(i) \in Nat
           /\ Names(i)' = Names(i) + Weight(dent'[n] = i) - Weight(dent[n] = i)
<1> DEFINE S == {m \in INames : dent[m] = i}
           T == {m \in INames : dent'[m] = i}
<1>1. IsFiniteSet(S) /\ IsFiniteSet(T)
  BY ItableAssumption, FS_Subset DEF ItableAssumption
<1>2. T \ {n} = S \ {n}
  OBVIOUS
<1>3. (n \in T <=> dent'[n] = i) /\ (n \in S <=> dent[n] = i)
  OBVIOUS
<1>4. Cardinality(T) = Cardinality(S) + Weight(n \in T) - Weight(n \in S) /\ Cardinality(S) \in Nat
  <2> HIDE DEF S, T
  <2> QED BY <1>1, <1>2, CountStep, CountPositive
<1>5. Names(i) = Cardinality(S) /\ Names(i)' = Cardinality(T)
  BY DEF Names
<1> HIDE DEF S, T
<1> QED BY <1>3, <1>4, <1>5 DEF Weight

-----------------------------------------------------------------------------
(* The locks, and who is alone with an inode *)

LEMMA DirStep ==
    ASSUME DirInv, NEW p \in IProc, Mine(p), dhold' = p <=> InDir(ipr'[p]),
           dhold' = dhold \/ (dhold \in {0, p} /\ dhold' \in {0, p})
    PROVE  DirInv'
BY ItableAssumption DEF DirInv, Mine, ItableAssumption

LEMMA HoldStep ==
    ASSUME HoldInv, NEW p \in IProc, Mine(p),
           \A s \in Slot : itab'[s].holder = p <=> Locking(ipr'[p]) /\ ipr'[p].ip = s,
           \A s \in Slot : \/ itab'[s].holder = itab[s].holder
                           \/ itab[s].holder \in {0, p} /\ itab'[s].holder \in {0, p}
    PROVE  HoldInv'
BY ItableAssumption DEF HoldInv, Mine, ItableAssumption

\* What the records of the processes say of each other.
LEMMA Profile ==
    ASSUME NEW r, Control(r), Arguments(r), NEW s
    PROVE  /\ Uses(r, s) => Touches(r, s)
           /\ Knows(r, s) => Touches(r, s)
           /\ Debt(r, s) => Uses(r, s)
           /\ Locking(r) => r.pc \in IpPcs
           /\ Fresh(r) => Naming(r) /\ InDir(r)
           /\ Naming(r) \/ Clearing(r) \/ InTheWay(r) => InDir(r)
           /\ Creating(r) \/ Clearing(r) \/ InTheWay(r) => HasIp(r)
<1>1. Uses(r, s) => Touches(r, s)
  BY DEF Uses, Touches, Proper
<1>2. Knows(r, s) => Touches(r, s)
  BY DEF Knows, Touches, HasRead, HasIp, IpPcs, LockPcs, Arguments
<1>3. Debt(r, s) => Uses(r, s)
  BY DEF Debt, Uses, Proper, HasIp, Owes, IpPcs, LockPcs, Control, LockPoint
<1>4. Locking(r) => r.pc \in IpPcs
  BY DEF Locking, IpPcs
<1>5. Fresh(r) => Naming(r) /\ InDir(r)
  BY DEF Fresh, Naming, InDir
<1>6. Naming(r) \/ Clearing(r) \/ InTheWay(r) => InDir(r)
  BY DEF InDir
<1>7. Creating(r) \/ Clearing(r) \/ InTheWay(r) => HasIp(r)
  BY DEF Creating, Clearing, InTheWay, HasIp, IpPcs, LockPcs, Control, LockPoint, PutPoint
<1> QED BY <1>1, <1>2, <1>3, <1>4, <1>5, <1>6, <1>7

\* The directory has one user.
LEMMA OneInDir ==
    ASSUME DirInv, NEW p \in IProc, NEW q \in IProc, InDir(ipr[p]), InDir(ipr[q])
    PROVE  p = q
BY DEF DirInv

\* An inode on its way out has no other user and no name.
LEMMA FreeAlone ==
    ASSUME ItInv, NEW q \in IProc, NEW s \in Slot, ipr[q].pc = "ifree", ipr[q].ip = s
    PROVE  /\ itab[s].ref = 1 /\ itab[s].holder = q /\ ipr[q].fd # s
           /\ \A p \in IProc \ {q} : ~Touches(ipr[p], s)
           /\ Matches(s) /\ dino[itab[s].inum].alloc /\ itab[s].inum \in Inum
           /\ \A n \in INames : dent[n] # itab[s].inum
           /\ Owing(itab[s].inum) = {}
           /\ \A p \in IProc : Fresh(ipr[p]) => itab[s].inum # ipr[p].inum
<1> USE DEF ItInv
<1>1. /\ Locking(ipr[q]) /\ Control(ipr[q]) /\ Arguments(ipr[q]) /\ HasIp(ipr[q]) /\ Proper(ipr[q])
      /\ Knows(ipr[q], s) /\ Uses(ipr[q], s) /\ Touches(ipr[q], s) /\ ~Owes(ipr[q]) /\ ~HasSrc(ipr[q])
      /\ ~Fresh(ipr[q])
  <2>1. Control(ipr[q]) /\ Arguments(ipr[q])
    BY DEF ControlInv
  <2> QED BY <2>1 DEF Locking, HasIp, Proper, HasRead, Knows, Uses, Touches, IpPcs, LockPcs, Control,
                  PutPoint, FreePcs, Owes, HasSrc, Fresh, Creating
<1>2. itab[s].ref = 1 /\ itab[s].mem.nlink = 0 /\ itab[s].holder = q
  BY <1>1 DEF FreeInv, HoldInv
<1>3. (\A p \in IProc : Touches(ipr[p], s) => p = q) /\ ipr[q].fd # s
  BY <1>1, <1>2, LastReference
<1>4. Matches(s)
  <2>1. ASSUME NEW p \in IProc, ipr[p].pc = "idone", ipr[p].ip = s PROVE FALSE
    <3>1. Locking(ipr[p])
      BY <2>1 DEF Locking, LockPcs
    <3>2. itab[s].holder = p
      BY <2>1, <3>1 DEF HoldInv
    <3> QED BY <1>2, <2>1, <3>2
  <2> QED BY <1>1, <1>2, <2>1 DEF ValidInv
<1>5. itab[s].inum \in Inum /\ dino[itab[s].inum].alloc /\ dino[itab[s].inum].nlink = 0
  BY <1>1, <1>2, <1>4 DEF EntryInv, AllocInv, Matches
<1>6. Cardinality(Owing(itab[s].inum)) \in Nat /\ IsFiniteSet(Owing(itab[s].inum))
  BY ProcSets, CountPositive
<1>7. Names(itab[s].inum) \in Nat /\ (Names(itab[s].inum) = 0 <=> {n \in INames : dent[n] = itab[s].inum} = {})
  <2>1. IsFiniteSet({n \in INames : dent[n] = itab[s].inum})
    BY ItableAssumption, FS_Subset DEF ItableAssumption
  <2> QED BY <2>1, CountPositive DEF Names
<1>8. Names(itab[s].inum) = 0 /\ Cardinality(Owing(itab[s].inum)) = 0
  BY <1>5, <1>6, <1>7 DEF LinkInv
<1>9. Owing(itab[s].inum) = {}
  BY <1>6, <1>8, CountPositive
<1>10. ASSUME NEW p \in IProc, Fresh(ipr[p]), itab[s].inum = ipr[p].inum PROVE FALSE
  <2>1. p # q
    BY <1>1, <1>10
  <2> QED BY <1>1, <1>10, <2>1 DEF FreshInv
<1> QED BY <1>2, <1>3, <1>4, <1>5, <1>7, <1>8, <1>9, <1>10

LEMMA DoneAlone ==
    ASSUME ItInv, NEW q \in IProc, ipr[q].pc = "idone"
    PROVE  /\ ipr[q].ip \in Slot /\ itab[ipr[q].ip].ref > 0 /\ itab[ipr[q].ip].holder = q
           /\ Touches(ipr[q], ipr[q].ip)
<1> USE DEF ItInv
<1>1. ipr[q].pc \in IpPcs /\ Locking(ipr[q])
  BY DEF IpPcs, LockPcs, Locking
<1>2. ipr[q].ip \in Slot /\ Touches(ipr[q], ipr[q].ip)
  BY <1>1, AtHand
<1> QED BY <1>1, <1>2, Referred DEF HoldInv

-----------------------------------------------------------------------------
(* One conjunct at a time, for a step of process p *)

LEMMA EntryStep ==
    ASSUME EntryInv, Kept, \A s \in Slot : itab'[s].ref > 0 => itab[s].ref > 0
    PROVE  EntryInv'
BY DEF EntryInv, Kept

LEMMA ValidStep ==
    ASSUME ItInv, NEW p \in IProc, Mine(p),
           \A s \in Slot : itab'[s].ref > 0 /\ itab'[s].valid =>
              \/ Matches(s)'
              \/ ipr'[p].pc = "idone" /\ ipr'[p].ip = s
              \/ /\ itab[s].ref > 0 /\ itab[s].valid /\ ~Matches(s)
                 /\ ipr[p].pc = "idone" => ipr[p].ip # s,
           \A s \in Slot : itab[s].valid /\ itab[s].ref > 0 =>
              itab'[s].valid \/ \A q \in IProc \ {p} : ~Knows(ipr[q], s),
           \A s \in Slot : Knows(ipr'[p], s) => itab'[s].valid
    PROVE  ValidInv'
<1> USE DEF ItInv
<1>1. ASSUME NEW s \in Slot, itab'[s].ref > 0, itab'[s].valid
      PROVE  Matches(s)' \/ \E q \in IProc : ipr'[q].pc = "idone" /\ ipr'[q].ip = s
  <2>1. CASE Matches(s)' \/ (ipr'[p].pc = "idone" /\ ipr'[p].ip = s)
    BY <2>1
  <2>2. CASE /\ itab[s].ref > 0 /\ itab[s].valid /\ ~Matches(s)
             /\ ipr[p].pc = "idone" => ipr[p].ip # s
    <3>1. PICK q \in IProc : ipr[q].pc = "idone" /\ ipr[q].ip = s
      BY <2>2 DEF ValidInv
    <3>2. q # p
      BY <2>2, <3>1
    <3> QED BY <3>1, <3>2 DEF Mine
  <2> QED BY <1>1, <2>1, <2>2
<1>2. ASSUME NEW q \in IProc \ {p}, NEW s \in Slot, Knows(ipr[q], s)
      PROVE  itab'[s].valid
  <2>1. itab[s].valid
    BY <1>2 DEF ValidInv
  <2>2. itab[s].ref > 0
    BY <1>2, Profile, Referred DEF ControlInv
  <2> QED BY <1>2, <2>1, <2>2
<1>3. ASSUME NEW q \in IProc, NEW s \in Slot, Knows(ipr'[q], s)
      PROVE  itab'[s].valid
  BY <1>2, <1>3 DEF Mine
<1> QED BY <1>1, <1>3 DEF ValidInv

LEMMA FreeStep ==
    ASSUME ItInv, NEW p \in IProc, Mine(p),
           \A s \in Slot : \/ itab'[s].ref = itab[s].ref
                           \/ Touches(ipr[p], s)
                           \/ itab[s].ref = 0
                           \/ \E n \in INames : dent[n] = itab[s].inum
                           \/ Fresh(ipr[p]) /\ itab[s].inum = ipr[p].inum,
           \A s \in Slot : itab'[s].mem = itab[s].mem \/ Touches(ipr[p], s),
           ipr'[p].pc = "ifree" => itab'[ipr'[p].ip].ref = 1 /\ itab'[ipr'[p].ip].mem.nlink = 0
    PROVE  FreeInv'
<1>1. ASSUME NEW q \in IProc \ {p}, ipr[q].pc = "ifree"
      PROVE  itab'[ipr[q].ip].ref = 1 /\ itab'[ipr[q].ip].mem.nlink = 0
  <2>1. PICK s \in Slot : s = ipr[q].ip
    BY <1>1, AtHand DEF IpPcs, LockPcs, ItInv
  <2>2. /\ itab[s].ref = 1 /\ ~Touches(ipr[p], s)
        /\ \A n \in INames : dent[n] # itab[s].inum
        /\ Fresh(ipr[p]) => itab[s].inum # ipr[p].inum
    BY <1>1, <2>1, FreeAlone
  <2>3. itab'[s].ref = 1 /\ itab'[s].mem = itab[s].mem
    BY <2>2
  <2> QED BY <1>1, <2>1, <2>3 DEF ItInv, FreeInv
<1> QED BY <1>1 DEF FreeInv, Mine

LEMMA DoneStep ==
    ASSUME ItInv, NEW p \in IProc, Mine(p), Kept, ipr'[p].pc # "idone",
           \A n \in INames : dent'[n] = dent[n] \/ dent'[n] = 0
                                \/ \E s \in Slot : /\ Touches(ipr[p], s) /\ ipr[p].pc # "ilock"
                                                   /\ dent'[n] = itab[s].inum,
           \A s \in Slot : Touches(ipr'[p], s) =>
              \/ Touches(ipr[p], s) /\ (ipr[p].pc = "ilock" => itab[s].holder = 0 \/ s = ipr[p].fd)
              \/ itab[s].ref = 0
              \/ \E n \in INames : dent[n] = itab[s].inum
              \/ ipr'[p].pc = "ilock" /\ ipr'[p].then = "init"
    PROVE  DoneInv'
<1> USE DEF ItInv
<1>1. ASSUME NEW q \in IProc \ {p}, ipr[q].pc = "idone"
      PROVE  /\ ipr[q].fd # ipr[q].ip
             /\ \A n \in INames : dent'[n] # itab'[ipr[q].ip].inum
             /\ \A x \in IProc \ {q} :
                  Touches(ipr'[x], ipr[q].ip) => ipr'[x].pc = "ilock" /\ ipr'[x].then = "init"
  <2>1. PICK s \in Slot : s = ipr[q].ip /\ itab[s].ref > 0 /\ itab[s].holder = q
    BY <1>1, DoneAlone
  <2>2. /\ ipr[q].fd # s /\ \A n \in INames : dent[n] # itab[s].inum
        /\ \A x \in IProc \ {q} : Touches(ipr[x], s) => ipr[x].pc = "ilock" /\ ipr[x].then = "init"
    BY <1>1, <2>1 DEF DoneInv
  <2>3. itab'[s].inum = itab[s].inum /\ itab[s].inum \in Inum /\ itab[s].inum # 0
    BY <2>1 DEF Kept, EntryInv, Inum
  <2>4. ASSUME NEW n \in INames PROVE dent'[n] # itab[s].inum
    <3>1. CASE dent'[n] = dent[n] \/ dent'[n] = 0
      BY <2>2, <2>3, <3>1
    <3>2. CASE \E t \in Slot : Touches(ipr[p], t) /\ ipr[p].pc # "ilock" /\ dent'[n] = itab[t].inum
      <4>1. PICK t \in Slot : Touches(ipr[p], t) /\ ipr[p].pc # "ilock" /\ dent'[n] = itab[t].inum
        BY <3>2
      <4>2. t # s
        BY <2>2, <4>1
      <4>3. itab[t].ref > 0
        BY <4>1, Referred
      <4> QED BY <2>1, <4>1, <4>2, <4>3 DEF EntryInv
    <3> QED BY <3>1, <3>2
  <2>5. ASSUME Touches(ipr'[p], s) PROVE ipr'[p].pc = "ilock" /\ ipr'[p].then = "init"
    <3>1. CASE Touches(ipr[p], s) /\ (ipr[p].pc = "ilock" => itab[s].holder = 0 \/ s = ipr[p].fd)
      <4>1. ipr[p].pc = "ilock" /\ ipr[p].then = "init"
        BY <2>2, <3>1
      <4>2. ipr[p].fd = 0
        BY <4>1 DEF ControlInv, Control, LockPoint, Arguments
      <4> QED BY <2>1, <3>1, <4>1, <4>2, ItableAssumption DEF ItableAssumption, Slot
    <3> QED BY <2>1, <2>2, <2>5, <3>1
  <2> QED BY <1>1, <2>1, <2>2, <2>3, <2>4, <2>5 DEF Mine
<1> QED BY <1>1 DEF DoneInv, Mine

LEMMA AllocStep ==
    ASSUME ItInv, NEW p \in IProc, Mine(p), Kept,
           \A i \in Inum : dino[i].alloc => dino'[i].alloc /\ dino'[i].gen = dino[i].gen,
           \A s \in Slot : Uses(ipr'[p], s) => Uses(ipr[p], s) \/ dino'[itab'[s].inum].alloc,
           \/ ipr'[p].fd = 0
           \/ ipr'[p].fd = ipr[p].fd /\ ipr'[p].want = ipr[p].want
           \/ dino'[itab'[ipr'[p].fd].inum].gen = ipr'[p].want,
           ipr'[p].pc = "iget" => dino'[ipr'[p].inum].alloc,
           \A n \in INames : dent'[n] = dent[n] \/ dent'[n] = 0 \/ dino'[dent'[n]].alloc
    PROVE  AllocInv'
<1> USE DEF ItInv
<1>1. ASSUME NEW q \in IProc, NEW s \in Slot, Uses(ipr[q], s)
      PROVE  /\ itab'[s].inum = itab[s].inum /\ itab[s].inum \in Inum
             /\ dino'[itab[s].inum].alloc /\ dino'[itab[s].inum].gen = dino[itab[s].inum].gen
  <2>1. itab[s].ref > 0
    BY <1>1, Profile, Referred DEF ControlInv
  <2>2. itab[s].inum \in Inum /\ dino[itab[s].inum].alloc
    BY <1>1, <2>1 DEF EntryInv, AllocInv
  <2> QED BY <2>1, <2>2 DEF Kept
<1>2. ASSUME NEW q \in IProc, NEW s \in Slot, Uses(ipr'[q], s) PROVE dino'[itab'[s].inum].alloc
  <2>1. CASE q = p
    BY <1>1, <1>2, <2>1
  <2>2. CASE q # p
    BY <1>1, <1>2, <2>2 DEF Mine
  <2> QED BY <2>1, <2>2
<1>3. ASSUME NEW q \in IProc, ipr[q].fd # 0 PROVE dino'[itab'[ipr[q].fd].inum].gen = ipr[q].want
  <2>1. ipr[q].fd \in Slot /\ Uses(ipr[q], ipr[q].fd)
    BY <1>3, AtHand DEF Uses
  <2>2. /\ itab'[ipr[q].fd].inum = itab[ipr[q].fd].inum
        /\ dino'[itab[ipr[q].fd].inum].gen = dino[itab[ipr[q].fd].inum].gen
    BY <1>1, <2>1
  <2> QED BY <1>3, <2>2 DEF AllocInv
<1>4. ASSUME NEW q \in IProc, ipr'[q].fd # 0 PROVE dino'[itab'[ipr'[q].fd].inum].gen = ipr'[q].want
  <2>1. CASE q = p
    BY <1>3, <1>4, <2>1
  <2>2. CASE q # p
    BY <1>3, <1>4, <2>2 DEF Mine
  <2> QED BY <2>1, <2>2
<1>5. ASSUME NEW q \in IProc \ {p}, ipr[q].pc = "iget" PROVE dino'[ipr[q].inum].alloc
  <2>1. ipr[q].inum \in Inum
    <3>1. ipr[q].inum \in 0..INodes /\ ipr[q].inum # 0
      BY <1>5 DEF TypeInv, Process, ControlInv, Arguments, Naming, Fresh
    <3> QED BY <3>1, ItableAssumption DEF Inum, ItableAssumption
  <2> QED BY <1>5, <2>1 DEF AllocInv
<1>6. ASSUME NEW q \in IProc, ipr'[q].pc = "iget" PROVE dino'[ipr'[q].inum].alloc
  BY <1>5, <1>6 DEF Mine
<1>7. ASSUME NEW n \in INames, dent'[n] # 0 PROVE dino'[dent'[n]].alloc
  <2>1. CASE dent'[n] = dent[n]
    <3>1. dent[n] \in Inum
      BY <1>7, <2>1, ItableAssumption DEF TypeInv, Inum, ItableAssumption
    <3> QED BY <1>7, <2>1, <3>1 DEF AllocInv
  <2> QED BY <1>7, <2>1
<1> QED BY <1>2, <1>4, <1>6, <1>7 DEF AllocInv

\* The step of a process changes the debts by its own.
LEMMA OweSame ==
    ASSUME ItInv, NEW p \in IProc, Mine(p), Kept, NEW q \in IProc \ {p}, NEW i
    PROVE  OwesTo(ipr[q], i)' <=> OwesTo(ipr[q], i)
<1> USE DEF ItInv
<1>1. ASSUME NEW s \in Slot, Debt(ipr[q], s) PROVE itab'[s].inum = itab[s].inum
  <2>1. Touches(ipr[q], s)
    BY <1>1, Profile DEF ControlInv
  <2> QED BY <2>1, Referred DEF Kept
<1>2. ipr'[q] = ipr[q]
  BY DEF Mine
<1> QED BY <1>1, <1>2 DEF OwesTo

LEMMA OweStep ==
    ASSUME ItInv, NEW p \in IProc, Mine(p), Kept, NEW i
    PROVE  /\ Cardinality(Owing(i)) \in Nat
           /\ Cardinality(Owing(i)') =
                Cardinality(Owing(i)) + Weight(OwesTo(ipr[p], i)') - Weight(OwesTo(ipr[p], i))
<1>1. Owing(i)' \ {p} = Owing(i) \ {p}
  BY OweSame DEF Owing
<1>2. p \in Owing(i)' <=> OwesTo(ipr[p], i)'
  BY DEF Owing
<1>3. p \in Owing(i) <=> OwesTo(ipr[p], i)
  BY DEF Owing
<1>4. /\ Cardinality(Owing(i)) \in Nat
      /\ Cardinality(Owing(i)') = Cardinality(Owing(i)) + Weight(p \in Owing(i)') - Weight(p \in Owing(i))
  BY <1>1, ProcSets, ProcSetsNext, CountStep, CountPositive
<1>5. /\ Weight(p \in Owing(i)') = Weight(OwesTo(ipr[p], i)')
      /\ Weight(p \in Owing(i)) = Weight(OwesTo(ipr[p], i))
  BY <1>2, <1>3 DEF Weight
<1> QED BY <1>4, <1>5

LEMMA LinkKeep ==
    ASSUME ItInv, NEW p \in IProc, Mine(p), Kept, dent' = dent,
           \A i \in Inum : dino'[i].alloc => dino[i].alloc /\ dino'[i].nlink = dino[i].nlink,
           \A s \in Slot : Debt(ipr'[p], s) <=> Debt(ipr[p], s)
    PROVE  LinkInv'
<1> USE DEF ItInv
<1>1. ASSUME NEW i \in Inum PROVE Cardinality(Owing(i)') = Cardinality(Owing(i))
  <2>1. ASSUME NEW s \in Slot, Debt(ipr[p], s) PROVE itab'[s].inum = itab[s].inum
    <3>1. Touches(ipr[p], s)
      BY <2>1, Profile DEF ControlInv
    <3> QED BY <3>1, Referred DEF Kept
  <2>2. OwesTo(ipr[p], i)' <=> OwesTo(ipr[p], i)
    BY <2>1 DEF OwesTo
  <2>3. Weight(OwesTo(ipr[p], i)') = Weight(OwesTo(ipr[p], i)) /\ Weight(OwesTo(ipr[p], i)) \in Nat
    BY <2>2 DEF Weight
  <2>4. /\ Cardinality(Owing(i)) \in Nat
        /\ Cardinality(Owing(i)') =
                Cardinality(Owing(i)) + Weight(OwesTo(ipr[p], i)') - Weight(OwesTo(ipr[p], i))
    BY OweStep
  <2> QED BY <2>3, <2>4
<1>2. \A i : Names(i)' = Names(i)
  BY DEF Names
<1> QED BY <1>1, <1>2 DEF LinkInv

LEMMA FreshStep ==
    ASSUME ItInv, NEW p \in IProc, Mine(p), Kept,
           \A n \in INames : dent'[n] = dent[n] \/ dent'[n] = 0 \/ InDir(ipr[p]),
           \A s \in Slot : Uses(ipr'[p], s) => Uses(ipr[p], s) \/ InDir(ipr[p]),
           Fresh(ipr'[p]) =>
              /\ \A n \in INames : dent'[n] # ipr'[p].inum
              /\ \A q \in IProc \ {p}, s \in Slot : Uses(ipr[q], s) => itab[s].inum # ipr'[p].inum
              /\ Creating(ipr'[p]) => itab'[ipr'[p].ip].inum = ipr'[p].inum
    PROVE  FreshInv'
<1> USE DEF ItInv
<1>1. ASSUME NEW q \in IProc, NEW s \in Slot, Uses(ipr[q], s) PROVE itab'[s].inum = itab[s].inum
  <2>1. Touches(ipr[q], s)
    BY <1>1, Profile DEF ControlInv
  <2> QED BY <2>1, Referred DEF Kept
<1>2. ASSUME NEW q \in IProc \ {p}, Fresh(ipr[q])
      PROVE  /\ \A n \in INames : dent'[n] # ipr[q].inum
             /\ \A x \in IProc \ {q}, s \in Slot : Uses(ipr'[x], s) => itab'[s].inum # ipr[q].inum
             /\ Creating(ipr[q]) => itab'[ipr[q].ip].inum = ipr[q].inum
  <2>1. InDir(ipr[q]) /\ Naming(ipr[q]) /\ ipr[q].inum # 0
    BY <1>2, Profile DEF ControlInv, Arguments
  <2>2. ~InDir(ipr[p])
    BY <2>1, OneInDir
  <2>3. \A n \in INames : dent'[n] # ipr[q].inum
    BY <1>2, <2>1, <2>2 DEF FreshInv
  <2>4. ASSUME NEW x \in IProc \ {q}, NEW s \in Slot, Uses(ipr'[x], s)
        PROVE  itab'[s].inum # ipr[q].inum
    <3>1. Uses(ipr[x], s)
      BY <2>2, <2>4 DEF Mine
    <3> QED BY <1>1, <1>2, <3>1 DEF FreshInv
  <2>5. ASSUME Creating(ipr[q]) PROVE itab'[ipr[q].ip].inum = ipr[q].inum
    <3>1. HasIp(ipr[q])
      BY <2>5, Profile DEF ControlInv
    <3>2. ipr[q].ip \in Slot /\ Touches(ipr[q], ipr[q].ip)
      BY <3>1, AtHand DEF HasIp
    <3> QED BY <1>2, <2>5, <3>2, Referred DEF Kept, FreshInv
  <2> QED BY <2>3, <2>4, <2>5
<1>3. ASSUME Fresh(ipr'[p])
      PROVE  /\ \A n \in INames : dent'[n] # ipr'[p].inum
             /\ \A x \in IProc \ {p}, s \in Slot : Uses(ipr'[x], s) => itab'[s].inum # ipr'[p].inum
             /\ Creating(ipr'[p]) => itab'[ipr'[p].ip].inum = ipr'[p].inum
  BY <1>1, <1>3 DEF Mine
<1> QED BY <1>2, <1>3 DEF FreshInv, Mine

LEMMA NameStep ==
    ASSUME ItInv, NEW p \in IProc, Mine(p), Kept,
           \A n \in INames : dent'[n] = dent[n] \/ InDir(ipr[p]),
           Naming(ipr'[p]) => dent'[ipr'[p].name] = 0,
           Clearing(ipr'[p]) => dent'[ipr'[p].name] = itab'[ipr'[p].ip].inum,
           InTheWay(ipr'[p]) => dent'[ipr'[p].to] = itab'[ipr'[p].ip].inum
    PROVE  NameInv'
<1> USE DEF ItInv
<1>1. ASSUME NEW q \in IProc \ {p}
      PROVE  /\ Naming(ipr[q]) => dent'[ipr[q].name] = 0
             /\ Clearing(ipr[q]) => dent'[ipr[q].name] = itab'[ipr[q].ip].inum
             /\ InTheWay(ipr[q]) => dent'[ipr[q].to] = itab'[ipr[q].ip].inum
  <2> SUFFICES ASSUME Naming(ipr[q]) \/ Clearing(ipr[q]) \/ InTheWay(ipr[q]) PROVE <1>1!2
    OBVIOUS
  <2>1. InDir(ipr[q])
    BY Profile DEF ControlInv
  <2>2. \A n \in INames : dent'[n] = dent[n]
    BY <2>1, OneInDir
  <2>3. ipr[q].name \in INames /\ ipr[q].to \in INames
    <3>1. /\ ipr[q].name \in INames \cup {0} /\ ipr[q].to \in INames \cup {0}
      BY DEF TypeInv, Process
    <3>2. ipr[q].call \in {"create", "unlink", "link"}
      BY DEF ControlInv, Control, LockPoint, PutPoint, Naming, Fresh, Creating, Clearing, InTheWay
    <3> QED BY <3>1, <3>2 DEF ControlInv, Arguments
  <2>4. ASSUME Clearing(ipr[q]) \/ InTheWay(ipr[q])
        PROVE  itab'[ipr[q].ip].inum = itab[ipr[q].ip].inum
    <3>1. HasIp(ipr[q])
      BY <2>4, Profile DEF ControlInv
    <3>2. ipr[q].ip \in Slot /\ Touches(ipr[q], ipr[q].ip)
      BY <3>1, AtHand DEF HasIp
    <3> QED BY <3>2, Referred DEF Kept
  <2> QED BY <2>2, <2>3, <2>4 DEF NameInv
<1> QED BY <1>1 DEF NameInv, Mine

LEMMA LostKeep ==
    ASSUME ItInv, NEW p \in IProc, Mine(p), Kept, dent' = dent, lost' = lost,
           \A s \in Slot : itab'[s].ref > 0 <=> itab[s].ref > 0,
           \A i \in Inum : dino'[i].alloc <=> dino[i].alloc,
           ipr[p].pc # "iget", ipr'[p].pc # "iget"
    PROVE  LostInv'
<1>1. \A i : Named(i)' <=> Named(i)
  BY DEF Named
<1>2. \A i : Entered(i)' <=> Entered(i)
  BY DEF Entered, Kept
<1>3. \A i : Taken(i)' <=> Taken(i)
  BY DEF Taken, Mine
<1> QED BY <1>1, <1>2, <1>3 DEF ItInv, LostInv, Reached

\* A step that changes no more than who holds a lock, of a process that goes on
\* with what it had.
Rest == EntryInv /\ ValidInv /\ FreeInv /\ DoneInv /\ AllocInv /\ LinkInv /\ FreshInv /\ NameInv /\ LostInv
LEMMA QuietStep ==
    ASSUME ItInv, NEW p \in IProc, Mine(p), dino' = dino, dent' = dent, lost' = lost,
           \A s \in Slot : /\ itab'[s].inum = itab[s].inum /\ itab'[s].ref = itab[s].ref
                           /\ itab'[s].valid = itab[s].valid /\ itab'[s].mem = itab[s].mem,
           ipr[p].pc # "idone", ipr'[p].pc # "idone", ipr[p].pc # "iget", ipr'[p].pc # "iget",
           \A s \in Slot : /\ Touches(ipr'[p], s) => Touches(ipr[p], s)
                           /\ Uses(ipr'[p], s) => Uses(ipr[p], s)
                           /\ Knows(ipr'[p], s) => Knows(ipr[p], s) \/ itab[s].valid
                           /\ Debt(ipr'[p], s) <=> Debt(ipr[p], s),
           ipr[p].pc = "ilock" => \A s \in Slot : Touches(ipr'[p], s) => itab[s].holder = 0 \/ s = ipr[p].fd,
           \/ ipr'[p].fd = 0
           \/ ipr'[p].fd = ipr[p].fd /\ ipr'[p].want = ipr[p].want
           \/ dino[itab[ipr'[p].fd].inum].gen = ipr'[p].want,
           ipr'[p].fd \in 0..ISlots, ipr'[p].ip \in 0..ISlots,
           ipr'[p].pc = "ifree" => /\ ipr'[p].ip \in Slot /\ itab[ipr'[p].ip].ref = 1
                                   /\ itab[ipr'[p].ip].mem.nlink = 0,
           Fresh(ipr'[p]) => /\ Fresh(ipr[p]) /\ ipr'[p].inum = ipr[p].inum
                             /\ Creating(ipr'[p]) => Creating(ipr[p]) /\ ipr'[p].ip = ipr[p].ip,
           Naming(ipr'[p]) => dent[ipr'[p].name] = 0,
           Clearing(ipr'[p]) => Clearing(ipr[p]) /\ ipr'[p].name = ipr[p].name /\ ipr'[p].ip = ipr[p].ip,
           ~InTheWay(ipr'[p])
    PROVE  Rest'
<1>0. Kept
  BY DEF Kept
<1>1. EntryInv'
  BY <1>0, EntryStep DEF ItInv
<1>2. ValidInv'
  <2>1. \A s \in Slot : itab[s].ref > 0 /\ itab[s].valid => Matches(s)' \/ ~Matches(s)
    BY DEF Matches
  <2>2. \A s \in Slot : Knows(ipr'[p], s) => itab'[s].valid
    BY DEF ItInv, ValidInv
  <2> QED BY <2>1, <2>2, ValidStep
<1>3. FreeInv'
  BY FreeStep
<1>4. DoneInv'
  BY <1>0, DoneStep
<1>5. AllocInv'
  <2>1. ipr'[p].fd # 0 => itab'[ipr'[p].fd].inum = itab[ipr'[p].fd].inum
    BY ItableAssumption DEF Slot, ItableAssumption
  <2> QED BY <1>0, <2>1, AllocStep
<1>6. LinkInv'
  BY <1>0, LinkKeep
<1>7. FreshInv'
  <2>1. ASSUME Creating(ipr'[p]) PROVE itab'[ipr'[p].ip].inum = ipr'[p].inum
    <3>1. Creating(ipr[p]) /\ Fresh(ipr[p]) /\ ipr'[p].ip = ipr[p].ip /\ ipr'[p].inum = ipr[p].inum
      BY <2>1 DEF Fresh
    <3>2. ipr[p].ip \in Slot
      BY <3>1, Profile, AtHand DEF ItInv, ControlInv, HasIp
    <3> QED BY <3>1, <3>2 DEF ItInv, FreshInv
  <2>2. Fresh(ipr'[p]) =>
              /\ \A n \in INames : dent'[n] # ipr'[p].inum
              /\ \A q \in IProc \ {p}, s \in Slot : Uses(ipr[q], s) => itab[s].inum # ipr'[p].inum
    BY DEF ItInv, FreshInv
  <2> QED BY <1>0, <2>1, <2>2, FreshStep
<1>8. NameInv'
  <2>1. ASSUME Clearing(ipr'[p]) PROVE dent'[ipr'[p].name] = itab'[ipr'[p].ip].inum
    <3>1. ipr[p].ip \in Slot
      BY <2>1, Profile, AtHand DEF ItInv, ControlInv, HasIp
    <3> QED BY <2>1, <3>1 DEF ItInv, NameInv
  <2> QED BY <1>0, <2>1, NameStep
<1>9. LostInv'
  BY <1>0, LostKeep
<1> QED BY <1>1, <1>2, <1>3, <1>4, <1>5, <1>6, <1>7, <1>8, <1>9 DEF Rest

-----------------------------------------------------------------------------
(* Where a step leaves its process *)

SameArgs(r, t) == /\ r.call = t.call /\ r.ip = t.ip /\ r.src = t.src /\ r.name = t.name /\ r.to = t.to
                  /\ r.inum = t.inum /\ r.fd = t.fd /\ r.want = t.want
Over(r, t) == /\ r.pc = "idle" /\ r.then = "" /\ r.call = "" /\ r.ip = 0 /\ r.src = 0 /\ r.name = 0
              /\ r.to = 0 /\ r.inum = 0 /\ r.fd = t.fd /\ r.want = t.want
OnItsWay(p) == ipr' \in [IProc -> Process] /\ Mine(p)

LEMMA Bounds == /\ 0 \in 0..ISlots /\ 0 \in 0..INodes /\ 1 \in 0..INodes /\ 1 \in Inum
                /\ 0 \notin Slot /\ 0 \notin Inum /\ 0 \notin IProc /\ 0 \notin INames
                /\ \A s \in 0..ISlots : s # 0 => s \in Slot
                /\ \A i \in 0..INodes : i # 0 => i \in Inum
BY ItableAssumption DEF ItableAssumption, Slot, Inum

LEMMA ToStep ==
    ASSUME TypeInv, NEW p \in IProc, NEW l \in IPcs, ipr' = To(p, l)
    PROVE  OnItsWay(p) /\ ipr'[p].pc = l /\ ipr'[p].then = ipr[p].then /\ SameArgs(ipr'[p], ipr[p])
BY DEF TypeInv, To, OnItsWay, Mine, Process, SameArgs

LEMMA CallStep ==
    ASSUME TypeInv, NEW p \in IProc, NEW l \in IPcs, NEW t \in Thens, ipr' = Call(p, l, t)
    PROVE  OnItsWay(p) /\ ipr'[p].pc = l /\ ipr'[p].then = t /\ SameArgs(ipr'[p], ipr[p])
BY DEF TypeInv, Call, OnItsWay, Mine, Process, SameArgs

LEMMA ReturnStep ==
    ASSUME TypeInv, NEW p \in IProc, ipr' = Return(p)
    PROVE  OnItsWay(p) /\ Over(ipr'[p], ipr[p])
<1>1. ipr[p].fd \in 0..ISlots /\ ipr[p].want \in Nat
  BY DEF TypeInv, Process
<1>2. 0 \in 0..ISlots /\ 0 \in 0..INodes
  BY ItableAssumption DEF ItableAssumption
<1> DEFINE r == [Idle EXCEPT !.fd = ipr[p].fd, !.want = ipr[p].want]
<1>3. r \in Process
  BY <1>1, <1>2 DEF Idle, Process, IPcs, Thens, ICalls
<1>4. Over(r, ipr[p])
  BY DEF Idle, Over
<1>5. ipr' = [ipr EXCEPT ![p] = r]
  BY DEF Return
<1>6. PICK t \in Process : ipr' = [ipr EXCEPT ![p] = t] /\ Over(t, ipr[p])
  <2> HIDE DEF r
  <2> QED BY <1>3, <1>4, <1>5
<1> QED BY <1>6 DEF TypeInv, OnItsWay, Mine

LEMMA BackStep ==
    ASSUME TypeInv, NEW p \in IProc, ipr' = Back(p), ipr[p].then \in IPcs \cup {"return"}
    PROVE  /\ OnItsWay(p)
           /\ \/ ipr[p].then = "return" /\ Over(ipr'[p], ipr[p])
              \/ /\ ipr[p].then # "return" /\ ipr'[p].pc = ipr[p].then /\ ipr'[p].then = ipr[p].then
                 /\ SameArgs(ipr'[p], ipr[p])
BY ToStep, ReturnStep DEF Back

-----------------------------------------------------------------------------
(* The steps that change no entry of the table *)

LEMMA ItInvAgain ==
    ASSUME ItInv, NEW p \in IProc, OnItsWay(p), Control(ipr'[p]), Arguments(ipr'[p]), TypeInv',
           DirInv', HoldInv', RefInv', Rest'
    PROVE  ItInv'
BY DEF ItInv, Rest, OnItsWay, Mine, ControlInv

\* A step of process p that takes and drops no reference, and after which the
\* claims of the process are those it had.
Claims(p) ==
    \A s \in Slot : /\ RefsOf(ipr'[p], s) = RefsOf(ipr[p], s)
                    /\ Touches(ipr'[p], s) => Touches(ipr[p], s)
                    /\ Uses(ipr'[p], s) => Uses(ipr[p], s)
                    /\ Knows(ipr'[p], s) => Knows(ipr[p], s) \/ itab[s].valid
                    /\ Debt(ipr'[p], s) <=> Debt(ipr[p], s)

\* No lock of an inode is involved.
LEMMA PlainStep ==
    ASSUME ItInv, NEW p \in IProc, OnItsWay(p), UNCHANGED <<dino, itab, dent, lost, ipanic>>,
           calls' \in 0..MaxCalls, ~Locking(ipr[p]), ~Locking(ipr'[p]), Claims(p),
           Control(ipr'[p]), Arguments(ipr'[p]),
           dhold' = p <=> InDir(ipr'[p]), dhold' = dhold \/ (dhold \in {0, p} /\ dhold' \in {0, p}),
           ipr[p].pc \notin {"ilock", "idone", "iget"}, ipr'[p].pc \notin {"ifree", "idone", "iget"},
           ipr'[p].fd = 0 \/ (ipr'[p].fd = ipr[p].fd /\ ipr'[p].want = ipr[p].want),
           ~Fresh(ipr'[p]), Naming(ipr'[p]) => dent[ipr'[p].name] = 0,
           ~Clearing(ipr'[p]), ~InTheWay(ipr'[p])
    PROVE  ItInv'
<1>1. HoldInv'
  BY HoldStep DEF ItInv, HoldInv, OnItsWay
<1>2. \A s \in Slot : itab[s].ref \in Nat /\ RefsOf(ipr[p], s) \in Nat
  BY DEF ItInv, TypeInv, Entry, RefsOf, Weight
<1>3. RefInv'
  BY <1>2, RefStep DEF ItInv, Claims, OnItsWay
<1>4. TypeInv'
  <2>1. dhold' \in IProc \cup {0}
    BY DEF ItInv, TypeInv
  <2> QED BY <2>1 DEF ItInv, TypeInv, OnItsWay
<1>5. DirInv'
  BY DirStep DEF ItInv, OnItsWay
<1>6. ipr'[p].fd \in 0..ISlots /\ ipr'[p].ip \in 0..ISlots
  BY DEF OnItsWay, Process
<1>7. Rest'
  BY <1>6, QuietStep DEF Claims, OnItsWay
<1> QED BY <1>1, <1>3, <1>4, <1>5, <1>7, ItInvAgain

LEMMA LinkDirStep == ASSUME ItInv, NEW p \in IProc, linkDir(p) PROVE ItInv'
<1> USE DEF ItInv
<1>1. /\ ipr[p].pc = "dir2" /\ dhold = 0 /\ dhold' = p /\ ipr' = To(p, "dirlink")
      /\ UNCHANGED <<dino, itab, dent, calls, lost, ipanic>>
  BY DEF linkDir, On
<1>2. OnItsWay(p) /\ ipr'[p].pc = "dirlink" /\ ipr'[p].then = ipr[p].then /\ SameArgs(ipr'[p], ipr[p])
  BY <1>1, ToStep DEF IPcs, IpPcs
<1>3. Control(ipr[p]) /\ Arguments(ipr[p]) /\ ipr[p].call = "link" /\ calls \in 0..MaxCalls
  BY <1>1 DEF ControlInv, Control, TypeInv
<1>4. Control(ipr'[p]) /\ Arguments(ipr'[p])
  BY <1>1, <1>2, <1>3 DEF Control, Arguments, SameArgs, FreePcs, Naming, Fresh, Creating, HasSrc,
                          IpPcs, LockPcs
<1>5. /\ ~Locking(ipr[p]) /\ ~Locking(ipr'[p]) /\ InDir(ipr'[p])
      /\ ~Naming(ipr'[p]) /\ ~Fresh(ipr'[p]) /\ ~Clearing(ipr'[p]) /\ ~InTheWay(ipr'[p])
  BY <1>1, <1>2 DEF Locking, LockPcs, InDir, Naming, Fresh, Creating, Clearing, InTheWay
<1>6. Claims(p)
  BY <1>1, <1>2, <1>3 DEF Claims, SameArgs, RefsOf, Touches, Uses, Knows, Debt, HasIp, HasSrc, HasRead,
                          Proper, Owes, IpPcs, LockPcs
<1> QED BY <1>1, <1>2, <1>3, <1>4, <1>5, <1>6, PlainStep DEF SameArgs

LEMMA CreateLeaveStep == ASSUME ItInv, NEW p \in IProc, createLeave(p) PROVE ItInv'
<1> USE DEF ItInv
<1>1. /\ ipr[p].pc = "leave" /\ dhold' = 0 /\ ipr' = Return(p)
      /\ UNCHANGED <<dino, itab, dent, calls, lost, ipanic>>
  BY DEF createLeave, On
<1>2. OnItsWay(p) /\ Over(ipr'[p], ipr[p])
  BY <1>1, ReturnStep
<1>3. /\ Control(ipr[p]) /\ Arguments(ipr[p]) /\ calls \in 0..MaxCalls
      /\ dhold = p /\ dhold' # p
  BY <1>1, ItableAssumption DEF ControlInv, TypeInv, DirInv, InDir, ItableAssumption
<1>4. Control(ipr'[p]) /\ Arguments(ipr'[p])
  BY <1>1, <1>2, <1>3 DEF Control, Arguments, Over, FreePcs, Naming, Fresh, Creating, HasSrc,
                          IpPcs, LockPcs
<1>5. /\ ~Locking(ipr[p]) /\ ~Locking(ipr'[p]) /\ ~InDir(ipr'[p])
      /\ ~Naming(ipr'[p]) /\ ~Fresh(ipr'[p]) /\ ~Clearing(ipr'[p]) /\ ~InTheWay(ipr'[p])
  BY <1>1, <1>2 DEF Over, Locking, LockPcs, InDir, Naming, Fresh, Creating, Clearing, InTheWay, FreePcs
<1>6. Claims(p)
  BY <1>1, <1>2, <1>3 DEF Claims, Over, RefsOf, Touches, Uses, Knows, Debt, HasIp, HasSrc, HasRead,
                          Proper, Owes, IpPcs, LockPcs
<1> QED BY <1>1, <1>2, <1>3, <1>4, <1>5, <1>6, PlainStep DEF Over

\* The pieces of NotThere and ialloc() that end a call.
LEMMA GiveUpStep ==
    ASSUME ItInv, NEW p \in IProc, ipr[p].pc \in {"dir", "ialloc"}, dhold' = 0, ipr' = Return(p),
           UNCHANGED <<dino, itab, dent, calls, lost, ipanic>>
    PROVE  ItInv'
<1> USE DEF ItInv
<1>2. OnItsWay(p) /\ Over(ipr'[p], ipr[p])
  BY ReturnStep
<1>3. /\ Control(ipr[p]) /\ Arguments(ipr[p]) /\ calls \in 0..MaxCalls
      /\ dhold = p /\ dhold' # p
  BY ItableAssumption DEF ControlInv, TypeInv, DirInv, InDir, Naming, ItableAssumption
<1>4. Control(ipr'[p]) /\ Arguments(ipr'[p])
  BY <1>2, <1>3 DEF Control, Arguments, Over, FreePcs, Naming, Fresh, Creating, HasSrc,
                          IpPcs, LockPcs
<1>5. /\ ~Locking(ipr[p]) /\ ~Locking(ipr'[p]) /\ ~InDir(ipr'[p])
      /\ ~Naming(ipr'[p]) /\ ~Fresh(ipr'[p]) /\ ~Clearing(ipr'[p]) /\ ~InTheWay(ipr'[p])
  BY <1>2 DEF Over, Locking, LockPcs, InDir, Naming, Fresh, Creating, Clearing, InTheWay, FreePcs
<1>6. Claims(p)
  BY <1>2, <1>3 DEF Claims, Over, RefsOf, Touches, Uses, Knows, Debt, HasIp, HasSrc, HasRead,
                    Proper, Owes, IpPcs, LockPcs
<1> QED BY <1>2, <1>3, <1>4, <1>5, <1>6, PlainStep DEF Over

LEMMA NotThereStep == ASSUME ItInv, NEW p \in IProc, NotThere(p) PROVE ItInv'
<1> USE DEF ItInv
<1>1. /\ ipr[p].pc = "dir" /\ dent[ipr[p].name] = 0
      /\ UNCHANGED <<dino, itab, dent, calls, lost, ipanic>>
  BY DEF NotThere, On
<1>2. CASE ipr[p].call # "create"
  BY <1>1, <1>2, GiveUpStep DEF NotThere
<1>3. CASE ipr[p].call = "create"
  <2>1. /\ ipr' = [ipr EXCEPT ![p] = [ipr[p] EXCEPT !.pc = "ialloc", !.inum = 1]]
        /\ dhold' = dhold
    BY <1>3 DEF NotThere
  <2>2. PICK r \in Process :
          /\ ipr' = [ipr EXCEPT ![p] = r] /\ r.pc = "ialloc" /\ r.inum = 1 /\ r.call = "create"
          /\ r.name = ipr[p].name /\ r.to = ipr[p].to /\ r.fd = ipr[p].fd /\ r.want = ipr[p].want
    <3> DEFINE t == [ipr[p] EXCEPT !.pc = "ialloc", !.inum = 1]
    <3>1. ipr[p] \in Process
      BY DEF TypeInv
    <3>2. t \in Process
      BY <3>1, Bounds DEF Process, IPcs, IpPcs, ICalls, Thens
    <3> QED BY <1>3, <2>1, <3>1, <3>2 DEF Process
  <2>3. OnItsWay(p) /\ ipr'[p] = r
    BY <2>2 DEF TypeInv, OnItsWay, Mine
  <2>4. Control(ipr[p]) /\ Arguments(ipr[p]) /\ calls \in 0..MaxCalls /\ dhold = p
    BY <1>1 DEF ControlInv, TypeInv, DirInv, InDir
  <2>5. Control(r) /\ Arguments(r)
    BY <1>3, <2>2, <2>4 DEF Control, Arguments, FreePcs, HasSrc, IpPcs, LockPcs
  <2>6. /\ ~Locking(ipr[p]) /\ ~Locking(r) /\ InDir(r)
        /\ ~Fresh(r) /\ ~Clearing(r) /\ ~InTheWay(r)
    BY <1>1, <2>2 DEF Locking, LockPcs, InDir, Naming, Fresh, Creating, Clearing, InTheWay
  <2>7. Claims(p)
    BY <1>1, <2>2, <2>3, <2>4 DEF Claims, RefsOf, Touches, Uses, Knows, Debt, HasIp, HasSrc, HasRead,
                                  Proper, Owes, IpPcs, LockPcs
  <2> QED BY <1>1, <2>1, <2>2, <2>3, <2>4, <2>5, <2>6, <2>7, PlainStep
<1> QED BY <1>2, <1>3

LEMMA BeginStep ==
    ASSUME ItInv, NEW p \in IProc, NEW call \in {"open", "create", "unlink", "link"},
           NEW n \in INames, NEW m \in INames, Begin(p, call, n, m)
    PROVE  ItInv'
<1> USE DEF ItInv
<1>1. /\ ipr[p].pc = "idle" /\ dhold = 0 /\ dhold' = p /\ calls < MaxCalls /\ calls' = calls + 1
      /\ call \in {"open", "create"} => ipr[p].fd = 0
      /\ ipr' = [ipr EXCEPT ![p] = [ipr[p] EXCEPT !.pc = "dir", !.call = call, !.name = n, !.to = m]]
      /\ UNCHANGED <<dino, itab, dent, lost, ipanic>>
  BY DEF Begin, On
<1>2. PICK r \in Process :
        /\ ipr' = [ipr EXCEPT ![p] = r] /\ r.pc = "dir" /\ r.call = call /\ r.name = n /\ r.to = m
        /\ r.fd = ipr[p].fd /\ r.want = ipr[p].want
  <2> DEFINE t == [ipr[p] EXCEPT !.pc = "dir", !.call = call, !.name = n, !.to = m]
  <2>1. ipr[p] \in Process
    BY DEF TypeInv
  <2>2. t \in Process
    BY <2>1, Bounds DEF Process, IPcs, IpPcs, ICalls, Thens
  <2> QED BY <1>1, <2>1, <2>2 DEF Process
<1>3. OnItsWay(p) /\ ipr'[p] = r
  BY <1>2 DEF TypeInv, OnItsWay, Mine
<1>4. Control(ipr[p]) /\ Arguments(ipr[p]) /\ calls' \in 0..MaxCalls /\ n # 0 /\ m # 0
  BY <1>1, ItableAssumption DEF ControlInv, TypeInv, ItableAssumption
<1>5. Control(r) /\ Arguments(r)
  BY <1>1, <1>2, <1>4 DEF Control, Arguments, FreePcs, HasSrc, IpPcs, LockPcs, Naming, Fresh, Creating
<1>6. /\ ~Locking(ipr[p]) /\ ~Locking(r) /\ InDir(r)
      /\ ~Naming(r) /\ ~Fresh(r) /\ ~Clearing(r) /\ ~InTheWay(r)
  BY <1>1, <1>2 DEF Locking, LockPcs, InDir, Naming, Fresh, Creating, Clearing, InTheWay
<1>7. Claims(p)
  BY <1>1, <1>2, <1>3, <1>4 DEF Claims, RefsOf, Touches, Uses, Knows, Debt, HasIp, HasSrc, HasRead,
                                Proper, Owes, IpPcs, LockPcs
<1> QED BY <1>1, <1>2, <1>3, <1>4, <1>5, <1>6, <1>7, PlainStep

LEMMA BeginUseStep == ASSUME ItInv, NEW p \in IProc, BeginUse(p) PROVE ItInv'
<1> USE DEF ItInv
<1>1. /\ ipr[p].pc = "idle" /\ calls < MaxCalls /\ calls' = calls + 1 /\ ipr[p].fd # 0
      /\ ipr' = [ipr EXCEPT ![p] = [ipr[p] EXCEPT !.pc = "ilock", !.then = "unlock", !.call = "use",
                                                   !.ip = ipr[p].fd]]
      /\ UNCHANGED <<dino, itab, dent, dhold, lost, ipanic>>
  BY DEF BeginUse, On
<1>2. PICK r \in Process :
        /\ ipr' = [ipr EXCEPT ![p] = r] /\ r.pc = "ilock" /\ r.then = "unlock" /\ r.call = "use"
        /\ r.ip = ipr[p].fd /\ r.fd = ipr[p].fd /\ r.want = ipr[p].want
  <2> DEFINE t == [ipr[p] EXCEPT !.pc = "ilock", !.then = "unlock", !.call = "use", !.ip = ipr[p].fd]
  <2>1. ipr[p] \in Process
    BY DEF TypeInv
  <2>2. t \in Process
    BY <2>1, Bounds DEF Process, IPcs, IpPcs, ICalls, Thens
  <2> QED BY <1>1, <2>1, <2>2 DEF Process
<1>3. OnItsWay(p) /\ ipr'[p] = r
  BY <1>2 DEF TypeInv, OnItsWay, Mine
<1>4. Control(ipr[p]) /\ Arguments(ipr[p]) /\ calls' \in 0..MaxCalls
  BY <1>1, ItableAssumption DEF ControlInv, TypeInv, ItableAssumption
<1>5. Control(r) /\ Arguments(r)
  BY <1>1, <1>2, <1>4 DEF Control, Arguments, LockPoint, FreePcs, HasSrc, IpPcs, LockPcs, Naming, Fresh,
                          Creating
<1>6. /\ ~Locking(ipr[p]) /\ ~Locking(r) /\ ~InDir(r) /\ ~InDir(ipr[p])
      /\ ~Naming(r) /\ ~Fresh(r) /\ ~Clearing(r) /\ ~InTheWay(r)
  BY <1>1, <1>2 DEF Locking, LockPcs, InDir, Naming, Fresh, Creating, Clearing, InTheWay, FreePcs
<1>7. Claims(p)
  BY <1>1, <1>2, <1>3, <1>4 DEF Claims, RefsOf, Touches, Uses, Knows, Debt, HasIp, HasSrc, HasRead,
                                Proper, Owes, IpPcs, LockPcs
<1>8. dhold' # p
  BY <1>1, <1>6 DEF DirInv
<1> QED BY <1>1, <1>2, <1>3, <1>4, <1>5, <1>6, <1>7, <1>8, PlainStep

LEMMA BeginCloseStep == ASSUME ItInv, NEW p \in IProc, BeginClose(p) PROVE ItInv'
<1> USE DEF ItInv
<1>1. /\ ipr[p].pc = "idle" /\ ipr[p].fd # 0
      /\ ipr' = [ipr EXCEPT ![p] = [ipr[p] EXCEPT !.pc = "iput", !.then = "return", !.call = "close",
                                                   !.ip = ipr[p].fd, !.fd = 0]]
      /\ UNCHANGED <<dino, itab, dent, dhold, calls, lost, ipanic>>
  BY DEF BeginClose, On
<1>2. PICK r \in Process :
        /\ ipr' = [ipr EXCEPT ![p] = r] /\ r.pc = "iput" /\ r.then = "return" /\ r.call = "close"
        /\ r.ip = ipr[p].fd /\ r.fd = 0
  <2> DEFINE t == [ipr[p] EXCEPT !.pc = "iput", !.then = "return", !.call = "close", !.ip = ipr[p].fd, !.fd = 0]
  <2>1. ipr[p] \in Process
    BY DEF TypeInv
  <2>2. t \in Process
    BY <2>1, Bounds DEF Process, IPcs, IpPcs, ICalls, Thens
  <2> QED BY <1>1, <2>1, <2>2 DEF Process
<1>3. OnItsWay(p) /\ ipr'[p] = r
  BY <1>2 DEF TypeInv, OnItsWay, Mine
<1>4. Control(ipr[p]) /\ Arguments(ipr[p]) /\ calls \in 0..MaxCalls /\ 0 \notin Slot
  BY <1>1 DEF ControlInv, TypeInv, Slot
<1>5. Control(r) /\ Arguments(r)
  BY <1>1, <1>2, <1>4 DEF Control, Arguments, PutPoint, FreePcs, HasSrc, IpPcs, LockPcs, Naming, Fresh,
                          Creating
<1>6. /\ ~Locking(ipr[p]) /\ ~Locking(r) /\ ~InDir(r) /\ ~InDir(ipr[p])
      /\ ~Naming(r) /\ ~Fresh(r) /\ ~Clearing(r) /\ ~InTheWay(r)
  BY <1>1, <1>2 DEF Locking, LockPcs, InDir, Naming, Fresh, Creating, Clearing, InTheWay, FreePcs
<1>7. Claims(p)
  BY <1>1, <1>2, <1>3, <1>4 DEF Claims, RefsOf, Weight, Touches, Uses, Knows, Debt, HasIp, HasSrc, HasRead,
                                Proper, Owes, IpPcs, LockPcs
<1>8. dhold' # p
  BY <1>1, <1>6 DEF DirInv
<1> QED BY <1>1, <1>2, <1>3, <1>4, <1>5, <1>6, <1>7, <1>8, PlainStep

LEMMA LinkBadStep == ASSUME ItInv, NEW p \in IProc, linkBad(p) PROVE ItInv'
<1> USE DEF ItInv
<1>1. /\ ipr[p].pc \in {"bad", "dirlink"} /\ dhold' = 0
      /\ ipr' = [ipr EXCEPT ![p] = [ipr[p] EXCEPT !.ip = ipr[p].src, !.pc = "ilock", !.then = "discount"]]
      /\ UNCHANGED <<dino, itab, dent, calls, lost, ipanic>>
  BY DEF linkBad, On
<1>2. PICK r \in Process :
        /\ ipr' = [ipr EXCEPT ![p] = r] /\ r.pc = "ilock" /\ r.then = "discount" /\ r.call = ipr[p].call
        /\ r.ip = ipr[p].src /\ r.name = ipr[p].name /\ r.to = ipr[p].to
        /\ r.fd = ipr[p].fd /\ r.want = ipr[p].want
  <2> DEFINE t == [ipr[p] EXCEPT !.ip = ipr[p].src, !.pc = "ilock", !.then = "discount"]
  <2>1. ipr[p] \in Process
    BY DEF TypeInv
  <2>2. t \in Process
    BY <2>1, Bounds DEF Process, IPcs, IpPcs, ICalls, Thens
  <2> QED BY <1>1, <2>1, <2>2 DEF Process
<1>3. OnItsWay(p) /\ ipr'[p] = r
  BY <1>2 DEF TypeInv, OnItsWay, Mine
<1>4. /\ Control(ipr[p]) /\ Arguments(ipr[p]) /\ ipr[p].call = "link" /\ calls \in 0..MaxCalls
      /\ dhold = p /\ dhold' # p
  BY <1>1, ItableAssumption DEF ControlInv, Control, TypeInv, DirInv, InDir, ItableAssumption
<1>5. ipr[p].src # 0 /\ (ipr[p].pc = "dirlink" => ipr[p].src = ipr[p].ip)
  BY <1>1, <1>4 DEF Arguments, HasSrc, IpPcs
<1>6. Control(r) /\ Arguments(r)
  BY <1>1, <1>2, <1>4, <1>5 DEF Control, Arguments, LockPoint, FreePcs, HasSrc, IpPcs, LockPcs, Naming,
                                Fresh, Creating
<1>7. /\ ~Locking(ipr[p]) /\ ~Locking(r) /\ ~InDir(r)
      /\ ~Naming(r) /\ ~Fresh(r) /\ ~Clearing(r) /\ ~InTheWay(r)
  BY <1>1, <1>2 DEF Locking, LockPcs, InDir, Naming, Fresh, Creating, Clearing, InTheWay, FreePcs
<1>8. Claims(p)
  BY <1>1, <1>2, <1>3, <1>4, <1>5 DEF Claims, RefsOf, Weight, Touches, Uses, Knows, Debt, HasIp, HasSrc,
                                      HasRead, Proper, Owes, IpPcs, LockPcs
<1> QED BY <1>1, <1>2, <1>3, <1>4, <1>6, <1>7, <1>8, PlainStep

-----------------------------------------------------------------------------
(* The steps that take or let go the lock of an inode *)

\* The process stands where it stood: in the directory or not, with the names
\* it was about.
Steady(p) ==
    /\ InDir(ipr'[p]) <=> InDir(ipr[p])
    /\ Fresh(ipr'[p]) => /\ Fresh(ipr[p]) /\ ipr'[p].inum = ipr[p].inum
                         /\ Creating(ipr'[p]) => Creating(ipr[p]) /\ ipr'[p].ip = ipr[p].ip
    /\ Naming(ipr'[p]) => Naming(ipr[p]) /\ ipr'[p].name = ipr[p].name
    /\ Clearing(ipr'[p]) => Clearing(ipr[p]) /\ ipr'[p].name = ipr[p].name /\ ipr'[p].ip = ipr[p].ip
    /\ ~InTheWay(ipr'[p])

LEMMA LockStep ==
    ASSUME ItInv, NEW p \in IProc, OnItsWay(p), UNCHANGED <<dino, dent, dhold, calls, lost, ipanic>>,
           NEW s \in Slot, NEW h \in {0, p}, s = ipr[p].ip, itab[s].holder \in {0, p},
           itab' = [itab EXCEPT ![s].holder = h],
           Locking(ipr'[p]) <=> h = p, Locking(ipr'[p]) => ipr'[p].ip = s,
           Claims(p), Control(ipr'[p]), Arguments(ipr'[p]),
           ipr[p].pc \notin {"idone", "iget"}, ipr'[p].pc \notin {"idone", "iget"},
           ipr[p].pc = "ilock" => \A t \in Slot : Touches(ipr'[p], t) => itab[t].holder = 0 \/ t = ipr[p].fd,
           \/ ipr'[p].fd = 0
           \/ ipr'[p].fd = ipr[p].fd /\ ipr'[p].want = ipr[p].want
           \/ dino[itab[ipr'[p].fd].inum].gen = ipr'[p].want,
           ipr'[p].pc = "ifree" => ipr'[p].ip = s /\ itab[s].ref = 1 /\ itab[s].mem.nlink = 0,
           Steady(p)
    PROVE  ItInv'
<1>1. /\ itab' \in [Slot -> Entry]
      /\ \A t \in Slot : /\ itab'[t].inum = itab[t].inum /\ itab'[t].ref = itab[t].ref
                         /\ itab'[t].valid = itab[t].valid /\ itab'[t].mem = itab[t].mem
                         /\ itab'[t].holder = IF t = s THEN h ELSE itab[t].holder
  <2> DEFINE e == [itab[s] EXCEPT !.holder = h]
  <2>1. itab[s] \in Entry /\ itab \in [Slot -> Entry]
    BY DEF ItInv, TypeInv
  <2>2. /\ e \in Entry /\ e.holder = h /\ e.inum = itab[s].inum /\ e.ref = itab[s].ref
        /\ e.valid = itab[s].valid /\ e.mem = itab[s].mem
    BY <2>1 DEF Entry
  <2>3. itab' = [itab EXCEPT ![s] = e]
    OBVIOUS
  <2> HIDE DEF e
  <2> QED BY <2>1, <2>2, <2>3
<1>2. HoldInv'
  <2>1. \A t \in Slot : itab'[t].holder = p <=> Locking(ipr'[p]) /\ ipr'[p].ip = t
    <3>1. \A t \in Slot : t # s => itab[t].holder # p
      BY DEF ItInv, HoldInv
    <3> QED BY <1>1, <3>1, Bounds
  <2>2. \A t \in Slot : \/ itab'[t].holder = itab[t].holder
                        \/ itab[t].holder \in {0, p} /\ itab'[t].holder \in {0, p}
    BY <1>1
  <2> QED BY <2>1, <2>2, HoldStep DEF ItInv, OnItsWay
<1>3. \A t \in Slot : itab[t].ref \in Nat /\ RefsOf(ipr[p], t) \in Nat
  BY DEF ItInv, TypeInv, Entry, RefsOf, Weight
<1>4. RefInv'
  BY <1>1, <1>3, RefStep DEF ItInv, Claims, OnItsWay
<1>5. TypeInv'
  BY <1>1 DEF ItInv, TypeInv, OnItsWay
<1>6. DirInv'
  <2>1. dhold' = p <=> InDir(ipr'[p])
    BY DEF ItInv, DirInv, Steady
  <2> QED BY <2>1, DirStep DEF ItInv, OnItsWay
<1>7. ipr'[p].fd \in 0..ISlots /\ ipr'[p].ip \in 0..ISlots
  BY DEF OnItsWay, Process
<1>8. Naming(ipr'[p]) => dent[ipr'[p].name] = 0
  BY DEF ItInv, NameInv, Steady
<1>9. Rest'
  <2>1. Mine(p) /\ dino' = dino /\ dent' = dent /\ lost' = lost
    BY DEF OnItsWay
  <2>2. \A t \in Slot : /\ Touches(ipr'[p], t) => Touches(ipr[p], t)
                        /\ Uses(ipr'[p], t) => Uses(ipr[p], t)
                        /\ Knows(ipr'[p], t) => Knows(ipr[p], t) \/ itab[t].valid
                        /\ Debt(ipr'[p], t) <=> Debt(ipr[p], t)
    BY DEF Claims
  <2>3. \A t \in Slot : /\ itab'[t].inum = itab[t].inum /\ itab'[t].ref = itab[t].ref
                        /\ itab'[t].valid = itab[t].valid /\ itab'[t].mem = itab[t].mem
    BY <1>1
  <2>4. /\ Fresh(ipr'[p]) => /\ Fresh(ipr[p]) /\ ipr'[p].inum = ipr[p].inum
                             /\ Creating(ipr'[p]) => Creating(ipr[p]) /\ ipr'[p].ip = ipr[p].ip
        /\ Clearing(ipr'[p]) => Clearing(ipr[p]) /\ ipr'[p].name = ipr[p].name /\ ipr'[p].ip = ipr[p].ip
        /\ ~InTheWay(ipr'[p])
    BY DEF Steady
  <2>5. ipr'[p].pc = "ifree" => /\ ipr'[p].ip \in Slot /\ itab[ipr'[p].ip].ref = 1
                                /\ itab[ipr'[p].ip].mem.nlink = 0
    OBVIOUS
  <2>6. ipr[p].pc # "idone" /\ ipr'[p].pc # "idone" /\ ipr[p].pc # "iget" /\ ipr'[p].pc # "iget"
    OBVIOUS
  <2> HIDE DEF ItInv
  <2> QED BY <1>7, <1>8, <2>1, <2>2, <2>3, <2>4, <2>5, <2>6, QuietStep
<1> QED BY <1>2, <1>4, <1>5, <1>6, <1>9, ItInvAgain

LEMMA IlockStep == ASSUME ItInv, NEW p \in IProc, ilock(p) PROVE ItInv'
<1> USE DEF ItInv
<1>1. PICK s \in Slot : s = ipr[p].ip /\ itab[s].ref > 0 /\ ipr[p].pc = "ilock" /\ itab[s].holder = 0
  <2>1. ipr[p].pc = "ilock" /\ ip(p).holder = 0
    BY DEF ilock, On
  <2>2. ipr[p].ip \in Slot /\ Touches(ipr[p], ipr[p].ip)
    BY <2>1, AtHand DEF IpPcs
  <2> QED BY <2>1, <2>2, Referred DEF ip
<1>2. /\ itab' = [itab EXCEPT ![s].holder = p] /\ UNCHANGED <<dino, dent, dhold, calls, lost, ipanic>>
      /\ ipr' = IF itab[s].valid THEN Back(p) ELSE To(p, "iread")
  <2>1. itab[s].ref \in Nat
    BY DEF TypeInv, Entry
  <2> QED BY <1>1, <2>1 DEF ilock, ip
<1>3. Control(ipr[p]) /\ Arguments(ipr[p]) /\ LockPoint(ipr[p])
  BY <1>1 DEF ControlInv, Control
<1>4. /\ OnItsWay(p) /\ ipr'[p].then = ipr[p].then /\ SameArgs(ipr'[p], ipr[p])
      /\ \/ ipr'[p].pc = ipr[p].then /\ itab[s].valid
         \/ ipr'[p].pc = "iread"
  <2>1. ipr[p].then \in IPcs /\ ipr[p].then # "return"
    BY <1>3 DEF LockPoint, IPcs, IpPcs, LockPcs
  <2> QED BY <1>2, <2>1, BackStep, ToStep DEF IPcs, IpPcs, LockPcs
<1>5. Control(ipr'[p]) /\ Arguments(ipr'[p])
  BY <1>1, <1>3, <1>4 DEF Control, Arguments, SameArgs, FreePcs, Naming, Fresh, Creating, HasSrc,
                          IpPcs, LockPcs, LockPoint
<1>6. Locking(ipr'[p]) /\ Steady(p) /\ ipr'[p].pc \notin {"ifree", "idone", "iget"}
  BY <1>1, <1>3, <1>4 DEF Steady, Locking, LockPcs, InDir, Naming, Fresh, Creating, Clearing, InTheWay, LockPoint,
                          FreePcs, SameArgs
<1>7. Claims(p) /\ \A t \in Slot : Touches(ipr'[p], t) => itab[t].holder = 0 \/ t = ipr[p].fd
  BY <1>1, <1>3, <1>4 DEF Claims, SameArgs, RefsOf, Touches, Uses, Knows, Debt, HasIp, HasSrc, HasRead,
                          Proper, Owes, IpPcs, LockPcs, LockPoint
<1> QED BY <1>1, <1>2, <1>4, <1>5, <1>6, <1>7, LockStep DEF SameArgs

LEMMA IunlockStep == ASSUME ItInv, NEW p \in IProc, iunlock(p) PROVE ItInv'
<1> USE DEF ItInv
<1>1. PICK s \in Slot : s = ipr[p].ip /\ ipr[p].pc = "unlock" /\ itab[s].holder = p
  <2>1. ipr[p].pc = "unlock" /\ Locking(ipr[p])
    BY DEF iunlock, On, Locking, LockPcs
  <2>2. ipr[p].ip \in Slot
    BY <2>1, AtHand DEF IpPcs, LockPcs
  <2> QED BY <2>1, <2>2 DEF HoldInv
<1>2. /\ itab' = [itab EXCEPT ![s].holder = 0] /\ UNCHANGED <<dino, dent, dhold, calls, lost, ipanic>>
      /\ ipr' = IF ipr[p].call = "use" THEN Return(p) ELSE Back(p)
  BY <1>1 DEF iunlock
<1>3. /\ Control(ipr[p]) /\ Arguments(ipr[p])
      /\ ipr[p].call = "use" \/ (ipr[p].then = "dir2" /\ ipr[p].call = "link")
  BY <1>1 DEF ControlInv, Control
<1>4. /\ OnItsWay(p)
      /\ \/ ipr[p].call = "use" /\ Over(ipr'[p], ipr[p])
         \/ ipr[p].call = "link" /\ ipr'[p].pc = "dir2" /\ SameArgs(ipr'[p], ipr[p])
  BY <1>2, <1>3, BackStep, ReturnStep DEF IPcs, IpPcs
<1>5. Control(ipr'[p]) /\ Arguments(ipr'[p])
  BY <1>1, <1>3, <1>4 DEF Control, Arguments, SameArgs, Over, FreePcs, Naming, Fresh, Creating, HasSrc,
                          IpPcs, LockPcs
<1>6. /\ ~Locking(ipr'[p]) /\ Steady(p)
      /\ ipr'[p].pc \notin {"ifree", "idone", "iget"} /\ ipr'[p].fd = ipr[p].fd /\ ipr'[p].want = ipr[p].want
  BY <1>1, <1>3, <1>4 DEF Steady, Locking, LockPcs, InDir, Naming, Fresh, Creating, Clearing, InTheWay, FreePcs,
                          SameArgs, Over
<1>7. Claims(p)
  BY <1>1, <1>3, <1>4 DEF Claims, SameArgs, Over, RefsOf, Touches, Uses, Knows, Debt, HasIp, HasSrc, HasRead,
                          Proper, Owes, IpPcs, LockPcs
<1>8. 0 # p
  BY Bounds
<1> QED BY <1>1, <1>2, <1>4, <1>5, <1>6, <1>7, <1>8, LockStep

LEMMA OpenFileStep == ASSUME ItInv, NEW p \in IProc, OpenFile(p) PROVE ItInv'
<1> USE DEF ItInv
<1>1. PICK s \in Slot : s = ipr[p].ip /\ ipr[p].pc = "fill" /\ itab[s].holder = p
  <2>1. ipr[p].pc = "fill" /\ Locking(ipr[p])
    BY DEF OpenFile, On, Locking, LockPcs
  <2>2. ipr[p].ip \in Slot
    BY <2>1, AtHand DEF IpPcs, LockPcs
  <2> QED BY <2>1, <2>2 DEF HoldInv
<1>2. itab' = [itab EXCEPT ![s].holder = 0] /\ UNCHANGED <<dino, dent, dhold, calls, lost, ipanic>>
  BY <1>1 DEF OpenFile
<1>3. Control(ipr[p]) /\ Arguments(ipr[p]) /\ ipr[p].call \in {"open", "create"} /\ ipr[p].fd = 0
  BY <1>1 DEF ControlInv, Control, Arguments
<1>4. Matches(s) /\ itab[s].mem.gen \in Nat /\ s # 0 /\ s \in 0..ISlots
  <2>1. Knows(ipr[p], s) /\ Touches(ipr[p], s)
    BY <1>1, <1>3 DEF Knows, HasRead, Touches, HasIp, IpPcs, LockPcs
  <2>2. ASSUME NEW q \in IProc, ipr[q].pc = "idone", ipr[q].ip = s PROVE FALSE
    BY <1>1, <2>2, DoneAlone
  <2>3. itab[s].mem \in Content
    BY DEF TypeInv, Entry
  <2> QED BY <2>1, <2>2, <2>3, Referred DEF ValidInv, Content, Slot
<1>5. CASE ipr' = Call(p, "iput", "return")
  <2>1. OnItsWay(p) /\ ipr'[p].pc = "iput" /\ ipr'[p].then = "return" /\ SameArgs(ipr'[p], ipr[p])
    BY <1>5, CallStep DEF IPcs, IpPcs, Thens
  <2>2. Control(ipr'[p]) /\ Arguments(ipr'[p])
    BY <1>1, <1>3, <2>1 DEF Control, Arguments, SameArgs, FreePcs, Naming, Fresh, Creating, HasSrc,
                            IpPcs, LockPcs, PutPoint
  <2>3. ~Locking(ipr'[p]) /\ Steady(p) /\ ipr'[p].fd = 0
    BY <1>1, <1>3, <2>1 DEF Steady, Locking, LockPcs, InDir, Naming, Fresh, Creating, Clearing, InTheWay, FreePcs,
                            SameArgs
  <2>4. Claims(p)
    BY <1>1, <1>3, <2>1 DEF Claims, SameArgs, RefsOf, Touches, Uses, Knows, Debt, HasIp, HasSrc, HasRead,
                            Proper, Owes, IpPcs, LockPcs
  <2> QED BY <1>1, <1>2, <2>1, <2>2, <2>3, <2>4, Bounds, LockStep
<1>6. CASE ipr' = [ipr EXCEPT ![p] = [Idle EXCEPT !.fd = ipr[p].ip, !.want = ip(p).mem.gen]]
  <2>1. PICK r \in Process :
          /\ ipr' = [ipr EXCEPT ![p] = r] /\ r.pc = "idle" /\ r.then = "" /\ r.call = ""
          /\ r.fd = s /\ r.want = itab[s].mem.gen
    <3> DEFINE t == [Idle EXCEPT !.fd = s, !.want = itab[s].mem.gen]
    <3>1. t \in Process
      BY <1>4, Bounds DEF Process, Idle, IPcs, ICalls, Thens
    <3>2. t.pc = "idle" /\ t.then = "" /\ t.call = "" /\ t.fd = s /\ t.want = itab[s].mem.gen
      BY DEF Idle
    <3>3. ipr' = [ipr EXCEPT ![p] = t]
      BY <1>1, <1>6 DEF ip
    <3> HIDE DEF t
    <3> QED BY <3>1, <3>2, <3>3
  <2>2. OnItsWay(p) /\ ipr'[p] = r
    BY <2>1 DEF TypeInv, OnItsWay, Mine
  <2>3. Control(r) /\ Arguments(r)
    BY <2>1 DEF Control, Arguments, FreePcs, HasSrc, IpPcs, LockPcs, Naming, Fresh, Creating
  <2>4. ~Locking(r) /\ Steady(p)
    BY <1>1, <2>1, <2>2 DEF Steady, Locking, LockPcs, InDir, Naming, Fresh, Creating, Clearing, InTheWay, FreePcs
  <2>5. Claims(p)
    <3>1. ASSUME NEW t \in Slot PROVE RefsOf(ipr'[p], t) = RefsOf(ipr[p], t)
      <4>1. t # 0
        BY Bounds
      <4>2. r.fd = s /\ ~HasIp(r) /\ ~HasSrc(r) /\ HasIp(ipr[p]) /\ ~HasSrc(ipr[p])
        BY <1>1, <1>3, <2>1 DEF HasIp, HasSrc, IpPcs, LockPcs
      <4>3. RefsOf(r, t) = IF s = t THEN 1 ELSE 0
        BY <4>2 DEF RefsOf, Weight
      <4>4. RefsOf(ipr[p], t) = IF s = t THEN 1 ELSE 0
        BY <1>1, <1>3, <4>1, <4>2 DEF RefsOf, Weight
      <4> QED BY <2>2, <4>3, <4>4
    <3> QED BY <1>1, <1>3, <1>4, <2>1, <2>2, <3>1
            DEF Claims, Touches, Uses, Knows, Debt, HasIp, HasSrc, HasRead, Proper, Owes, IpPcs, LockPcs
  <2>6. dino[itab[r.fd].inum].gen = r.want
    BY <1>4, <2>1 DEF Matches
  <2> QED BY <1>1, <1>2, <2>1, <2>2, <2>3, <2>4, <2>5, <2>6, Bounds, LockStep
<1> QED BY <1>5, <1>6 DEF OpenFile

\* iput() of the last reference to a file without links takes its lock, which
\* is free.
LEMMA IputLastStep ==
    ASSUME ItInv, NEW p \in IProc, iput(p), ip(p).ref = 1, ip(p).valid, ip(p).mem.nlink = 0
    PROVE  ItInv'
<1> USE DEF ItInv
<1>1. PICK s \in Slot : s = ipr[p].ip /\ ipr[p].pc = "iput"
  <2>1. ipr[p].pc = "iput"
    BY DEF iput, On
  <2> QED BY <2>1, AtHand DEF IpPcs
<1>2. /\ itab' = [itab EXCEPT ![s].holder = p] /\ ipr' = To(p, "ifree") /\ ipanic' = (itab[s].holder # 0)
      /\ UNCHANGED <<dino, dent, dhold, calls, lost>>
  BY <1>1 DEF iput, ip
<1>3. Control(ipr[p]) /\ Arguments(ipr[p]) /\ (PutPoint(ipr[p]) \/ ipr[p].then = "bad") /\ HasIp(ipr[p])
  BY <1>1 DEF ControlInv, Control, PutPoint, HasIp, IpPcs
<1>4. itab[s].ref = 1 /\ itab[s].valid /\ itab[s].mem.nlink = 0
  BY <1>1 DEF ip
<1>5. itab[s].holder = 0
  <2>1. ASSUME NEW q \in IProc, itab[s].holder = q PROVE FALSE
    <3>1. Locking(ipr[q]) /\ ipr[q].ip = s
      BY <2>1 DEF HoldInv
    <3>2. Touches(ipr[q], s)
      BY <3>1, AtHand DEF Locking, IpPcs
    <3>3. q = p
      BY <1>1, <1>3, <1>4, <3>2, LastReference
    <3> QED BY <1>1, <3>1, <3>3 DEF Locking, LockPcs
  <2>2. itab[s].holder \in IProc \cup {0}
    BY DEF TypeInv, Entry
  <2> QED BY <2>1, <2>2
<1>6. ipr[p].then # "bad"
  <2>1. ASSUME ipr[p].then = "bad" PROVE FALSE
    <3>1. InTheWay(ipr[p]) /\ ~Owes(ipr[p]) /\ HasSrc(ipr[p]) /\ Touches(ipr[p], s) /\ Uses(ipr[p], s)
      BY <1>1, <1>3, <2>1 DEF InTheWay, Owes, HasSrc, Touches, Uses, Proper
    <3>2. itab[s].inum \in Inum /\ dent[ipr[p].to] = itab[s].inum /\ dino[itab[s].inum].alloc
      BY <1>1, <1>4, <3>1, Referred DEF EntryInv, NameInv, AllocInv
    <3>3. Matches(s)
      <4>1. ASSUME NEW q \in IProc, ipr[q].pc = "idone", ipr[q].ip = s PROVE FALSE
        BY <1>5, <4>1, DoneAlone, Bounds
      <4> QED BY <1>4, <4>1 DEF ValidInv
    <3>4. ipr[p].to \in INames
      <4>1. ipr[p].to \in INames \cup {0} /\ ipr[p].call = "link"
        BY <1>1, <1>3, <2>1 DEF TypeInv, Process, ControlInv, Control, PutPoint
      <4> QED BY <1>3, <4>1 DEF Arguments
    <3>5. Names(itab[s].inum) # 0 /\ Names(itab[s].inum) \in Nat
      <4>1. IsFiniteSet({n \in INames : dent[n] = itab[s].inum})
        BY ItableAssumption, FS_Subset DEF ItableAssumption
      <4> QED BY <3>2, <3>4, <4>1, CountPositive DEF Names
    <3>6. Cardinality(Owing(itab[s].inum)) \in Nat
      BY ProcSets, CountPositive
    <3> QED BY <1>4, <3>2, <3>3, <3>5, <3>6 DEF LinkInv, Matches
  <2> QED BY <2>1
<1>7. OnItsWay(p) /\ ipr'[p].pc = "ifree" /\ ipr'[p].then = ipr[p].then /\ SameArgs(ipr'[p], ipr[p])
  BY <1>2, ToStep DEF IPcs, IpPcs, LockPcs
<1>8. Control(ipr'[p]) /\ Arguments(ipr'[p])
  BY <1>1, <1>3, <1>6, <1>7 DEF Control, Arguments, SameArgs, FreePcs, Naming, Fresh, Creating, HasSrc,
                                IpPcs, LockPcs, PutPoint
<1>9. /\ Locking(ipr'[p]) /\ Steady(p)
      /\ ipr'[p].ip = s /\ ipr'[p].fd = ipr[p].fd /\ ipr'[p].want = ipr[p].want
  BY <1>1, <1>3, <1>6, <1>7 DEF Steady, Locking, LockPcs, InDir, Naming, Fresh, Creating, Clearing, InTheWay, FreePcs,
                                SameArgs, PutPoint
<1>10. Claims(p)
  BY <1>1, <1>3, <1>6, <1>7
     DEF Claims, SameArgs, RefsOf, Touches, Uses, Knows, Debt, HasIp, HasSrc, HasRead,
         Proper, Owes, IpPcs, LockPcs, PutPoint
<1>11. ipanic' = ipanic
  BY <1>2, <1>5 DEF TypeInv
<1> QED BY <1>1, <1>2, <1>4, <1>5, <1>7, <1>8, <1>9, <1>10, <1>11, LockStep

-----------------------------------------------------------------------------
(* The steps that write in an entry that the process has locked *)

LEMMA EditStep ==
    ASSUME ItInv, NEW p \in IProc, OnItsWay(p), UNCHANGED <<dent, dhold, calls, lost, ipanic>>,
           itab' \in [Slot -> Entry], dino' \in [Inum -> Content], ValidInv', LinkInv',
           NEW s \in Slot, s = ipr[p].ip, itab[s].holder = p, Locking(ipr[p]),
           \A t \in Slot \ {s} : itab'[t] = itab[t],
           itab'[s].inum = itab[s].inum, itab'[s].ref = itab[s].ref, itab'[s].holder \in {0, p},
           \A i \in Inum : dino'[i].alloc = dino[i].alloc /\ dino'[i].gen = dino[i].gen,
           Locking(ipr'[p]) <=> itab'[s].holder = p, Locking(ipr'[p]) => ipr'[p].ip = s,
           \A t \in Slot : /\ RefsOf(ipr'[p], t) = RefsOf(ipr[p], t)
                           /\ Touches(ipr'[p], t) => Touches(ipr[p], t)
                           /\ Uses(ipr'[p], t) => Uses(ipr[p], t),
           Control(ipr'[p]), Arguments(ipr'[p]),
           ipr[p].pc # "iget", ipr'[p].pc \notin {"ifree", "idone", "iget"},
           ipr'[p].fd = ipr[p].fd, ipr'[p].want = ipr[p].want,
           Steady(p)
    PROVE  ItInv'
<1> USE DEF ItInv
<1>1. /\ \A t \in Slot : /\ itab'[t].inum = itab[t].inum /\ itab'[t].ref = itab[t].ref
                         /\ itab'[t].holder = itab[t].holder
                            \/ (itab[t].holder \in {0, p} /\ itab'[t].holder \in {0, p})
      /\ Kept
  BY DEF Kept
<1>2. ipr[p].pc \in IpPcs /\ ipr[p].pc # "ilock" /\ Touches(ipr[p], s)
  BY AtHand DEF Locking, IpPcs, LockPcs
<1>3. HoldInv'
  <2>1. \A t \in Slot : itab'[t].holder = p <=> Locking(ipr'[p]) /\ ipr'[p].ip = t
    BY DEF HoldInv
  <2> QED BY <1>1, <2>1, HoldStep DEF OnItsWay
<1>4. \A t \in Slot : itab[t].ref \in Nat /\ RefsOf(ipr[p], t) \in Nat
  BY DEF TypeInv, Entry, RefsOf, Weight
<1>5. RefInv'
  BY <1>1, <1>4, RefStep DEF OnItsWay
<1>6. TypeInv'
  BY DEF TypeInv, OnItsWay
<1>7. DirInv'
  <2>1. dhold' = p <=> InDir(ipr'[p])
    BY DEF DirInv, Steady
  <2> QED BY <2>1, DirStep DEF OnItsWay
<1>8. EntryInv'
  BY <1>1, EntryStep
<1>9. FreeInv'
  <2>1. \A t \in Slot : itab'[t].mem = itab[t].mem \/ Touches(ipr[p], t)
    BY <1>2
  <2> QED BY <1>1, <2>1, FreeStep DEF OnItsWay
<1>10. DoneInv'
  BY <1>1, <1>2, DoneStep DEF OnItsWay
<1>11. AllocInv'
  BY <1>1, AllocStep DEF OnItsWay
<1>12. FreshInv'
  <2>1. ASSUME Creating(ipr'[p]) PROVE itab'[ipr'[p].ip].inum = ipr'[p].inum
    <3>1. Creating(ipr[p]) /\ Fresh(ipr[p]) /\ ipr'[p].ip = s /\ ipr'[p].inum = ipr[p].inum
      BY <2>1 DEF Fresh, Steady
    <3> QED BY <1>1, <3>1 DEF FreshInv
  <2>2. Fresh(ipr'[p]) =>
              /\ \A n \in INames : dent'[n] # ipr'[p].inum
              /\ \A q \in IProc \ {p}, t \in Slot : Uses(ipr[q], t) => itab[t].inum # ipr'[p].inum
    BY DEF FreshInv, Steady
  <2> QED BY <1>1, <2>1, <2>2, FreshStep DEF OnItsWay
<1>13. NameInv'
  <2>1. Clearing(ipr'[p]) => dent'[ipr'[p].name] = itab'[ipr'[p].ip].inum
    BY <1>1 DEF NameInv, Steady
  <2>2. Naming(ipr'[p]) => dent'[ipr'[p].name] = 0
    BY DEF NameInv, Steady
  <2> QED BY <1>1, <2>1, <2>2, NameStep DEF OnItsWay, Steady
<1>14. LostInv'
  BY <1>1, LostKeep DEF OnItsWay
<1> QED BY <1>3, <1>5, <1>6, <1>7, <1>8, <1>9, <1>10, <1>11, <1>12, <1>13, <1>14, ItInvAgain DEF Rest

\* A locked entry, and what the process that has the lock knows.
LEMMA Locked ==
    ASSUME ItInv, NEW p \in IProc, Locking(ipr[p])
    PROVE  /\ ipr[p].ip \in Slot /\ itab[ipr[p].ip].holder = p /\ itab[ipr[p].ip].ref > 0
           /\ itab[ipr[p].ip].inum \in Inum
           /\ ipr[p].pc # "idone" => dino[itab[ipr[p].ip].inum].alloc
           /\ ipr[p].pc \notin {"iread", "idone"} => itab[ipr[p].ip].valid /\ Matches(ipr[p].ip)
<1> USE DEF ItInv
<1>1. ipr[p].ip \in Slot /\ itab[ipr[p].ip].holder = p /\ itab[ipr[p].ip].ref > 0
  BY AtHand, Referred DEF Locking, IpPcs, HoldInv
<1>2. itab[ipr[p].ip].inum \in Inum
  BY <1>1 DEF EntryInv
<1>3. ASSUME ipr[p].pc # "idone" PROVE dino[itab[ipr[p].ip].inum].alloc
  <2>1. Uses(ipr[p], ipr[p].ip)
    BY <1>3 DEF Locking, LockPcs, IpPcs, Uses, Proper, HasIp, ControlInv, Arguments
  <2> QED BY <1>1, <2>1 DEF AllocInv
<1>4. ASSUME ipr[p].pc \notin {"iread", "idone"}
      PROVE  itab[ipr[p].ip].valid /\ Matches(ipr[p].ip)
  <2>1. Knows(ipr[p], ipr[p].ip)
    BY <1>4 DEF Locking, LockPcs, IpPcs, Knows, HasRead
  <2>2. ASSUME NEW q \in IProc, ipr[q].pc = "idone", ipr[q].ip = ipr[p].ip PROVE FALSE
    BY <1>1, <1>4, <2>2, DoneAlone
  <2> QED BY <1>1, <2>1, <2>2 DEF ValidInv
<1> QED BY <1>1, <1>2, <1>3, <1>4

LEMMA EditValid ==
    ASSUME ItInv, NEW p \in IProc, Mine(p), NEW s \in Slot, itab[s].ref > 0,
           \A t \in Slot \ {s} : itab'[t] = itab[t],
           \A i \in Inum : i # itab[s].inum => dino'[i] = dino[i],
           itab'[s].valid, Matches(s)', ipr[p].pc # "idone",
           \A t \in Slot : Knows(ipr'[p], t) => Knows(ipr[p], t) \/ t = s
    PROVE  ValidInv'
<1> USE DEF ItInv
<1>1. ASSUME NEW t \in Slot \ {s}, itab[t].ref > 0
      PROVE  Matches(t)' <=> Matches(t)
  <2>1. itab[t].inum # itab[s].inum /\ itab[t].inum \in Inum
    BY <1>1 DEF EntryInv
  <2> QED BY <2>1 DEF Matches
<1>2. \A t \in Slot : Knows(ipr'[p], t) => itab'[t].valid
  BY DEF ValidInv
<1> QED BY <1>1, <1>2, ValidStep

LEMMA IlockReadStep == ASSUME ItInv, NEW p \in IProc, ilockRead(p) PROVE ItInv'
<1> USE DEF ItInv
<1>1. ipr[p].pc = "iread" /\ Locking(ipr[p])
  BY DEF ilockRead, On, Locking, LockPcs
<1>2. PICK s \in Slot : /\ s = ipr[p].ip /\ itab[s].holder = p /\ itab[s].ref > 0 /\ itab[s].inum \in Inum
                        /\ dino[itab[s].inum].alloc
  BY <1>1, Locked
<1>3. PICK e \in Entry : /\ e.inum = itab[s].inum /\ e.ref = itab[s].ref /\ e.holder = p /\ e.valid
                         /\ e.mem = dino[itab[s].inum] /\ itab' = [itab EXCEPT ![s] = e]
  <2> DEFINE t == [itab[s] EXCEPT !.mem = dino[itab[s].inum], !.valid = TRUE]
  <2>1. itab[s] \in Entry /\ dino[itab[s].inum] \in Content
    BY <1>2 DEF TypeInv
  <2>2. itab' = [itab EXCEPT ![s] = t]
    BY <1>2 DEF ilockRead, ip
  <2> QED BY <1>2, <2>1, <2>2 DEF Entry
<1>4. UNCHANGED <<dino, dent, dhold, calls, lost, ipanic>> /\ ipr' = Back(p)
  BY <1>2 DEF ilockRead, ip, TypeInv
<1>5. /\ itab' \in [Slot -> Entry] /\ itab'[s] = e
      /\ \A t \in Slot \ {s} : itab'[t] = itab[t]
  BY <1>3 DEF TypeInv
<1>6. Control(ipr[p]) /\ Arguments(ipr[p]) /\ LockPoint(ipr[p])
  BY <1>1 DEF ControlInv, Control
<1>7. OnItsWay(p) /\ ipr'[p].pc = ipr[p].then /\ ipr'[p].then = ipr[p].then /\ SameArgs(ipr'[p], ipr[p])
  <2>1. ipr[p].then \in IPcs /\ ipr[p].then # "return"
    BY <1>6 DEF LockPoint, IPcs, IpPcs, LockPcs
  <2> QED BY <1>4, <2>1, BackStep
<1>8. Control(ipr'[p]) /\ Arguments(ipr'[p])
  BY <1>1, <1>6, <1>7 DEF Control, Arguments, SameArgs, FreePcs, Naming, Fresh, Creating, HasSrc,
                          IpPcs, LockPcs, LockPoint
<1>9. Locking(ipr'[p]) /\ Steady(p) /\ ipr'[p].pc \notin {"ifree", "idone", "iget"}
  BY <1>1, <1>6, <1>7 DEF Steady, Locking, LockPcs, InDir, Naming, Fresh, Creating, Clearing, InTheWay, LockPoint,
                          FreePcs, SameArgs
<1>10. \A t \in Slot : /\ RefsOf(ipr'[p], t) = RefsOf(ipr[p], t)
                       /\ Touches(ipr'[p], t) <=> Touches(ipr[p], t)
                       /\ Uses(ipr'[p], t) <=> Uses(ipr[p], t)
                       /\ Debt(ipr'[p], t) <=> Debt(ipr[p], t)
  BY <1>1, <1>6, <1>7
     DEF SameArgs, RefsOf, Touches, Uses, Debt, HasIp, HasSrc, Proper, Owes, IpPcs, LockPcs, LockPoint
<1>11. \A t \in Slot : Knows(ipr'[p], t) => Knows(ipr[p], t) \/ t = s
  BY <1>1, <1>2, <1>6, <1>7 DEF SameArgs, Knows, HasRead, HasSrc, LockPcs, LockPoint
<1>12. ValidInv'
  <2>1. Matches(s)'
    <3>1. e.inum = itab[s].inum /\ e.mem = dino[itab[s].inum] /\ dino[itab[s].inum].alloc
      BY <1>2, <1>3
    <3> QED BY <1>4, <1>5, <3>1 DEF Matches
  <2> QED BY <1>1, <1>2, <1>3, <1>4, <1>5, <1>7, <1>11, <2>1, EditValid DEF OnItsWay
<1>13. LinkInv'
  <2>1. Kept
    BY <1>3, <1>5 DEF Kept
  <2> HIDE DEF ItInv
  <2> QED BY <1>4, <1>7, <1>10, <2>1, LinkKeep DEF OnItsWay
<1>14. dino' \in [Inum -> Content]
  BY <1>4 DEF TypeInv
<1>15. /\ \A t \in Slot : /\ RefsOf(ipr'[p], t) = RefsOf(ipr[p], t)
                          /\ Touches(ipr'[p], t) => Touches(ipr[p], t)
                          /\ Uses(ipr'[p], t) => Uses(ipr[p], t)
       /\ \A i \in Inum : dino'[i].alloc = dino[i].alloc /\ dino'[i].gen = dino[i].gen
  BY <1>4, <1>10
<1>16. itab'[s].inum = itab[s].inum /\ itab'[s].ref = itab[s].ref /\ itab'[s].holder \in {0, p}
  BY <1>3, <1>5
<1> HIDE DEF ItInv
<1> QED BY <1>1, <1>2, <1>3, <1>4, <1>5, <1>7, <1>8, <1>9, <1>12, <1>13, <1>14, <1>15, <1>16, EditStep
        DEF SameArgs

\* iput() lets go the lock of the inode it has freed.  A process that waits for
\* it is about to read the entry.
LEMMA IputDoneStep == ASSUME ItInv, NEW p \in IProc, iputDone(p) PROVE ItInv'
<1> USE DEF ItInv
<1>1. ipr[p].pc = "idone" /\ Locking(ipr[p])
  BY DEF iputDone, On, Locking, LockPcs
<1>2. PICK s \in Slot : s = ipr[p].ip /\ itab[s].holder = p /\ itab[s].ref > 0 /\ itab[s].inum \in Inum
  BY <1>1, Locked
<1>3. PICK e \in Entry : /\ e.inum = itab[s].inum /\ e.ref = itab[s].ref /\ e.holder = 0 /\ ~e.valid
                         /\ e.mem = itab[s].mem /\ itab' = [itab EXCEPT ![s] = e]
  <2> DEFINE t == [itab[s] EXCEPT !.valid = FALSE, !.holder = 0]
  <2>1. itab[s] \in Entry
    BY DEF TypeInv
  <2>2. itab' = [itab EXCEPT ![s] = t]
    BY <1>2 DEF iputDone, ip
  <2> QED BY <2>1, <2>2 DEF Entry
<1>4. UNCHANGED <<dino, dent, dhold, calls, lost, ipanic>> /\ ipr' = To(p, "idrop")
  BY DEF iputDone
<1>5. /\ itab' \in [Slot -> Entry] /\ itab'[s] = e
      /\ \A t \in Slot \ {s} : itab'[t] = itab[t]
  BY <1>3 DEF TypeInv
<1>6. Control(ipr[p]) /\ Arguments(ipr[p]) /\ PutPoint(ipr[p])
  BY <1>1 DEF ControlInv, Control, FreePcs
<1>7. OnItsWay(p) /\ ipr'[p].pc = "idrop" /\ ipr'[p].then = ipr[p].then /\ SameArgs(ipr'[p], ipr[p])
  BY <1>4, ToStep DEF IPcs, IpPcs
<1>8. Control(ipr'[p]) /\ Arguments(ipr'[p])
  BY <1>1, <1>6, <1>7 DEF Control, Arguments, SameArgs, FreePcs, Naming, Fresh, Creating, HasSrc,
                          IpPcs, LockPcs, PutPoint
<1>9. ~Locking(ipr'[p]) /\ Steady(p)
  BY <1>1, <1>6, <1>7 DEF Steady, Locking, LockPcs, InDir, Naming, Fresh, Creating, Clearing, InTheWay,
                          FreePcs, SameArgs
<1>10. \A t \in Slot : /\ RefsOf(ipr'[p], t) = RefsOf(ipr[p], t)
                       /\ Touches(ipr'[p], t) <=> Touches(ipr[p], t)
                       /\ Uses(ipr'[p], t) <=> Uses(ipr[p], t)
                       /\ Debt(ipr'[p], t) <=> Debt(ipr[p], t)
                       /\ Knows(ipr'[p], t) <=> t = ipr[p].fd
  BY <1>1, <1>6, <1>7
     DEF SameArgs, RefsOf, Touches, Uses, Knows, HasRead, Debt, HasIp, HasSrc, Proper, Owes, IpPcs, LockPcs,
         PutPoint
<1>11. \A q \in IProc \ {p} : ~Knows(ipr[q], s)
  <2> SUFFICES ASSUME NEW q \in IProc \ {p}, Knows(ipr[q], s) PROVE FALSE
    OBVIOUS
  <2>1. ipr[q].pc = "ilock" /\ ipr[q].then = "init"
    BY <1>1, <1>2, Profile DEF DoneInv, ControlInv
  <2>2. ipr[q].fd = 0
    BY <2>1 DEF ControlInv, Control, LockPoint, Arguments
  <2> QED BY <2>1, <2>2, Bounds DEF Knows, HasRead, HasSrc, LockPcs
<1>12. ValidInv'
  <2>1. \A t \in Slot \ {s} : Matches(t)' <=> Matches(t)
    BY <1>4, <1>5 DEF Matches
  <2>2. \A t \in Slot : Knows(ipr'[p], t) => itab'[t].valid
    <3> SUFFICES ASSUME NEW t \in Slot, t = ipr[p].fd PROVE itab'[t].valid
      BY <1>10
    <3>1. t # s
      BY <1>1, <1>2 DEF DoneInv
    <3>2. itab[t].valid
      BY DEF ValidInv, Knows
    <3> QED BY <1>5, <3>1, <3>2
  <2> QED BY <1>1, <1>2, <1>3, <1>5, <1>7, <1>11, <2>1, <2>2, ValidStep DEF OnItsWay
<1>13. LinkInv'
  <2>1. Kept
    BY <1>3, <1>5 DEF Kept
  <2> HIDE DEF ItInv
  <2> QED BY <1>4, <1>7, <1>10, <2>1, LinkKeep DEF OnItsWay
<1>14. dino' \in [Inum -> Content]
  BY <1>4 DEF TypeInv
<1>15. /\ \A t \in Slot : /\ RefsOf(ipr'[p], t) = RefsOf(ipr[p], t)
                          /\ Touches(ipr'[p], t) => Touches(ipr[p], t)
                          /\ Uses(ipr'[p], t) => Uses(ipr[p], t)
       /\ \A i \in Inum : dino'[i].alloc = dino[i].alloc /\ dino'[i].gen = dino[i].gen
  BY <1>4, <1>10
<1>16. itab'[s].inum = itab[s].inum /\ itab'[s].ref = itab[s].ref /\ itab'[s].holder \in {0, p}
  BY <1>3, <1>5
<1> HIDE DEF ItInv
<1> QED BY <1>1, <1>2, <1>3, <1>4, <1>5, <1>7, <1>8, <1>9, <1>12, <1>13, <1>14, <1>15, <1>16, EditStep, Bounds
        DEF SameArgs

\* The link count of the inode that the process has locked changes by the
\* debt that the process takes or settles.
LEMMA EditLink ==
    ASSUME ItInv, NEW p \in IProc, Mine(p), Kept, dent' = dent, NEW s \in Slot, itab[s].ref > 0,
           \A t \in Slot \ {s} : Debt(ipr'[p], t) <=> Debt(ipr[p], t),
           \A i \in Inum : i # itab[s].inum => dino'[i] = dino[i],
           dino[itab[s].inum].alloc,
           dino'[itab[s].inum].nlink =
             dino[itab[s].inum].nlink + Weight(Debt(ipr'[p], s)) - Weight(Debt(ipr[p], s))
    PROVE  LinkInv'
<1> USE DEF ItInv
<1>1. ASSUME NEW i \in Inum, i # itab[s].inum, dino'[i].alloc
      PROVE  dino'[i].nlink = Names(i)' + Cardinality(Owing(i)')
  <2>1. itab'[s].inum # i
    BY <1>1 DEF Kept
  <2>2. ASSUME NEW t \in Slot, Debt(ipr[p], t) PROVE itab'[t].inum = itab[t].inum
    BY <2>2, Profile, Referred DEF Kept, ControlInv
  <2>3. OwesTo(ipr[p], i)' <=> OwesTo(ipr[p], i)
    BY <1>1, <2>1, <2>2 DEF OwesTo
  <2>4. Weight(OwesTo(ipr[p], i)') = Weight(OwesTo(ipr[p], i)) /\ Weight(OwesTo(ipr[p], i)) \in Nat
    BY <2>3 DEF Weight
  <2>5. Cardinality(Owing(i)') = Cardinality(Owing(i))
    BY <2>4, OweStep
  <2>6. Names(i)' = Names(i)
    BY DEF Names
  <2> QED BY <1>1, <2>5, <2>6 DEF LinkInv
<1>2. ASSUME NEW i \in Inum, i = itab[s].inum
      PROVE  dino'[i].nlink = Names(i)' + Cardinality(Owing(i)')
  <2>1. itab'[s].inum = i
    BY <1>2 DEF Kept
  <2>2. ASSUME NEW t \in Slot, Debt(ipr[p], t), t # s
        PROVE  itab[t].inum # i /\ itab'[t].inum = itab[t].inum
    <3>1. itab[t].ref > 0
      BY <2>2, Profile, Referred DEF ControlInv
    <3> QED BY <1>2, <2>2, <3>1 DEF EntryInv, Kept
  <2>3. OwesTo(ipr[p], i) <=> Debt(ipr[p], s)
    BY <1>2, <2>2 DEF OwesTo
  <2>4. OwesTo(ipr[p], i)' <=> Debt(ipr'[p], s)
    BY <2>1, <2>2 DEF OwesTo
  <2>5. /\ Weight(OwesTo(ipr[p], i)') = Weight(Debt(ipr'[p], s)) /\ Weight(Debt(ipr'[p], s)) \in Nat
        /\ Weight(OwesTo(ipr[p], i)) = Weight(Debt(ipr[p], s)) /\ Weight(Debt(ipr[p], s)) \in Nat
    BY <2>3, <2>4 DEF Weight
  <2>6. /\ Cardinality(Owing(i)) \in Nat
        /\ Cardinality(Owing(i)') = Cardinality(Owing(i)) + Weight(Debt(ipr'[p], s)) - Weight(Debt(ipr[p], s))
    BY <2>5, OweStep
  <2>7. Names(i)' = Names(i) /\ Names(i) \in Nat
    <3>1. IsFiniteSet({n \in INames : dent[n] = i})
      BY ItableAssumption, FS_Subset DEF ItableAssumption
    <3> QED BY <3>1, CountPositive DEF Names
  <2>8. dino[i].nlink = Names(i) + Cardinality(Owing(i))
    BY <1>2 DEF LinkInv
  <2> HIDE DEF ItInv
  <2> QED BY <1>2, <2>5, <2>6, <2>7, <2>8
<1> QED BY <1>1, <1>2 DEF LinkInv

\* A step that writes a link count in the entry and on the disk.
WritesLinks(p, s, e, c) ==
    /\ s = ipr[p].ip /\ itab' = [itab EXCEPT ![s] = e] /\ dino' = [dino EXCEPT ![itab[s].inum] = c]
    /\ e.inum = itab[s].inum /\ e.ref = itab[s].ref /\ e.valid = itab[s].valid /\ e.mem = c
    /\ e.holder \in {0, p}
    /\ c.alloc = dino[itab[s].inum].alloc /\ c.gen = dino[itab[s].inum].gen

LEMMA LinksStep ==
    ASSUME ItInv, NEW p \in IProc, Locking(ipr[p]), ipr[p].pc \notin {"iread", "idone", "ilock", "iget"},
           OnItsWay(p), UNCHANGED <<dent, dhold, calls, lost, ipanic>>,
           NEW s \in Slot, NEW e \in Entry, NEW c \in Content, WritesLinks(p, s, e, c),
           c.nlink = dino[itab[s].inum].nlink + Weight(Debt(ipr'[p], s)) - Weight(Debt(ipr[p], s)),
           Locking(ipr'[p]) <=> e.holder = p, Locking(ipr'[p]) => ipr'[p].ip = s,
           \A t \in Slot : /\ RefsOf(ipr'[p], t) = RefsOf(ipr[p], t)
                           /\ Touches(ipr'[p], t) => Touches(ipr[p], t)
                           /\ Uses(ipr'[p], t) => Uses(ipr[p], t)
                           /\ Knows(ipr'[p], t) => Knows(ipr[p], t)
                           /\ t # s => (Debt(ipr'[p], t) <=> Debt(ipr[p], t)),
           Control(ipr'[p]), Arguments(ipr'[p]),
           ipr'[p].pc \notin {"ifree", "idone", "iget"},
           ipr'[p].fd = ipr[p].fd, ipr'[p].want = ipr[p].want, Steady(p)
    PROVE  ItInv'
<1> USE DEF WritesLinks
<1>1. /\ itab[s].holder = p /\ itab[s].ref > 0 /\ itab[s].inum \in Inum
      /\ dino[itab[s].inum].alloc /\ itab[s].valid
  BY Locked
<1>2. /\ itab' \in [Slot -> Entry] /\ itab'[s] = e
      /\ \A t \in Slot \ {s} : itab'[t] = itab[t]
  BY DEF ItInv, TypeInv
<1>3. /\ dino' \in [Inum -> Content] /\ dino'[itab[s].inum] = c
      /\ \A i \in Inum : i # itab[s].inum => dino'[i] = dino[i]
  BY <1>1 DEF ItInv, TypeInv
<1>4. \A i \in Inum : dino'[i].alloc = dino[i].alloc /\ dino'[i].gen = dino[i].gen
  BY <1>3
<1>5. ValidInv'
  <2>1. Matches(s)' /\ itab'[s].valid
    BY <1>1, <1>2, <1>3 DEF Matches
  <2>2. \A t \in Slot : Knows(ipr'[p], t) => Knows(ipr[p], t) \/ t = s
    OBVIOUS
  <2> QED BY <1>1, <1>2, <1>3, <2>1, <2>2, EditValid DEF OnItsWay
<1>6. LinkInv'
  <2>1. Kept
    BY <1>2 DEF Kept
  <2>2. \A t \in Slot \ {s} : Debt(ipr'[p], t) <=> Debt(ipr[p], t)
    OBVIOUS
  <2>3. Mine(p) /\ dent' = dent
    BY DEF OnItsWay
  <2>4. dino'[itab[s].inum].nlink =
          dino[itab[s].inum].nlink + Weight(Debt(ipr'[p], s)) - Weight(Debt(ipr[p], s))
    BY <1>3
  <2>5. \A i \in Inum : i # itab[s].inum => dino'[i] = dino[i]
    BY <1>3
  <2> HIDE DEF WritesLinks
  <2> QED BY <1>1, <2>1, <2>2, <2>3, <2>4, <2>5, EditLink
<1>7. itab'[s].inum = itab[s].inum /\ itab'[s].ref = itab[s].ref /\ itab'[s].holder \in {0, p}
  BY <1>2
<1>8. /\ Locking(ipr'[p]) <=> itab'[s].holder = p
      /\ \A t \in Slot : /\ RefsOf(ipr'[p], t) = RefsOf(ipr[p], t)
                         /\ Touches(ipr'[p], t) => Touches(ipr[p], t)
                         /\ Uses(ipr'[p], t) => Uses(ipr[p], t)
  BY <1>2
<1>9. \A t \in Slot \ {s} : itab'[t] = itab[t]
  BY <1>2
<1> QED BY <1>1, <1>2, <1>3, <1>4, <1>5, <1>6, <1>7, <1>8, <1>9, EditStep

\* A new file has the link of the process that creates it, if any.
LEMMA FreshLinks ==
    ASSUME ItInv, NEW p \in IProc, ipr[p].pc \in {"init", "enter"}
    PROVE  dino[itab[ipr[p].ip].inum].nlink = Weight(Debt(ipr[p], ipr[p].ip))
<1> USE DEF ItInv
<1>1. Locking(ipr[p]) /\ Creating(ipr[p]) /\ Fresh(ipr[p])
  BY DEF Locking, LockPcs, Creating, Fresh
<1>2. PICK s \in Slot : s = ipr[p].ip /\ itab[s].ref > 0 /\ itab[s].inum \in Inum /\ dino[itab[s].inum].alloc
  BY <1>1, Locked
<1>3. PICK i \in Inum : i = itab[s].inum /\ i = ipr[p].inum
  BY <1>1, <1>2 DEF FreshInv
<1>4. Names(i) = 0
  <2>1. {n \in INames : dent[n] = i} = {}
    BY <1>1, <1>3 DEF FreshInv
  <2> QED BY <2>1, FS_EmptySet DEF Names
<1>5. ASSUME NEW q \in IProc \ {p} PROVE ~OwesTo(ipr[q], i)
  <2> SUFFICES ASSUME NEW t \in Slot, Debt(ipr[q], t), itab[t].inum = i PROVE FALSE
    BY DEF OwesTo
  <2>1. Uses(ipr[q], t)
    BY Profile DEF ControlInv
  <2> QED BY <1>1, <1>3, <2>1 DEF FreshInv
<1>6. OwesTo(ipr[p], i) <=> Debt(ipr[p], s)
  <2>1. ASSUME NEW t \in Slot, Debt(ipr[p], t), itab[t].inum = i PROVE t = s
    BY <1>2, <1>3, <2>1, Profile, Referred DEF ControlInv, EntryInv
  <2> QED BY <1>3, <2>1 DEF OwesTo
<1>7. Cardinality(Owing(i)) = Weight(Debt(ipr[p], s))
  <2>1. CASE Debt(ipr[p], s)
    <3>1. Owing(i) = {p}
      BY <1>5, <1>6, <2>1 DEF Owing
    <3> QED BY <2>1, <3>1, FS_Singleton DEF Weight
  <2>2. CASE ~Debt(ipr[p], s)
    <3>1. Owing(i) = {}
      BY <1>5, <1>6, <2>2 DEF Owing
    <3> QED BY <2>2, <3>1, FS_EmptySet DEF Weight
  <2> QED BY <2>1, <2>2
<1>8. Weight(Debt(ipr[p], s)) \in Nat
  BY DEF Weight
<1> QED BY <1>2, <1>3, <1>4, <1>7, <1>8 DEF LinkInv

LEMMA CreateInitStep == ASSUME ItInv, NEW p \in IProc, createInit(p) PROVE ItInv'
<1> USE DEF ItInv
<1>1. /\ ipr[p].pc = "init" /\ Locking(ipr[p]) /\ UNCHANGED <<dent, dhold, calls, lost, ipanic>>
      /\ ipr' = To(p, "enter")
  BY DEF createInit, On, Locking, LockPcs
<1>2. PICK s \in Slot : /\ s = ipr[p].ip /\ itab[s].holder = p /\ itab[s].inum \in Inum /\ Matches(s)
                        /\ itab[s].valid /\ itab[s].ref > 0 /\ dino[itab[s].inum].alloc
                        /\ dino[itab[s].inum].nlink = Weight(Debt(ipr[p], s))
  BY <1>1, Locked, FreshLinks
<1>3. PICK c \in Content, e \in Entry : WritesLinks(p, s, e, c) /\ e.holder = p /\ c.nlink = 1
  <2> DEFINE c0 == [itab[s].mem EXCEPT !.nlink = 1]
             e0 == [itab[s] EXCEPT !.mem = c0]
  <2>1. itab[s] \in Entry /\ itab[s].mem \in Content
    BY DEF TypeInv, Entry
  <2>2. itab' = [itab EXCEPT ![s] = e0] /\ dino' = [dino EXCEPT ![itab[s].inum] = c0]
    BY <1>2 DEF createInit, SetLinks, ip
  <2>3. /\ c0 \in Content /\ c0.nlink = 1
        /\ c0.alloc = dino[itab[s].inum].alloc /\ c0.gen = dino[itab[s].inum].gen
    BY <1>2, <2>1 DEF Content, Matches
  <2> HIDE DEF c0
  <2>4. /\ e0 \in Entry /\ e0.inum = itab[s].inum /\ e0.ref = itab[s].ref /\ e0.valid = itab[s].valid
        /\ e0.mem = c0 /\ e0.holder = p
    BY <1>2, <2>1, <2>3 DEF Entry
  <2> HIDE DEF e0
  <2> QED BY <1>2, <2>2, <2>3, <2>4 DEF WritesLinks
<1>4. OnItsWay(p) /\ ipr'[p].pc = "enter" /\ ipr'[p].then = ipr[p].then /\ SameArgs(ipr'[p], ipr[p])
  BY <1>1, ToStep DEF IPcs, IpPcs, LockPcs, Thens
<1>5. Control(ipr[p]) /\ Arguments(ipr[p]) /\ ipr[p].call = "create"
  BY <1>1 DEF ControlInv, Control
<1>6. Control(ipr'[p]) /\ Arguments(ipr'[p])
  BY <1>1, <1>4, <1>5 DEF Control, Arguments, SameArgs, FreePcs, Naming, Fresh, Creating, HasSrc,
                          IpPcs, LockPcs, PutPoint
<1>7. Locking(ipr'[p]) /\ Steady(p)
  BY <1>1, <1>4, <1>5 DEF Steady, SameArgs, Locking, LockPcs, InDir, Naming, Fresh, Creating, Clearing,
                          InTheWay, FreePcs
<1>8. \A t \in Slot : /\ RefsOf(ipr'[p], t) = RefsOf(ipr[p], t)
                      /\ Touches(ipr'[p], t) => Touches(ipr[p], t)
                      /\ Uses(ipr'[p], t) => Uses(ipr[p], t)
                      /\ Knows(ipr'[p], t) => Knows(ipr[p], t)
                      /\ Debt(ipr'[p], t) <=> t = s
                      /\ Debt(ipr[p], t) <=> FALSE
  BY <1>1, <1>2, <1>4, <1>5
     DEF SameArgs, RefsOf, Touches, Uses, Knows, HasRead, Debt, HasIp, HasSrc, Proper, Owes, IpPcs, LockPcs
<1>9. c.nlink = dino[itab[s].inum].nlink + Weight(Debt(ipr'[p], s)) - Weight(Debt(ipr[p], s))
  <2>1. Weight(Debt(ipr'[p], s)) = 1 /\ Weight(Debt(ipr[p], s)) = 0
    BY <1>8 DEF Weight
  <2> QED BY <1>2, <1>3, <2>1 DEF Matches
<1>10. \A t \in Slot : /\ RefsOf(ipr'[p], t) = RefsOf(ipr[p], t)
                       /\ Touches(ipr'[p], t) => Touches(ipr[p], t)
                       /\ Uses(ipr'[p], t) => Uses(ipr[p], t)
                       /\ Knows(ipr'[p], t) => Knows(ipr[p], t)
                       /\ t # s => (Debt(ipr'[p], t) <=> Debt(ipr[p], t))
  BY <1>8
<1> HIDE DEF ItInv
<1>11. /\ Locking(ipr'[p]) <=> e.holder = p
       /\ Locking(ipr'[p]) => ipr'[p].ip = s
       /\ ipr'[p].fd = ipr[p].fd /\ ipr'[p].want = ipr[p].want
  BY <1>1, <1>2, <1>3, <1>4, <1>7, Bounds DEF SameArgs
<1> QED BY <1>1, <1>3, <1>4, <1>6, <1>7, <1>9, <1>10, <1>11, LinksStep

LEMMA CreateFailStep == ASSUME ItInv, NEW p \in IProc, createFail(p) PROVE ItInv'
<1> USE DEF ItInv
<1>1. /\ ipr[p].pc = "enter" /\ Locking(ipr[p]) /\ UNCHANGED <<dent, dhold, calls, lost, ipanic>>
      /\ ipr' = Call(p, "iput", "leave")
  BY DEF createFail, On, Locking, LockPcs
<1>2. PICK s \in Slot : /\ s = ipr[p].ip /\ itab[s].holder = p /\ itab[s].inum \in Inum /\ Matches(s)
                        /\ itab[s].valid /\ itab[s].ref > 0 /\ dino[itab[s].inum].alloc
                        /\ dino[itab[s].inum].nlink = Weight(Debt(ipr[p], s))
  BY <1>1, Locked, FreshLinks
<1>3. PICK c \in Content, e \in Entry : WritesLinks(p, s, e, c) /\ e.holder = 0 /\ c.nlink = 0
  <2> DEFINE c0 == [itab[s].mem EXCEPT !.nlink = 0]
             e0 == [itab[s] EXCEPT !.mem = c0, !.holder = 0]
  <2>1. itab[s] \in Entry /\ itab[s].mem \in Content
    BY DEF TypeInv, Entry
  <2>2. itab' = [itab EXCEPT ![s] = e0] /\ dino' = [dino EXCEPT ![itab[s].inum] = c0]
    BY <1>2 DEF createFail, ip
  <2>3. /\ c0 \in Content /\ c0.nlink = 0
        /\ c0.alloc = dino[itab[s].inum].alloc /\ c0.gen = dino[itab[s].inum].gen
    BY <1>2, <2>1 DEF Content, Matches
  <2> HIDE DEF c0
  <2>4. /\ e0 \in Entry /\ e0.inum = itab[s].inum /\ e0.ref = itab[s].ref /\ e0.valid = itab[s].valid
        /\ e0.mem = c0 /\ e0.holder = 0
    BY <1>2, <2>1, <2>3, Bounds DEF Entry
  <2> HIDE DEF e0
  <2> QED BY <1>2, <2>2, <2>3, <2>4 DEF WritesLinks
<1>4. OnItsWay(p) /\ ipr'[p].pc = "iput" /\ ipr'[p].then = "leave" /\ SameArgs(ipr'[p], ipr[p])
  BY <1>1, CallStep DEF IPcs, IpPcs, LockPcs, Thens
<1>5. Control(ipr[p]) /\ Arguments(ipr[p]) /\ ipr[p].call = "create"
  BY <1>1 DEF ControlInv, Control
<1>6. Control(ipr'[p]) /\ Arguments(ipr'[p])
  BY <1>1, <1>4, <1>5 DEF Control, Arguments, SameArgs, FreePcs, Naming, Fresh, Creating, HasSrc,
                          IpPcs, LockPcs, PutPoint
<1>7. ~Locking(ipr'[p]) /\ Steady(p)
  BY <1>1, <1>4, <1>5 DEF Steady, SameArgs, Locking, LockPcs, InDir, Naming, Fresh, Creating, Clearing,
                          InTheWay, FreePcs
<1>8. \A t \in Slot : /\ RefsOf(ipr'[p], t) = RefsOf(ipr[p], t)
                      /\ Touches(ipr'[p], t) => Touches(ipr[p], t)
                      /\ Uses(ipr'[p], t) => Uses(ipr[p], t)
                      /\ Knows(ipr'[p], t) => Knows(ipr[p], t)
                      /\ Debt(ipr'[p], t) <=> FALSE
                      /\ Debt(ipr[p], t) <=> t = s
  BY <1>1, <1>2, <1>4, <1>5
     DEF SameArgs, RefsOf, Touches, Uses, Knows, HasRead, Debt, HasIp, HasSrc, Proper, Owes, IpPcs, LockPcs
<1>9. c.nlink = dino[itab[s].inum].nlink + Weight(Debt(ipr'[p], s)) - Weight(Debt(ipr[p], s))
  <2>1. Weight(Debt(ipr'[p], s)) = 0 /\ Weight(Debt(ipr[p], s)) = 1
    BY <1>8 DEF Weight
  <2> QED BY <1>2, <1>3, <2>1 DEF Matches
<1>10. \A t \in Slot : /\ RefsOf(ipr'[p], t) = RefsOf(ipr[p], t)
                       /\ Touches(ipr'[p], t) => Touches(ipr[p], t)
                       /\ Uses(ipr'[p], t) => Uses(ipr[p], t)
                       /\ Knows(ipr'[p], t) => Knows(ipr[p], t)
                       /\ t # s => (Debt(ipr'[p], t) <=> Debt(ipr[p], t))
  BY <1>8
<1> HIDE DEF ItInv
<1>11. /\ Locking(ipr'[p]) <=> e.holder = p
       /\ Locking(ipr'[p]) => ipr'[p].ip = s
       /\ ipr'[p].fd = ipr[p].fd /\ ipr'[p].want = ipr[p].want
  BY <1>1, <1>2, <1>3, <1>4, <1>7, Bounds DEF SameArgs
<1> QED BY <1>1, <1>3, <1>4, <1>6, <1>7, <1>9, <1>10, <1>11, LinksStep

LEMMA LinkCountStep == ASSUME ItInv, NEW p \in IProc, linkCount(p) PROVE ItInv'
<1> USE DEF ItInv
<1>1. /\ ipr[p].pc = "count" /\ Locking(ipr[p]) /\ UNCHANGED <<dent, dhold, calls, lost, ipanic>>
      /\ ipr' = [ipr EXCEPT ![p] = [ipr[p] EXCEPT !.src = ipr[p].ip, !.pc = "unlock", !.then = "dir2"]]
  BY DEF linkCount, On, Locking, LockPcs
<1>2. PICK s \in Slot : /\ s = ipr[p].ip /\ itab[s].holder = p /\ itab[s].inum \in Inum /\ Matches(s)
                        /\ itab[s].valid /\ itab[s].ref > 0 /\ dino[itab[s].inum].alloc
  BY <1>1, Locked
<1>3. PICK c \in Content, e \in Entry : WritesLinks(p, s, e, c) /\ e.holder = p /\ c.nlink = itab[s].mem.nlink + 1
  <2> DEFINE c0 == [itab[s].mem EXCEPT !.nlink = itab[s].mem.nlink + 1]
             e0 == [itab[s] EXCEPT !.mem = c0]
  <2>1. itab[s] \in Entry /\ itab[s].mem \in Content
    BY DEF TypeInv, Entry
  <2>2. itab' = [itab EXCEPT ![s] = e0] /\ dino' = [dino EXCEPT ![itab[s].inum] = c0]
    BY <1>2 DEF linkCount, SetLinks, ip
  <2>3. /\ c0 \in Content /\ c0.nlink = itab[s].mem.nlink + 1
        /\ c0.alloc = dino[itab[s].inum].alloc /\ c0.gen = dino[itab[s].inum].gen
    <3>1. itab[s].mem.nlink + 1 \in Nat
      BY <1>2, <2>1 DEF Content
    <3> QED BY <1>2, <2>1, <3>1 DEF Content, Matches
  <2> HIDE DEF c0
  <2>4. /\ e0 \in Entry /\ e0.inum = itab[s].inum /\ e0.ref = itab[s].ref /\ e0.valid = itab[s].valid
        /\ e0.mem = c0 /\ e0.holder = p
    BY <1>2, <2>1, <2>3 DEF Entry
  <2> HIDE DEF e0
  <2> QED BY <1>2, <2>2, <2>3, <2>4 DEF WritesLinks
<1>4. /\ OnItsWay(p) /\ ipr'[p].pc = "unlock" /\ ipr'[p].then = "dir2" /\ ipr'[p].call = ipr[p].call
      /\ ipr'[p].ip = ipr[p].ip /\ ipr'[p].src = ipr[p].ip /\ ipr'[p].name = ipr[p].name
      /\ ipr'[p].to = ipr[p].to /\ ipr'[p].fd = ipr[p].fd /\ ipr'[p].want = ipr[p].want
  <2> DEFINE t == [ipr[p] EXCEPT !.src = ipr[p].ip, !.pc = "unlock", !.then = "dir2"]
  <2>1. ipr[p] \in Process
    BY DEF TypeInv
  <2>2. t \in Process
    BY <2>1 DEF Process, IPcs, IpPcs, LockPcs, Thens
  <2>3. /\ t.pc = "unlock" /\ t.then = "dir2" /\ t.call = ipr[p].call
        /\ t.ip = ipr[p].ip /\ t.src = ipr[p].ip /\ t.name = ipr[p].name
        /\ t.to = ipr[p].to /\ t.fd = ipr[p].fd /\ t.want = ipr[p].want
    BY <2>1 DEF Process
  <2>4. ipr' = [ipr EXCEPT ![p] = t]
    BY <1>1
  <2> HIDE DEF t
  <2>5. OnItsWay(p) /\ ipr'[p] = t
    BY <2>2, <2>4 DEF TypeInv, OnItsWay, Mine
  <2> QED BY <2>3, <2>5
<1>5. Control(ipr[p]) /\ Arguments(ipr[p]) /\ ipr[p].call = "link"
  BY <1>1 DEF ControlInv, Control
<1>6. Control(ipr'[p]) /\ Arguments(ipr'[p])
  BY <1>1, <1>4, <1>5 DEF Control, Arguments, SameArgs, FreePcs, Naming, Fresh, Creating, HasSrc,
                          IpPcs, LockPcs, PutPoint
<1>7. Locking(ipr'[p]) /\ Steady(p)
  BY <1>1, <1>4, <1>5 DEF Steady, SameArgs, Locking, LockPcs, InDir, Naming, Fresh, Creating, Clearing,
                          InTheWay, FreePcs
<1>8. \A t \in Slot : /\ RefsOf(ipr'[p], t) = RefsOf(ipr[p], t)
                      /\ Touches(ipr'[p], t) => Touches(ipr[p], t)
                      /\ Uses(ipr'[p], t) => Uses(ipr[p], t)
                      /\ Knows(ipr'[p], t) => Knows(ipr[p], t)
                      /\ Debt(ipr'[p], t) <=> t = s
                      /\ Debt(ipr[p], t) <=> FALSE
  BY <1>1, <1>2, <1>4, <1>5
     DEF SameArgs, RefsOf, Touches, Uses, Knows, HasRead, Debt, HasIp, HasSrc, Proper, Owes, IpPcs, LockPcs
<1>9. c.nlink = dino[itab[s].inum].nlink + Weight(Debt(ipr'[p], s)) - Weight(Debt(ipr[p], s))
  <2>1. Weight(Debt(ipr'[p], s)) = 1 /\ Weight(Debt(ipr[p], s)) = 0
    BY <1>8 DEF Weight
  <2> QED BY <1>2, <1>3, <2>1 DEF Matches
<1>10. \A t \in Slot : /\ RefsOf(ipr'[p], t) = RefsOf(ipr[p], t)
                       /\ Touches(ipr'[p], t) => Touches(ipr[p], t)
                       /\ Uses(ipr'[p], t) => Uses(ipr[p], t)
                       /\ Knows(ipr'[p], t) => Knows(ipr[p], t)
                       /\ t # s => (Debt(ipr'[p], t) <=> Debt(ipr[p], t))
  BY <1>8
<1> HIDE DEF ItInv
<1>11. /\ Locking(ipr'[p]) <=> e.holder = p
       /\ Locking(ipr'[p]) => ipr'[p].ip = s
       /\ ipr'[p].fd = ipr[p].fd /\ ipr'[p].want = ipr[p].want
  BY <1>1, <1>2, <1>3, <1>4, <1>7, Bounds DEF SameArgs
<1> QED BY <1>1, <1>3, <1>4, <1>6, <1>7, <1>9, <1>10, <1>11, LinksStep

LEMMA DiscountStep == ASSUME ItInv, NEW p \in IProc, Discount(p) PROVE ItInv'
<1> USE DEF ItInv
<1>1. /\ ipr[p].pc = "discount" /\ Locking(ipr[p]) /\ UNCHANGED <<dent, dhold, calls, lost, ipanic>>
      /\ ipr' = Call(p, "iput", "return")
  BY DEF Discount, On, Locking, LockPcs
<1>2. PICK s \in Slot : /\ s = ipr[p].ip /\ itab[s].holder = p /\ itab[s].inum \in Inum /\ Matches(s)
                        /\ itab[s].valid /\ itab[s].ref > 0 /\ dino[itab[s].inum].alloc
                        /\ itab[s].mem.nlink > 0
  <2>1. PICK s \in Slot : /\ s = ipr[p].ip /\ itab[s].holder = p /\ itab[s].inum \in Inum /\ Matches(s)
                          /\ itab[s].valid /\ itab[s].ref > 0 /\ dino[itab[s].inum].alloc
    BY <1>1, Locked
  <2>2. Debt(ipr[p], s)
    BY <1>1, <2>1 DEF Debt, Owes
  <2>3. p \in Owing(itab[s].inum)
    BY <2>2 DEF Owing, OwesTo
  <2>4. Cardinality(Owing(itab[s].inum)) \in Nat /\ Cardinality(Owing(itab[s].inum)) # 0
    BY <2>3, ProcSets, CountPositive
  <2>5. Names(itab[s].inum) \in Nat
    <3>1. IsFiniteSet({n \in INames : dent[n] = itab[s].inum})
      BY ItableAssumption, FS_Subset DEF ItableAssumption
    <3> QED BY <3>1, CountPositive DEF Names
  <2> QED BY <2>1, <2>4, <2>5 DEF LinkInv, Matches
<1>3. PICK c \in Content, e \in Entry : WritesLinks(p, s, e, c) /\ e.holder = 0 /\ c.nlink = itab[s].mem.nlink - 1
  <2> DEFINE c0 == [itab[s].mem EXCEPT !.nlink = itab[s].mem.nlink - 1]
             e0 == [itab[s] EXCEPT !.mem = c0, !.holder = 0]
  <2>1. itab[s] \in Entry /\ itab[s].mem \in Content
    BY DEF TypeInv, Entry
  <2>2. itab' = [itab EXCEPT ![s] = e0] /\ dino' = [dino EXCEPT ![itab[s].inum] = c0]
    BY <1>2 DEF Discount, ip
  <2>3. /\ c0 \in Content /\ c0.nlink = itab[s].mem.nlink - 1
        /\ c0.alloc = dino[itab[s].inum].alloc /\ c0.gen = dino[itab[s].inum].gen
    <3>1. itab[s].mem.nlink - 1 \in Nat
      BY <1>2, <2>1 DEF Content
    <3> QED BY <1>2, <2>1, <3>1 DEF Content, Matches
  <2> HIDE DEF c0
  <2>4. /\ e0 \in Entry /\ e0.inum = itab[s].inum /\ e0.ref = itab[s].ref /\ e0.valid = itab[s].valid
        /\ e0.mem = c0 /\ e0.holder = 0
    BY <1>2, <2>1, <2>3, Bounds DEF Entry
  <2> HIDE DEF e0
  <2> QED BY <1>2, <2>2, <2>3, <2>4 DEF WritesLinks
<1>4. OnItsWay(p) /\ ipr'[p].pc = "iput" /\ ipr'[p].then = "return" /\ SameArgs(ipr'[p], ipr[p])
  BY <1>1, CallStep DEF IPcs, IpPcs, LockPcs, Thens
<1>5. Control(ipr[p]) /\ Arguments(ipr[p]) /\ ipr[p].call \in {"unlink", "link"}
  BY <1>1 DEF ControlInv, Control
<1>6. Control(ipr'[p]) /\ Arguments(ipr'[p])
  BY <1>1, <1>4, <1>5 DEF Control, Arguments, SameArgs, FreePcs, Naming, Fresh, Creating, HasSrc,
                          IpPcs, LockPcs, PutPoint
<1>7. ~Locking(ipr'[p]) /\ Steady(p)
  BY <1>1, <1>4, <1>5 DEF Steady, SameArgs, Locking, LockPcs, InDir, Naming, Fresh, Creating, Clearing,
                          InTheWay, FreePcs
<1>8. \A t \in Slot : /\ RefsOf(ipr'[p], t) = RefsOf(ipr[p], t)
                      /\ Touches(ipr'[p], t) => Touches(ipr[p], t)
                      /\ Uses(ipr'[p], t) => Uses(ipr[p], t)
                      /\ Knows(ipr'[p], t) => Knows(ipr[p], t)
                      /\ Debt(ipr'[p], t) <=> FALSE
                      /\ Debt(ipr[p], t) <=> t = s
  BY <1>1, <1>2, <1>4, <1>5
     DEF SameArgs, RefsOf, Touches, Uses, Knows, HasRead, Debt, HasIp, HasSrc, Proper, Owes, IpPcs, LockPcs
<1>9. c.nlink = dino[itab[s].inum].nlink + Weight(Debt(ipr'[p], s)) - Weight(Debt(ipr[p], s))
  <2>1. Weight(Debt(ipr'[p], s)) = 0 /\ Weight(Debt(ipr[p], s)) = 1
    BY <1>8 DEF Weight
  <2>2. dino[itab[s].inum].nlink \in Nat
    BY <1>2 DEF TypeInv, Content
  <2> QED BY <1>2, <1>3, <2>1, <2>2 DEF Matches
<1>10. \A t \in Slot : /\ RefsOf(ipr'[p], t) = RefsOf(ipr[p], t)
                       /\ Touches(ipr'[p], t) => Touches(ipr[p], t)
                       /\ Uses(ipr'[p], t) => Uses(ipr[p], t)
                       /\ Knows(ipr'[p], t) => Knows(ipr[p], t)
                       /\ t # s => (Debt(ipr'[p], t) <=> Debt(ipr[p], t))
  BY <1>8
<1> HIDE DEF ItInv
<1>11. /\ Locking(ipr'[p]) <=> e.holder = p
       /\ Locking(ipr'[p]) => ipr'[p].ip = s
       /\ ipr'[p].fd = ipr[p].fd /\ ipr'[p].want = ipr[p].want
  BY <1>1, <1>2, <1>3, <1>4, <1>7, Bounds DEF SameArgs
<1> QED BY <1>1, <1>3, <1>4, <1>6, <1>7, <1>9, <1>10, <1>11, LinksStep

-----------------------------------------------------------------------------
(* The steps that write in the directory *)

\* The name n becomes one for inode i: entry s, that the process uses, has the
\* inode that the name stands for, and the debt of the process is settled.
Enters(p, n, i, s) ==
    /\ dent' = [dent EXCEPT ![n] = i] /\ Touches(ipr[p], s) /\ Uses(ipr[p], s)
    /\ i \in {0, itab[s].inum} /\ dent[n] \in {0, itab[s].inum}
    /\ \A j \in Inum : Weight(i = j) + Weight(OwesTo(ipr'[p], j)) =
                         Weight(dent[n] = j) + Weight(OwesTo(ipr[p], j))

LEMMA EnterStep ==
    ASSUME ItInv, NEW p \in IProc, OnItsWay(p), UNCHANGED <<dino, itab, calls, lost, ipanic>>,
           dhold = p, dhold' = 0, ~InDir(ipr'[p]), Control(ipr'[p]), Arguments(ipr'[p]),
           NEW n \in INames, NEW i \in 0..INodes, NEW s \in Slot, Enters(p, n, i, s),
           ipr[p].pc \notin {"ilock", "idone", "iget"}, ipr'[p].pc \notin {"ifree", "idone", "iget"},
           Locking(ipr'[p]) <=> Locking(ipr[p]), ipr'[p].ip = ipr[p].ip,
           ipr'[p].fd = ipr[p].fd, ipr'[p].want = ipr[p].want,
           \A t \in Slot : /\ RefsOf(ipr'[p], t) = RefsOf(ipr[p], t)
                           /\ Touches(ipr'[p], t) => Touches(ipr[p], t)
                           /\ Uses(ipr'[p], t) => Uses(ipr[p], t)
                           /\ Knows(ipr'[p], t) => Knows(ipr[p], t)
    PROVE  ItInv'
<1> USE DEF ItInv, Enters
<1>1. /\ dent'[n] = i /\ \A m \in INames \ {n} : dent'[m] = dent[m]
      /\ dent' \in [INames -> 0..INodes]
  BY DEF TypeInv
<1>2. Kept /\ InDir(ipr[p]) /\ Mine(p) /\ itab[s].ref > 0 /\ itab[s].inum \in Inum /\ dino[itab[s].inum].alloc
  BY Referred DEF Kept, DirInv, OnItsWay, EntryInv, AllocInv
<1>3. /\ ~Fresh(ipr'[p]) /\ ~Naming(ipr'[p]) /\ ~Clearing(ipr'[p]) /\ ~InTheWay(ipr'[p])
  BY Profile
<1>4. DirInv'
  BY <1>2, Bounds, DirStep
<1>5. HoldInv'
  BY <1>2, HoldStep DEF HoldInv
<1>6. \A t \in Slot : itab[t].ref \in Nat /\ RefsOf(ipr[p], t) \in Nat
  BY DEF TypeInv, Entry, RefsOf, Weight
<1>7. RefInv'
  BY <1>2, <1>6, RefStep
<1>8. TypeInv'
  BY <1>1 DEF TypeInv, OnItsWay
<1>9. EntryInv'
  BY DEF EntryInv
<1>10. ValidInv'
  <2>1. \A t \in Slot : Matches(t)' <=> Matches(t)
    BY DEF Matches
  <2>2. \A t \in Slot : Knows(ipr'[p], t) => itab'[t].valid
    BY DEF ValidInv
  <2> QED BY <1>2, <2>1, <2>2, ValidStep
<1>11. FreeInv'
  BY <1>2, FreeStep
<1>12. DoneInv'
  BY <1>1, <1>2, DoneStep
<1>13. AllocInv'
  <2>1. \A m \in INames : dent'[m] = dent[m] \/ dent'[m] = 0 \/ dino'[dent'[m]].alloc
    BY <1>1, <1>2
  <2> QED BY <1>2, <2>1, AllocStep
<1>14. LinkInv'
  <2> SUFFICES ASSUME NEW j \in Inum, dino[j].alloc
               PROVE  dino[j].nlink = Names(j)' + Cardinality(Owing(j)')
    BY DEF LinkInv
  <2>1. Names(j) \in Nat /\ Names(j)' = Names(j) + Weight(i = j) - Weight(dent[n] = j)
    BY <1>1, NamesStep
  <2>2. OwesTo(ipr[p], j)' <=> OwesTo(ipr'[p], j)
    BY DEF OwesTo
  <2>3. Weight(OwesTo(ipr[p], j)') = Weight(OwesTo(ipr'[p], j))
    BY <2>2 DEF Weight
  <2>4. /\ Cardinality(Owing(j)) \in Nat
        /\ Cardinality(Owing(j)') =
             Cardinality(Owing(j)) + Weight(OwesTo(ipr'[p], j)) - Weight(OwesTo(ipr[p], j))
    BY <1>2, <2>3, OweStep
  <2>5. /\ Weight(i = j) \in Nat /\ Weight(dent[n] = j) \in Nat
        /\ Weight(OwesTo(ipr'[p], j)) \in Nat /\ Weight(OwesTo(ipr[p], j)) \in Nat
    BY DEF Weight
  <2>6. dino[j].nlink = Names(j) + Cardinality(Owing(j))
    BY DEF LinkInv
  <2>7. Weight(i = j) + Weight(OwesTo(ipr'[p], j)) = Weight(dent[n] = j) + Weight(OwesTo(ipr[p], j))
    OBVIOUS
  <2> HIDE DEF ItInv, Enters
  <2> QED BY <2>1, <2>4, <2>5, <2>6, <2>7
<1>15. FreshInv'
  BY <1>2, <1>3, FreshStep
<1>16. NameInv'
  BY <1>2, <1>3, NameStep
<1>17. LostInv'
  <2>1. \A j : Entered(j)' <=> Entered(j)
    BY DEF Entered
  <2>2. \A j : Taken(j)' <=> Taken(j)
    BY <1>2 DEF Taken, Mine
  <2>3. Entered(itab[s].inum)
    BY <1>2 DEF Entered
  <2>4. ASSUME NEW j \in Inum PROVE Reached(j)' <=> Reached(j)
    <3>1. CASE j = itab[s].inum
      BY <2>1, <2>3, <3>1 DEF Reached
    <3>2. CASE j # itab[s].inum
      <4>1. j # 0
        BY Bounds
      <4>2. Named(j)' <=> Named(j)
        BY <1>1, <3>2, <4>1 DEF Named
      <4> QED BY <2>1, <2>2, <4>2 DEF Reached
    <3> QED BY <3>1, <3>2
  <2> QED BY <2>4 DEF LostInv
<1> QED BY <1>4, <1>5, <1>7, <1>8, <1>9, <1>10, <1>11, <1>12, <1>13, <1>14, <1>15, <1>16, <1>17, ItInvAgain
        DEF Rest

LEMMA CreateEnterStep == ASSUME ItInv, NEW p \in IProc, createEnter(p) PROVE ItInv'
<1> USE DEF ItInv
<1>1. /\ ipr[p].pc = "enter" /\ Locking(ipr[p]) /\ InDir(ipr[p]) /\ Creating(ipr[p]) /\ Naming(ipr[p])
      /\ Fresh(ipr[p]) /\ dhold' = 0 /\ ipr' = To(p, "fill") /\ UNCHANGED <<dino, itab, calls, lost, ipanic>>
      /\ dent' = [dent EXCEPT ![ipr[p].name] = ipr[p].inum]
  BY DEF createEnter, On, Locking, LockPcs, InDir, Creating, Naming, Fresh
<1>2. Control(ipr[p]) /\ Arguments(ipr[p]) /\ ipr[p].call = "create" /\ dhold = p
  BY <1>1 DEF ControlInv, Control, DirInv
<1>3. PICK s \in Slot : s = ipr[p].ip /\ itab[s].inum = ipr[p].inum /\ itab[s].inum \in Inum
  BY <1>1, Locked DEF FreshInv
<1>4. PICK n \in INames, i \in 0..INodes : n = ipr[p].name /\ i = ipr[p].inum /\ dent[n] = 0
  BY <1>1, <1>2 DEF TypeInv, Process, Arguments, NameInv
<1>5. OnItsWay(p) /\ ipr'[p].pc = "fill" /\ ipr'[p].then = ipr[p].then /\ SameArgs(ipr'[p], ipr[p])
  BY <1>1, ToStep DEF IPcs, IpPcs, LockPcs
<1>6. Control(ipr'[p]) /\ Arguments(ipr'[p])
  BY <1>1, <1>2, <1>5 DEF Control, Arguments, SameArgs, FreePcs, Naming, Fresh, Creating, HasSrc,
                          IpPcs, LockPcs
<1>7. ~InDir(ipr'[p]) /\ Locking(ipr'[p])
  BY <1>5 DEF InDir, Naming, Fresh, Creating, Clearing, InTheWay, FreePcs, Locking, LockPcs
<1>8. \A t \in Slot : /\ RefsOf(ipr'[p], t) = RefsOf(ipr[p], t)
                      /\ Touches(ipr'[p], t) => Touches(ipr[p], t)
                      /\ Uses(ipr'[p], t) => Uses(ipr[p], t)
                      /\ Knows(ipr'[p], t) => Knows(ipr[p], t)
  BY <1>1, <1>2, <1>5
     DEF SameArgs, RefsOf, Touches, Uses, Knows, HasRead, HasIp, HasSrc, Proper, IpPcs, LockPcs
<1>9. \A t \in Slot : ~Debt(ipr'[p], t) /\ (Debt(ipr[p], t) <=> t = s)
  BY <1>1, <1>2, <1>3, <1>5 DEF SameArgs, Debt, Owes, HasSrc
<1>10. Touches(ipr[p], s) /\ Uses(ipr[p], s)
  BY <1>1, <1>2, <1>3 DEF Touches, Uses, Proper, HasIp, IpPcs, LockPcs
<1>11. ASSUME NEW j \in Inum
       PROVE  Weight(i = j) + Weight(OwesTo(ipr'[p], j)) = Weight(dent[n] = j) + Weight(OwesTo(ipr[p], j))
  <2>1. ~OwesTo(ipr'[p], j) /\ (OwesTo(ipr[p], j) <=> i = j) /\ dent[n] # j
    BY <1>3, <1>4, <1>9, Bounds DEF OwesTo
  <2> QED BY <2>1 DEF Weight
<1> HIDE DEF ItInv
<1>12. Enters(p, n, i, s)
  BY <1>1, <1>3, <1>4, <1>10, <1>11 DEF Enters
<1> QED BY <1>1, <1>2, <1>5, <1>6, <1>7, <1>8, <1>12, EnterStep DEF SameArgs

LEMMA LinkEnterStep == ASSUME ItInv, NEW p \in IProc, linkEnter(p) PROVE ItInv'
<1> USE DEF ItInv
<1>1. /\ ipr[p].pc = "dirlink" /\ InDir(ipr[p]) /\ dent[ipr[p].to] = 0
      /\ dhold' = 0 /\ ipr' = Call(p, "iput", "return") /\ UNCHANGED <<dino, itab, calls, lost, ipanic>>
      /\ dent' = [dent EXCEPT ![ipr[p].to] = itab[ipr[p].ip].inum]
  BY DEF linkEnter, On, InDir, ip
<1>2. Control(ipr[p]) /\ Arguments(ipr[p]) /\ ipr[p].call = "link" /\ dhold = p
  BY <1>1 DEF ControlInv, Control, DirInv
<1>3. PICK s \in Slot : /\ s = ipr[p].ip /\ Touches(ipr[p], s) /\ Uses(ipr[p], s) /\ itab[s].inum \in 0..INodes
                        /\ itab[s].inum \in Inum
  <2>1. ipr[p].ip \in Slot /\ Touches(ipr[p], ipr[p].ip)
    BY <1>1, AtHand DEF IpPcs
  <2>2. Uses(ipr[p], ipr[p].ip)
    BY <1>1, <1>2 DEF Uses, Proper, HasIp, IpPcs
  <2> QED BY <2>1, <2>2, Referred DEF TypeInv, Entry, EntryInv
<1>4. PICK n \in INames, i \in 0..INodes : n = ipr[p].to /\ i = itab[s].inum /\ dent[n] = 0
  BY <1>1, <1>2, <1>3 DEF TypeInv, Process, Arguments
<1>5. OnItsWay(p) /\ ipr'[p].pc = "iput" /\ ipr'[p].then = "return" /\ SameArgs(ipr'[p], ipr[p])
  BY <1>1, CallStep DEF IPcs, IpPcs, Thens
<1>6. Control(ipr'[p]) /\ Arguments(ipr'[p])
  BY <1>1, <1>2, <1>5 DEF Control, Arguments, SameArgs, FreePcs, Naming, Fresh, Creating, HasSrc,
                          IpPcs, LockPcs, PutPoint
<1>7. ~InDir(ipr'[p]) /\ ~Locking(ipr'[p]) /\ ~Locking(ipr[p])
  BY <1>1, <1>5 DEF InDir, Naming, Fresh, Creating, Clearing, InTheWay, FreePcs, Locking, LockPcs
<1>8. \A t \in Slot : /\ RefsOf(ipr'[p], t) = RefsOf(ipr[p], t)
                      /\ Touches(ipr'[p], t) => Touches(ipr[p], t)
                      /\ Uses(ipr'[p], t) => Uses(ipr[p], t)
                      /\ Knows(ipr'[p], t) => Knows(ipr[p], t)
  BY <1>1, <1>2, <1>5
     DEF SameArgs, RefsOf, Touches, Uses, Knows, HasRead, HasIp, HasSrc, Proper, IpPcs, LockPcs
<1>9. \A t \in Slot : ~Debt(ipr'[p], t) /\ (Debt(ipr[p], t) <=> t = s)
  BY <1>1, <1>2, <1>3, <1>5 DEF SameArgs, Debt, Owes, HasSrc
<1>10. ASSUME NEW j \in Inum
       PROVE  Weight(i = j) + Weight(OwesTo(ipr'[p], j)) = Weight(dent[n] = j) + Weight(OwesTo(ipr[p], j))
  <2>1. ~OwesTo(ipr'[p], j) /\ (OwesTo(ipr[p], j) <=> i = j) /\ dent[n] # j
    BY <1>3, <1>4, <1>9, Bounds DEF OwesTo
  <2> QED BY <2>1 DEF Weight
<1> HIDE DEF ItInv
<1>11. Enters(p, n, i, s)
  BY <1>1, <1>3, <1>4, <1>10 DEF Enters
<1> QED BY <1>1, <1>2, <1>5, <1>6, <1>7, <1>8, <1>11, EnterStep DEF SameArgs

LEMMA UnlinkClearStep == ASSUME ItInv, NEW p \in IProc, unlinkClear(p) PROVE ItInv'
<1> USE DEF ItInv
<1>1. /\ ipr[p].pc = "clear" /\ Locking(ipr[p]) /\ InDir(ipr[p]) /\ Clearing(ipr[p])
      /\ dhold' = 0 /\ ipr' = To(p, "discount") /\ UNCHANGED <<dino, itab, calls, lost>>
      /\ dent' = [dent EXCEPT ![ipr[p].name] = 0] /\ ipanic' = (itab[ipr[p].ip].mem.nlink < 1)
  BY DEF unlinkClear, On, Locking, LockPcs, InDir, Clearing, ip
<1>2. Control(ipr[p]) /\ Arguments(ipr[p]) /\ ipr[p].call = "unlink" /\ dhold = p
  BY <1>1 DEF ControlInv, Control, DirInv
<1>3. PICK s \in Slot : s = ipr[p].ip /\ itab[s].inum \in Inum /\ Matches(s) /\ dino[itab[s].inum].alloc
  BY <1>1, Locked
<1>4. PICK n \in INames, i \in 0..INodes : n = ipr[p].name /\ i = 0 /\ dent[n] = itab[s].inum
  BY <1>1, <1>2, <1>3, Bounds DEF TypeInv, Process, Arguments, NameInv
<1>5. ipanic' = ipanic
  <2>1. IsFiniteSet({m \in INames : dent[m] = itab[s].inum})
    BY ItableAssumption, FS_Subset DEF ItableAssumption
  <2>2. Names(itab[s].inum) \in Nat /\ Names(itab[s].inum) # 0
    BY <1>4, <2>1, CountPositive DEF Names
  <2>3. Cardinality(Owing(itab[s].inum)) \in Nat
    BY ProcSets, CountPositive
  <2>4. itab[s].mem.nlink = Names(itab[s].inum) + Cardinality(Owing(itab[s].inum))
    BY <1>3 DEF LinkInv, Matches
  <2>5. ~(itab[s].mem.nlink < 1)
    BY <2>2, <2>3, <2>4
  <2>6. ipanic' = (itab[s].mem.nlink < 1)
    BY <1>1, <1>3
  <2>7. (itab[s].mem.nlink < 1) = FALSE
    BY <2>5
  <2>8. ipanic' = FALSE
    BY <2>6, <2>7
  <2> QED BY <2>8 DEF TypeInv
<1>6. OnItsWay(p) /\ ipr'[p].pc = "discount" /\ ipr'[p].then = ipr[p].then /\ SameArgs(ipr'[p], ipr[p])
  BY <1>1, ToStep DEF IPcs, IpPcs, LockPcs
<1>7. Control(ipr'[p]) /\ Arguments(ipr'[p])
  BY <1>1, <1>2, <1>6 DEF Control, Arguments, SameArgs, FreePcs, Naming, Fresh, Creating, HasSrc,
                          IpPcs, LockPcs
<1>8. ~InDir(ipr'[p]) /\ Locking(ipr'[p])
  BY <1>6 DEF InDir, Naming, Fresh, Creating, Clearing, InTheWay, FreePcs, Locking, LockPcs
<1>9. \A t \in Slot : /\ RefsOf(ipr'[p], t) = RefsOf(ipr[p], t)
                      /\ Touches(ipr'[p], t) => Touches(ipr[p], t)
                      /\ Uses(ipr'[p], t) => Uses(ipr[p], t)
                      /\ Knows(ipr'[p], t) => Knows(ipr[p], t)
  BY <1>1, <1>2, <1>6
     DEF SameArgs, RefsOf, Touches, Uses, Knows, HasRead, HasIp, HasSrc, Proper, IpPcs, LockPcs
<1>10. \A t \in Slot : ~Debt(ipr[p], t) /\ (Debt(ipr'[p], t) <=> t = s)
  BY <1>1, <1>2, <1>3, <1>6 DEF SameArgs, Debt, Owes, HasSrc
<1>11. Touches(ipr[p], s) /\ Uses(ipr[p], s)
  BY <1>1, <1>2, <1>3 DEF Touches, Uses, Proper, HasIp, IpPcs, LockPcs
<1>12. ASSUME NEW j \in Inum
       PROVE  Weight(i = j) + Weight(OwesTo(ipr'[p], j)) = Weight(dent[n] = j) + Weight(OwesTo(ipr[p], j))
  <2>1. ~OwesTo(ipr[p], j) /\ (OwesTo(ipr'[p], j) <=> dent[n] = j) /\ i # j
    BY <1>3, <1>4, <1>10, Bounds DEF OwesTo
  <2> QED BY <2>1 DEF Weight
<1> HIDE DEF ItInv
<1>13. Enters(p, n, i, s)
  BY <1>1, <1>3, <1>4, <1>11, <1>12 DEF Enters
<1> QED BY <1>1, <1>2, <1>5, <1>6, <1>7, <1>8, <1>9, <1>13, EnterStep DEF SameArgs


-----------------------------------------------------------------------------
(* The steps that drop a reference *)

LEMMA NamesNone ==
    ASSUME NEW i
    PROVE  Names(i) \in Nat /\ (Names(i) = 0 <=> ~Named(i))
<1> DEFINE S == {n \in INames : dent[n] = i}
<1>1. IsFiniteSet(S)
  BY ItableAssumption, FS_Subset DEF ItableAssumption
<1>2. S = {} <=> ~Named(i)
  BY DEF Named
<1>3. Cardinality(S) \in Nat /\ (Cardinality(S) = 0 <=> S = {})
  <2> HIDE DEF S
  <2> QED BY <1>1, CountPositive
<1> QED BY <1>2, <1>3 DEF Names

\* With one reference, to a process that owes nothing, the links are names.
LEMMA LastLinks ==
    ASSUME ItInv, NEW p \in IProc, NEW s \in Slot, HasIp(ipr[p]), ipr[p].ip = s, itab[s].ref = 1,
           ~Owes(ipr[p])
    PROVE  /\ itab[s].inum \in Inum /\ Entered(itab[s].inum)
           /\ dino[itab[s].inum].alloc => (dino[itab[s].inum].nlink = 0 <=> ~Named(itab[s].inum))
<1> USE DEF ItInv
<1>1. itab[s].inum \in Inum /\ Entered(itab[s].inum)
  BY DEF EntryInv, Entered
<1>2. ASSUME NEW q \in IProc, OwesTo(ipr[q], itab[s].inum) PROVE FALSE
  <2>1. PICK t \in Slot : Debt(ipr[q], t) /\ itab[t].inum = itab[s].inum
    BY <1>2 DEF OwesTo
  <2>2. Touches(ipr[q], t)
    BY <2>1, Profile DEF ControlInv
  <2>3. t = s
    BY <2>1, <2>2, Referred DEF EntryInv
  <2>4. q = p /\ ~(HasSrc(ipr[p]) /\ ipr[p].src = s)
    BY <2>2, <2>3, LastReference
  <2> QED BY <2>1, <2>3, <2>4 DEF Debt
<1>3. Cardinality(Owing(itab[s].inum)) = 0
  <2>1. Owing(itab[s].inum) = {}
    BY <1>2 DEF Owing
  <2> QED BY <2>1, FS_EmptySet
<1>4. dino[itab[s].inum].alloc => dino[itab[s].inum].nlink = Names(itab[s].inum)
  BY <1>1, <1>3, NamesNone DEF LinkInv
<1> QED BY <1>1, <1>4, NamesNone

\* The reference through ip is dropped.
Drops(p, s) ==
    /\ ipr[p].pc \in {"iput", "idrop"} /\ s = ipr[p].ip /\ ipr' = Back(p)
    /\ itab' = [itab EXCEPT ![s].ref = @ - 1]
    /\ UNCHANGED <<dino, dent, dhold, calls, ipanic>>

LEMMA DropTable ==
    ASSUME ItInv, NEW p \in IProc, NEW s \in Slot, Drops(p, s)
    PROVE  /\ itab' \in [Slot -> Entry] /\ itab[s].ref > 0 /\ itab[s].ref \in Nat
           /\ HasIp(ipr[p]) /\ ~Owes(ipr[p]) /\ Mine(p) /\ OnItsWay(p)
           /\ Control(ipr[p]) /\ Arguments(ipr[p])
           /\ PutPoint(ipr[p]) \/ (ipr[p].pc = "iput" /\ ipr[p].then = "bad" /\ ipr[p].call = "link")
           /\ \/ ipr[p].then = "return" /\ Over(ipr'[p], ipr[p])
              \/ /\ ipr[p].then \in {"leave", "bad"} /\ ipr'[p].pc = ipr[p].then /\ ipr'[p].then = ipr[p].then
                 /\ SameArgs(ipr'[p], ipr[p])
           /\ \A t \in Slot : /\ itab'[t].inum = itab[t].inum /\ itab'[t].valid = itab[t].valid
                              /\ itab'[t].holder = itab[t].holder /\ itab'[t].mem = itab[t].mem
                              /\ itab'[t].ref = itab[t].ref - Weight(t = s)
<1> USE DEF ItInv, Drops
<1>1. /\ Control(ipr[p]) /\ Arguments(ipr[p])
      /\ PutPoint(ipr[p]) \/ (ipr[p].pc = "iput" /\ ipr[p].then = "bad" /\ ipr[p].call = "link")
  BY DEF ControlInv, Control, FreePcs
<1>2. HasIp(ipr[p])
  BY <1>1 DEF PutPoint, HasIp, IpPcs
<1>3. itab[s].ref > 0
  BY <1>2, Referred DEF Touches
<1>4. itab[s].ref \in Nat /\ itab[s] \in Entry
  BY DEF TypeInv, Entry
<1>5. PICK n \in Nat : n = itab[s].ref - 1
  BY <1>3, <1>4
<1>6. PICK e \in Entry : /\ e = [itab[s] EXCEPT !.ref = n]
                         /\ e.ref = n /\ e.inum = itab[s].inum /\ e.holder = itab[s].holder
                         /\ e.valid = itab[s].valid /\ e.mem = itab[s].mem
  <2> DEFINE t == [itab[s] EXCEPT !.ref = n]
  <2>1. t \in Entry
    BY <1>4 DEF Entry
  <2> QED BY <1>4, <2>1 DEF Entry
<1>7. itab' = [itab EXCEPT ![s] = e]
  BY <1>5, <1>6
<1>8. /\ itab' \in [Slot -> Entry] /\ itab'[s] = e
      /\ \A t \in Slot \ {s} : itab'[t] = itab[t]
  BY <1>7 DEF TypeInv
<1>9. \A t \in Slot : itab'[t].ref = itab[t].ref - Weight(t = s)
  <2>1. \A t \in Slot : itab[t].ref \in Nat
    BY DEF TypeInv, Entry
  <2> QED BY <1>5, <1>6, <1>8, <2>1 DEF Weight
<1>10. \A t \in Slot : /\ itab'[t].inum = itab[t].inum /\ itab'[t].valid = itab[t].valid
                       /\ itab'[t].holder = itab[t].holder /\ itab'[t].mem = itab[t].mem
  BY <1>6, <1>8
<1>11. ipr[p].then \in IPcs \cup {"return"} /\ ipr[p].then \in {"return", "leave", "bad"}
  BY <1>1 DEF PutPoint, IPcs
<1>12. /\ OnItsWay(p)
       /\ \/ ipr[p].then = "return" /\ Over(ipr'[p], ipr[p])
          \/ /\ ipr[p].then # "return" /\ ipr'[p].pc = ipr[p].then /\ ipr'[p].then = ipr[p].then
             /\ SameArgs(ipr'[p], ipr[p])
  BY <1>11, BackStep
<1>13. ~Owes(ipr[p])
  BY DEF Owes
<1> QED BY <1>1, <1>2, <1>3, <1>4, <1>8, <1>9, <1>10, <1>11, <1>12, <1>13 DEF OnItsWay

LEMMA DropStep ==
    ASSUME ItInv, NEW p \in IProc, NEW s \in Slot, Drops(p, s), LostInv', lost' \in SUBSET Inum
    PROVE  ItInv'
<1> USE DEF ItInv
<1>1. /\ itab' \in [Slot -> Entry] /\ Mine(p) /\ OnItsWay(p) /\ HasIp(ipr[p]) /\ ~Owes(ipr[p])
      /\ Control(ipr[p]) /\ Arguments(ipr[p]) /\ itab[s].ref > 0
      /\ PutPoint(ipr[p]) \/ (ipr[p].pc = "iput" /\ ipr[p].then = "bad" /\ ipr[p].call = "link")
      /\ \/ ipr[p].then = "return" /\ Over(ipr'[p], ipr[p])
         \/ /\ ipr[p].then \in {"leave", "bad"} /\ ipr'[p].pc = ipr[p].then /\ ipr'[p].then = ipr[p].then
            /\ SameArgs(ipr'[p], ipr[p])
      /\ \A t \in Slot : /\ itab'[t].inum = itab[t].inum /\ itab'[t].valid = itab[t].valid
                         /\ itab'[t].holder = itab[t].holder /\ itab'[t].mem = itab[t].mem
                         /\ itab'[t].ref = itab[t].ref - Weight(t = s)
  BY DropTable
<1>2. /\ ipr[p].pc \in {"iput", "idrop"} /\ s = ipr[p].ip
      /\ UNCHANGED <<dino, dent, dhold, calls, ipanic>>
  BY DEF Drops
<1>3. Control(ipr'[p]) /\ Arguments(ipr'[p])
  BY <1>1, <1>2 DEF Control, Arguments, SameArgs, Over, FreePcs, Naming, Fresh, Creating, HasSrc,
                    IpPcs, LockPcs, PutPoint
<1>4. ~Locking(ipr[p]) /\ ~Locking(ipr'[p])
  BY <1>1, <1>2 DEF Locking, LockPcs, Over
<1>5. /\ InDir(ipr'[p]) <=> InDir(ipr[p])
      /\ ~Fresh(ipr'[p]) /\ ~Naming(ipr'[p]) /\ ~Clearing(ipr'[p]) /\ ~InTheWay(ipr'[p])
  BY <1>1, <1>2 DEF InDir, Naming, Fresh, Creating, Clearing, InTheWay, FreePcs, SameArgs, Over, PutPoint
<1>6. /\ ipr'[p].fd = ipr[p].fd /\ ipr'[p].want = ipr[p].want
      /\ ipr'[p].pc \in {"idle", "leave", "bad"} /\ ~HasIp(ipr'[p]) /\ ~Owes(ipr'[p]) /\ ~HasRead(ipr'[p])
      /\ HasSrc(ipr'[p]) <=> HasSrc(ipr[p])
      /\ HasSrc(ipr[p]) => ipr'[p].src = ipr[p].src
  BY <1>1, <1>2 DEF Over, SameArgs, HasIp, IpPcs, LockPcs, Owes, HasSrc, HasRead, PutPoint
<1>7. \A t \in Slot : /\ Touches(ipr'[p], t) => Touches(ipr[p], t)
                      /\ Uses(ipr'[p], t) => Uses(ipr[p], t)
                      /\ Knows(ipr'[p], t) => Knows(ipr[p], t)
                      /\ Debt(ipr'[p], t) <=> Debt(ipr[p], t)
  BY <1>1, <1>6 DEF Touches, Uses, Knows, Debt, Proper
<1>8. \A t \in Slot : itab'[t].ref = itab[t].ref + RefsOf(ipr'[p], t) - RefsOf(ipr[p], t) /\ itab[t].ref \in Nat
  <2> SUFFICES ASSUME NEW t \in Slot
               PROVE  itab'[t].ref = itab[t].ref + RefsOf(ipr'[p], t) - RefsOf(ipr[p], t) /\ itab[t].ref \in Nat
    OBVIOUS
  <2>1. RefsOf(ipr'[p], t) = Weight(ipr[p].fd = t) + Weight(HasSrc(ipr[p]) /\ ipr[p].src = t)
    BY <1>6 DEF RefsOf, Weight
  <2>2. RefsOf(ipr[p], t) = Weight(ipr[p].fd = t) + Weight(t = s) + Weight(HasSrc(ipr[p]) /\ ipr[p].src = t)
    BY <1>1, <1>2 DEF RefsOf, Weight
  <2>3. /\ Weight(ipr[p].fd = t) \in Nat /\ Weight(HasSrc(ipr[p]) /\ ipr[p].src = t) \in Nat
        /\ Weight(t = s) \in Nat
    BY DEF Weight
  <2>4. itab[t].ref \in Nat /\ itab'[t].ref = itab[t].ref - Weight(t = s)
    BY <1>1 DEF TypeInv, Entry
  <2> HIDE DEF ItInv
  <2> QED BY <2>1, <2>2, <2>3, <2>4
<1>9. Kept /\ (\A t \in Slot : itab'[t].ref > 0 => itab[t].ref > 0)
      /\ (\A t \in Slot \ {s} : itab'[t].ref = itab[t].ref)
  <2>1. \A t \in Slot : itab[t].ref \in Nat /\ Weight(t = s) \in Nat /\ (t # s => Weight(t = s) = 0)
    BY DEF TypeInv, Entry, Weight
  <2> QED BY <1>1, <2>1 DEF Kept
<1> HIDE DEF ItInv
<1>10. TypeInv'
  BY <1>1, <1>2 DEF ItInv, TypeInv, OnItsWay
<1>11. DirInv'
  <2>1. dhold' = p <=> InDir(ipr'[p])
    BY <1>2, <1>5 DEF ItInv, DirInv
  <2> QED BY <1>1, <1>2, <2>1, DirStep DEF ItInv
<1>12. HoldInv'
  BY <1>1, <1>4, HoldStep DEF ItInv, HoldInv
<1>13. RefInv'
  BY <1>1, <1>8, RefStep DEF ItInv
<1>14. EntryInv'
  BY <1>9, EntryStep DEF ItInv
<1>15. ValidInv'
  <2>1. \A t \in Slot : Matches(t)' <=> Matches(t)
    BY <1>1, <1>2 DEF Matches
  <2>2. \A t \in Slot : Knows(ipr'[p], t) => itab'[t].valid
    BY <1>1, <1>7 DEF ItInv, ValidInv
  <2> QED BY <1>1, <1>2, <1>9, <2>1, <2>2, ValidStep
<1>16. FreeInv'
  <2>1. Touches(ipr[p], s)
    BY <1>1, <1>2 DEF Touches
  <2> QED BY <1>1, <1>6, <1>9, <2>1, FreeStep
<1>17. DoneInv'
  BY <1>1, <1>2, <1>6, <1>7, <1>9, DoneStep
<1>18. AllocInv'
  BY <1>1, <1>2, <1>6, <1>7, <1>9, AllocStep
<1>19. LinkInv'
  BY <1>1, <1>2, <1>7, <1>9, LinkKeep
<1>20. FreshInv'
  BY <1>1, <1>2, <1>5, <1>7, <1>9, FreshStep
<1>21. NameInv'
  BY <1>1, <1>2, <1>5, <1>9, NameStep
<1> QED BY <1>1, <1>3, <1>10, <1>11, <1>12, <1>13, <1>14, <1>15, <1>16, <1>17, <1>18, <1>19, <1>20, <1>21,
           ItInvAgain DEF Rest

\* Who is reached after the drop.
LEMMA DropReached ==
    ASSUME ItInv, NEW p \in IProc, NEW s \in Slot, Drops(p, s), NEW i \in Inum
    PROVE  /\ i # itab[s].inum \/ itab[s].ref > 1 => (Reached(i)' <=> Reached(i))
           /\ i = itab[s].inum => Reached(i)
           /\ i = itab[s].inum /\ itab[s].ref = 1 => (Reached(i)' <=> Named(i) \/ Taken(i))
<1>1. /\ \A t \in Slot : itab'[t].inum = itab[t].inum /\ itab'[t].ref = itab[t].ref - Weight(t = s)
      /\ itab[s].ref > 0 /\ Mine(p) /\ ipr'[p].pc # "iget" /\ ipr[p].pc # "iget" /\ dent' = dent
  <2>1. /\ \A t \in Slot : itab'[t].inum = itab[t].inum /\ itab'[t].ref = itab[t].ref - Weight(t = s)
        /\ itab[s].ref > 0 /\ Mine(p)
        /\ (ipr[p].then = "return" /\ Over(ipr'[p], ipr[p]))
           \/ (ipr[p].then \in {"leave", "bad"} /\ ipr'[p].pc = ipr[p].then)
    BY DropTable
  <2>2. ipr'[p].pc # "iget"
    BY <2>1 DEF Over
  <2> QED BY <2>1, <2>2 DEF Drops
<1>2. \A t \in Slot : itab[t].ref \in Nat
  BY DEF ItInv, TypeInv, Entry
<1>3. itab'[s].ref = itab[s].ref - 1 /\ \A t \in Slot \ {s} : itab'[t].ref = itab[t].ref
  BY <1>1, <1>2 DEF Weight
<1>4. (Named(i)' <=> Named(i)) /\ (Taken(i)' <=> Taken(i))
  BY <1>1 DEF Named, Taken, Mine
<1>5. ASSUME i # itab[s].inum PROVE Entered(i)' <=> Entered(i)
  BY <1>1, <1>3, <1>5 DEF Entered
<1>6. ASSUME i = itab[s].inum PROVE Entered(i)
  BY <1>1, <1>6 DEF Entered
<1>7. ASSUME i = itab[s].inum, itab[s].ref > 1 PROVE Entered(i)'
  BY <1>1, <1>2, <1>3, <1>7 DEF Entered
<1>8. ASSUME i = itab[s].inum, itab[s].ref = 1 PROVE ~Entered(i)'
  <2>1. ASSUME NEW t \in Slot, itab'[t].ref > 0, itab'[t].inum = i PROVE FALSE
    <3>1. t # s
      BY <1>3, <1>8, <2>1
    <3>2. itab[t].ref > 0 /\ itab[t].inum = itab[s].inum
      BY <1>1, <1>3, <1>8, <2>1, <3>1
    <3> QED BY <1>1, <3>1, <3>2 DEF ItInv, EntryInv
  <2> QED BY <2>1 DEF Entered
<1> QED BY <1>4, <1>5, <1>6, <1>7, <1>8 DEF Reached

LEMMA IputDropStep == ASSUME ItInv, NEW p \in IProc, iputDrop(p) PROVE ItInv'
<1>1. PICK s \in Slot : s = ipr[p].ip /\ ipr[p].pc = "idrop"
  BY AtHand DEF iputDrop, On, IpPcs, ItInv
<1>2. Drops(p, s)
  BY <1>1 DEF Drops, iputDrop
<1> DEFINE Forgotten == /\ itab[s].ref = 1 /\ dino[itab[s].inum].alloc /\ dino[itab[s].inum].nlink = 0
                        /\ ~Taken(itab[s].inum)
<1>3. lost' = IF Forgotten THEN lost \cup {itab[s].inum} ELSE lost
  BY <1>1 DEF iputDrop, ip, Taken, On, ItInv, TypeInv
<1>4. \A i \in Inum :
        /\ i # itab[s].inum \/ itab[s].ref > 1 => (Reached(i)' <=> Reached(i))
        /\ i = itab[s].inum => Reached(i)
        /\ i = itab[s].inum /\ itab[s].ref = 1 => (Reached(i)' <=> Named(i) \/ Taken(i))
  BY <1>2, DropReached
<1>5. /\ itab[s].ref = 1 \/ itab[s].ref > 1
      /\ HasIp(ipr[p]) /\ ~Owes(ipr[p])
      /\ dino' = dino
  <2>1. itab[s].ref \in Nat /\ itab[s].ref > 0 /\ HasIp(ipr[p]) /\ ~Owes(ipr[p])
    BY <1>2, DropTable
  <2> QED BY <1>2, <2>1 DEF Drops
<1>6. itab[s].ref = 1 /\ dino[itab[s].inum].alloc =>
        (dino[itab[s].inum].nlink = 0 <=> ~Named(itab[s].inum))
  BY <1>1, <1>5, LastLinks
<1>7. lost' \in SUBSET Inum
  <2>1. itab[s].ref > 0
    BY <1>2, DropTable
  <2> QED BY <1>3, <2>1 DEF ItInv, TypeInv, EntryInv
<1>8. LostInv'
  <2> SUFFICES ASSUME NEW i \in Inum PROVE i \in lost' <=> dino[i].alloc /\ ~Reached(i)'
    BY <1>5 DEF LostInv
  <2>1. i \in lost <=> dino[i].alloc /\ ~Reached(i)
    BY DEF ItInv, LostInv
  <2>2. CASE i # itab[s].inum
    BY <1>3, <1>4, <2>1, <2>2
  <2>3. CASE i = itab[s].inum
    <3>1. i \notin lost
      BY <1>4, <2>1, <2>3
    <3>2. i \in lost' <=> Forgotten
      BY <1>3, <2>3, <3>1
    <3>3. Reached(i) /\ (itab[s].ref > 1 => Reached(i)')
          /\ (itab[s].ref = 1 => (Reached(i)' <=> Named(i) \/ Taken(i)))
      BY <1>4, <2>3
    <3>4. i \in lost' <=> itab[s].ref = 1 /\ dino[i].alloc /\ dino[i].nlink = 0 /\ ~Taken(i)
      BY <2>3, <3>2
    <3>5. itab[s].ref = 1 /\ dino[i].alloc => (dino[i].nlink = 0 <=> ~Named(i))
      BY <1>6, <2>3
    <3>6. itab[s].ref = 1 => ~(itab[s].ref > 1)
      BY <1>5
    <3> HIDE DEF Forgotten
    <3> QED BY <1>5, <3>3, <3>4, <3>5, <3>6
  <2> QED BY <2>2, <2>3
<1> QED BY <1>2, <1>7, <1>8, DropStep

\* iput() that leaves the inode: others refer to it, or it has a name.
LEMMA IputLeaveStep ==
    ASSUME ItInv, NEW p \in IProc, iput(p), ~(ip(p).ref = 1 /\ ip(p).valid /\ ip(p).mem.nlink = 0)
    PROVE  ItInv'
<1>1. PICK s \in Slot : s = ipr[p].ip /\ ipr[p].pc = "iput"
  BY AtHand DEF iput, On, IpPcs, ItInv
<1>2. Drops(p, s) /\ lost' = lost
  BY <1>1 DEF Drops, iput
<1>3. \A i \in Inum :
        /\ i # itab[s].inum \/ itab[s].ref > 1 => (Reached(i)' <=> Reached(i))
        /\ i = itab[s].inum => Reached(i)
        /\ i = itab[s].inum /\ itab[s].ref = 1 => (Reached(i)' <=> Named(i) \/ Taken(i))
  BY <1>2, DropReached
<1>4. /\ itab[s].ref = 1 \/ itab[s].ref > 1
      /\ HasIp(ipr[p]) /\ ~Owes(ipr[p]) /\ dino' = dino /\ Control(ipr[p]) /\ Arguments(ipr[p])
  <2>1. /\ itab[s].ref \in Nat /\ itab[s].ref > 0 /\ HasIp(ipr[p]) /\ ~Owes(ipr[p])
        /\ Control(ipr[p]) /\ Arguments(ipr[p])
    BY <1>2, DropTable
  <2> QED BY <1>2, <2>1 DEF Drops
<1>5. ASSUME itab[s].ref = 1 PROVE Named(itab[s].inum)
  <2>1. CASE ipr[p].then = "bad"
    <3>1. InTheWay(ipr[p]) /\ ipr[p].call = "link"
      BY <1>1, <1>4, <2>1 DEF InTheWay, Control, PutPoint
    <3>2. ipr[p].to \in INames
      <4>1. ipr[p].to \in INames \cup {0}
        BY DEF ItInv, TypeInv, Process
      <4> QED BY <1>4, <3>1, <4>1 DEF Arguments
    <3> QED BY <1>1, <3>1, <3>2 DEF ItInv, NameInv, Named
  <2>2. CASE ipr[p].then # "bad"
    <3>1. Uses(ipr[p], s) /\ Knows(ipr[p], s)
      BY <1>1, <1>4, <2>2 DEF Uses, Knows, Proper, HasRead
    <3>2. itab[s].valid /\ dino[itab[s].inum].alloc
      BY <3>1 DEF ItInv, ValidInv, AllocInv
    <3>3. ASSUME NEW q \in IProc, ipr[q].pc = "idone", ipr[q].ip = s PROVE FALSE
      <4>1. Touches(ipr[q], s)
        BY <3>3, DoneAlone
      <4>2. q = p
        BY <1>1, <1>4, <1>5, <4>1, LastReference DEF ItInv
      <4> QED BY <1>1, <3>3, <4>2
    <3>4. Matches(s)
      BY <1>5, <3>2, <3>3 DEF ItInv, ValidInv
    <3>5. dino[itab[s].inum].nlink # 0
      BY <1>1, <1>5, <3>2, <3>4 DEF Matches, ip
    <3> QED BY <1>1, <1>4, <1>5, <3>2, <3>5, LastLinks
  <2> QED BY <2>1, <2>2
<1>6. LostInv'
  <2> SUFFICES ASSUME NEW i \in Inum PROVE i \in lost <=> dino[i].alloc /\ ~Reached(i)'
    BY <1>2, <1>4 DEF LostInv
  <2>1. i \in lost <=> dino[i].alloc /\ ~Reached(i)
    BY DEF ItInv, LostInv
  <2>2. i = itab[s].inum /\ itab[s].ref = 1 => Named(i)
    BY <1>5
  <2> QED BY <1>3, <1>4, <2>1, <2>2
<1>7. lost' \in SUBSET Inum
  BY <1>2 DEF ItInv, TypeInv
<1> QED BY <1>2, <1>6, <1>7, DropStep

-----------------------------------------------------------------------------
(* The steps that free and take an inode of the disk *)

LEMMA IputFreeStep == ASSUME ItInv, NEW p \in IProc, iputFree(p) PROVE ItInv'
<1> USE DEF ItInv
<1>1. PICK s \in Slot : s = ipr[p].ip /\ ipr[p].pc = "ifree"
  <2>1. ipr[p].pc = "ifree"
    BY DEF iputFree, On
  <2> QED BY <2>1, AtHand DEF IpPcs, LockPcs
<1>2. /\ itab[s].ref = 1 /\ itab[s].holder = p /\ ipr[p].fd # s
      /\ \A q \in IProc \ {p} : ~Touches(ipr[q], s)
      /\ dino[itab[s].inum].alloc
      /\ \A n \in INames : dent[n] # itab[s].inum
      /\ \A q \in IProc : Fresh(ipr[q]) => itab[s].inum # ipr[q].inum
  BY <1>1, FreeAlone
<1>3. PICK i \in Inum : i = itab[s].inum
  BY <1>1, FreeAlone
<1>4. PICK e \in Entry, c \in Content :
        /\ c.alloc = FALSE /\ c.nlink = 0
        /\ e.inum = i /\ e.ref = 1 /\ e.holder = p /\ e.valid = itab[s].valid /\ e.mem = c
        /\ itab' = [itab EXCEPT ![s] = e] /\ dino' = [dino EXCEPT ![i] = c]
  <2> DEFINE d == [itab[s].mem EXCEPT !.alloc = FALSE]
             t == [itab[s] EXCEPT !.mem = d]
  <2>1. itab[s] \in Entry /\ itab[s].mem \in Content /\ itab[s].mem.nlink = 0
    BY <1>1 DEF TypeInv, Entry, FreeInv
  <2>2. d \in Content /\ d.alloc = FALSE /\ d.nlink = 0
    BY <2>1 DEF Content
  <2>3. /\ t \in Entry /\ t.inum = i /\ t.ref = 1 /\ t.holder = p /\ t.valid = itab[s].valid /\ t.mem = d
    BY <1>2, <1>3, <2>1, <2>2 DEF Entry
  <2>4. itab' = [itab EXCEPT ![s] = t] /\ dino' = [dino EXCEPT ![i] = d]
    BY <1>1, <1>3 DEF iputFree, ip
  <2> HIDE DEF t, d
  <2> QED BY <2>2, <2>3, <2>4
<1>5. UNCHANGED <<dent, dhold, calls, lost, ipanic>> /\ ipr' = To(p, "idone")
  BY DEF iputFree
<1>6. /\ itab' \in [Slot -> Entry] /\ itab'[s] = e /\ (\A t \in Slot \ {s} : itab'[t] = itab[t])
      /\ dino' \in [Inum -> Content] /\ dino'[i] = c /\ (\A j \in Inum \ {i} : dino'[j] = dino[j])
  BY <1>4 DEF TypeInv
<1>7. OnItsWay(p) /\ Mine(p) /\ ipr'[p].pc = "idone" /\ ipr'[p].then = ipr[p].then /\ SameArgs(ipr'[p], ipr[p])
  BY <1>5, ToStep DEF IPcs, IpPcs, LockPcs, OnItsWay
<1>8. Control(ipr[p]) /\ Arguments(ipr[p]) /\ PutPoint(ipr[p])
  BY <1>1 DEF ControlInv, Control, FreePcs
<1>9. Control(ipr'[p]) /\ Arguments(ipr'[p])
  BY <1>1, <1>7, <1>8 DEF Control, Arguments, SameArgs, FreePcs, Naming, Fresh, Creating, HasSrc,
                          IpPcs, LockPcs, PutPoint
<1>10. /\ Locking(ipr'[p]) /\ Locking(ipr[p])
       /\ InDir(ipr'[p]) <=> InDir(ipr[p])
       /\ ~Fresh(ipr'[p]) /\ ~Naming(ipr'[p]) /\ ~Clearing(ipr'[p]) /\ ~InTheWay(ipr'[p])
  BY <1>1, <1>7, <1>8 DEF Locking, LockPcs, InDir, Naming, Fresh, Creating, Clearing, InTheWay,
                          FreePcs, SameArgs
<1>11. \A t \in Slot : /\ RefsOf(ipr'[p], t) = RefsOf(ipr[p], t)
                       /\ Touches(ipr'[p], t) <=> Touches(ipr[p], t)
                       /\ Uses(ipr'[p], t) <=> t = ipr[p].fd
                       /\ Uses(ipr'[p], t) => Uses(ipr[p], t)
                       /\ Debt(ipr'[p], t) <=> Debt(ipr[p], t)
                       /\ Knows(ipr'[p], t) => Knows(ipr[p], t)
  BY <1>1, <1>7, <1>8
     DEF SameArgs, RefsOf, Touches, Uses, Knows, HasRead, Debt, HasIp, HasSrc, Proper, Owes, IpPcs, LockPcs,
         PutPoint
<1>12. Kept /\ \A t \in Slot : /\ itab'[t].inum = itab[t].inum /\ itab'[t].ref = itab[t].ref
                               /\ itab'[t].holder = itab[t].holder /\ itab'[t].valid = itab[t].valid
                               /\ itab[t].ref \in Nat /\ RefsOf(ipr[p], t) \in Nat
  <2>1. \A t \in Slot : itab[t].ref \in Nat /\ RefsOf(ipr[p], t) \in Nat
    BY DEF TypeInv, Entry, RefsOf, Weight
  <2>2. \A t \in Slot : /\ itab'[t].inum = itab[t].inum /\ itab'[t].ref = itab[t].ref
                        /\ itab'[t].holder = itab[t].holder /\ itab'[t].valid = itab[t].valid
    BY <1>2, <1>3, <1>4, <1>6
  <2> QED BY <2>1, <2>2 DEF Kept
\* Nobody else is at the inode.
<1>13. ASSUME NEW t \in Slot, itab[t].ref > 0, itab[t].inum = i PROVE t = s
  BY <1>2, <1>3, <1>13 DEF EntryInv
<1>14. ASSUME NEW q \in IProc, NEW t \in Slot, Uses(ipr'[q], t)
       PROVE  Uses(ipr[q], t) /\ itab[t].ref > 0 /\ itab[t].inum # i /\ itab[t].inum \in Inum
  <2>1. Uses(ipr[q], t)
    BY <1>7, <1>11, <1>14 DEF Mine
  <2>2. Touches(ipr[q], t)
    BY <2>1, Profile DEF ControlInv
  <2>3. itab[t].ref > 0
    BY <2>2, Referred
  <2>4. t # s
    <3>1. CASE q = p
      BY <1>2, <1>11, <1>14, <3>1
    <3>2. CASE q # p
      BY <1>2, <2>2, <3>2
    <3> QED BY <3>1, <3>2
  <2> QED BY <1>13, <2>1, <2>3, <2>4 DEF EntryInv
<1>15. TypeInv'
  BY <1>5, <1>6, <1>7 DEF TypeInv, OnItsWay
<1>16. DirInv'
  <2>1. dhold' = p <=> InDir(ipr'[p])
    BY <1>5, <1>10 DEF DirInv
  <2> QED BY <1>5, <1>7, <2>1, DirStep
<1>17. HoldInv'
  <2>1. \A t \in Slot : itab'[t].holder = p <=> Locking(ipr'[p]) /\ ipr'[p].ip = t
    BY <1>7, <1>10, <1>12 DEF HoldInv, SameArgs
  <2> QED BY <1>7, <1>12, <2>1, HoldStep
<1>18. RefInv'
  <2>1. \A t \in Slot : itab'[t].ref = itab[t].ref + RefsOf(ipr'[p], t) - RefsOf(ipr[p], t)
    BY <1>11, <1>12
  <2> QED BY <1>7, <1>12, <2>1, RefStep
<1>19. EntryInv'
  BY <1>12, EntryStep
<1>20. ValidInv'
  <2>1. \A t \in Slot \ {s} : itab[t].ref > 0 => (Matches(t)' <=> Matches(t))
    <3> SUFFICES ASSUME NEW t \in Slot \ {s}, itab[t].ref > 0 PROVE Matches(t)' <=> Matches(t)
      OBVIOUS
    <3>1. itab[t].inum \in Inum \ {i}
      BY <1>13 DEF EntryInv
    <3> QED BY <1>6, <3>1 DEF Matches
  <2>2. \A t \in Slot : Knows(ipr'[p], t) => itab'[t].valid
    BY <1>11, <1>12 DEF ValidInv
  <2>3. ipr'[p].pc = "idone" /\ ipr'[p].ip = s /\ ipr[p].pc # "idone"
    BY <1>1, <1>7 DEF SameArgs
  <2> HIDE DEF ItInv
  <2> QED BY <1>7, <1>12, <2>1, <2>2, <2>3, ValidStep
<1>21. FreeInv'
  <2>1. \A t \in Slot : itab'[t].mem = itab[t].mem \/ Touches(ipr[p], t)
    <3>1. Touches(ipr[p], s)
      BY <1>1, <1>8 DEF Touches, HasIp, IpPcs, LockPcs, PutPoint
    <3> QED BY <1>6, <3>1
  <2> HIDE DEF ItInv
  <2> QED BY <1>7, <1>12, <2>1, FreeStep
<1>22. DoneInv'
  <2>1. ASSUME NEW q \in IProc \ {p}, ipr[q].pc = "idone"
        PROVE  /\ ipr[q].fd # ipr[q].ip
               /\ \A n \in INames : dent'[n] # itab'[ipr[q].ip].inum
               /\ \A x \in IProc \ {q} :
                    Touches(ipr'[x], ipr[q].ip) => ipr'[x].pc = "ilock" /\ ipr'[x].then = "init"
    <3>1. ipr[q].ip \in Slot /\ Touches(ipr[q], ipr[q].ip)
      BY <2>1, DoneAlone
    <3>2. ~Touches(ipr[p], ipr[q].ip)
      BY <1>1, <2>1 DEF DoneInv
    <3>3. ~Touches(ipr'[p], ipr[q].ip)
      BY <1>11, <3>1, <3>2
    <3> QED BY <1>5, <1>7, <1>12, <2>1, <3>1, <3>3 DEF DoneInv, Mine
  <2>2. /\ ipr'[p].fd # ipr'[p].ip
        /\ \A n \in INames : dent'[n] # itab'[ipr'[p].ip].inum
        /\ \A x \in IProc \ {p} : ~Touches(ipr'[x], ipr'[p].ip)
    BY <1>1, <1>2, <1>5, <1>7, <1>12 DEF SameArgs, Mine
  <2> QED BY <1>7, <2>1, <2>2 DEF DoneInv, Mine
<1>23. AllocInv'
  <2>1. ASSUME NEW q \in IProc, NEW t \in Slot, Uses(ipr'[q], t)
        PROVE  /\ dino'[itab'[t].inum].alloc /\ itab'[t].inum = itab[t].inum
               /\ dino'[itab'[t].inum] = dino[itab[t].inum]
    BY <1>6, <1>12, <1>14, <2>1 DEF AllocInv
  <2>2. \A q \in IProc : ipr'[q].fd = ipr[q].fd /\ ipr'[q].want = ipr[q].want
                         /\ (ipr'[q].pc = "iget" => ipr[q].pc = "iget" /\ ipr'[q].inum = ipr[q].inum)
    BY <1>7 DEF Mine, SameArgs
  <2>3. ASSUME NEW q \in IProc, ipr'[q].fd # 0 PROVE dino'[itab'[ipr'[q].fd].inum].gen = ipr'[q].want
    <3>1. ipr[q].fd \in Slot /\ Uses(ipr'[q], ipr[q].fd)
      BY <2>2, <2>3, AtHand DEF Uses
    <3>2. dino'[itab'[ipr[q].fd].inum] = dino[itab[ipr[q].fd].inum]
      BY <2>1, <3>1
    <3> QED BY <2>2, <2>3, <3>2 DEF AllocInv
  <2>4. ASSUME NEW q \in IProc, ipr'[q].pc = "iget" PROVE dino'[ipr'[q].inum].alloc
    <3>1. ipr[q].pc = "iget" /\ ipr'[q].inum = ipr[q].inum /\ Fresh(ipr[q])
      BY <2>2, <2>4 DEF Fresh
    <3>2. ipr[q].inum # i /\ ipr[q].inum # 0 /\ ipr[q].inum \in 0..INodes
      BY <1>2, <1>3, <3>1 DEF ControlInv, Arguments, Naming, TypeInv, Process
    <3>3. dino'[ipr[q].inum] = dino[ipr[q].inum]
      BY <1>6, <3>2, Bounds
    <3> QED BY <3>1, <3>3 DEF AllocInv
  <2>5. ASSUME NEW n \in INames, dent'[n] # 0 PROVE dino'[dent'[n]].alloc
    <3>1. dent[n] # i /\ dent[n] \in Inum /\ dent'[n] = dent[n]
      BY <1>2, <1>3, <1>5, <2>5, Bounds DEF TypeInv
    <3> QED BY <1>6, <2>5, <3>1 DEF AllocInv
  <2> QED BY <2>1, <2>3, <2>4, <2>5 DEF AllocInv
<1>24. LinkInv'
  <2>1. \A j \in Inum : dino'[j].alloc => dino[j].alloc /\ dino'[j].nlink = dino[j].nlink
    BY <1>4, <1>6
  <2> HIDE DEF ItInv
  <2> QED BY <1>5, <1>7, <1>11, <1>12, <2>1, LinkKeep
<1>25. FreshInv'
  <2> HIDE DEF ItInv
  <2> QED BY <1>5, <1>7, <1>10, <1>11, <1>12, FreshStep
<1>26. NameInv'
  <2> HIDE DEF ItInv
  <2> QED BY <1>5, <1>7, <1>10, <1>12, NameStep
<1>27. LostInv'
  <2> SUFFICES ASSUME NEW j \in Inum PROVE j \in lost <=> dino'[j].alloc /\ ~Reached(j)'
    BY <1>5 DEF LostInv
  <2>1. Reached(j)' <=> Reached(j)
    <3>1. Named(j)' <=> Named(j)
      BY <1>5 DEF Named
    <3>2. Entered(j)' <=> Entered(j)
      BY <1>12 DEF Entered
    <3>3. Taken(j)' <=> Taken(j)
      BY <1>1, <1>7 DEF Taken, Mine
    <3> QED BY <3>1, <3>2, <3>3 DEF Reached
  <2>2. Reached(i)
    BY <1>2, <1>3 DEF Reached, Entered
  <2> QED BY <1>4, <1>6, <2>1, <2>2 DEF LostInv
<1> HIDE DEF ItInv
<1> QED BY <1>7, <1>9, <1>15, <1>16, <1>17, <1>18, <1>19, <1>20, <1>21, <1>22, <1>23, <1>24, <1>25, <1>26, <1>27,
           ItInvAgain DEF Rest

LEMMA FreeInode ==
    ASSUME ItInv, NEW i \in Inum, ~dino[i].alloc
    PROVE  /\ \A q \in IProc, t \in Slot : Uses(ipr[q], t) => itab[t].inum # i
           /\ ~Named(i) /\ Names(i) = 0 /\ Cardinality(Owing(i)) = 0 /\ i \notin lost
           /\ ~Taken(i)
           /\ \A t \in Slot : itab[t].inum = i => ~Matches(t)
<1> USE DEF ItInv
<1>1. \A q \in IProc, t \in Slot : Uses(ipr[q], t) => itab[t].inum # i
  BY DEF AllocInv
<1>2. ~Named(i) /\ Names(i) = 0
  BY NamesNone, Bounds DEF AllocInv, Named
<1>3. Owing(i) = {}
  <2>1. ASSUME NEW q \in IProc, NEW t \in Slot, Debt(ipr[q], t) PROVE itab[t].inum # i
    BY <1>1, <2>1, Profile DEF ControlInv
  <2> QED BY <2>1 DEF Owing, OwesTo
<1>4. i \notin lost /\ ~Taken(i)
  BY DEF LostInv, Taken, AllocInv
<1>5. \A t \in Slot : itab[t].inum = i => ~Matches(t)
  BY DEF Matches
<1> QED BY <1>1, <1>2, <1>3, <1>4, <1>5, FS_EmptySet

LEMMA TakeStep ==
    ASSUME ItInv, NEW p \in IProc, ipr[p].pc = "ialloc", NEW i \in Inum, i = ipr[p].inum, ~dino[i].alloc,
           dino' = [dino EXCEPT ![i] = [alloc |-> TRUE, nlink |-> 0, gen |-> dino[i].gen + 1]],
           ipr' = To(p, "iget"), UNCHANGED <<itab, dent, dhold, calls, lost, ipanic>>
    PROVE  ItInv'
<1> USE DEF ItInv
<1>1. PICK c \in Content : c.alloc /\ c.nlink = 0 /\ dino' = [dino EXCEPT ![i] = c]
  <2> DEFINE d == [alloc |-> TRUE, nlink |-> 0, gen |-> dino[i].gen + 1]
  <2>1. d \in Content
    BY DEF TypeInv, Content
  <2> QED BY <2>1
<1>2. dino' \in [Inum -> Content] /\ dino'[i] = c /\ \A j \in Inum \ {i} : dino'[j] = dino[j]
  BY <1>1 DEF TypeInv
<1>3. OnItsWay(p) /\ Mine(p) /\ ipr'[p].pc = "iget" /\ ipr'[p].then = ipr[p].then /\ SameArgs(ipr'[p], ipr[p])
  BY ToStep DEF IPcs, OnItsWay
<1>4. Control(ipr[p]) /\ Arguments(ipr[p]) /\ ipr[p].call = "create"
  BY DEF ControlInv, Control
<1>5. Control(ipr'[p]) /\ Arguments(ipr'[p])
  BY <1>3, <1>4 DEF Control, Arguments, SameArgs, FreePcs, Naming, Fresh, Creating, HasSrc, IpPcs, LockPcs
<1>6. /\ ~Locking(ipr'[p]) /\ ~Locking(ipr[p]) /\ InDir(ipr'[p]) /\ InDir(ipr[p]) /\ Naming(ipr[p])
      /\ ~Creating(ipr'[p]) /\ ~Clearing(ipr'[p]) /\ ~InTheWay(ipr'[p])
  BY <1>3 DEF Locking, LockPcs, InDir, Naming, Fresh, Creating, Clearing, InTheWay
<1>7. \A t \in Slot : /\ RefsOf(ipr'[p], t) = RefsOf(ipr[p], t)
                      /\ Touches(ipr'[p], t) => Touches(ipr[p], t)
                      /\ Uses(ipr'[p], t) => Uses(ipr[p], t)
                      /\ Debt(ipr'[p], t) <=> Debt(ipr[p], t)
                      /\ Knows(ipr'[p], t) => Knows(ipr[p], t)
  BY <1>3, <1>4
     DEF SameArgs, RefsOf, Touches, Uses, Knows, HasRead, Debt, HasIp, HasSrc, Proper, Owes, IpPcs, LockPcs
<1>8. /\ \A q \in IProc, t \in Slot : Uses(ipr[q], t) => itab[t].inum # i
      /\ ~Named(i) /\ Names(i) = 0 /\ Cardinality(Owing(i)) = 0 /\ i \notin lost
      /\ ~Taken(i)
      /\ \A t \in Slot : itab[t].inum = i => ~Matches(t)
  BY FreeInode
<1>9. Kept /\ \A t \in Slot : itab[t].ref \in Nat /\ RefsOf(ipr[p], t) \in Nat
  BY DEF TypeInv, Entry, RefsOf, Weight, Kept
<1>10. TypeInv'
  BY <1>2, <1>3 DEF TypeInv, OnItsWay
<1>11. DirInv'
  <2>1. dhold' = p <=> InDir(ipr'[p])
    BY <1>6 DEF DirInv
  <2> QED BY <1>3, <2>1, DirStep
<1>12. HoldInv'
  BY <1>3, <1>6, HoldStep DEF HoldInv
<1>13. RefInv'
  BY <1>3, <1>7, <1>9, RefStep
<1>14. EntryInv'
  BY DEF EntryInv
<1>15. ValidInv'
  <2>1. ASSUME NEW t \in Slot, itab[t].ref > 0 PROVE Matches(t)' \/ ~Matches(t)
    <3>1. CASE itab[t].inum = i
      BY <1>8, <3>1
    <3>2. CASE itab[t].inum # i
      BY <1>2, <2>1, <3>2 DEF Matches, EntryInv
    <3> QED BY <3>1, <3>2
  <2>2. \A t \in Slot : Knows(ipr'[p], t) => itab'[t].valid
    BY <1>7 DEF ValidInv
  <2> HIDE DEF ItInv
  <2> QED BY <1>3, <2>1, <2>2, ValidStep
<1>16. FreeInv'
  <2> HIDE DEF ItInv
  <2> QED BY <1>3, FreeStep
<1>17. DoneInv'
  <2> HIDE DEF ItInv
  <2> QED BY <1>3, <1>7, <1>9, DoneStep
<1>18. AllocInv'
  <2>1. \A j \in Inum : dino[j].alloc => dino'[j].alloc /\ dino'[j].gen = dino[j].gen
    BY <1>2
  <2>2. dino'[ipr'[p].inum].alloc /\ ipr'[p].fd = ipr[p].fd /\ ipr'[p].want = ipr[p].want
    BY <1>1, <1>2, <1>3 DEF SameArgs
  <2> HIDE DEF ItInv
  <2> QED BY <1>3, <1>7, <1>9, <2>1, <2>2, AllocStep
<1>19. LinkInv'
  <2> SUFFICES ASSUME NEW j \in Inum, dino'[j].alloc
               PROVE  dino'[j].nlink = Names(j)' + Cardinality(Owing(j)')
    BY DEF LinkInv
  <2>1. Names(j)' = Names(j)
    BY DEF Names
  <2>2. OwesTo(ipr[p], j)' <=> OwesTo(ipr[p], j)
    BY <1>7 DEF OwesTo
  <2>3. Weight(OwesTo(ipr[p], j)') = Weight(OwesTo(ipr[p], j)) /\ Weight(OwesTo(ipr[p], j)) \in Nat
    BY <2>2 DEF Weight
  <2>4. /\ Cardinality(Owing(j)) \in Nat
        /\ Cardinality(Owing(j)') =
             Cardinality(Owing(j)) + Weight(OwesTo(ipr[p], j)') - Weight(OwesTo(ipr[p], j))
    BY <1>3, <1>9, OweStep
  <2>5. Cardinality(Owing(j)') = Cardinality(Owing(j))
    BY <2>3, <2>4
  <2>6. CASE j = i
    BY <1>1, <1>2, <1>8, <2>1, <2>5, <2>6
  <2>7. CASE j # i
    BY <1>2, <2>1, <2>5, <2>7 DEF LinkInv
  <2> QED BY <2>6, <2>7
<1>20. FreshInv'
  <2>1. /\ ipr'[p].inum = i
        /\ \A n \in INames : dent'[n] # i
    BY <1>3, <1>8 DEF SameArgs, Named
  <2> HIDE DEF ItInv
  <2> QED BY <1>3, <1>6, <1>7, <1>8, <1>9, <2>1, FreshStep
<1>21. NameInv'
  <2>1. dent'[ipr'[p].name] = 0
    BY <1>3, <1>6 DEF NameInv, SameArgs
  <2> HIDE DEF ItInv
  <2> QED BY <1>3, <1>6, <1>9, <2>1, NameStep
<1>22. LostInv'
  <2> SUFFICES ASSUME NEW j \in Inum PROVE j \in lost <=> dino'[j].alloc /\ ~Reached(j)'
    BY DEF LostInv
  <2>1. (Named(j)' <=> Named(j)) /\ (Entered(j)' <=> Entered(j))
    BY DEF Named, Entered
  <2>2. CASE j = i
    <3>1. Taken(i)'
      BY <1>3 DEF Taken, SameArgs
    <3> QED BY <1>8, <2>2, <3>1 DEF Reached
  <2>3. CASE j # i
    <3>1. Taken(j)' <=> Taken(j)
      BY <1>3, <2>3 DEF Taken, Mine, SameArgs
    <3> QED BY <1>2, <2>1, <2>3, <3>1 DEF Reached, LostInv
  <2> QED BY <2>2, <2>3
<1> HIDE DEF ItInv
<1> QED BY <1>3, <1>5, <1>10, <1>11, <1>12, <1>13, <1>14, <1>15, <1>16, <1>17, <1>18, <1>19, <1>20, <1>21, <1>22,
           ItInvAgain DEF Rest

LEMMA IallocStep == ASSUME ItInv, NEW p \in IProc, ialloc(p) PROVE ItInv'
<1> USE DEF ItInv
<1>1. ipr[p].pc = "ialloc" /\ UNCHANGED <<itab, dent, calls, lost, ipanic>>
  BY DEF ialloc, On
<1>2. Control(ipr[p]) /\ Arguments(ipr[p]) /\ Naming(ipr[p]) /\ calls \in 0..MaxCalls
  BY <1>1 DEF ControlInv, Naming, TypeInv
<1>3. ipr[p].inum \in Inum
  BY <1>2, Bounds DEF TypeInv, Process, Arguments
<1>4. CASE ~dino[ipr[p].inum].alloc
  <2>1. /\ dino' = [dino EXCEPT ![ipr[p].inum] = [alloc |-> TRUE, nlink |-> 0, gen |-> dino[ipr[p].inum].gen + 1]]
        /\ ipr' = To(p, "iget") /\ dhold' = dhold
    BY <1>4 DEF ialloc
  <2> HIDE DEF ItInv
  <2> QED BY <1>1, <1>3, <1>4, <2>1, TakeStep
<1>5. CASE dino[ipr[p].inum].alloc /\ ipr[p].inum < INodes
  <2>1. ipr' = [ipr EXCEPT ![p].inum = ipr[p].inum + 1] /\ UNCHANGED <<dino, dhold>>
    BY <1>5 DEF ialloc
  <2>2. PICK j \in 0..INodes : j = ipr[p].inum + 1 /\ j # 0
    BY <1>3, <1>5, ItableAssumption DEF Inum, ItableAssumption
  <2>3. PICK r \in Process :
          /\ ipr' = [ipr EXCEPT ![p] = r] /\ r.pc = "ialloc" /\ r.then = ipr[p].then /\ r.call = ipr[p].call
          /\ r.inum = j /\ r.ip = ipr[p].ip /\ r.src = ipr[p].src
          /\ r.name = ipr[p].name /\ r.to = ipr[p].to /\ r.fd = ipr[p].fd /\ r.want = ipr[p].want
    <3> DEFINE t == [ipr[p] EXCEPT !.inum = j]
    <3>1. ipr[p] \in Process
      BY DEF TypeInv
    <3>2. t \in Process
      BY <3>1 DEF Process
    <3>3. ipr' = [ipr EXCEPT ![p] = t]
      BY <2>1, <2>2
    <3> QED BY <1>1, <3>1, <3>2, <3>3 DEF Process
  <2>4. OnItsWay(p) /\ ipr'[p] = r
    BY <2>3 DEF TypeInv, OnItsWay, Mine
  <2>5. Control(r) /\ Arguments(r)
    BY <1>1, <1>2, <2>2, <2>3 DEF Control, Arguments, FreePcs, HasSrc, IpPcs, LockPcs
  <2>6. /\ ~Locking(ipr[p]) /\ ~Locking(r) /\ InDir(r) /\ InDir(ipr[p])
        /\ ~Fresh(r) /\ ~Clearing(r) /\ ~InTheWay(r)
    BY <1>1, <2>3 DEF Locking, LockPcs, InDir, Naming, Fresh, Creating, Clearing, InTheWay
  <2>7. Claims(p)
    BY <1>1, <1>2, <2>3, <2>4 DEF Claims, RefsOf, Touches, Uses, Knows, Debt, HasIp, HasSrc, HasRead,
                                  Proper, Owes, IpPcs, LockPcs
  <2>8. dhold' = p /\ dent[r.name] = 0
    BY <1>2, <2>1, <2>3, <2>6 DEF DirInv, NameInv
  <2> HIDE DEF ItInv
  <2> QED BY <1>1, <1>2, <2>1, <2>3, <2>4, <2>5, <2>6, <2>7, <2>8, PlainStep
<1>6. CASE dino[ipr[p].inum].alloc /\ ~(ipr[p].inum < INodes)
  <2>1. ipr' = Return(p) /\ dhold' = 0 /\ dino' = dino
    BY <1>6 DEF ialloc
  <2> HIDE DEF ItInv
  <2> QED BY <1>1, <2>1, GiveUpStep
<1> QED BY <1>4, <1>5, <1>6

-----------------------------------------------------------------------------
(* iget() *)

\* The first of a set of entries is one of them.
LEMMA FirstIn ==
    ASSUME NEW S \in SUBSET Slot, S # {}
    PROVE  First(S) \in S
<1>1. S \subseteq Nat
  BY ItableAssumption DEF Slot, ItableAssumption
<1>2. PICK x \in S : \A y \in S : ~(<<y, x>> \in OpToRel(<, Nat))
  BY <1>1, NatLessThanWellFounded, WFMin
<1>3. \A y \in S : x <= y
  <2> SUFFICES ASSUME NEW y \in S PROVE x <= y
    OBVIOUS
  <2>1. x \in Nat /\ y \in Nat
    BY <1>1
  <2>2. ~(y < x)
    BY <1>2, <2>1 DEF OpToRel
  <2> QED BY <2>1, <2>2
<1> QED BY <1>3 DEF First

\* iget() finds inode i in entry s, or puts it there.
Gets(p, i, s) ==
    /\ itab' \in [Slot -> Entry]
    /\ \A t \in Slot \ {s} : itab'[t] = itab[t]
    /\ itab'[s].inum = i /\ itab'[s].ref = itab[s].ref + 1
    /\ itab'[s].holder = itab[s].holder /\ itab'[s].mem = itab[s].mem
    /\ \/ itab[s].ref > 0 /\ itab[s].inum = i /\ itab'[s].valid = itab[s].valid
       \/ itab[s].ref = 0 /\ InTable(i) = {} /\ ~itab'[s].valid

LEMMA IgetStep ==
    ASSUME ItInv, NEW p \in IProc, NEW i \in Inum, NEW l \in IPcs, NEW then \in Thens,
           iget(p, i, l, then), ~ipanic'
    PROVE  /\ ipanic' = ipanic /\ OnItsWay(p)
           /\ \E s \in Slot :
                /\ Gets(p, i, s)
                /\ ipr'[p].ip = s /\ ipr'[p].pc = l /\ ipr'[p].then = then
           /\ ipr'[p].call = ipr[p].call /\ ipr'[p].src = ipr[p].src
           /\ ipr'[p].name = ipr[p].name /\ ipr'[p].to = ipr[p].to /\ ipr'[p].inum = ipr[p].inum
           /\ ipr'[p].fd = ipr[p].fd /\ ipr'[p].want = ipr[p].want
<1> USE DEF ItInv
<1>1. InTable(i) \cup Unref # {}
  BY DEF iget
<1> DEFINE S == IF InTable(i) # {} THEN InTable(i) ELSE Unref
<1>2. S \in SUBSET Slot /\ S # {}
  BY <1>1 DEF InTable, Unref
<1>3. PICK s \in S : s = First(S)
  BY <1>2, FirstIn
<1>4. s \in Slot
  BY <1>2, <1>3
<1>5. /\ itab' = [itab EXCEPT ![s] = [itab[s] EXCEPT !.inum = i, !.ref = @ + 1,
                                                     !.valid = InTable(i) # {} /\ @]]
      /\ ipr' = [ipr EXCEPT ![p] = [ipr[p] EXCEPT !.ip = s, !.pc = l, !.then = then]]
      /\ ipanic' = ipanic
  BY <1>1, <1>3 DEF iget
<1>6. itab[s] \in Entry /\ i \in 0..INodes
  BY <1>4 DEF TypeInv, Inum
<1>7. \/ itab[s].ref > 0 /\ itab[s].inum = i /\ InTable(i) # {}
      \/ itab[s].ref = 0 /\ InTable(i) = {}
  BY <1>3 DEF InTable, Unref
<1>8. PICK v \in BOOLEAN : /\ v = (InTable(i) # {} /\ itab[s].valid)
                           /\ InTable(i) = {} => ~v
                           /\ InTable(i) # {} => v = itab[s].valid
  <2>1. itab[s].valid \in BOOLEAN
    BY <1>6 DEF Entry
  <2> QED BY <2>1
<1>9. PICK n \in Nat : n = itab[s].ref + 1
  BY <1>6 DEF Entry
<1>10. PICK e \in Entry : /\ e.inum = i /\ e.ref = n /\ e.valid = v
                          /\ e.holder = itab[s].holder /\ e.mem = itab[s].mem
                          /\ itab' = [itab EXCEPT ![s] = e]
  <2> DEFINE t == [itab[s] EXCEPT !.inum = i, !.ref = n, !.valid = v]
  <2>1. t \in Entry
    BY <1>6 DEF Entry
  <2>2. itab' = [itab EXCEPT ![s] = t]
    BY <1>5, <1>8, <1>9
  <2> QED BY <1>6, <2>1, <2>2 DEF Entry
<1>11. Gets(p, i, s)
  <2>1. /\ itab' \in [Slot -> Entry] /\ itab'[s] = e
        /\ \A t \in Slot \ {s} : itab'[t] = itab[t]
    BY <1>4, <1>10 DEF TypeInv
  <2> QED BY <1>7, <1>8, <1>9, <1>10, <2>1 DEF Gets
<1>12. PICK r \in Process :
         /\ ipr' = [ipr EXCEPT ![p] = r] /\ r.ip = s /\ r.pc = l /\ r.then = then
         /\ r.call = ipr[p].call /\ r.src = ipr[p].src /\ r.name = ipr[p].name /\ r.to = ipr[p].to
         /\ r.inum = ipr[p].inum /\ r.fd = ipr[p].fd /\ r.want = ipr[p].want
  <2> DEFINE t == [ipr[p] EXCEPT !.ip = s, !.pc = l, !.then = then]
  <2>1. ipr[p] \in Process /\ s \in 0..ISlots
    BY <1>4 DEF TypeInv, Slot
  <2>2. t \in Process
    BY <2>1 DEF Process
  <2> QED BY <1>5, <2>1, <2>2 DEF Process
<1>13. OnItsWay(p) /\ ipr'[p] = r
  BY <1>12 DEF TypeInv, OnItsWay, Mine
<1> QED BY <1>4, <1>5, <1>11, <1>12, <1>13

\* What the process may do with it: the inode has a name, or the process has
\* just taken it.
GetsFor(p, i, s) ==
    /\ \/ Named(i) /\ ipr[p].pc # "iget"
       \/ ipr[p].pc = "iget" /\ ipr[p].inum = i /\ ipr'[p].pc = "ilock" /\ ipr'[p].then = "init"
    /\ \A t \in Slot : /\ RefsOf(ipr'[p], t) = RefsOf(ipr[p], t) + Weight(t = s)
                       /\ Touches(ipr'[p], t) => Touches(ipr[p], t) \/ t = s
                       /\ Uses(ipr'[p], t) => Uses(ipr[p], t) \/ t = s
                       /\ Knows(ipr'[p], t) => Knows(ipr[p], t)
                       /\ Debt(ipr'[p], t) <=> Debt(ipr[p], t)
    /\ Fresh(ipr'[p]) => ipr[p].pc = "iget" /\ ipr'[p].inum = ipr[p].inum /\ ipr[p].inum = i /\ ipr'[p].ip = s
    /\ Naming(ipr'[p]) => dent[ipr'[p].name] = 0
    /\ Clearing(ipr'[p]) => dent[ipr'[p].name] = i /\ ipr'[p].ip = s
    /\ InTheWay(ipr'[p]) => dent[ipr'[p].to] = i /\ ipr'[p].ip = s

LEMMA GetStep ==
    ASSUME ItInv, NEW p \in IProc, OnItsWay(p), NEW i \in Inum, NEW s \in Slot, Gets(p, i, s), GetsFor(p, i, s),
           UNCHANGED <<dino, dent, calls, lost, ipanic>>,
           InDir(ipr[p]), dhold' \in {0, p}, dhold' = p <=> InDir(ipr'[p]),
           ipr[p].pc \in {"dir", "iget", "dirlink"}, ipr'[p].pc \in {"ilock", "iput"},
           Control(ipr'[p]), Arguments(ipr'[p]),
           ipr'[p].fd = ipr[p].fd, ipr'[p].want = ipr[p].want
    PROVE  ItInv'
<1> USE DEF ItInv, Gets, GetsFor
<1>1. /\ Mine(p) /\ \A t \in Slot : itab[t].ref \in Nat /\ RefsOf(ipr[p], t) \in Nat
      /\ itab'[s].ref > 0
  <2>1. \A t \in Slot : itab[t].ref \in Nat /\ RefsOf(ipr[p], t) \in Nat
    BY DEF TypeInv, Entry, RefsOf, Weight
  <2> QED BY <2>1 DEF OnItsWay
<1>2. Kept
  BY DEF Kept
<1>3. dino[i].alloc
  BY Bounds DEF AllocInv, Named
<1>4. ~Locking(ipr[p]) /\ ~Locking(ipr'[p])
  BY DEF Locking, LockPcs
<1>5. TypeInv'
  <2>1. dhold' \in IProc \cup {0}
    OBVIOUS
  <2> QED BY <2>1 DEF TypeInv, OnItsWay
<1>6. DirInv'
  <2>1. dhold = p
    BY DEF DirInv
  <2> QED BY <1>1, <2>1, DirStep
<1>7. HoldInv'
  <2>1. \A t \in Slot : itab'[t].holder = itab[t].holder
    OBVIOUS
  <2> QED BY <1>1, <1>4, <2>1, HoldStep DEF HoldInv
<1>8. RefInv'
  <2>1. ASSUME NEW t \in Slot PROVE itab'[t].ref = itab[t].ref + RefsOf(ipr'[p], t) - RefsOf(ipr[p], t)
    <3>1. CASE t = s
      <4>1. RefsOf(ipr'[p], t) = RefsOf(ipr[p], t) + 1
        BY <3>1 DEF Weight
      <4>2. itab'[t].ref = itab[t].ref + 1
        BY <3>1
      <4> HIDE DEF ItInv, Gets, GetsFor
      <4> QED BY <1>1, <4>1, <4>2
    <3>2. CASE t # s
      <4>1. RefsOf(ipr'[p], t) = RefsOf(ipr[p], t) + 0
        BY <3>2 DEF Weight
      <4>2. itab'[t].ref = itab[t].ref
        BY <3>2
      <4> HIDE DEF ItInv, Gets, GetsFor
      <4> QED BY <1>1, <4>1, <4>2
    <3> QED BY <3>1, <3>2
  <2> QED BY <1>1, <2>1, RefStep
<1>9. EntryInv'
  <2>1. ASSUME NEW t \in Slot \ {s}, itab[t].ref > 0 PROVE itab[t].inum # i
    <3>1. CASE itab[s].ref > 0 /\ itab[s].inum = i
      BY <2>1, <3>1 DEF EntryInv
    <3>2. CASE InTable(i) = {}
      BY <2>1, <3>2 DEF InTable
    <3> QED BY <3>1, <3>2
  <2>2. \A t \in Slot : itab'[t].ref > 0 => itab'[t].inum \in Inum
    BY DEF EntryInv
  <2>3. ASSUME NEW t \in Slot, NEW u \in Slot, itab'[t].ref > 0, itab'[u].ref > 0, itab'[t].inum = itab'[u].inum
        PROVE  t = u
    BY <2>1, <2>3 DEF EntryInv
  <2> QED BY <2>2, <2>3 DEF EntryInv
<1>10. ValidInv'
  <2>1. \A t \in Slot : itab'[t].ref > 0 /\ itab'[t].valid =>
           Matches(t)' \/ (itab[t].ref > 0 /\ itab[t].valid /\ ~Matches(t))
    BY DEF Matches
  <2>2. ASSUME NEW t \in Slot, Knows(ipr'[p], t) PROVE itab'[t].valid
    <3>1. Knows(ipr[p], t)
      BY <2>2
    <3>2. itab[t].valid /\ Touches(ipr[p], t)
      BY <3>1, Profile DEF ValidInv, ControlInv
    <3>3. itab[t].ref > 0
      BY <3>2, Referred
    <3> QED BY <1>1, <3>2, <3>3
  <2>3. \A t \in Slot : itab[t].valid /\ itab[t].ref > 0 => itab'[t].valid
    BY <1>1
  <2> HIDE DEF ItInv, Gets, GetsFor
  <2> QED BY <1>1, <2>1, <2>2, <2>3, ValidStep
<1>11. FreeInv'
  <2>1. \A t \in Slot : \/ itab'[t].ref = itab[t].ref
                        \/ itab[t].ref = 0
                        \/ \E n \in INames : dent[n] = itab[t].inum
                        \/ Fresh(ipr[p]) /\ itab[t].inum = ipr[p].inum
    BY DEF Named, Fresh
  <2>2. \A t \in Slot : itab'[t].mem = itab[t].mem
    OBVIOUS
  <2>3. ipr'[p].pc # "ifree"
    OBVIOUS
  <2> HIDE DEF ItInv, Gets, GetsFor
  <2> QED BY <1>1, <2>1, <2>2, <2>3, FreeStep
<1>12. DoneInv'
  <2>1. \A t \in Slot : Touches(ipr'[p], t) =>
              \/ Touches(ipr[p], t)
              \/ itab[t].ref = 0
              \/ \E n \in INames : dent[n] = itab[t].inum
              \/ ipr'[p].pc = "ilock" /\ ipr'[p].then = "init"
    BY DEF Named
  <2>2. ipr[p].pc # "ilock" /\ ipr'[p].pc # "idone"
    OBVIOUS
  <2> HIDE DEF ItInv, Gets, GetsFor
  <2> QED BY <1>1, <1>2, <2>1, <2>2, DoneStep
<1>13. AllocInv'
  <2>1. \A t \in Slot : Uses(ipr'[p], t) => Uses(ipr[p], t) \/ dino'[itab'[t].inum].alloc
    BY <1>3
  <2>2. ipr'[p].pc # "iget"
    OBVIOUS
  <2> HIDE DEF ItInv, Gets, GetsFor
  <2> QED BY <1>1, <1>2, <2>1, <2>2, AllocStep
<1>14. LinkInv'
  <2>1. \A t \in Slot : Debt(ipr'[p], t) <=> Debt(ipr[p], t)
    OBVIOUS
  <2> HIDE DEF ItInv, Gets, GetsFor
  <2> QED BY <1>1, <1>2, <2>1, LinkKeep
<1>15. FreshInv'
  <2>1. Fresh(ipr'[p]) =>
              /\ \A n \in INames : dent'[n] # ipr'[p].inum
              /\ \A q \in IProc \ {p}, t \in Slot : Uses(ipr[q], t) => itab[t].inum # ipr'[p].inum
              /\ Creating(ipr'[p]) => itab'[ipr'[p].ip].inum = ipr'[p].inum
    BY DEF FreshInv, Fresh
  <2> HIDE DEF ItInv, Gets, GetsFor
  <2> QED BY <1>1, <1>2, <2>1, FreshStep
<1>16. NameInv'
  <2>1. /\ Naming(ipr'[p]) => dent'[ipr'[p].name] = 0
        /\ Clearing(ipr'[p]) => dent'[ipr'[p].name] = itab'[ipr'[p].ip].inum
        /\ InTheWay(ipr'[p]) => dent'[ipr'[p].to] = itab'[ipr'[p].ip].inum
    OBVIOUS
  <2> HIDE DEF ItInv, Gets, GetsFor
  <2> QED BY <1>1, <1>2, <2>1, NameStep
<1>17. LostInv'
  <2> SUFFICES ASSUME NEW j \in Inum PROVE Reached(j)' <=> Reached(j)
    BY DEF LostInv
  <2>1. Named(j)' <=> Named(j)
    BY DEF Named
  <2>2. CASE j = i
    <3>1. Entered(i)'
      BY <1>1 DEF Entered
    <3>2. Reached(i)
      BY DEF Reached, Taken
    <3> QED BY <2>2, <3>1, <3>2 DEF Reached
  <2>3. CASE j # i
    <3>1. Entered(j)' <=> Entered(j)
      BY <1>1, <2>3 DEF Entered
    <3>2. Taken(j)' <=> Taken(j)
      <4>1. ipr'[p].pc # "iget" /\ (ipr[p].pc = "iget" => ipr[p].inum # j)
        <5>1. ASSUME ipr[p].pc = "iget" PROVE ipr[p].inum = i
          BY <5>1 DEF FreshInv, Named, Fresh
        <5> QED BY <2>3, <5>1
      <4> QED BY <1>1, <4>1 DEF Taken, Mine
    <3> QED BY <2>1, <3>1, <3>2 DEF Reached
  <2> QED BY <2>2, <2>3
<1> HIDE DEF ItInv, Gets, GetsFor
<1> QED BY <1>5, <1>6, <1>7, <1>8, <1>9, <1>10, <1>11, <1>12, <1>13, <1>14, <1>15, <1>16, <1>17, ItInvAgain
        DEF Rest

LEMMA IallocGetStep == ASSUME ItInv, ~ipanic', NEW p \in IProc, iallocGet(p) PROVE ItInv'
<1> USE DEF ItInv
<1>1. ipr[p].pc = "iget" /\ UNCHANGED <<dino, dent, dhold, calls, lost>>
  BY DEF iallocGet, On
<1>2. Control(ipr[p]) /\ Arguments(ipr[p]) /\ ipr[p].call = "create" /\ ipr[p].fd = 0
  BY <1>1 DEF ControlInv, Control, Arguments
<1>3. PICK i \in Inum : i = ipr[p].inum
  BY <1>1, <1>2, Bounds DEF TypeInv, Process, Arguments, Naming, Fresh
<1>4. iget(p, i, "ilock", "init")
  BY <1>3 DEF iallocGet
<1>5. "ilock" \in IPcs /\ "init" \in Thens
  BY DEF IPcs, IpPcs, Thens
<1>6. PICK s \in Slot :
        /\ ipanic' = ipanic /\ OnItsWay(p) /\ Gets(p, i, s)
        /\ ipr'[p].ip = s /\ ipr'[p].pc = "ilock" /\ ipr'[p].then = "init"
        /\ ipr'[p].call = ipr[p].call /\ ipr'[p].src = ipr[p].src
        /\ ipr'[p].name = ipr[p].name /\ ipr'[p].to = ipr[p].to /\ ipr'[p].inum = ipr[p].inum
        /\ ipr'[p].fd = ipr[p].fd /\ ipr'[p].want = ipr[p].want
  <2> HIDE DEF ItInv
  <2> QED BY <1>4, <1>5, IgetStep
<1>7. Control(ipr'[p]) /\ Arguments(ipr'[p])
  BY <1>1, <1>2, <1>6, Bounds DEF Control, Arguments, LockPoint, FreePcs, HasSrc, IpPcs, LockPcs, Naming,
                                  Fresh, Creating
<1>8. InDir(ipr[p]) /\ InDir(ipr'[p]) /\ Naming(ipr[p]) /\ ~Clearing(ipr'[p]) /\ ~InTheWay(ipr'[p])
  BY <1>1, <1>6 DEF InDir, Naming, Fresh, Creating, Clearing, InTheWay
<1>9. dhold' = p
  BY <1>1, <1>8 DEF DirInv
<1>10. GetsFor(p, i, s)
  <2>1. ASSUME NEW t \in Slot
        PROVE  /\ RefsOf(ipr'[p], t) = RefsOf(ipr[p], t) + Weight(t = s)
               /\ Touches(ipr'[p], t) => Touches(ipr[p], t) \/ t = s
               /\ Uses(ipr'[p], t) => Uses(ipr[p], t) \/ t = s
               /\ Knows(ipr'[p], t) => Knows(ipr[p], t)
               /\ Debt(ipr'[p], t) <=> Debt(ipr[p], t)
    <3>1. /\ HasIp(ipr'[p]) /\ ~HasIp(ipr[p]) /\ ~HasSrc(ipr'[p]) /\ ~HasSrc(ipr[p])
          /\ ~HasRead(ipr'[p]) /\ ~Owes(ipr'[p]) /\ ~Owes(ipr[p])
      BY <1>1, <1>2, <1>6 DEF HasIp, HasSrc, HasRead, Owes, IpPcs, LockPcs
    <3>2. /\ RefsOf(ipr'[p], t) = Weight(ipr[p].fd = t) + Weight(t = s)
          /\ RefsOf(ipr[p], t) = Weight(ipr[p].fd = t)
      BY <1>6, <3>1 DEF RefsOf, Weight
    <3> QED BY <1>6, <3>1, <3>2 DEF Touches, Uses, Knows, Debt, Proper
  <2>2. Naming(ipr'[p]) => dent[ipr'[p].name] = 0
    BY <1>6, <1>8 DEF NameInv
  <2> HIDE DEF ItInv
  <2> QED BY <1>1, <1>3, <1>6, <1>8, <2>1, <2>2 DEF GetsFor
<1> HIDE DEF ItInv
<1> QED BY <1>1, <1>6, <1>7, <1>8, <1>9, <1>10, GetStep

LEMMA LookupStep == ASSUME ItInv, ~ipanic', NEW p \in IProc, Lookup(p) PROVE ItInv'
<1> USE DEF ItInv
<1>1. /\ ipr[p].pc = "dir" /\ dent[ipr[p].name] # 0 /\ UNCHANGED <<dino, dent, calls, lost>>
      /\ dhold' = IF ipr[p].call = "unlink" THEN p ELSE 0
  BY DEF Lookup, On
<1>2. Control(ipr[p]) /\ Arguments(ipr[p]) /\ ipr[p].call \in {"open", "create", "unlink", "link"}
  BY <1>1 DEF ControlInv, Control
<1>3. PICK n \in INames, i \in Inum : n = ipr[p].name /\ dent[n] = i
  BY <1>1, <1>2, Bounds DEF TypeInv, Process, Arguments
<1>4. PICK then \in Thens : /\ then = After(ipr[p].call)
                            /\ then = "clear" <=> ipr[p].call = "unlink"
                            /\ then = "count" <=> ipr[p].call = "link"
                            /\ then \in {"clear", "count", "fill"}
  BY DEF After, Thens
<1>5. iget(p, i, "ilock", then) /\ "ilock" \in IPcs
  BY <1>3, <1>4 DEF Lookup, IPcs, IpPcs
<1>6. PICK s \in Slot :
        /\ ipanic' = ipanic /\ OnItsWay(p) /\ Gets(p, i, s)
        /\ ipr'[p].ip = s /\ ipr'[p].pc = "ilock" /\ ipr'[p].then = then
        /\ ipr'[p].call = ipr[p].call /\ ipr'[p].src = ipr[p].src
        /\ ipr'[p].name = ipr[p].name /\ ipr'[p].to = ipr[p].to /\ ipr'[p].inum = ipr[p].inum
        /\ ipr'[p].fd = ipr[p].fd /\ ipr'[p].want = ipr[p].want
  <2> HIDE DEF ItInv
  <2> QED BY <1>5, IgetStep
<1>7. Control(ipr'[p]) /\ Arguments(ipr'[p])
  BY <1>1, <1>2, <1>4, <1>6, Bounds DEF Control, Arguments, LockPoint, FreePcs, HasSrc, IpPcs, LockPcs,
                                        Naming, Fresh, Creating
<1>8. /\ InDir(ipr[p]) /\ ~Fresh(ipr'[p]) /\ ~Naming(ipr'[p]) /\ ~InTheWay(ipr'[p])
      /\ InDir(ipr'[p]) <=> ipr[p].call = "unlink"
  BY <1>1, <1>4, <1>6 DEF InDir, Naming, Fresh, Creating, Clearing, InTheWay, FreePcs
<1>9. dhold' \in {0, p} /\ (dhold' = p <=> InDir(ipr'[p]))
  BY <1>1, <1>8, Bounds
<1>10. GetsFor(p, i, s)
  <2>1. ASSUME NEW t \in Slot
        PROVE  /\ RefsOf(ipr'[p], t) = RefsOf(ipr[p], t) + Weight(t = s)
               /\ Touches(ipr'[p], t) => Touches(ipr[p], t) \/ t = s
               /\ Uses(ipr'[p], t) => Uses(ipr[p], t) \/ t = s
               /\ Knows(ipr'[p], t) => Knows(ipr[p], t)
               /\ Debt(ipr'[p], t) <=> Debt(ipr[p], t)
    <3>1. /\ HasIp(ipr'[p]) /\ ~HasIp(ipr[p]) /\ ~HasSrc(ipr'[p]) /\ ~HasSrc(ipr[p])
          /\ ~HasRead(ipr'[p]) /\ ~Owes(ipr'[p]) /\ ~Owes(ipr[p])
      BY <1>1, <1>2, <1>4, <1>6 DEF HasIp, HasSrc, HasRead, Owes, IpPcs, LockPcs
    <3>2. /\ RefsOf(ipr'[p], t) = Weight(ipr[p].fd = t) + Weight(t = s)
          /\ RefsOf(ipr[p], t) = Weight(ipr[p].fd = t)
      BY <1>6, <3>1 DEF RefsOf, Weight
    <3> QED BY <1>6, <3>1, <3>2 DEF Touches, Uses, Knows, Debt, Proper
  <2>2. Named(i) /\ ipr[p].pc # "iget"
    BY <1>1, <1>3 DEF Named
  <2>3. dent[ipr'[p].name] = i
    BY <1>3, <1>6
  <2> HIDE DEF ItInv
  <2> QED BY <1>6, <1>8, <2>1, <2>2, <2>3 DEF GetsFor
<1> HIDE DEF ItInv
<1> QED BY <1>1, <1>6, <1>7, <1>8, <1>9, <1>10, GetStep

LEMMA LinkExistsStep == ASSUME ItInv, ~ipanic', NEW p \in IProc, linkExists(p) PROVE ItInv'
<1> USE DEF ItInv
<1>1. ipr[p].pc = "dirlink" /\ dent[ipr[p].to] # 0 /\ UNCHANGED <<dino, dent, dhold, calls, lost>>
  BY DEF linkExists, On
<1>2. Control(ipr[p]) /\ Arguments(ipr[p]) /\ ipr[p].call = "link" /\ ipr[p].src = ipr[p].ip /\ ipr[p].ip # 0
  BY <1>1 DEF ControlInv, Control, Arguments, IpPcs
<1>3. PICK n \in INames, i \in Inum : n = ipr[p].to /\ dent[n] = i
  BY <1>1, <1>2, Bounds DEF TypeInv, Process, Arguments
<1>4. iget(p, i, "iput", "bad") /\ "iput" \in IPcs /\ "bad" \in Thens
  BY <1>3 DEF linkExists, IPcs, IpPcs, Thens
<1>5. PICK s \in Slot :
        /\ ipanic' = ipanic /\ OnItsWay(p) /\ Gets(p, i, s)
        /\ ipr'[p].ip = s /\ ipr'[p].pc = "iput" /\ ipr'[p].then = "bad"
        /\ ipr'[p].call = ipr[p].call /\ ipr'[p].src = ipr[p].src
        /\ ipr'[p].name = ipr[p].name /\ ipr'[p].to = ipr[p].to /\ ipr'[p].inum = ipr[p].inum
        /\ ipr'[p].fd = ipr[p].fd /\ ipr'[p].want = ipr[p].want
  <2> HIDE DEF ItInv
  <2> QED BY <1>4, IgetStep
<1>6. Control(ipr'[p]) /\ Arguments(ipr'[p])
  BY <1>1, <1>2, <1>5, Bounds DEF Control, Arguments, PutPoint, FreePcs, HasSrc, IpPcs, LockPcs,
                                  Naming, Fresh, Creating
<1>7. /\ InDir(ipr[p]) /\ ~Fresh(ipr'[p]) /\ ~Naming(ipr'[p]) /\ ~Clearing(ipr'[p]) /\ InDir(ipr'[p])
  BY <1>1, <1>5 DEF InDir, Naming, Fresh, Creating, Clearing, InTheWay
<1>8. dhold' = p
  BY <1>1, <1>7 DEF DirInv
<1>9. GetsFor(p, i, s)
  <2>1. ASSUME NEW t \in Slot
        PROVE  /\ RefsOf(ipr'[p], t) = RefsOf(ipr[p], t) + Weight(t = s)
               /\ Touches(ipr'[p], t) => Touches(ipr[p], t) \/ t = s
               /\ Uses(ipr'[p], t) => Uses(ipr[p], t) \/ t = s
               /\ Knows(ipr'[p], t) => Knows(ipr[p], t)
               /\ Debt(ipr'[p], t) <=> Debt(ipr[p], t)
    <3>1. /\ HasIp(ipr'[p]) /\ HasIp(ipr[p]) /\ HasSrc(ipr'[p]) /\ ~HasSrc(ipr[p])
          /\ ~HasRead(ipr'[p]) /\ HasRead(ipr[p]) /\ ~Owes(ipr'[p]) /\ Owes(ipr[p]) /\ Proper(ipr[p])
      BY <1>1, <1>2, <1>5 DEF HasIp, HasSrc, HasRead, Owes, Proper, IpPcs, LockPcs
    <3>2. /\ RefsOf(ipr'[p], t) = Weight(ipr[p].fd = t) + Weight(t = s) + Weight(ipr[p].src = t)
          /\ RefsOf(ipr[p], t) = Weight(ipr[p].fd = t) + Weight(ipr[p].src = t)
      BY <1>2, <1>5, <3>1 DEF RefsOf, Weight
    <3>3. Weight(ipr[p].fd = t) \in Nat /\ Weight(t = s) \in Nat /\ Weight(ipr[p].src = t) \in Nat
      BY DEF Weight
    <3>4. RefsOf(ipr'[p], t) = RefsOf(ipr[p], t) + Weight(t = s)
      BY <3>2, <3>3
    <3> QED BY <1>2, <1>5, <3>1, <3>4 DEF Touches, Uses, Knows, Debt, Proper
  <2>2. Named(i) /\ ipr[p].pc # "iget"
    BY <1>1, <1>3 DEF Named
  <2>3. dent[ipr'[p].to] = i
    BY <1>3, <1>5
  <2> HIDE DEF ItInv
  <2> QED BY <1>5, <1>7, <2>1, <2>2, <2>3 DEF GetsFor
<1> HIDE DEF ItInv
<1> QED BY <1>1, <1>5, <1>6, <1>7, <1>8, <1>9, GetStep

-----------------------------------------------------------------------------
(* The theorems *)

LEMMA InitInv == ItableInit => ItInv
<1> SUFFICES ASSUME ItableInit PROVE ItInv
  OBVIOUS
<1> USE DEF ItableInit
<1>1. Unread \in Content /\ ~Unread.alloc
  BY DEF Unread, Content
<1>2. Idle \in Process
  BY Bounds DEF Idle, Process, IPcs, IpPcs, LockPcs, Thens, ICalls
<1>3. \A p \in IProc : ipr[p] = Idle
  OBVIOUS
<1>4. /\ Idle.pc = "idle" /\ Idle.fd = 0 /\ Idle.call = "" /\ Idle.then = ""
      /\ ~HasIp(Idle) /\ ~HasSrc(Idle) /\ ~HasRead(Idle) /\ ~Proper(Idle) /\ ~Owes(Idle) /\ ~Locking(Idle)
      /\ ~InDir(Idle) /\ ~Fresh(Idle) /\ ~Naming(Idle) /\ ~Clearing(Idle) /\ ~InTheWay(Idle)
  BY DEF Idle, HasIp, HasSrc, HasRead, Proper, Owes, Locking, InDir, Fresh, Creating, Naming, Clearing,
         InTheWay, IpPcs, LockPcs, FreePcs
<1>5. Control(Idle) /\ Arguments(Idle)
  BY <1>4 DEF Control, Arguments, FreePcs, IpPcs, LockPcs
<1>6. \A s \in Slot : ~Touches(Idle, s) /\ ~Uses(Idle, s) /\ ~Knows(Idle, s) /\ ~Debt(Idle, s)
  BY <1>4, Bounds DEF Touches, Uses, Knows, Debt
<1>7. TypeInv
  BY <1>1, <1>2, Bounds, ItableAssumption DEF TypeInv, Entry, ItableAssumption
<1>8. ControlInv /\ DirInv /\ HoldInv
  BY <1>3, <1>4, <1>5, Bounds DEF ControlInv, DirInv, HoldInv
<1>9. RefInv
  <2>1. ASSUME NEW s \in Slot PROVE FdOf(s) = {} /\ IpOf(s) = {} /\ SrcOf(s) = {}
    BY <1>3, <1>4, Bounds DEF FdOf, IpOf, SrcOf
  <2>2. ASSUME NEW s \in Slot
        PROVE  Cardinality(FdOf(s)) = 0 /\ Cardinality(IpOf(s)) = 0 /\ Cardinality(SrcOf(s)) = 0
    BY <2>1, FS_EmptySet
  <2>3. \A s \in Slot : itab[s].ref = 0
    OBVIOUS
  <2> QED BY <2>2, <2>3 DEF RefInv
<1>10. EntryInv /\ ValidInv /\ FreeInv /\ DoneInv
  <2>1. \A s \in Slot : ~(itab[s].ref > 0)
    OBVIOUS
  <2> HIDE DEF ItableInit
  <2> QED BY <1>3, <1>4, <1>6, <2>1 DEF EntryInv, ValidInv, FreeInv, DoneInv
<1>11. AllocInv /\ FreshInv /\ NameInv
  BY <1>3, <1>4, <1>6 DEF AllocInv, FreshInv, NameInv
<1>12. LinkInv /\ LostInv
  BY <1>1 DEF LinkInv, LostInv
<1> QED BY <1>7, <1>8, <1>9, <1>10, <1>11, <1>12 DEF ItInv

LEMMA StutterInv == ItInv /\ UNCHANGED ivars => ItInv'
<1> SUFFICES ASSUME ItInv, UNCHANGED ivars PROVE ItInv'
  OBVIOUS
<1> USE DEF ItInv, ivars
<1>1. TypeInv' /\ ControlInv' /\ DirInv' /\ HoldInv'
  BY DEF TypeInv, ControlInv, DirInv, HoldInv
<1>2. RefInv' /\ EntryInv' /\ FreeInv' /\ DoneInv'
  BY DEF RefInv, FdOf, IpOf, SrcOf, EntryInv, FreeInv, DoneInv
<1>3. ValidInv' /\ AllocInv' /\ FreshInv' /\ NameInv'
  BY DEF ValidInv, Matches, AllocInv, FreshInv, NameInv
<1>4. LinkInv'
  BY DEF LinkInv, Names, Owing, OwesTo
<1>5. LostInv'
  BY DEF LostInv, Reached, Named, Entered, Taken
<1> QED BY <1>1, <1>2, <1>3, <1>4, <1>5

\* The steps that look for an entry: they may panic.
Searching(p) == Lookup(p) \/ iallocGet(p) \/ linkExists(p)
Panics == ipanic' = TRUE /\ TableFull /\ UNCHANGED <<dino, itab, ipr>>

LEMMA SearchInv == ASSUME ItInv, NEW p \in IProc, Searching(p) PROVE ItInv' \/ Panics
<1>1. CASE ~ipanic'
  BY <1>1, LookupStep, IallocGetStep, LinkExistsStep DEF Searching
<1>2. ASSUME ~(~ipanic'), NEW i \in Inum, NEW l, NEW then, iget(p, i, l, then), UNCHANGED dino PROVE Panics
  BY <1>2 DEF Panics, TableFull, iget, ItInv, TypeInv
<1>3. CASE ~(~ipanic') /\ Lookup(p)
  <2>1. ipr[p].pc = "dir" /\ dent[ipr[p].name] # 0 /\ UNCHANGED dino
    BY <1>3 DEF Lookup, On
  <2>2. ipr[p].call \in {"open", "create", "unlink", "link"} /\ Arguments(ipr[p])
    BY <2>1 DEF ItInv, ControlInv, Control
  <2>3. dent[ipr[p].name] \in Inum
    BY <2>1, <2>2, Bounds DEF ItInv, TypeInv, Process, Arguments
  <2> QED BY <1>2, <1>3, <2>1, <2>3 DEF Lookup
<1>4. CASE ~(~ipanic') /\ iallocGet(p)
  <2>1. ipr[p].pc = "iget" /\ UNCHANGED dino
    BY <1>4 DEF iallocGet, On
  <2>2. ipr[p].inum # 0
    BY <2>1 DEF ItInv, ControlInv, Control, Arguments, Naming, Fresh
  <2>3. ipr[p].inum \in Inum
    BY <2>2, Bounds DEF ItInv, TypeInv, Process
  <2> QED BY <1>2, <1>4, <2>1, <2>3 DEF iallocGet
<1>5. CASE ~(~ipanic') /\ linkExists(p)
  <2>1. ipr[p].pc = "dirlink" /\ dent[ipr[p].to] # 0 /\ UNCHANGED dino
    BY <1>5 DEF linkExists, On
  <2>2. ipr[p].call = "link" /\ Arguments(ipr[p])
    BY <2>1 DEF ItInv, ControlInv, Control
  <2>3. dent[ipr[p].to] \in Inum
    BY <2>1, <2>2, Bounds DEF ItInv, TypeInv, Process, Arguments
  <2> QED BY <1>2, <1>5, <2>1, <2>3 DEF linkExists
<1> QED BY <1>1, <1>3, <1>4, <1>5 DEF Searching

\* A step preserves the account, or it is the panic of iget().
LEMMA StepInv == ASSUME ItInv, ItableNext PROVE ItInv' \/ Panics
<1>1. ASSUME NEW p \in IProc,
             ilock(p) \/ ilockRead(p) \/ iput(p) \/ iputFree(p) \/ iputDone(p) \/ iputDrop(p) \/ iunlock(p)
      PROVE  ItInv'
  <2>1. CASE ilock(p)
    BY <2>1, IlockStep
  <2>2. CASE ilockRead(p)
    BY <2>2, IlockReadStep
  <2>3. CASE iput(p)
    BY <2>3, IputLastStep, IputLeaveStep
  <2>4. CASE iputFree(p)
    BY <2>4, IputFreeStep
  <2>5. CASE iputDone(p)
    BY <2>5, IputDoneStep
  <2>6. CASE iputDrop(p)
    BY <2>6, IputDropStep
  <2>7. CASE iunlock(p)
    BY <2>7, IunlockStep
  <2> QED BY <1>1, <2>1, <2>2, <2>3, <2>4, <2>5, <2>6, <2>7
<1>2. ASSUME NEW p \in IProc,
             BeginUse(p) \/ BeginClose(p) \/ NotThere(p) \/ OpenFile(p)
      PROVE  ItInv'
  BY <1>2, BeginUseStep, BeginCloseStep, NotThereStep, OpenFileStep
<1>3. ASSUME NEW p \in IProc,
             ialloc(p) \/ createInit(p) \/ createEnter(p) \/ createFail(p) \/ createLeave(p)
      PROVE  ItInv'
  BY <1>3, IallocStep, CreateInitStep, CreateEnterStep, CreateFailStep, CreateLeaveStep
<1>4. ASSUME NEW p \in IProc,
             \/ unlinkClear(p) \/ linkCount(p) \/ linkDir(p) \/ linkEnter(p) \/ linkBad(p)
             \/ Discount(p)
      PROVE  ItInv'
  BY <1>4, UnlinkClearStep, LinkCountStep, LinkDirStep, LinkEnterStep, LinkBadStep, DiscountStep
<1>5. ASSUME NEW p \in IProc, NEW n \in INames, NEW m \in INames,
             NEW call \in {"open", "create", "unlink", "link"}, Begin(p, call, n, m)
      PROVE  ItInv'
  BY <1>5, BeginStep
<1>6. CASE ItableDone
  BY <1>6, StutterInv DEF ItableDone
<1>7. ASSUME NEW p \in IProc, Searching(p) PROVE ItInv' \/ Panics
  BY <1>7, SearchInv
<1> QED BY <1>1, <1>2, <1>3, <1>4, <1>5, <1>6, <1>7 DEF ItableNext, Searching

\* After it nothing happens: table and open files stay what they were.
Stopped == ipanic = TRUE /\ ItableCoherent /\ OpenFileStays

LEMMA OpenFileNow == ItInv => OpenFileStays
<1> SUFFICES ASSUME ItInv, NEW p \in IProc, ipr[p].fd # 0
             PROVE  /\ itab[ipr[p].fd].ref > 0 /\ dino[itab[ipr[p].fd].inum].alloc
                    /\ dino[itab[ipr[p].fd].inum].gen = ipr[p].want
  BY DEF OpenFileStays
<1>1. ipr[p].fd \in Slot /\ Touches(ipr[p], ipr[p].fd) /\ Uses(ipr[p], ipr[p].fd)
  BY AtHand DEF ItInv, Touches, Uses
<1> QED BY <1>1, Referred DEF ItInv, AllocInv

LEMMA CoherentNow == ItInv => ItableCoherent
<1> SUFFICES ASSUME ItInv PROVE ItableCoherent
  OBVIOUS
<1>1. ASSUME NEW s \in Slot, itab[s].ref > 0, itab[s].valid, itab[s].holder = 0
      PROVE  itab[s].mem = dino[itab[s].inum]
  <2>1. ASSUME NEW p \in IProc, ipr[p].pc = "idone", ipr[p].ip = s PROVE FALSE
    BY <1>1, <2>1, DoneAlone, Bounds
  <2> QED BY <1>1, <2>1 DEF ItInv, ValidInv, Matches
<1> QED BY <1>1 DEF ItInv, EntryInv, TypeInv, ItableCoherent

LEMMA PanicStops == ItInv /\ Panics => Stopped'
<1> SUFFICES ASSUME ItInv, Panics PROVE Stopped'
  OBVIOUS
<1>1. OpenFileStays'
  BY OpenFileNow DEF Panics, OpenFileStays
<1>2. TableFull'
  BY DEF Panics, TableFull, InTable, Unref
<1>3. ItableCoherent'
  BY <1>2, CoherentNow DEF Panics, ItableCoherent
<1> QED BY <1>1, <1>3 DEF Panics, Stopped

LEMMA StoppedInv == Stopped /\ [ItableNext]_ivars => Stopped'
<1> SUFFICES ASSUME Stopped, [ItableNext]_ivars PROVE Stopped'
  OBVIOUS
<1>1. UNCHANGED ivars
  <2>1. \A p \in IProc : \A l : ~On(p, l)
    BY DEF Stopped, On
  <2>2. ASSUME NEW p \in IProc
        PROVE  /\ ~ilock(p) /\ ~ilockRead(p) /\ ~iput(p) /\ ~iputFree(p) /\ ~iputDone(p) /\ ~iputDrop(p)
               /\ ~iunlock(p)
    BY <2>1 DEF ilock, ilockRead, iput, iputFree, iputDone, iputDrop, iunlock
  <2>3. ASSUME NEW p \in IProc
        PROVE  /\ ~BeginUse(p) /\ ~BeginClose(p) /\ ~Lookup(p) /\ ~NotThere(p) /\ ~OpenFile(p)
               /\ \A call, n, m : ~Begin(p, call, n, m)
    BY <2>1 DEF BeginUse, BeginClose, Lookup, NotThere, OpenFile, Begin
  <2>4. ASSUME NEW p \in IProc
        PROVE  /\ ~ialloc(p) /\ ~iallocGet(p) /\ ~createInit(p) /\ ~createEnter(p) /\ ~createFail(p)
               /\ ~createLeave(p)
    BY <2>1 DEF ialloc, iallocGet, createInit, createEnter, createFail, createLeave
  <2>5. ASSUME NEW p \in IProc
        PROVE  /\ ~unlinkClear(p) /\ ~linkCount(p) /\ ~linkDir(p) /\ ~linkExists(p) /\ ~linkEnter(p)
               /\ ~linkBad(p) /\ ~Discount(p)
    BY <2>1 DEF unlinkClear, linkCount, linkDir, linkExists, linkEnter, linkBad, Discount
  <2> QED BY <2>2, <2>3, <2>4, <2>5 DEF ItableNext, ItableDone
<1> QED BY <1>1 DEF ivars, Stopped, ItableCoherent, TableFull, InTable, Unref, OpenFileStays

\* The account of references, links and inodes on their way in and out holds
\* in every state, up to the panic of iget() when the table is full.
THEOREM ItInvariant == ItableSpec => [](ItInv \/ Stopped)
<1>1. (ItInv \/ Stopped) /\ [ItableNext]_ivars => (ItInv \/ Stopped)'
  BY StepInv, StutterInv, PanicStops, StoppedInv
<1> QED BY InitInv, <1>1, PTL DEF ItableSpec

\* Two entries never stand for one inode, and the copy in an entry that nobody
\* has locked is what the disk has; the only panic of fs.c and sysfile.c that is
\* reached is that of iget() for an inode that has no entry in a full table.
THEOREM CoherentAlways == ItableSpec => []ItableCoherent
<1>1. ItInv \/ Stopped => ItableCoherent
  BY CoherentNow DEF Stopped
<1> QED BY <1>1, ItInvariant, PTL

\* An open file stays the file that was opened, however small the table.
THEOREM OpenFileAlways == ItableSpec => []OpenFileStays
<1>1. ItInv \/ Stopped => OpenFileStays
  BY OpenFileNow DEF Stopped
<1> QED BY <1>1, ItInvariant, PTL

\* When no call is under way the links of an inode are its names, the references
\* to an entry are the open files, and an inode is allocated as long as it has
\* either, except for those that the race of iputDrop forgot.
THEOREM ExactAlways == ItableSpec => []ItableExact
<1>1. ItInv \/ Stopped => ItableExact
  <2> SUFFICES ASSUME ItInv, AllIdle, ~ipanic
               PROVE  /\ \A i \in Inum : /\ dino[i].alloc <=> Names(i) + Opens(i) > 0 \/ i \in lost
                                         /\ dino[i].alloc => dino[i].nlink = Names(i)
                      /\ \A s \in Slot : /\ itab[s].ref = IF itab[s].ref > 0 THEN Opens(itab[s].inum) ELSE 0
                                         /\ itab[s].holder = 0
                      /\ dhold = 0
    BY DEF ItableExact, Stopped
  <2> USE DEF ItInv
  <2>1. \A p \in IProc : ipr[p].pc = "idle"
    BY DEF AllIdle
  <2>2. ASSUME NEW p \in IProc
        PROVE  /\ ~HasIp(ipr[p]) /\ ~HasSrc(ipr[p]) /\ ~Owes(ipr[p]) /\ ~Locking(ipr[p]) /\ ~InDir(ipr[p])
    BY <2>1 DEF HasIp, HasSrc, Owes, Locking, InDir, Naming, Fresh, Creating, Clearing, InTheWay,
                IpPcs, LockPcs, FreePcs
  <2>3. dhold = 0 /\ \A s \in Slot : itab[s].holder = 0
    <3>1. dhold \in IProc \cup {0} /\ \A s \in Slot : itab[s].holder \in IProc \cup {0}
      BY DEF TypeInv, Entry
    <3> QED BY <2>2, <3>1 DEF DirInv, HoldInv
  <2>4. ASSUME NEW s \in Slot
        PROVE  /\ itab[s].ref = Cardinality(FdOf(s)) /\ itab[s].ref \in Nat
               /\ itab[s].ref = 0 <=> FdOf(s) = {}
    <3>1. IpOf(s) = {} /\ SrcOf(s) = {}
      BY <2>2 DEF IpOf, SrcOf
    <3>2. Cardinality(IpOf(s)) = 0 /\ Cardinality(SrcOf(s)) = 0
      BY <3>1, FS_EmptySet
    <3>3. Cardinality(FdOf(s)) \in Nat /\ (Cardinality(FdOf(s)) = 0 <=> FdOf(s) = {})
      BY ProcSets, CountPositive
    <3>4. itab[s].ref = Cardinality(FdOf(s)) + Cardinality(IpOf(s)) + Cardinality(SrcOf(s))
      BY DEF RefInv
    <3> QED BY <3>2, <3>3, <3>4
  <2> DEFINE Openers(i) == {p \in IProc : ipr[p].fd # 0 /\ itab[ipr[p].fd].inum = i}
  <2>5. ASSUME NEW p \in IProc, ipr[p].fd # 0
        PROVE  ipr[p].fd \in Slot /\ itab[ipr[p].fd].ref > 0
    BY <2>5, AtHand, Referred DEF Touches
  <2>6. ASSUME NEW s \in Slot, itab[s].ref > 0 PROVE Openers(itab[s].inum) = FdOf(s)
    BY <2>5, <2>6, Bounds DEF FdOf, EntryInv
  <2>7. ASSUME NEW s \in Slot
        PROVE  itab[s].ref = IF itab[s].ref > 0 THEN Opens(itab[s].inum) ELSE 0
    <3>1. itab[s].ref > 0 => Opens(itab[s].inum) = Cardinality(FdOf(s))
      BY <2>6 DEF Opens
    <3> HIDE DEF Openers
    <3> QED BY <2>4, <3>1
  <2>8. ASSUME NEW i \in Inum
        PROVE  /\ Opens(i) \in Nat /\ (Opens(i) = 0 <=> ~Entered(i))
    <3>1. IsFiniteSet(Openers(i))
      BY ItableAssumption, FS_Subset DEF ItableAssumption
    <3>2. Openers(i) = {} <=> ~Entered(i)
      <4>1. ASSUME Entered(i) PROVE Openers(i) # {}
        <5>1. PICK s \in Slot : itab[s].ref > 0 /\ itab[s].inum = i
          BY <4>1 DEF Entered
        <5>2. FdOf(s) # {} /\ Openers(i) = FdOf(s)
          BY <2>4, <2>6, <5>1
        <5> QED BY <5>2
      <4>2. ASSUME Openers(i) # {} PROVE Entered(i)
        BY <2>5, <4>2 DEF Entered
      <4> QED BY <4>1, <4>2
    <3>3. Opens(i) = Cardinality(Openers(i))
      BY DEF Opens
    <3>4. Cardinality(Openers(i)) \in Nat /\ (Cardinality(Openers(i)) = 0 <=> Openers(i) = {})
      <4> HIDE DEF Openers
      <4> QED BY <3>1, CountPositive
    <3> QED BY <3>2, <3>3, <3>4
  <2>9. ASSUME NEW i \in Inum, dino[i].alloc PROVE dino[i].nlink = Names(i)
    <3>1. Owing(i) = {}
      BY <2>2 DEF Owing, OwesTo, Debt
    <3>2. Cardinality(Owing(i)) = 0 /\ Names(i) \in Nat
      BY <3>1, FS_EmptySet, NamesNone
    <3> QED BY <2>9, <3>2 DEF LinkInv
  <2>10. ASSUME NEW i \in Inum PROVE dino[i].alloc <=> Names(i) + Opens(i) > 0 \/ i \in lost
    <3>1. Names(i) \in Nat /\ (Names(i) = 0 <=> ~Named(i))
      BY NamesNone
    <3>2. Opens(i) \in Nat /\ (Opens(i) = 0 <=> ~Entered(i))
      BY <2>8
    <3>3. Names(i) + Opens(i) > 0 <=> Named(i) \/ Entered(i)
      <4> HIDE DEF ItInv, Openers
      <4> QED BY <3>1, <3>2
    <3>4. ~Taken(i)
      BY <2>1 DEF Taken
    <3>5. Named(i) \/ Entered(i) => dino[i].alloc
      <4>1. Named(i) => dino[i].alloc
        BY Bounds DEF Named, AllocInv
      <4>2. ASSUME Entered(i) PROVE dino[i].alloc
        <5>1. PICK s \in Slot : itab[s].ref > 0 /\ itab[s].inum = i
          BY <4>2 DEF Entered
        <5>2. FdOf(s) # {}
          BY <2>4, <5>1
        <5>3. PICK p \in IProc : ipr[p].fd = s
          BY <5>2 DEF FdOf
        <5> QED BY <5>1, <5>3 DEF AllocInv, Uses
      <4> QED BY <4>1, <4>2
    <3> QED BY <3>3, <3>4, <3>5 DEF LostInv, Reached
  <2> QED BY <2>3, <2>7, <2>9, <2>10
<1> QED BY <1>1, ItInvariant, PTL

=============================================================================
