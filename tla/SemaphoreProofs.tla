-------------------------- MODULE SemaphoreProofs ---------------------------
(***************************************************************************)
(* Proofs about modules Semaphore and PingPong.                            *)
(*                                                                         *)
(* Calls that overlap in any way but the three that Semaphore names are    *)
(* right, for any number of processes, semaphores and pages, as long as    *)
(* initial values are not negative and nobody uses the index past the end  *)
(* of the table: no sem_up() is lost, name pages are accounted for and no  *)
(* release() panics.  The runs sem_open_race and sem_close_race show what  *)
(* the overlaps do.                                                        *)
(*                                                                         *)
(* On them user/pingpong.c prints one Pong after each Ping, for any number *)
(* of rounds: from fork() on there is one token, and it is the value of    *)
(* one of its two semaphores or is held by one of its two processes, from  *)
(* the end of its sem_down() to the end of its sem_up().                   *)
(***************************************************************************)
EXTENDS PingPong, TLAPS

Discipline == Excluded = {"open", "use", "close"} /\ Values \subseteq Nat /\ NSEM \notin SemArgs

OpenPcs == {"openSet", "openValue", "openLock"}
ClosePcs == {"closeAcquire", "close", "closeFree", "closeRelease"}
LockPcs == {"up", "down", "downDec", "close", "closeFree", "closeRelease"}
OnSem(p, s) == kpc[p] # "user" /\ sem[p] = s

\* The process that opens a semaphore is alone with it; of those that use it
\* at most one closes it.  The semaphore is open until that one is past Close.
AloneInv ==
    \A p \in Procs :
        /\ kpc[p] \in OpenPcs => \A q \in Procs : OnSem(q, sem[p]) => q = p
        /\ kpc[p] \in ClosePcs =>
              \A q \in Procs : kpc[q] \in ClosePcs /\ sem[q] = sem[p] => q = p
        /\ kpc[p] # "user" => sem[p] # NSEM
        /\ kpc[p] \in OpenPcs \cup {"closeFree", "closeRelease"} => granted[sem[p]] = 0
        /\ kpc[p] \in {"closeAcquire", "close"} => granted[sem[p]] = 1

\* The lock of a semaphore is held by the process that is inside it.
LockInv ==
    /\ \A p \in Procs : kpc[p] \in LockPcs => lk[sem[p]] = p
    /\ \A s \in Sem : lk[s] # Unheld => kpc[lk[s]] \in LockPcs /\ sem[lk[s]] = s

\* Values are not negative, and one that was tested is still there.
ValueInv ==
    /\ \A s \in Sem : value[s] >= 0
    /\ \A p \in Procs :
        /\ val[p] >= 0
        /\ kpc[p] = "asleep" => value[sem[p]] = 0
        /\ kpc[p] = "downDec" => value[sem[p]] > 0

\* A semaphore is open from the second step of sem_open() until sem_close().
OpenInv ==
    \A s \in Sem :
        /\ granted[s] \in {0, 1}
        /\ s = NSEM => granted[s] = 0
        /\ s # NSEM => (open[s] <=> \/ granted[s] = 1
                                    \/ \E p \in Procs : sem[p] = s /\ kpc[p] \in {"openValue", "openLock"})

\* A page is the name of one semaphore, which is open or whose sem_close() is
\* about to free it, or on its way to be, or free.
Named(s) == granted[s] = 1 \/ \E p \in Procs : kpc[p] = "closeFree" /\ sem[p] = s
PageInv ==
    /\ \A s \in Sem : Named(s) => name[s] \in Page \ free
    /\ \A p \in Procs : kpc[p] \in OpenPcs => mine[p] \in Page \ free
    /\ \A s, u \in Sem : Named(s) /\ Named(u) /\ name[s] = name[u] => s = u
    /\ \A p, q \in Procs : kpc[p] \in OpenPcs /\ kpc[q] \in OpenPcs /\ mine[p] = mine[q] => p = q
    /\ \A s \in Sem, p \in Procs : Named(s) /\ kpc[p] \in OpenPcs => name[s] # mine[p]
    /\ \A pg \in Page \ free : \/ \E s \in Sem : Named(s) /\ name[s] = pg
                               \/ \E p \in Procs : kpc[p] \in OpenPcs /\ mine[p] = pg

SemInv == SemTypeOK /\ ~panicked /\ AloneInv /\ LockInv /\ ValueInv /\ OpenInv /\ PageInv

-----------------------------------------------------------------------------
(* Every step preserves the invariant. *)

\* A step that neither hands out nor frees a page, and in which nobody begins or
\* ends a sem_open() or is about to free a name, leaves the pages as they are.
LEMMA PageFrame ==
    ASSUME PageInv, UNCHANGED <<name, free>>, \A s \in Sem : Named(s)' <=> Named(s),
           \A q \in Procs : /\ kpc'[q] \in OpenPcs <=> kpc[q] \in OpenPcs
                            /\ kpc[q] \in OpenPcs => mine'[q] = mine[q]
    PROVE  PageInv'
BY DEF PageInv

\* The semaphores that have a name, when no process is at closeFree before or
\* after its step and none opens or closes one.
LEMMA NamedFrame ==
    ASSUME granted' = granted,
           \A q \in Procs : /\ kpc'[q] = "closeFree" <=> kpc[q] = "closeFree"
                            /\ kpc[q] = "closeFree" => sem'[q] = sem[q]
    PROVE  \A s \in Sem : Named(s)' <=> Named(s)
BY DEF Named

\* Nothing happens.
LEMMA SemStutter ==
    ASSUME SemInv, UNCHANGED semVars
    PROVE  SemInv'
<1>1. PageInv'
  BY PageFrame, NamedFrame DEF SemInv, semVars, tableVars, callVars
<1> QED BY <1>1 DEF SemInv, semVars, tableVars, callVars, SemTypeOK, AloneInv, OnSem, LockInv, ValueInv, OpenInv

\* sem_open() up to the test of s->open.
LEMMA OpenCheckPreserves ==
    ASSUME Discipline, SemInv, NEW p \in Procs, NEW s \in SemArgs, NEW v \in Values, MayOpen(s), OpenCheck(p, s, v)
    PROVE  SemInv'
<1> USE SemAssumption DEF SemAssumption, Discipline, SemInv, SemTypeOK
<1>1. /\ s \in Sem /\ kpc[p] = "user" /\ s # NSEM
      /\ open[s] \/ \A q \in Procs : ~OnSem(q, s)
      /\ UNCHANGED <<open, value, lk, name, granted, panicked>>
  BY DEF OpenCheck, MayOpen, Inside, OnSem, SemAt
<1>2. CASE UNCHANGED <<free, callVars>>
  BY <1>1, <1>2, SemStutter DEF semVars, tableVars
<1>3. ASSUME NEW pg \in free, ~open[s], free' = free \ {pg}, sem' = [sem EXCEPT ![p] = s],
             val' = [val EXCEPT ![p] = v], mine' = [mine EXCEPT ![p] = pg], SemGoto(p, "openSet")
      PROVE  SemInv'
  <2>0. granted[s] = 0 /\ \A q \in Procs : ~OnSem(q, s)
    BY <1>1, <1>3 DEF OpenInv
  <2>1. kpc' = [kpc EXCEPT ![p] = "openSet"]
    BY <1>3 DEF SemGoto
  <2>2. SemTypeOK' /\ ~panicked'
    <3>1. kpc' \in [Procs -> SemPcs]
      BY <2>1 DEF SemPcs
    <3> QED BY <1>1, <1>3, <3>1
  <2>3. /\ \A q \in Procs \ {p} : kpc'[q] = kpc[q] /\ sem'[q] = sem[q] /\ mine'[q] = mine[q] /\ val'[q] = val[q]
        /\ kpc'[p] = "openSet" /\ sem'[p] = s /\ mine'[p] = pg /\ val'[p] = v
    BY <1>3, <2>1
  <2>4. AloneInv'
    BY <1>1, <2>0, <2>3 DEF AloneInv, OnSem, OpenPcs, ClosePcs
  <2>5. LockInv'
    BY <1>1, <2>0, <2>3 DEF LockInv, LockPcs
  <2>6. ValueInv'
    BY <1>1, <2>0, <2>3 DEF ValueInv
  <2>7. OpenInv'
    BY <1>1, <2>0, <2>3 DEF OpenInv
  <2>8. PageInv'
    <3>1. \A q \in Procs \ {p} : kpc'[q] \in OpenPcs <=> kpc[q] \in OpenPcs
      BY <2>3
    <3>2. kpc'[p] \in OpenPcs /\ kpc[p] \notin OpenPcs
      BY <1>1, <2>3 DEF OpenPcs
    <3>3. \A u \in Sem : Named(u)' <=> Named(u)
      BY <1>1, <2>3, NamedFrame
    <3> QED BY <1>1, <1>3, <2>3, <3>1, <3>2, <3>3 DEF PageInv
  <2> QED BY <2>2, <2>4, <2>5, <2>6, <2>7, <2>8 DEF SemInv
<1>4. s <= NSEM
  BY <1>1 DEF Sem
<1> QED BY <1>2, <1>3, <1>4 DEF OpenCheck

\* s->open = 1.
LEMMA OpenSetPreserves ==
    ASSUME Discipline, SemInv, NEW p \in Procs, OpenSet(p)
    PROVE  SemInv'
<1> USE SemAssumption DEF SemAssumption, Discipline, SemInv, SemTypeOK, SemAt, S, OpenSet, SemGoto
<1>1. SemTypeOK'
  BY DEF SemPcs
<1>2. ~panicked'
  OBVIOUS
<1>3. AloneInv'
  BY DEF AloneInv, OnSem, OpenPcs, ClosePcs
<1>4. LockInv'
  BY DEF LockInv, LockPcs
<1>5. ValueInv'
  BY DEF ValueInv
<1>6. OpenInv'
  BY DEF OpenInv
<1>7. PageInv'
  <2>1. \A q \in Procs : kpc'[q] \in OpenPcs <=> kpc[q] \in OpenPcs
    BY DEF OpenPcs
  <2>2. \A s \in Sem : Named(s)' <=> Named(s)
    BY NamedFrame
  <2> QED BY <2>1, <2>2, PageFrame
<1> QED BY <1>1, <1>2, <1>3, <1>4, <1>5, <1>6, <1>7 DEF SemInv

\* s->value = value.
LEMMA OpenValuePreserves ==
    ASSUME Discipline, SemInv, NEW p \in Procs, OpenValue(p)
    PROVE  SemInv'
<1> USE SemAssumption DEF SemAssumption, Discipline, SemInv, SemTypeOK, SemAt, S, OpenValue, SemGoto
<1>1. SemTypeOK'
  <2>1. kpc' \in [Procs -> SemPcs]
    BY DEF SemPcs
  <2>2. val[p] \in Int
    <3>1. val[p] = 0 \/ val[p] \in Values
      OBVIOUS
    <3>2. CASE val[p] = 0
      BY <3>2
    <3>3. CASE val[p] \in Values
      <4> HIDE DEF SemInv, Discipline
      <4> QED BY <3>3
    <3> QED BY <3>1, <3>2, <3>3
  <2> QED BY <2>1, <2>2
<1>2. ~panicked'
  OBVIOUS
<1>3. AloneInv'
  BY DEF AloneInv, OnSem, OpenPcs, ClosePcs
<1>4. LockInv'
  BY DEF LockInv, LockPcs
<1>5. ValueInv'
  BY DEF ValueInv, LockInv, LockPcs, AloneInv, OnSem, OpenPcs, ClosePcs
<1>6. OpenInv'
  BY DEF OpenInv
<1>7. PageInv'
  <2>1. \A q \in Procs : kpc'[q] \in OpenPcs <=> kpc[q] \in OpenPcs
    BY DEF OpenPcs
  <2>2. \A s \in Sem : Named(s)' <=> Named(s)
    BY NamedFrame
  <2> QED BY <2>1, <2>2, PageFrame
<1> QED BY <1>1, <1>2, <1>3, <1>4, <1>5, <1>6, <1>7 DEF SemInv

\* initlock(): nobody holds the lock it frees.
LEMMA OpenLockPreserves ==
    ASSUME Discipline, SemInv, NEW p \in Procs, OpenLock(p)
    PROVE  SemInv'
<1> USE SemAssumption DEF SemAssumption, Discipline, SemInv, SemTypeOK, SemAt, S, OpenLock, Return, SemGoto
<1>1. SemTypeOK'
  <2>1. kpc' \in [Procs -> SemPcs]
    BY DEF SemPcs
  <2>2. 0 \in Sem
    BY DEF Sem
  <2> QED BY <2>1, <2>2
<1>2. ~panicked'
  OBVIOUS
<1>3. AloneInv'
  BY DEF AloneInv, OnSem, OpenPcs, ClosePcs
<1>4. LockInv'
  BY DEF LockInv, LockPcs, AloneInv, OnSem, OpenPcs, ClosePcs
<1>5. ValueInv'
  BY DEF ValueInv
<1>6. OpenInv'
  BY DEF OpenInv, AloneInv, OnSem, OpenPcs, ClosePcs
<1>7. PageInv'
  <2>1. \A q \in Procs : ~(kpc[q] = "closeFree" /\ sem[q] = sem[p])
    BY DEF AloneInv, OnSem, OpenPcs
  <2>2. \A u \in Sem \ {sem[p]} : Named(u)' <=> Named(u)
    <3>1. \A q \in Procs : kpc'[q] = "closeFree" <=> kpc[q] = "closeFree"
      OBVIOUS
    <3>2. \A q \in Procs \ {p} : sem'[q] = sem[q]
      OBVIOUS
    <3> QED BY <3>1, <3>2 DEF Named
  <2>4. \A u \in Sem : u = sem[p] => Named(u)' /\ ~Named(u)
    <3>1. granted[sem[p]] = 0 /\ granted'[sem[p]] = 1 /\ sem[p] \in Sem
      BY DEF AloneInv, OpenPcs
    <3> QED BY <2>1, <3>1 DEF Named
  <2>3. /\ \A q \in Procs \ {p} : (kpc'[q] \in OpenPcs <=> kpc[q] \in OpenPcs) /\ mine'[q] = mine[q]
        /\ kpc'[p] \notin OpenPcs /\ kpc[p] \in OpenPcs
    BY DEF OpenPcs
  <2>5. sem[p] \in Sem /\ free' = free /\ name' = [name EXCEPT ![sem[p]] = mine[p]]
    OBVIOUS
  <2>6. PageInv /\ name \in [Sem -> Page \cup {NoPage}]
    OBVIOUS
  <2> HIDE DEF OpenLock, SemInv, SemTypeOK
  <2>7. PICK z \in Sem : z = sem[p]
    BY <2>5
  <2>8. name'[z] = mine[p] /\ \A u \in Sem \ {z} : name'[u] = name[u] /\ (Named(u)' <=> Named(u))
    BY <2>2, <2>5, <2>6, <2>7
  <2>9. Named(z)' /\ ~Named(z)
    BY <2>4, <2>7
  <2>10. \A q \in Procs : kpc'[q] \in OpenPcs => kpc[q] \in OpenPcs /\ mine'[q] = mine[q] /\ q # p
    BY <2>3
  <2>11. /\ \A u \in Sem : Named(u)' => name'[u] \in Page \ free'
         /\ \A q \in Procs : kpc'[q] \in OpenPcs => mine'[q] \in Page \ free'
    BY <2>3, <2>5, <2>6, <2>8, <2>10 DEF PageInv
  <2>12. \A u, x \in Sem : Named(u)' /\ Named(x)' /\ name'[u] = name'[x] => u = x
    BY <2>3, <2>6, <2>8 DEF PageInv
  <2>13. \A u \in Sem, q \in Procs : Named(u)' /\ kpc'[q] \in OpenPcs => name'[u] # mine'[q]
    BY <2>3, <2>6, <2>8, <2>10 DEF PageInv
  <2>14. \A pg \in Page \ free' : \/ \E u \in Sem : Named(u)' /\ name'[u] = pg
                                  \/ \E q \in Procs : kpc'[q] \in OpenPcs /\ mine'[q] = pg
    <3> SUFFICES ASSUME NEW pg \in Page \ free
                 PROVE  \/ \E u \in Sem : Named(u)' /\ name'[u] = pg
                        \/ \E q \in Procs : kpc'[q] \in OpenPcs /\ mine'[q] = pg
      BY <2>5
    <3>1. CASE \E u \in Sem : Named(u) /\ name[u] = pg
      BY <2>8, <2>9, <3>1
    <3>2. CASE \E q \in Procs : kpc[q] \in OpenPcs /\ mine[q] = pg
      BY <2>3, <2>8, <2>9, <3>2
    <3> QED BY <2>6, <3>1, <3>2 DEF PageInv
  <2> QED BY <2>6, <2>10, <2>11, <2>12, <2>13, <2>14 DEF PageInv
<1> QED BY <1>1, <1>2, <1>3, <1>4, <1>5, <1>6, <1>7 DEF SemInv

\* A call on an open semaphore begins; sem_close() when no other one goes on.
LEMMA EnterPreserves ==
    ASSUME Discipline, SemInv, NEW p \in Procs, NEW s \in SemArgs, 
           NEW l \in {"upAcquire", "downAcquire", "closeAcquire"}, Enter(p, s, l), open[s],
           \A q \in Procs : OnSem(q, s) => kpc[q] \notin OpenPcs,
           l = "closeAcquire" => \A q \in Procs : OnSem(q, s) => kpc[q] \notin ClosePcs
    PROVE  SemInv'
<1> USE SemAssumption DEF SemAssumption, Discipline, SemInv, SemTypeOK
<1>1. /\ s \in Sem /\ kpc[p] = "user" /\ s # NSEM
      /\ UNCHANGED <<open, value, lk, name, free, val, mine, granted, panicked>>
  BY DEF Enter, SemAt, tableVars
<1>0. granted[s] = 1
  BY <1>1 DEF OpenInv, OnSem, OpenPcs
<1>2. kpc' = [kpc EXCEPT ![p] = l] /\ sem' = [sem EXCEPT ![p] = s]
  BY <1>1 DEF Enter, SemGoto, OpenInv
<1>3. SemTypeOK' /\ ~panicked'
  <2>1. kpc' \in [Procs -> SemPcs]
    BY <1>2 DEF SemPcs
  <2> QED BY <1>1, <1>2, <2>1
<1>4. /\ \A q \in Procs \ {p} : kpc'[q] = kpc[q] /\ sem'[q] = sem[q]
      /\ kpc'[p] = l /\ sem'[p] = s
  BY <1>2
<1>5. AloneInv'
  BY <1>0, <1>1, <1>4 DEF AloneInv, OnSem, OpenPcs, ClosePcs
<1>6. LockInv'
  BY <1>1, <1>4 DEF LockInv, LockPcs
<1>7. ValueInv'
  BY <1>1, <1>4 DEF ValueInv
<1>8. OpenInv'
  BY <1>1, <1>4 DEF OpenInv
<1>9. PageInv'
  <2>1. \A q \in Procs : kpc'[q] \in OpenPcs <=> kpc[q] \in OpenPcs
    BY <1>1, <1>4 DEF OpenPcs
  <2>2. \A u \in Sem : Named(u)' <=> Named(u)
    BY <1>1, <1>4, NamedFrame
  <2> QED BY <1>1, <2>1, <2>2, PageFrame
<1> QED BY <1>3, <1>5, <1>6, <1>7, <1>8, <1>9 DEF SemInv

\* acquire(), also in sleep() after a wakeup.
LEMMA AcquirePreserves ==
    ASSUME Discipline, SemInv, NEW p \in Procs, 
           NEW l, NEW m, <<l, m>> \in {<<"upAcquire", "up">>, <<"downAcquire", "down">>, <<"closeAcquire", "close">>},
           AcquireStep(p, l, m)
    PROVE  SemInv'
<1> USE SemAssumption DEF SemAssumption, Discipline, SemInv, SemTypeOK, SemAt, S, AcquireStep, Acquire, SemGoto
<1>1. SemTypeOK'
  BY DEF SemPcs
<1>2. ~panicked'
  OBVIOUS
<1>3. AloneInv'
  BY DEF AloneInv, OnSem, OpenPcs, ClosePcs
<1>4. LockInv'
  BY DEF LockInv, LockPcs
<1>5. ValueInv'
  BY DEF ValueInv
<1>6. OpenInv'
  BY DEF OpenInv
<1>7. PageInv'
  <2>1. \A q \in Procs : kpc'[q] \in OpenPcs <=> kpc[q] \in OpenPcs
    BY DEF OpenPcs
  <2>2. \A s \in Sem : Named(s)' <=> Named(s)
    BY NamedFrame
  <2> QED BY <2>1, <2>2, PageFrame
<1> QED BY <1>1, <1>2, <1>3, <1>4, <1>5, <1>6, <1>7 DEF SemInv

\* sem_up(): everybody who sleeps on the semaphore is woken.
LEMMA UpPreserves ==
    ASSUME Discipline, SemInv, NEW p \in Procs, Up(p)
    PROVE  SemInv'
<1> USE SemAssumption DEF SemAssumption, Discipline, SemInv, SemTypeOK, SemAt, S, Up, Release
<1>1. SemTypeOK'
  <2>1. kpc' \in [Procs -> SemPcs]
    BY DEF SemPcs
  <2>2. 0 \in Sem
    BY DEF Sem
  <2> QED BY <2>1, <2>2
<1>2. ~panicked'
  BY DEF LockInv, LockPcs
<1>3. AloneInv'
  BY DEF AloneInv, OnSem, OpenPcs, ClosePcs
<1>4. LockInv'
  BY DEF LockInv, LockPcs
<1>5. ValueInv'
  BY DEF ValueInv
<1>6. OpenInv'
  BY DEF OpenInv
<1>7. PageInv'
  <2>1. \A q \in Procs : kpc'[q] \in OpenPcs <=> kpc[q] \in OpenPcs
    BY DEF OpenPcs
  <2>2. \A s \in Sem : Named(s)' <=> Named(s)
    BY NamedFrame
  <2> QED BY <2>1, <2>2, PageFrame
<1> QED BY <1>1, <1>2, <1>3, <1>4, <1>5, <1>6, <1>7 DEF SemInv

\* sem_down() sleeps: the value is 0.
LEMMA DownSleepPreserves ==
    ASSUME Discipline, SemInv, NEW p \in Procs, DownSleep(p)
    PROVE  SemInv'
<1> USE SemAssumption DEF SemAssumption, Discipline, SemInv, SemTypeOK, SemAt, S, DownSleep, Release, SemGoto
<1>1. SemTypeOK'
  BY DEF SemPcs
<1>2. ~panicked'
  BY DEF LockInv, LockPcs
<1>3. AloneInv'
  BY DEF AloneInv, OnSem, OpenPcs, ClosePcs
<1>4. LockInv'
  BY DEF LockInv, LockPcs
<1>5. ValueInv'
  BY DEF ValueInv
<1>6. OpenInv'
  BY DEF OpenInv
<1>7. PageInv'
  <2>1. \A q \in Procs : kpc'[q] \in OpenPcs <=> kpc[q] \in OpenPcs
    BY DEF OpenPcs
  <2>2. \A s \in Sem : Named(s)' <=> Named(s)
    BY NamedFrame
  <2> QED BY <2>1, <2>2, PageFrame
<1> QED BY <1>1, <1>2, <1>3, <1>4, <1>5, <1>6, <1>7 DEF SemInv

\* sem_down() finds a positive value.
LEMMA DownTestPreserves ==
    ASSUME Discipline, SemInv, NEW p \in Procs, DownTest(p)
    PROVE  SemInv'
<1> USE SemAssumption DEF SemAssumption, Discipline, SemInv, SemTypeOK, SemAt, S, DownTest, SemGoto, tableVars
<1>1. SemTypeOK'
  BY DEF SemPcs
<1>2. ~panicked'
  OBVIOUS
<1>3. AloneInv'
  BY DEF AloneInv, OnSem, OpenPcs, ClosePcs
<1>4. LockInv'
  BY DEF LockInv, LockPcs
<1>5. ValueInv'
  BY DEF ValueInv
<1>6. OpenInv'
  BY DEF OpenInv
<1>7. PageInv'
  <2>1. \A q \in Procs : kpc'[q] \in OpenPcs <=> kpc[q] \in OpenPcs
    BY DEF OpenPcs
  <2>2. \A s \in Sem : Named(s)' <=> Named(s)
    BY NamedFrame
  <2> QED BY <2>1, <2>2, PageFrame
<1> QED BY <1>1, <1>2, <1>3, <1>4, <1>5, <1>6, <1>7 DEF SemInv

\* sem_down() takes one.
LEMMA DownPreserves ==
    ASSUME Discipline, SemInv, NEW p \in Procs, Down(p)
    PROVE  SemInv'
<1> USE SemAssumption DEF SemAssumption, Discipline, SemInv, SemTypeOK, SemAt, S, Down, Release, Return, SemGoto
<1>1. SemTypeOK'
  <2>1. kpc' \in [Procs -> SemPcs]
    BY DEF SemPcs
  <2>2. 0 \in Sem
    BY DEF Sem
  <2> QED BY <2>1, <2>2
<1>2. ~panicked'
  BY DEF LockInv, LockPcs
<1>3. AloneInv'
  BY DEF AloneInv, OnSem, OpenPcs, ClosePcs
<1>4. LockInv'
  BY DEF LockInv, LockPcs
<1>5. ValueInv'
  BY DEF ValueInv, LockInv, LockPcs, AloneInv, OnSem, OpenPcs, ClosePcs
<1>6. OpenInv'
  BY DEF OpenInv
<1>7. PageInv'
  <2>1. \A q \in Procs : (kpc'[q] \in OpenPcs <=> kpc[q] \in OpenPcs) /\ (kpc[q] \in OpenPcs => mine'[q] = mine[q])
    BY DEF OpenPcs
  <2>2. \A s \in Sem : Named(s)' <=> Named(s)
    BY NamedFrame
  <2> QED BY <2>1, <2>2, PageFrame
<1> QED BY <1>1, <1>2, <1>3, <1>4, <1>5, <1>6, <1>7 DEF SemInv

\* kill() wakes a process that sleeps in sem_down().
LEMMA KillWakePreserves ==
    ASSUME Discipline, SemInv, NEW p \in Procs, KillWake(p)
    PROVE  SemInv'
<1> USE SemAssumption DEF SemAssumption, Discipline, SemInv, SemTypeOK, SemAt, S, KillWake, SemGoto, tableVars
<1>1. SemTypeOK'
  BY DEF SemPcs
<1>2. ~panicked'
  OBVIOUS
<1>3. AloneInv'
  BY DEF AloneInv, OnSem, OpenPcs, ClosePcs
<1>4. LockInv'
  BY DEF LockInv, LockPcs
<1>5. ValueInv'
  BY DEF ValueInv
<1>6. OpenInv'
  BY DEF OpenInv
<1>7. PageInv'
  <2>1. \A q \in Procs : kpc'[q] \in OpenPcs <=> kpc[q] \in OpenPcs
    BY DEF OpenPcs
  <2>2. \A s \in Sem : Named(s)' <=> Named(s)
    BY NamedFrame
  <2> QED BY <2>1, <2>2, PageFrame
<1> QED BY <1>1, <1>2, <1>3, <1>4, <1>5, <1>6, <1>7 DEF SemInv

\* s->open = 0: the semaphore keeps its name.
LEMMA ClosePreserves ==
    ASSUME Discipline, SemInv, NEW p \in Procs, Close(p)
    PROVE  SemInv'
<1> USE SemAssumption DEF SemAssumption, Discipline, SemInv, SemTypeOK, SemAt, S, Close, SemGoto
<1>1. SemTypeOK'
  BY DEF SemPcs
<1>2. ~panicked'
  OBVIOUS
<1>3. AloneInv'
  BY DEF AloneInv, OnSem, OpenPcs, ClosePcs
<1>4. LockInv'
  BY DEF LockInv, LockPcs
<1>5. ValueInv'
  BY DEF ValueInv
<1>6. OpenInv'
  BY DEF OpenInv, AloneInv, OnSem, OpenPcs, ClosePcs
<1>7. PageInv'
  <2>1. \A q \in Procs : kpc'[q] \in OpenPcs <=> kpc[q] \in OpenPcs
    BY DEF OpenPcs
  <2>2. \A s \in Sem : Named(s)' <=> Named(s)
    BY DEF Named, AloneInv
  <2> QED BY <2>1, <2>2, PageFrame
<1> QED BY <1>1, <1>2, <1>3, <1>4, <1>5, <1>6, <1>7 DEF SemInv

\* kfree(): the page is the name of this semaphore only.
LEMMA CloseFreePreserves ==
    ASSUME Discipline, SemInv, NEW p \in Procs, CloseFree(p)
    PROVE  SemInv'
<1> USE SemAssumption DEF SemAssumption, Discipline, SemInv, SemTypeOK, SemAt, S, CloseFree, SemGoto
<1>1. SemTypeOK'
  BY DEF SemPcs, NoPage
<1>2. ~panicked'
  OBVIOUS
<1>3. AloneInv'
  BY DEF AloneInv, OnSem, OpenPcs, ClosePcs
<1>4. LockInv'
  BY DEF LockInv, LockPcs
<1>5. ValueInv'
  BY DEF ValueInv
<1>6. OpenInv'
  BY DEF OpenInv
<1>7. PageInv'
  <2>1. \A q \in Procs : kpc'[q] \in OpenPcs <=> kpc[q] \in OpenPcs
    BY DEF OpenPcs
  <2>2. PICK z \in Sem : z = sem[p]
    OBVIOUS
  <2>3. /\ \A u \in Sem \ {z} : Named(u)' <=> Named(u)
        /\ Named(z) /\ ~Named(z)'
    BY <2>2 DEF Named, AloneInv, ClosePcs
  <2>4. name[z] \in Page \ free /\ free' = free \cup {name[z]}
    BY <2>2, <2>3 DEF PageInv, Page, NoPage
  <2>5. UNCHANGED <<name, mine>> /\ PageInv
    OBVIOUS
  <2> HIDE DEF CloseFree, SemInv, SemTypeOK
  <2>6. /\ \A u \in Sem : Named(u)' => name[u] \in Page \ free'
        /\ \A q \in Procs : kpc[q] \in OpenPcs => mine[q] \in Page \ free'
    BY <2>3, <2>4, <2>5 DEF PageInv
  <2>7. \A pg \in Page \ free' : \/ \E u \in Sem : Named(u)' /\ name[u] = pg
                                 \/ \E q \in Procs : kpc[q] \in OpenPcs /\ mine[q] = pg
    BY <2>3, <2>4, <2>5 DEF PageInv
  <2>8. \A u \in Sem : Named(u)' => Named(u)
    BY <2>3
  <2> QED BY <2>1, <2>5, <2>6, <2>7, <2>8 DEF PageInv
<1> QED BY <1>1, <1>2, <1>3, <1>4, <1>5, <1>6, <1>7 DEF SemInv

\* sem_close() releases the lock it still holds.
LEMMA CloseReleasePreserves ==
    ASSUME Discipline, SemInv, NEW p \in Procs, CloseRelease(p)
    PROVE  SemInv'
<1> USE SemAssumption DEF SemAssumption, Discipline, SemInv, SemTypeOK, SemAt, S, CloseRelease, Release, Return, SemGoto
<1>1. SemTypeOK'
  <2>1. kpc' \in [Procs -> SemPcs]
    BY DEF SemPcs
  <2>2. 0 \in Sem
    BY DEF Sem
  <2> QED BY <2>1, <2>2
<1>2. ~panicked'
  BY DEF LockInv, LockPcs
<1>3. AloneInv'
  BY DEF AloneInv, OnSem, OpenPcs, ClosePcs
<1>4. LockInv'
  BY DEF LockInv, LockPcs
<1>5. ValueInv'
  BY DEF ValueInv
<1>6. OpenInv'
  BY DEF OpenInv
<1>7. PageInv'
  <2>1. \A q \in Procs : (kpc'[q] \in OpenPcs <=> kpc[q] \in OpenPcs) /\ (kpc[q] \in OpenPcs => mine'[q] = mine[q])
    BY DEF OpenPcs
  <2>2. \A s \in Sem : Named(s)' <=> Named(s)
    BY NamedFrame
  <2> QED BY <2>1, <2>2, PageFrame
<1> QED BY <1>1, <1>2, <1>3, <1>4, <1>5, <1>6, <1>7 DEF SemInv

-----------------------------------------------------------------------------
(* The theorems. *)

\* The kernel boots with no semaphore in use.
LEMMA InitInv == Discipline /\ SemInit => SemInv
<1> SUFFICES ASSUME Discipline, SemInit PROVE SemInv
  OBVIOUS
<1> USE SemAssumption DEF SemAssumption, Discipline, SemInit
<1>1. SemTypeOK
  <2>1. kpc \in [Procs -> SemPcs]
    BY DEF SemPcs
  <2>2. 0 \in Sem
    BY DEF Sem
  <2>3. panicked \in BOOLEAN
    OBVIOUS
  <2> QED BY <2>1, <2>2, <2>3 DEF SemTypeOK
<1>2. AloneInv /\ LockInv /\ ValueInv /\ ~panicked
  BY DEF AloneInv, OpenPcs, ClosePcs, LockInv, LockPcs, ValueInv
<1>3. OpenInv /\ PageInv
  BY DEF OpenInv, PageInv, OpenPcs, Named
<1> QED BY <1>1, <1>2, <1>3 DEF SemInv

\* Every step of SemNext preserves the invariant.
LEMMA NextInv == Discipline /\ SemInv /\ [SemNext]_semVars => SemInv'
<1> SUFFICES ASSUME Discipline, SemInv, [SemNext]_semVars PROVE SemInv'
  OBVIOUS
<1>1. ASSUME NEW p \in Procs, SemStep(p) PROVE SemInv'
  <2>1. CASE UpAcquire(p) \/ DownAcquire(p) \/ CloseAcquire(p)
    BY <2>1, AcquirePreserves DEF UpAcquire, DownAcquire, CloseAcquire
  <2>2. CASE OpenSet(p) \/ OpenValue(p) \/ OpenLock(p) \/ Up(p)
    BY <2>2, OpenSetPreserves, OpenValuePreserves, OpenLockPreserves, UpPreserves
  <2>3. CASE DownSleep(p) \/ DownTest(p) \/ Down(p) \/ Close(p)
    BY <2>3, DownSleepPreserves, DownTestPreserves, DownPreserves, ClosePreserves
  <2>4. CASE CloseFree(p) \/ CloseRelease(p)
    BY <2>4, CloseFreePreserves, CloseReleasePreserves
  <2> QED BY <1>1, <2>1, <2>2, <2>3, <2>4 DEF SemStep
<1>2. ASSUME NEW p \in Procs, KillWake(p) PROVE SemInv'
  BY <1>2, KillWakePreserves
<1>3. ASSUME NEW p \in Procs, NEW s \in SemArgs, NEW v \in Values, MayOpen(s), OpenCheck(p, s, v) PROVE SemInv'
  BY <1>3, OpenCheckPreserves
<1>4. ASSUME NEW s \in SemArgs, MayUse(s) PROVE \A q \in Procs : OnSem(q, s) => kpc[q] \notin OpenPcs
  BY <1>4 DEF MayUse, Discipline, Opening, Inside, OnSem, OpenPcs
<1>5. ASSUME NEW p \in Procs, NEW s \in SemArgs, MayUse(s), NEW l \in {"upAcquire", "downAcquire", "closeAcquire"},
             Enter(p, s, l), l = "closeAcquire" => \A q \in Procs : OnSem(q, s) => kpc[q] \notin ClosePcs
      PROVE  SemInv'
  <2>1. CASE open[s]
    BY <1>4, <1>5, <2>1, EnterPreserves
  <2>2. CASE ~open[s]
    BY <1>5, <2>2, SemStutter DEF Enter, semVars, callVars
  <2> QED BY <2>1, <2>2
<1>6. ASSUME NEW p \in Procs, NEW s \in SemArgs, MayClose(s), CloseEnter(p, s) PROVE SemInv'
  <2>1. \A q \in Procs : OnSem(q, s) => kpc[q] \notin ClosePcs
    BY <1>6 DEF MayClose, Discipline, Closing, Inside, OnSem, ClosePcs
  <2> QED BY <1>5, <1>6, <2>1 DEF CloseEnter, MayClose
<1>8. ASSUME NEW p \in Procs, NEW s \in SemArgs, MayUse(s), UpEnter(p, s) \/ DownEnter(p, s) PROVE SemInv'
  <2>1. CASE UpEnter(p, s)
    BY <1>5, <1>8, <2>1 DEF UpEnter
  <2>2. CASE DownEnter(p, s)
    BY <1>5, <1>8, <2>2 DEF DownEnter
  <2> QED BY <1>8, <2>1, <2>2
<1>7. CASE UNCHANGED semVars
  BY <1>7, SemStutter
<1> QED BY <1>1, <1>2, <1>3, <1>6, <1>7, <1>8 DEF SemNext

\* The inductive invariant.
THEOREM SemInvariant == ASSUME Discipline PROVE SemSpec => []SemInv
<1>1. SemInit => SemInv
  BY InitInv
<1>2. SemInv /\ [SemNext]_semVars => SemInv'
  BY NextInv
<1> QED BY <1>1, <1>2, PTL DEF SemSpec

\* sem_up() misses no process that sleeps in sem_down(): one sleeps only while
\* the value is 0.
THEOREM SemNoLostUp == ASSUME Discipline PROVE SemSpec => []NoLostUp
<1>1. SemInv => NoLostUp
  BY DEF SemInv, ValueInv, NoLostUp
<1> QED BY <1>1, SemInvariant, PTL

\* The page that kalloc() gave to sem_open() is that semaphore's alone until
\* sem_close() gives it back, whoever is still inside sem_up() or sem_down(), and
\* no release() panics.
THEOREM SemPagesAccounted == ASSUME Discipline PROVE SemSpec => []PagesAccounted
<1>1. SemInv => PagesAccounted
  <2> SUFFICES ASSUME SemInv PROVE PagesAccounted
    OBVIOUS
  <2>1. ASSUME \A s \in Sem : Opening(s) \cup Freeing(s) = {}
        PROVE  Page \ free = {name[s] : s \in {u \in Sem : u < NSEM /\ open[u]}}
    <3>1. \A p \in Procs : kpc[p] \notin OpenPcs /\ kpc[p] # "closeFree"
      BY <2>1 DEF OpenPcs, Opening, Freeing, Inside, SemInv, SemTypeOK
    <3>2. \A s \in Sem : Named(s) <=> granted[s] = 1
      BY <3>1 DEF Named
    <3>3. \A s \in Sem : granted[s] = 1 <=> s < NSEM /\ open[s]
      BY <3>1, SemAssumption DEF SemInv, OpenInv, Sem, SemAssumption, OpenPcs
    <3> QED BY <3>1, <3>2, <3>3 DEF SemInv, PageInv
  <2>2. ASSUME NEW p \in Procs, kpc[p] = "closeFree" PROVE name[S(p)] \in Page \ free
    BY <2>2 DEF SemInv, SemTypeOK, PageInv, Named, S
  <2> QED BY <2>1, <2>2 DEF PagesAccounted, NameInUse, SemInv
<1> QED BY <1>1, SemInvariant, PTL

-----------------------------------------------------------------------------
(* user/pingpong.c: the statements of the program and where the token is. *)

DownPcs == {"downAcquire", "down", "downDec", "asleep"}
LoopAts == {"down", "print", "up"}
CloseAts == {"closeR", "closeT", "exited"}
Ats == LoopAts \cup CloseAts \cup {"unborn", "openR", "openT", "fork"}

PPTypeOK ==
    /\ open \in [Sem -> BOOLEAN] /\ value \in [Sem -> Int]
    /\ kpc \in [Procs -> SemPcs] /\ sem \in [Procs -> Sem] /\ val \in [Procs -> Int]
    /\ at \in [Procs -> Ats]
    /\ n \in [Procs -> Int] /\ r \in Nat /\ t \in Nat
    /\ pings \in Nat /\ pongs \in Nat

\* Before fork() the parent opens r with value 1, then t with value 0.
SetupInv ==
    LET a == at[Parent]  c == kpc[Parent] IN
    /\ a \in {"openR", "openT", "fork"} =>
         /\ at[Child] = "unborn" /\ pings = 0 /\ pongs = 0 /\ n[Parent] = N
         /\ \A s \in Sem : a = "openR" \/ s # r => value[s] = 0
    /\ a = "openR" => c = "user"
    /\ a = "openT" =>
         /\ r \in Sem
         /\ c # "user" => c \in OpenPcs /\ sem[Parent] = r /\ val[Parent] = 1
         /\ c \in {"openLock", "user"} => value[r] = 1
         /\ c \in {"openValue", "openLock", "user"} => open[r]
    /\ a = "fork" =>
         /\ r \in Sem /\ t \in Sem /\ r # t /\ value[r] = 1 /\ open[r]
         /\ c # "user" => c \in OpenPcs /\ sem[Parent] = t /\ val[Parent] = 0
         /\ c \in {"openValue", "openLock", "user"} => open[t]

\* p is between its sem_down() and its sem_up().
Holds(p) ==
    \/ at[p] = "print" /\ kpc[p] = "user"
    \/ at[p] = "up"
    \/ at[p] = "down" /\ kpc[p] \in {"upAcquire", "up"}

\* Where a process of the loop can be in the kernel.
LoopInv ==
    \A p \in {Parent, Child} :
        /\ at[p] = "print" =>
             /\ kpc[p] \in DownPcs \cup {"user"}
             /\ kpc[p] # "user" => sem[p] = DownSem(p)
             /\ kpc[p] = "downDec" => value[DownSem(p)] > 0
        /\ at[p] = "up" => kpc[p] = "user"
        /\ at[p] = "down" =>
             /\ kpc[p] \in {"user", "upAcquire", "up"}
             /\ kpc[p] # "user" => sem[p] = UpSem(p)

\* The child runs as long as the parent does, and is over before it closes.
ChildInv ==
    /\ at[Child] \in {"unborn", "exited"} \cup LoopAts
    /\ at[Child] \in {"unborn", "exited"} => kpc[Child] = "user"
    /\ at[Parent] \in CloseAts => at[Child] \in {"unborn", "exited"}
    /\ at[Parent] # "unborn"

\* The token, and what it says of the lines printed.
TurnInv ==
    at[Parent] \in LoopAts =>
        /\ r \in Sem /\ t \in Sem /\ r # t /\ open[r] /\ open[t]
        /\ n[Parent] = N - pings
        /\ at[Parent] = "print" => n[Parent] > 0
        /\ \/ /\ value[r] = 1 /\ value[t] = 0 /\ ~Holds(Parent) /\ ~Holds(Child)
              /\ pings = pongs
           \/ /\ value[r] = 0 /\ value[t] = 1 /\ ~Holds(Parent) /\ ~Holds(Child)
              /\ pings = pongs + 1
           \/ /\ value[r] = 0 /\ value[t] = 0 /\ Holds(Parent) /\ ~Holds(Child)
              /\ pings = pongs + (IF at[Parent] = "print" THEN 0 ELSE 1)
           \/ /\ value[r] = 0 /\ value[t] = 0 /\ ~Holds(Parent) /\ Holds(Child)
              /\ pings = pongs + (IF at[Child] = "print" THEN 1 ELSE 0)

PPInv == PPTypeOK /\ SetupInv /\ LoopInv /\ ChildInv /\ TurnInv

-----------------------------------------------------------------------------
(* Every step preserves the invariant. *)

\* The indices that pass the range check of sem_open().
LEMMA IndexOk == \A i \in Nat : i <= NSEM => i \in Sem
BY SemAssumption DEF SemAssumption, Sem

\* while(sem_open(r, 1) == 0) r++;
LEMMA OpenRPreserves ==
    ASSUME PPInv, OpenR
    PROVE  PPInv'
<1> USE PingPongAssumption DEF PingPongAssumption, PPInv, PPTypeOK, OpenR, OpenCheck, Ready,
        Step, SemAt, SemGoto, callVars
<1>1. PPTypeOK'
  <2>1. at' \in [Procs -> Ats]
    BY DEF Ats, LoopAts, CloseAts
  <2>2. kpc' \in [Procs -> SemPcs]
    BY DEF SemPcs
  <2>3. sem' = sem \/ (r \in Sem /\ sem' = [sem EXCEPT ![Parent] = r])
    BY IndexOk
  <2>4. sem' \in [Procs -> Sem]
    BY <2>3
  <2> QED BY <2>1, <2>2, <2>4
<1>2. SetupInv'
  <2>1. CASE kpc'[Parent] = "user"
    <3>1. UNCHANGED <<value, kpc, sem, val, at, open>>
      BY <2>1
    <3> QED BY <3>1 DEF SetupInv
  <2>2. CASE kpc'[Parent] # "user"
    <3>1. /\ r \in Sem /\ at'[Parent] = "openT" /\ at'[Child] = at[Child] /\ kpc'[Parent] = "openSet"
          /\ sem'[Parent] = r /\ val'[Parent] = 1 /\ r' = r /\ value' = value
      BY <2>2, SemAssumption DEF Sem, SemAssumption
    <3> QED BY <3>1 DEF SetupInv, OpenPcs
  <2> QED BY <2>1, <2>2
<1>3. LoopInv'
  BY DEF LoopInv, DownPcs, DownSem, UpSem, ChildInv, LoopAts, CloseAts, SetupInv, TurnInv
<1>4. ChildInv'
  BY DEF ChildInv, LoopAts, CloseAts, SetupInv
<1>5. TurnInv'
  BY DEF TurnInv, Holds, LoopAts, CloseAts, ChildInv
<1> QED BY <1>1, <1>2, <1>3, <1>4, <1>5 DEF PPInv

\* while(sem_open(t, 0) == 0) t++;
LEMMA OpenTPreserves ==
    ASSUME PPInv, OpenT
    PROVE  PPInv'
<1> USE PingPongAssumption DEF PingPongAssumption, PPInv, PPTypeOK, OpenT, OpenCheck, Ready,
        Step, SemAt, SemGoto, callVars
<1>1. PPTypeOK'
  <2>1. at' \in [Procs -> Ats]
    BY DEF Ats, LoopAts, CloseAts
  <2>2. kpc' \in [Procs -> SemPcs]
    BY DEF SemPcs
  <2>3. sem' = sem \/ (t \in Sem /\ sem' = [sem EXCEPT ![Parent] = t])
    BY IndexOk
  <2>4. sem' \in [Procs -> Sem]
    BY <2>3
  <2> QED BY <2>1, <2>2, <2>4
<1>2. SetupInv'
  <2>1. CASE kpc'[Parent] = "user"
    <3>1. UNCHANGED <<value, kpc, sem, val, at, open>>
      BY <2>1
    <3> QED BY <3>1 DEF SetupInv
  <2>2. CASE kpc'[Parent] # "user"
    <3>1. /\ t \in Sem /\ ~open[t] /\ at'[Parent] = "fork" /\ at'[Child] = at[Child] /\ kpc'[Parent] = "openSet"
          /\ sem'[Parent] = t /\ val'[Parent] = 0 /\ t' = t /\ UNCHANGED <<r, value, open>>
      BY <2>2, SemAssumption DEF Sem, SemAssumption
    <3> QED BY <3>1 DEF SetupInv, OpenPcs
  <2> QED BY <2>1, <2>2
<1>3. LoopInv'
  BY DEF LoopInv, DownPcs, DownSem, UpSem, ChildInv, LoopAts, CloseAts, SetupInv, TurnInv
<1>4. ChildInv'
  BY DEF ChildInv, LoopAts, CloseAts, SetupInv
<1>5. TurnInv'
  BY DEF TurnInv, Holds, LoopAts, CloseAts, ChildInv
<1> QED BY <1>1, <1>2, <1>3, <1>4, <1>5 DEF PPInv

\* fork() puts the token in semaphore r.
LEMMA ForkPreserves ==
    ASSUME PPInv, Fork
    PROVE  PPInv'
<1> USE PingPongAssumption DEF PingPongAssumption, PPInv, PPTypeOK, Fork, Ready, Step, semVars,
        tableVars, callVars
<1>1. PPTypeOK'
  <2>1. at' \in [Procs -> Ats]
    BY DEF Ats, LoopAts, CloseAts
  <2>2. kpc' \in [Procs -> SemPcs]
    BY DEF SemPcs
  <2> QED BY <2>1, <2>2
<1>2. SetupInv'
  BY DEF SetupInv, OpenPcs, ChildInv, LoopAts, CloseAts
<1>3. LoopInv'
  BY DEF LoopInv, DownPcs, DownSem, UpSem, ChildInv, LoopAts, CloseAts, SetupInv, TurnInv
<1>4. ChildInv'
  BY DEF ChildInv, LoopAts, CloseAts, SetupInv
<1>5. TurnInv'
  BY DEF TurnInv, Holds, LoopAts, CloseAts, ChildInv, LoopInv, DownPcs, DownSem, UpSem, SetupInv, OpenPcs
<1> QED BY <1>1, <1>2, <1>3, <1>4, <1>5 DEF PPInv

\* sem_close(r).
LEMMA CloseRPreserves ==
    ASSUME PPInv, CloseR
    PROVE  PPInv'
<1> USE PingPongAssumption DEF PingPongAssumption, PPInv, PPTypeOK, CloseR, CloseEnter, Enter,
        Ready, Step, SemAt, SemGoto, tableVars
<1>1. PPTypeOK'
  <2>1. at' \in [Procs -> Ats]
    BY DEF Ats, LoopAts, CloseAts
  <2>2. kpc' \in [Procs -> SemPcs]
    BY DEF SemPcs
  <2> QED BY <2>1, <2>2
<1>2. SetupInv'
  BY DEF SetupInv, OpenPcs, ChildInv, LoopAts, CloseAts
<1>3. LoopInv'
  BY DEF LoopInv, DownPcs, DownSem, UpSem, ChildInv, LoopAts, CloseAts, SetupInv, TurnInv
<1>4. ChildInv'
  BY DEF ChildInv, LoopAts, CloseAts, SetupInv
<1>5. TurnInv'
  BY DEF TurnInv, Holds, LoopAts, CloseAts, ChildInv
<1> QED BY <1>1, <1>2, <1>3, <1>4, <1>5 DEF PPInv

\* sem_close(t).
LEMMA CloseTPreserves ==
    ASSUME PPInv, CloseT
    PROVE  PPInv'
<1> USE PingPongAssumption DEF PingPongAssumption, PPInv, PPTypeOK, CloseT, CloseEnter, Enter,
        Ready, Step, SemAt, SemGoto, tableVars
<1>1. PPTypeOK'
  <2>1. at' \in [Procs -> Ats]
    BY DEF Ats, LoopAts, CloseAts
  <2>2. kpc' \in [Procs -> SemPcs]
    BY DEF SemPcs
  <2> QED BY <2>1, <2>2
<1>2. SetupInv'
  BY DEF SetupInv, OpenPcs, ChildInv, LoopAts, CloseAts
<1>3. LoopInv'
  BY DEF LoopInv, DownPcs, DownSem, UpSem, ChildInv, LoopAts, CloseAts, SetupInv, TurnInv
<1>4. ChildInv'
  BY DEF ChildInv, LoopAts, CloseAts, SetupInv
<1>5. TurnInv'
  BY DEF TurnInv, Holds, LoopAts, CloseAts, ChildInv
<1> QED BY <1>1, <1>2, <1>3, <1>4, <1>5 DEF PPInv

\* sem_down() of a semaphore that is open.
LEMMA LoopDownPreserves ==
    ASSUME PPInv, NEW p \in {Parent, Child}, LoopDown(p)
    PROVE  PPInv'
<1> USE PingPongAssumption DEF PingPongAssumption, PPInv, PPTypeOK, LoopDown, DownEnter, Enter,
        Ready, Step, SemAt, SemGoto, tableVars, DownSem
<1>1. PPTypeOK'
  <2>1. at' \in [Procs -> Ats]
    BY DEF Ats, LoopAts, CloseAts
  <2>2. kpc' \in [Procs -> SemPcs]
    BY DEF SemPcs
  <2> QED BY <2>1, <2>2
<1>2. SetupInv'
  BY DEF SetupInv, OpenPcs, ChildInv, LoopAts, CloseAts
<1>3. LoopInv'
  BY DEF LoopInv, DownPcs, DownSem, UpSem, ChildInv, LoopAts, CloseAts, SetupInv, TurnInv
<1>4. ChildInv'
  BY DEF ChildInv, LoopAts, CloseAts, SetupInv
<1>5. TurnInv'
  BY DEF TurnInv, Holds, LoopAts, CloseAts, ChildInv
<1> QED BY <1>1, <1>2, <1>3, <1>4, <1>5 DEF PPInv

\* The process with the token prints its line.
LEMMA PrintLinePreserves ==
    ASSUME PPInv, NEW p \in {Parent, Child}, PrintLine(p)
    PROVE  PPInv'
<1> USE PingPongAssumption DEF PingPongAssumption, PPInv, PPTypeOK, PrintLine, Ready, Step, semVars,
        tableVars, callVars
<1>1. PPTypeOK'
  <2>1. at' \in [Procs -> Ats]
    BY DEF Ats, LoopAts, CloseAts
  <2>2. kpc' \in [Procs -> SemPcs]
    BY DEF SemPcs
  <2> QED BY <2>1, <2>2
<1>2. SetupInv'
  BY DEF SetupInv, OpenPcs, ChildInv, LoopAts, CloseAts
<1>3. LoopInv'
  BY DEF LoopInv, DownPcs, DownSem, UpSem, ChildInv, LoopAts, CloseAts, SetupInv, TurnInv
<1>4. ChildInv'
  BY DEF ChildInv, LoopAts, CloseAts, SetupInv
<1>5. TurnInv'
  BY DEF TurnInv, Holds, LoopAts, CloseAts, ChildInv
<1> QED BY <1>1, <1>2, <1>3, <1>4, <1>5 DEF PPInv

\* sem_up() of a semaphore that is open.
LEMMA LoopUpPreserves ==
    ASSUME PPInv, NEW p \in {Parent, Child}, LoopUp(p)
    PROVE  PPInv'
<1> USE PingPongAssumption DEF PingPongAssumption, PPInv, PPTypeOK, LoopUp, UpEnter, Enter,
        Ready, Step, SemAt, SemGoto, tableVars, UpSem
<1>1. PPTypeOK'
  <2>1. at' \in [Procs -> Ats]
    BY DEF Ats, LoopAts, CloseAts
  <2>2. kpc' \in [Procs -> SemPcs]
    BY DEF SemPcs
  <2> QED BY <2>1, <2>2
<1>2. SetupInv'
  BY DEF SetupInv, OpenPcs, ChildInv, LoopAts, CloseAts
<1>3. LoopInv'
  BY DEF LoopInv, DownPcs, DownSem, UpSem, ChildInv, LoopAts, CloseAts, SetupInv, TurnInv
<1>4. ChildInv'
  BY DEF ChildInv, LoopAts, CloseAts, SetupInv
<1>5. TurnInv'
  BY DEF TurnInv, Holds, LoopAts, CloseAts, ChildInv
<1> QED BY <1>1, <1>2, <1>3, <1>4, <1>5 DEF PPInv

\* The loop is over.
LEMMA LoopEndPreserves ==
    ASSUME PPInv, NEW p \in {Parent, Child}, LoopEnd(p)
    PROVE  PPInv'
<1> USE PingPongAssumption DEF PingPongAssumption, PPInv, PPTypeOK, LoopEnd, Ready, Step, semVars,
        tableVars, callVars
<1>1. PPTypeOK'
  <2>1. at' \in [Procs -> Ats]
    BY DEF Ats, LoopAts, CloseAts
  <2>2. kpc' \in [Procs -> SemPcs]
    BY DEF SemPcs
  <2> QED BY <2>1, <2>2
<1>2. SetupInv'
  BY DEF SetupInv, OpenPcs, ChildInv, LoopAts, CloseAts
<1>3. LoopInv'
  BY DEF LoopInv, DownPcs, DownSem, UpSem, ChildInv, LoopAts, CloseAts, SetupInv, TurnInv
<1>4. ChildInv'
  BY DEF ChildInv, LoopAts, CloseAts, SetupInv
<1>5. TurnInv'
  BY DEF TurnInv, Holds, LoopAts, CloseAts, ChildInv
<1> QED BY <1>1, <1>2, <1>3, <1>4, <1>5 DEF PPInv

\* s->open = 1.
LEMMA PPOpenSetPreserves ==
    ASSUME PPInv, NEW p \in {Parent, Child}, OpenSet(p), UNCHANGED userVars
    PROVE  PPInv'
<1> USE PingPongAssumption DEF PingPongAssumption, PPInv, PPTypeOK, OpenSet, SemGoto, SemAt, S, userVars
<1>1. PPTypeOK'
  BY DEF SemPcs
<1>2. SetupInv'
  BY DEF SetupInv, OpenPcs, ChildInv, LoopAts, CloseAts
<1>3. LoopInv'
  BY DEF LoopInv, DownPcs, DownSem, UpSem, ChildInv, LoopAts, CloseAts, SetupInv, TurnInv
<1>4. ChildInv'
  BY DEF ChildInv, LoopAts, CloseAts, SetupInv
<1>5. TurnInv'
  BY DEF TurnInv, Holds, LoopAts, CloseAts, ChildInv
<1> QED BY <1>1, <1>2, <1>3, <1>4, <1>5 DEF PPInv

\* s->value = value.
LEMMA PPOpenValuePreserves ==
    ASSUME PPInv, NEW p \in {Parent, Child}, OpenValue(p), UNCHANGED userVars
    PROVE  PPInv'
<1> USE PingPongAssumption DEF PingPongAssumption, PPInv, PPTypeOK, OpenValue, SemGoto, SemAt, S, userVars
<1>1. PPTypeOK'
  BY DEF SemPcs
<1>2. SetupInv'
  BY DEF SetupInv, OpenPcs, ChildInv, LoopAts, CloseAts
<1>3. LoopInv'
  <2>1. \A q \in {Parent, Child} : at[q] \notin LoopAts
    BY DEF LoopInv, ChildInv, SetupInv, LoopAts, CloseAts, Ats, DownPcs
  <2> QED BY <2>1 DEF LoopInv, LoopAts
<1>4. ChildInv'
  BY DEF ChildInv, LoopAts, CloseAts, SetupInv
<1>5. TurnInv'
  BY DEF TurnInv, Holds, LoopAts, CloseAts, ChildInv, LoopInv, DownPcs, DownSem, UpSem, SetupInv, OpenPcs
<1> QED BY <1>1, <1>2, <1>3, <1>4, <1>5 DEF PPInv

\* initlock().
LEMMA PPOpenLockPreserves ==
    ASSUME PPInv, NEW p \in {Parent, Child}, OpenLock(p), UNCHANGED userVars
    PROVE  PPInv'
<1> USE PingPongAssumption DEF PingPongAssumption, PPInv, PPTypeOK, OpenLock, Return, SemGoto, SemAt,
        S, userVars
<1>1. PPTypeOK'
  <2>1. kpc' \in [Procs -> SemPcs]
    BY DEF SemPcs
  <2>2. 0 \in Sem
    BY SemAssumption DEF SemAssumption, Sem
  <2> QED BY <2>1, <2>2
<1>2. SetupInv'
  BY DEF SetupInv, OpenPcs, ChildInv, LoopAts, CloseAts
<1>3. LoopInv'
  BY DEF LoopInv, DownPcs, DownSem, UpSem, ChildInv, LoopAts, CloseAts, SetupInv, TurnInv
<1>4. ChildInv'
  BY DEF ChildInv, LoopAts, CloseAts, SetupInv
<1>5. TurnInv'
  BY DEF TurnInv, Holds, LoopAts, CloseAts, ChildInv, LoopInv, DownPcs, DownSem, UpSem, SetupInv, OpenPcs
<1> QED BY <1>1, <1>2, <1>3, <1>4, <1>5 DEF PPInv

\* acquire() in sem_up().
LEMMA UpAcquirePreserves ==
    ASSUME PPInv, NEW p \in {Parent, Child}, UpAcquire(p), UNCHANGED userVars
    PROVE  PPInv'
<1> USE PingPongAssumption DEF PingPongAssumption, PPInv, PPTypeOK, UpAcquire, AcquireStep,
        Acquire, SemGoto, SemAt, S, userVars
<1>1. PPTypeOK'
  BY DEF SemPcs
<1>2. SetupInv'
  BY DEF SetupInv, OpenPcs, ChildInv, LoopAts, CloseAts
<1>3. LoopInv'
  BY DEF LoopInv, DownPcs, DownSem, UpSem, ChildInv, LoopAts, CloseAts, SetupInv, TurnInv
<1>4. ChildInv'
  BY DEF ChildInv, LoopAts, CloseAts, SetupInv
<1>5. TurnInv'
  BY DEF TurnInv, Holds, LoopAts, CloseAts, ChildInv
<1> QED BY <1>1, <1>2, <1>3, <1>4, <1>5 DEF PPInv

\* sem_up() passes the token on.
LEMMA PPUpPreserves ==
    ASSUME PPInv, NEW p \in {Parent, Child}, Up(p), UNCHANGED userVars
    PROVE  PPInv'
<1> USE PingPongAssumption DEF PingPongAssumption, PPInv, PPTypeOK, Up, Release, SemAt, S, userVars
<1>1. PPTypeOK'
  <2>1. kpc' \in [Procs -> SemPcs]
    BY DEF SemPcs
  <2>2. 0 \in Sem
    BY SemAssumption DEF SemAssumption, Sem
  <2> QED BY <2>1, <2>2
<1>2. SetupInv'
  BY DEF SetupInv, OpenPcs, ChildInv, LoopAts, CloseAts
<1>3. LoopInv'
  BY DEF LoopInv, DownPcs, DownSem, UpSem, ChildInv, LoopAts, CloseAts, SetupInv, TurnInv
<1>4. ChildInv'
  BY DEF ChildInv, LoopAts, CloseAts, SetupInv
<1>5. TurnInv'
  BY DEF TurnInv, Holds, LoopAts, CloseAts, ChildInv, LoopInv, DownPcs, DownSem, UpSem, SetupInv, OpenPcs
<1> QED BY <1>1, <1>2, <1>3, <1>4, <1>5 DEF PPInv

\* acquire() in sem_down().
LEMMA DownAcquirePreserves ==
    ASSUME PPInv, NEW p \in {Parent, Child}, DownAcquire(p), UNCHANGED userVars
    PROVE  PPInv'
<1> USE PingPongAssumption DEF PingPongAssumption, PPInv, PPTypeOK, DownAcquire, AcquireStep,
        Acquire, SemGoto, SemAt, S, userVars
<1>1. PPTypeOK'
  BY DEF SemPcs
<1>2. SetupInv'
  BY DEF SetupInv, OpenPcs, ChildInv, LoopAts, CloseAts
<1>3. LoopInv'
  BY DEF LoopInv, DownPcs, DownSem, UpSem, ChildInv, LoopAts, CloseAts, SetupInv, TurnInv
<1>4. ChildInv'
  BY DEF ChildInv, LoopAts, CloseAts, SetupInv
<1>5. TurnInv'
  BY DEF TurnInv, Holds, LoopAts, CloseAts, ChildInv
<1> QED BY <1>1, <1>2, <1>3, <1>4, <1>5 DEF PPInv

\* sem_down() sleeps.
LEMMA PPDownSleepPreserves ==
    ASSUME PPInv, NEW p \in {Parent, Child}, DownSleep(p), UNCHANGED userVars
    PROVE  PPInv'
<1> USE PingPongAssumption DEF PingPongAssumption, PPInv, PPTypeOK, DownSleep, Release, SemGoto, SemAt,
        S, userVars
<1>1. PPTypeOK'
  BY DEF SemPcs
<1>2. SetupInv'
  BY DEF SetupInv, OpenPcs, ChildInv, LoopAts, CloseAts
<1>3. LoopInv'
  BY DEF LoopInv, DownPcs, DownSem, UpSem, ChildInv, LoopAts, CloseAts, SetupInv, TurnInv
<1>4. ChildInv'
  BY DEF ChildInv, LoopAts, CloseAts, SetupInv
<1>5. TurnInv'
  BY DEF TurnInv, Holds, LoopAts, CloseAts, ChildInv
<1> QED BY <1>1, <1>2, <1>3, <1>4, <1>5 DEF PPInv

\* sem_down() finds the token.
LEMMA PPDownTestPreserves ==
    ASSUME PPInv, NEW p \in {Parent, Child}, DownTest(p), UNCHANGED userVars
    PROVE  PPInv'
<1> USE PingPongAssumption DEF PingPongAssumption, PPInv, PPTypeOK, DownTest, SemGoto, tableVars, SemAt,
        S, userVars
<1>1. PPTypeOK'
  BY DEF SemPcs
<1>2. SetupInv'
  BY DEF SetupInv, OpenPcs, ChildInv, LoopAts, CloseAts
<1>3. LoopInv'
  BY DEF LoopInv, DownPcs, DownSem, UpSem, ChildInv, LoopAts, CloseAts, SetupInv, TurnInv
<1>4. ChildInv'
  BY DEF ChildInv, LoopAts, CloseAts, SetupInv
<1>5. TurnInv'
  BY DEF TurnInv, Holds, LoopAts, CloseAts, ChildInv
<1> QED BY <1>1, <1>2, <1>3, <1>4, <1>5 DEF PPInv

\* sem_down() takes the token.
LEMMA PPDownPreserves ==
    ASSUME PPInv, NEW p \in {Parent, Child}, Down(p), UNCHANGED userVars
    PROVE  PPInv'
<1> USE PingPongAssumption DEF PingPongAssumption, PPInv, PPTypeOK, Down, Release, Return, SemGoto,
        SemAt, S, userVars
<1>1. PPTypeOK'
  <2>1. kpc' \in [Procs -> SemPcs]
    BY DEF SemPcs
  <2>2. 0 \in Sem
    BY SemAssumption DEF SemAssumption, Sem
  <2> QED BY <2>1, <2>2
<1>2. SetupInv'
  BY DEF SetupInv, OpenPcs, ChildInv, LoopAts, CloseAts
<1>3. LoopInv'
  <2>1. CASE at[p] = "print"
    <3>1. at[Parent] \in LoopAts
      BY <2>1 DEF ChildInv, SetupInv, LoopAts, CloseAts, Ats
    <3>2. DownSem(Parent) # DownSem(Child) /\ sem[p] = DownSem(p)
      BY <2>1, <3>1 DEF TurnInv, LoopInv, DownSem
    <3>3. \A q \in {Parent, Child} : q # p => value'[DownSem(q)] = value[DownSem(q)]
      BY <3>1, <3>2 DEF DownSem, TurnInv
    <3> QED BY <2>1, <3>3 DEF LoopInv, DownSem, UpSem
  <2>2. CASE at[p] # "print"
    <3>1. \A q \in {Parent, Child} : at[q] \notin LoopAts
      BY <2>2 DEF LoopInv, ChildInv, SetupInv, LoopAts, CloseAts, Ats, OpenPcs
    <3> QED BY <3>1 DEF LoopInv, LoopAts
  <2> QED BY <2>1, <2>2
<1>4. ChildInv'
  BY DEF ChildInv, LoopAts, CloseAts, SetupInv
<1>5. TurnInv'
  BY DEF TurnInv, Holds, LoopAts, CloseAts, ChildInv, LoopInv, DownPcs, DownSem, UpSem, SetupInv, OpenPcs
<1> QED BY <1>1, <1>2, <1>3, <1>4, <1>5 DEF PPInv

\* acquire() in sem_close().
LEMMA CloseAcquirePreserves ==
    ASSUME PPInv, NEW p \in {Parent, Child}, CloseAcquire(p), UNCHANGED userVars
    PROVE  PPInv'
<1> USE PingPongAssumption DEF PingPongAssumption, PPInv, PPTypeOK, CloseAcquire, AcquireStep,
        Acquire, SemGoto, SemAt, S, userVars
<1>1. PPTypeOK'
  BY DEF SemPcs
<1>2. SetupInv'
  BY DEF SetupInv, OpenPcs, ChildInv, LoopAts, CloseAts
<1>3. LoopInv'
  BY DEF LoopInv, DownPcs, DownSem, UpSem, ChildInv, LoopAts, CloseAts, SetupInv, TurnInv
<1>4. ChildInv'
  BY DEF ChildInv, LoopAts, CloseAts, SetupInv
<1>5. TurnInv'
  BY DEF TurnInv, Holds, LoopAts, CloseAts, ChildInv
<1> QED BY <1>1, <1>2, <1>3, <1>4, <1>5 DEF PPInv

\* s->open = 0: the loop is over.
LEMMA PPClosePreserves ==
    ASSUME PPInv, NEW p \in {Parent, Child}, Close(p), UNCHANGED userVars
    PROVE  PPInv'
<1> USE PingPongAssumption DEF PingPongAssumption, PPInv, PPTypeOK, Close, SemGoto, SemAt, S, userVars
<1>1. PPTypeOK'
  BY DEF SemPcs
<1>2. SetupInv'
  BY DEF SetupInv, OpenPcs, ChildInv, LoopAts, CloseAts
<1>3. LoopInv'
  BY DEF LoopInv, DownPcs, DownSem, UpSem, ChildInv, LoopAts, CloseAts, SetupInv, TurnInv
<1>4. ChildInv'
  BY DEF ChildInv, LoopAts, CloseAts, SetupInv
<1>5. TurnInv'
  BY DEF TurnInv, Holds, LoopAts, CloseAts, ChildInv, LoopInv, DownPcs, DownSem, UpSem, SetupInv, OpenPcs
<1> QED BY <1>1, <1>2, <1>3, <1>4, <1>5 DEF PPInv

\* kfree().
LEMMA PPCloseFreePreserves ==
    ASSUME PPInv, NEW p \in {Parent, Child}, CloseFree(p), UNCHANGED userVars
    PROVE  PPInv'
<1> USE PingPongAssumption DEF PingPongAssumption, PPInv, PPTypeOK, CloseFree, SemGoto, SemAt, S, userVars
<1>1. PPTypeOK'
  BY DEF SemPcs
<1>2. SetupInv'
  BY DEF SetupInv, OpenPcs, ChildInv, LoopAts, CloseAts
<1>3. LoopInv'
  BY DEF LoopInv, DownPcs, DownSem, UpSem, ChildInv, LoopAts, CloseAts, SetupInv, TurnInv
<1>4. ChildInv'
  BY DEF ChildInv, LoopAts, CloseAts, SetupInv
<1>5. TurnInv'
  BY DEF TurnInv, Holds, LoopAts, CloseAts, ChildInv, LoopInv, DownPcs, DownSem, UpSem, SetupInv, OpenPcs
<1> QED BY <1>1, <1>2, <1>3, <1>4, <1>5 DEF PPInv

\* sem_close() returns.
LEMMA PPCloseReleasePreserves ==
    ASSUME PPInv, NEW p \in {Parent, Child}, CloseRelease(p), UNCHANGED userVars
    PROVE  PPInv'
<1> USE PingPongAssumption DEF PingPongAssumption, PPInv, PPTypeOK, CloseRelease, Release, Return, SemGoto, SemAt, S, userVars
<1>1. PPTypeOK'
  <2>1. kpc' \in [Procs -> SemPcs]
    BY DEF SemPcs
  <2>2. 0 \in Sem
    BY SemAssumption DEF SemAssumption, Sem
  <2> QED BY <2>1, <2>2
<1>2. SetupInv'
  BY DEF SetupInv, OpenPcs, ChildInv, LoopAts, CloseAts
<1>3. LoopInv'
  BY DEF LoopInv, DownPcs, DownSem, UpSem, ChildInv, LoopAts, CloseAts, SetupInv, TurnInv
<1>4. ChildInv'
  BY DEF ChildInv, LoopAts, CloseAts, SetupInv
<1>5. TurnInv'
  BY DEF TurnInv, Holds, LoopAts, CloseAts, ChildInv, LoopInv, DownPcs, DownSem, UpSem, SetupInv, OpenPcs
<1> QED BY <1>1, <1>2, <1>3, <1>4, <1>5 DEF PPInv

-----------------------------------------------------------------------------
(* The theorem. *)

\* The program starts with neither semaphore open.
LEMMA PPInitInv == PPInit => PPInv
<1> SUFFICES ASSUME PPInit PROVE PPInv
  OBVIOUS
<1> USE PingPongAssumption DEF PingPongAssumption, PPInit
<1>1. PPTypeOK
  <2>1. at \in [Procs -> Ats]
    BY DEF Ats
  <2>2. kpc \in [Procs -> SemPcs]
    BY DEF SemPcs
  <2>3. 0 \in Sem
    BY SemAssumption DEF SemAssumption, Sem
  <2> QED BY <2>1, <2>2, <2>3 DEF PPTypeOK
<1>2. at[Parent] = "openR" /\ at[Child] = "unborn" /\ kpc[Parent] = "user" /\ kpc[Child] = "user"
  OBVIOUS
<1>3. SetupInv
  BY <1>2 DEF SetupInv
<1> QED BY <1>1, <1>2, <1>3 DEF PPInv, LoopInv, ChildInv, TurnInv, LoopAts, CloseAts

\* Every step of the program preserves the invariant.
LEMMA PPNextInv == PPInv /\ [PPNext]_allVars => PPInv'
<1> SUFFICES ASSUME PPInv, [PPNext]_allVars PROVE PPInv'
  OBVIOUS
<1>1. ASSUME NEW p \in {Parent, Child}, UserStep(p) PROVE PPInv'
  <2>1. CASE OpenR \/ OpenT \/ Fork \/ CloseR \/ CloseT
    BY <2>1, OpenRPreserves, OpenTPreserves, ForkPreserves, CloseRPreserves, CloseTPreserves
  <2>2. CASE LoopDown(p) \/ PrintLine(p) \/ LoopUp(p) \/ LoopEnd(p)
    BY <2>2, LoopDownPreserves, PrintLinePreserves, LoopUpPreserves, LoopEndPreserves
  <2> QED BY <1>1, <2>1, <2>2 DEF UserStep
<1>2. ASSUME NEW p \in {Parent, Child}, SemStep(p), UNCHANGED userVars PROVE PPInv'
  <2>1. CASE OpenSet(p) \/ OpenValue(p) \/ OpenLock(p)
    BY <1>2, <2>1, PPOpenSetPreserves, PPOpenValuePreserves, PPOpenLockPreserves
  <2>2. CASE UpAcquire(p) \/ Up(p) \/ CloseAcquire(p) \/ Close(p)
    BY <1>2, <2>2, UpAcquirePreserves, PPUpPreserves, CloseAcquirePreserves, PPClosePreserves
  <2>3. CASE DownAcquire(p) \/ DownSleep(p) \/ DownTest(p) \/ Down(p)
    BY <1>2, <2>3, DownAcquirePreserves, PPDownSleepPreserves, PPDownTestPreserves, PPDownPreserves
  <2>4. CASE CloseFree(p) \/ CloseRelease(p)
    BY <1>2, <2>4, PPCloseFreePreserves, PPCloseReleasePreserves
  <2> QED BY <1>2, <2>1, <2>2, <2>3, <2>4 DEF SemStep
<1>3. CASE UNCHANGED allVars
  BY <1>3 DEF allVars, semVars, tableVars, callVars, userVars, PPInv, PPTypeOK, SetupInv, LoopInv, DownSem,
     UpSem, ChildInv, TurnInv, Holds
<1> QED BY <1>1, <1>2, <1>3 DEF PPNext, PPStep

\* A step prints nothing, or the line whose turn it is.
LEMMA NextPrints == PPInv /\ [PPNext]_allVars => [Abs!Next]_<<pings, pongs>>
<1> SUFFICES ASSUME PPInv, [PPNext]_allVars PROVE Abs!Next \/ UNCHANGED <<pings, pongs>>
  OBVIOUS
<1>1. ASSUME NEW p \in {Parent, Child}, PrintLine(p) PROVE Abs!Next
  <2>1. at[p] = "print" /\ kpc[p] = "user" /\ at[Parent] \in LoopAts
    BY <1>1, PingPongAssumption DEF PrintLine, Ready, PPInv, PPTypeOK, ChildInv, SetupInv, LoopAts, CloseAts,
       Ats, PingPongAssumption
  <2>2. CASE p = Parent
    <3>1. pings = pongs /\ pings < N
      BY <2>1, <2>2, PingPongAssumption DEF PPInv, PPTypeOK, TurnInv, Holds, PingPongAssumption
    <3> QED BY <1>1, <2>2, <3>1 DEF PrintLine, Abs!Next, Abs!Ping
  <2>3. CASE p = Child
    <3>1. pongs < pings
      BY <2>1, <2>3, PingPongAssumption DEF PPInv, PPTypeOK, TurnInv, Holds, PingPongAssumption
    <3> QED BY <1>1, <2>3, <3>1, PingPongAssumption DEF PrintLine, Abs!Next, Abs!Pong, PingPongAssumption
  <2> QED BY <2>2, <2>3
<1>2. ASSUME NEW p \in {Parent, Child}, UserStep(p), ~PrintLine(p) PROVE UNCHANGED <<pings, pongs>>
  BY <1>2 DEF UserStep, OpenR, OpenT, Fork, CloseR, CloseT, LoopDown, LoopUp, LoopEnd
<1> QED BY <1>1, <1>2 DEF PPNext, PPStep, allVars, userVars

\* pingpong prints Ping and Pong in turn, whatever the interleaving of the two
\* processes in the kernel and wherever the free semaphores are.
THEOREM PingPongAlternates == PPSpec => PingThenPong
<1>1. PPInit => Abs!Init
  BY DEF PPInit, Abs!Init
<1> QED BY <1>1, PPInitInv, PPNextInv, NextPrints, PTL DEF PPSpec, PingThenPong
=============================================================================
