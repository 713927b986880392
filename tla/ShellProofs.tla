---------------------------- MODULE ShellProofs -----------------------------
(***************************************************************************)
(* Proofs about module Shell, for any lines and any limits of fork() and   *)
(* pipe().                                                                 *)
(*                                                                         *)
(* ShellInv says, for each point of execute_pipeline(), how many children  *)
(* the shell has that it has not waited for.  The parser stays opaque: it  *)
(* gives a record of commands and a Boolean, and that is all that is used  *)
(* of it.                                                                  *)
(***************************************************************************)
EXTENDS Shell, FiniteSetTheorems, SequenceTheorems,
        WellFoundedInduction, TLAPS

-----------------------------------------------------------------------------
(* The inductive invariant *)

\* The pipeline in execution is a list of commands and a Boolean.
PipelineInv ==
    /\ apipe = [cmds |-> apipe.cmds, wait |-> apipe.wait]
    /\ apipe.wait \in BOOLEAN

KidInv ==
    /\ kid = [k \in Kids |-> kid[k]]
    /\ \A k \in Kids : "st" \in DOMAIN kid[k]

\* The children that the shell still has to wait for.
ToWait ==
    CASE pc \in {"prompt", "parsed"} -> 0
      [] pc \in {"pipe", "fork"} -> IF apipe.wait THEN count ELSE 0
      [] pc = "parent" -> IF apipe.wait THEN count + 1 ELSE 0
      [] OTHER -> count

\* The children are those to wait for and those of background pipelines.
CountInv == pc # "gone" => Cardinality(Children) = bg + ToWait

\* The children that a background pipeline has counted are its own.
BackgroundInv ==
    /\ pc \in {"pipe", "fork"} /\ ~apipe.wait => count <= bg
    /\ pc = "parent" /\ ~apipe.wait => count + 1 <= bg

ShellInv == TypeOK /\ PipelineInv /\ KidInv /\ CountInv /\ BackgroundInv

-----------------------------------------------------------------------------
(* Operators of the model *)

\* A set of natural numbers that is not empty has a least element: the slot
\* that fork() takes and the pipe that pipe() opens exist.
LEMMA LeastExists ==
    ASSUME NEW S \in SUBSET Nat, S # {}
    PROVE  LET m == CHOOSE r \in S : \A s \in S : r <= s
           IN m \in S /\ \A s \in S : m <= s
<1>1. PICK r \in S : \A s \in S : ~ (<<s, r>> \in OpToRel(<, Nat))
  BY NatLessThanWellFounded, WFMin
<1>2. ASSUME NEW s \in S, s < r PROVE FALSE
  <2>1. <<s, r>> \in OpToRel(<, Nat)
    BY <1>2 DEF OpToRel
  <2> QED BY <2>1, <1>1
<1>3. \A s \in S : r <= s
  BY <1>2
<1> QED BY <1>3

\* What the shell uses of the parser's result.
LEMMA PipelineShape ==
    ASSUME NEW line
    PROVE  LET p == ParsePipeline(line)
           IN p = [cmds |-> p.cmds, wait |-> p.wait] /\ p.wait \in BOOLEAN
  BY DEF ParsePipeline

\* Slots can be counted.
LEMMA SlotsFinite ==
    /\ IsFiniteSet(Kids) /\ Cardinality(Kids) = MaxKids
    /\ \A S \in SUBSET Kids : IsFiniteSet(S) /\ Cardinality(S) \in 0..MaxKids
<1>1. IsFiniteSet(Kids) /\ Cardinality(Kids) = MaxKids
  BY ShellAssumption, FS_Interval DEF ShellAssumption, Kids
<1>2. ASSUME NEW S \in SUBSET Kids PROVE IsFiniteSet(S) /\ Cardinality(S) \in 0..MaxKids
  <2>1. IsFiniteSet(S) /\ Cardinality(S) <= MaxKids
    BY <1>1, FS_Subset
  <2> QED BY <2>1, FS_CardinalityType, ShellAssumption DEF ShellAssumption
<1> QED BY <1>1, <1>2

-----------------------------------------------------------------------------
(* Each action preserves the invariant *)

LEMMA ReadLinePreserves ==
    ASSUME ShellInv, NEW line \in Lines, ReadLine(line)
    PROVE  ShellInv'
<1> USE DEF ShellInv, ReadLine
<1>1. TypeOK'
  BY DEF TypeOK
<1>2. PipelineInv'
  BY PipelineShape DEF PipelineInv
<1>3. KidInv'
  BY DEF KidInv
<1>4. CountInv'
  BY DEF CountInv, Children, ToWait
<1>5. BackgroundInv'
  BY DEF BackgroundInv
<1> QED BY <1>1, <1>2, <1>3, <1>4, <1>5

LEMMA EndOfInputPreserves ==
    ASSUME ShellInv, EndOfInput
    PROVE  ShellInv'
<1> USE DEF ShellInv, EndOfInput
<1>1. TypeOK'
  BY DEF TypeOK
<1>2. PipelineInv' /\ KidInv' /\ CountInv' /\ BackgroundInv'
  BY DEF PipelineInv, KidInv, CountInv, BackgroundInv
<1> QED BY <1>1, <1>2

LEMMA StartPreserves ==
    ASSUME ShellInv, Start
    PROVE  ShellInv'
<1> USE DEF ShellInv, Start, Exit
<1>1. TypeOK'
  BY ShellAssumption DEF TypeOK, ShellAssumption
<1>2. PipelineInv'
  <2>1. apipe' = apipe \/ apipe' = NoPipeline
    OBVIOUS
  <2>2. CASE apipe' = apipe
    BY <2>2 DEF PipelineInv
  <2>3. CASE apipe' = NoPipeline
    BY <2>3 DEF PipelineInv, NoPipeline
  <2> QED BY <2>1, <2>2, <2>3
<1>3. KidInv'
  BY DEF KidInv
<1>4. pc' = "pipe" => count' = 0 /\ apipe' = apipe
  OBVIOUS
<1>5. pc' \in {"pipe", "prompt", "gone"} /\ pc = "parsed" /\ Children' = Children /\ bg' = bg
  BY DEF Children
<1>6. CountInv'
  BY <1>4, <1>5 DEF CountInv, ToWait, TypeOK
<1>7. BackgroundInv'
  BY <1>4, <1>5 DEF BackgroundInv, TypeOK
<1> QED BY <1>1, <1>2, <1>3, <1>6, <1>7

LEMMA PipePreserves ==
    ASSUME ShellInv, Pipe
    PROVE  ShellInv'
<1> USE DEF ShellInv, Pipe, Exit
<1> DEFINE q == CHOOSE r \in Unused : \A s \in Unused : r <= s
<1>1. IsPipe /\ Unused # {} => q \in Pipes
  <2>1. Unused \in SUBSET Nat /\ Unused \subseteq Pipes
    BY ShellAssumption DEF ShellAssumption, Unused, Pipes
  <2> QED BY <2>1, LeastExists
<1> HIDE DEF q
<1>2. \/ /\ pc' \in {"fork", "gone"} /\ pipefd' = pipefd /\ full' = full
         /\ fds' = fds \/ fds' = {}
      \/ /\ q \in Pipes /\ pc' = "fork" /\ pipefd' = q
         /\ fds' = fds \cup {R(q), W(q)} /\ full' = [full EXCEPT ![q] = 0]
  BY <1>1 DEF q
<1>3. TypeOK'
  BY <1>2, ShellAssumption DEF TypeOK, R, W, ShellAssumption
<1>4. pc = "pipe" /\ pc' \in {"fork", "gone"}
  BY <1>2
<1>5. PipelineInv' /\ KidInv'
  BY DEF PipelineInv, KidInv
<1>6. CountInv'
  BY <1>4 DEF CountInv, Children, ToWait
<1>7. BackgroundInv'
  BY <1>4 DEF BackgroundInv
<1> QED BY <1>3, <1>5, <1>6, <1>7

LEMMA ForkPreserves ==
    ASSUME ShellInv, Fork
    PROVE  ShellInv'
<1> USE DEF ShellInv, Fork
<1>1. CASE Children = Kids
  <2>1. pc' = "gone" /\ fds' = {} /\ UNCHANGED <<kid, bg>>
    BY <1>1 DEF Exit
  <2>2. TypeOK'
    BY <2>1 DEF TypeOK
  <2> QED BY <2>1, <2>2 DEF PipelineInv, KidInv, CountInv, BackgroundInv
<1>2. CASE Children # Kids
  <2> DEFINE k == CHOOSE j \in Kids \ Children : \A i \in Kids \ Children : j <= i
             new == [st |-> "forked", cmd |-> apipe.cmds[1], ends |-> fds,
                     in |-> Tty, out |-> Tty,
                     next |-> IF IsPipe THEN pipefd ELSE NoPipe,
                     from |-> fd_in]
  <2>1. k \in Kids \ Children
    <3>1. Kids \ Children \in SUBSET Nat /\ Kids \ Children # {}
      BY <1>2, ShellAssumption DEF ShellAssumption, Kids, Children
    <3> QED BY <3>1, LeastExists
  <2>2. kid' = [kid EXCEPT ![k] = new]
    BY <1>2
  <2>3. "st" \in DOMAIN new /\ new.st # "none"
    OBVIOUS
  <2>4. /\ bg' = IF apipe.wait THEN bg ELSE bg + 1
        /\ pc = "fork" /\ pc' = "parent"
        /\ UNCHANGED <<typed, apipe, fd_in, pipefd, count, full, fds>>
    BY <1>2
  <2> HIDE DEF k, new
  <2>5. KidInv'
    BY <2>1, <2>2, <2>3 DEF KidInv
  <2>6. Children' = Children \cup {k} /\ Children \in SUBSET Kids
    BY <2>1, <2>2, <2>3 DEF KidInv, Children
  <2>7. Cardinality(Children') = Cardinality(Children) + 1 /\ Cardinality(Children') \in 0..MaxKids
    <3>1. IsFiniteSet(Children) /\ Children' \in SUBSET Kids
      BY <2>1, <2>6, SlotsFinite
    <3> QED BY <3>1, <2>1, <2>6, FS_AddElement, SlotsFinite
  <2>8. CountInv'
    BY <2>4, <2>7 DEF CountInv, ToWait, TypeOK
  <2>9. BackgroundInv'
    BY <2>4 DEF BackgroundInv, TypeOK
  <2>10. bg' <= MaxKids
    BY <2>4, <2>7, <2>8, ShellAssumption DEF CountInv, ToWait, TypeOK, ShellAssumption
  <2>11. TypeOK'
    BY <2>4, <2>10, ShellAssumption DEF TypeOK, ShellAssumption
  <2> QED BY <2>4, <2>5, <2>8, <2>9, <2>11 DEF PipelineInv
<1> QED BY <1>1, <1>2

LEMMA ParentPreserves ==
    ASSUME ShellInv, Parent
    PROVE  ShellInv'
<1> USE DEF ShellInv, Parent
<1>1. Cardinality(Children) \in 0..MaxKids
  BY SlotsFinite DEF Children
<1>2. count + 1 \in 0..MaxKids
  BY <1>1, ShellAssumption DEF CountInv, ToWait, BackgroundInv, TypeOK, ShellAssumption, PipelineInv
<1>3. TypeOK'
  BY <1>2, ShellAssumption DEF TypeOK, ShellAssumption, NoPipe
<1>4. PipelineInv' /\ (IsPipe => apipe'.wait = apipe.wait)
  BY DEF PipelineInv, NoPipeline
<1>5. KidInv'
  BY DEF KidInv
<1>6. CountInv'
  BY <1>4 DEF CountInv, Children, ToWait, TypeOK, PipelineInv
<1>7. BackgroundInv'
  BY <1>4 DEF BackgroundInv, TypeOK
<1> QED BY <1>3, <1>4, <1>5, <1>6, <1>7

LEMMA WaitPreserves ==
    ASSUME ShellInv, Wait
    PROVE  ShellInv'
<1> USE DEF ShellInv, Wait
<1>1. CASE count = 0
  BY <1>1 DEF TypeOK, PipelineInv, KidInv, CountInv, ToWait, BackgroundInv, Children
<1>2. CASE count # 0
  <2>1. Children # {}
    BY <1>2, FS_EmptySet DEF CountInv, ToWait, TypeOK
  <2>2. PICK k \in Zombies : kid' = [kid EXCEPT ![k] = NoKid]
    BY <1>2, <2>1
  <2>3. count' = count - 1 /\ pc' = pc /\ pc = "wait" /\ k \in Kids /\ k \in Children
    BY <1>2 DEF Zombies, Children
  <2>4. KidInv'
    BY <2>2, <2>3 DEF KidInv, NoKid
  <2>5. Children' = Children \ {k}
    BY <2>2, <2>3 DEF Children, KidInv, NoKid
  <2>6. Cardinality(Children') = Cardinality(Children) - 1
    <3>1. IsFiniteSet(Children)
      BY SlotsFinite DEF Children
    <3> QED BY <3>1, <2>3, <2>5, FS_RemoveElement
  <2>7. TypeOK'
    BY <1>2, <2>3, ShellAssumption DEF TypeOK, ShellAssumption
  <2>8. CountInv' /\ BackgroundInv'
    BY <2>3, <2>6 DEF CountInv, ToWait, TypeOK, BackgroundInv
  <2> QED BY <2>4, <2>7, <2>8 DEF PipelineInv
<1> QED BY <1>1, <1>2

\* A step of a child changes neither the shell nor the number of children,
\* but for an orphan, which init reaps.
LEMMA KidFrame ==
    ASSUME ShellInv, UNCHANGED <<shellVars, bg>>, full' \in [Pipes -> 0..Capacity],
           NEW k \in Kids, NEW c, kid' = [kid EXCEPT ![k] = c], kid[k].st # "none",
           "st" \in DOMAIN c, pc = "gone" \/ c.st # "none"
    PROVE  ShellInv'
<1> USE DEF ShellInv, shellVars
<1>1. TypeOK'
  BY DEF TypeOK
<1>2. KidInv'
  BY DEF KidInv
<1>3. pc # "gone" => Children' = Children
  BY DEF KidInv, Children
<1>4. CountInv' /\ BackgroundInv'
  BY <1>3 DEF CountInv, ToWait, BackgroundInv
<1> QED BY <1>1, <1>2, <1>4 DEF PipelineInv

\* So does the end of a child.
LEMMA EndFrame ==
    ASSUME ShellInv, UNCHANGED <<shellVars, bg>>, full' \in [Pipes -> 0..Capacity],
           NEW k \in Kids, kid[k].st # "none", End(k)
    PROVE  ShellInv'
<1>1. "st" \in DOMAIN Ended(k) /\ (pc = "gone" \/ Ended(k).st # "none")
  BY DEF Ended, NoKid
<1>2. kid' = [kid EXCEPT ![k] = Ended(k)]
  BY DEF End
<1> QED BY <1>1, <1>2, KidFrame

\* And a change of the child's state.
LEMMA StateFrame ==
    ASSUME ShellInv, UNCHANGED <<shellVars, bg>>, full' \in [Pipes -> 0..Capacity],
           NEW k \in Kids, kid[k].st # "none", NEW x, x # "none",
           kid' = [kid EXCEPT ![k].st = x]
    PROVE  ShellInv'
<1> DEFINE c == [kid[k] EXCEPT !.st = x]
<1>1. "st" \in DOMAIN c /\ c.st # "none"
  BY DEF ShellInv, KidInv
<1>2. kid' = [kid EXCEPT ![k] = c]
  OBVIOUS
<1> HIDE DEF c
<1> QED BY <1>1, <1>2, KidFrame

LEMMA KidStepPreserves ==
    ASSUME ShellInv, NEW k \in Kids, KidStep(k) \/ RedirFails(k)
    PROVE  ShellInv'
<1>0. full \in [Pipes -> 0..Capacity]
  BY DEF ShellInv, TypeOK
<1>1. CASE RedirFails(k)
  BY <1>0, <1>1, EndFrame DEF RedirFails
<1>2. CASE Setup(k)
  <2> DEFINE c == kid[k]
             new == [c EXCEPT !.st = "ready", !.next = NoPipe, !.from = NoPipe,
                              !.cmd.in = None, !.cmd.out = None,
                              !.ends = @ \ {R(c.next), W(c.next), R(c.from)},
                              !.out = IF c.cmd.out # None THEN File
                                      ELSE IF c.next # NoPipe THEN W(c.next) ELSE Tty,
                              !.in = IF c.from # NoPipe THEN R(c.from)
                                     ELSE IF c.cmd.in # None THEN File ELSE Tty]
  <2>1. "st" \in DOMAIN new /\ new.st = "ready"
    BY DEF ShellInv, KidInv
  <2>a. kid' = [kid EXCEPT ![k] = new]
    BY <1>2 DEF Setup
  <2>2. UNCHANGED <<shellVars, bg>> /\ full' = full
    BY <1>2 DEF Setup
  <2>3. kid[k].st # "none"
    BY <1>2 DEF Setup
  <2> HIDE DEF new
  <2> QED BY <1>0, <2>1, <2>a, <2>2, <2>3, KidFrame
<1>3. CASE Exec(k)
  <2>1. kid[k].st # "none" /\ UNCHANGED <<shellVars, bg>> /\ full' \in [Pipes -> 0..Capacity]
    BY <1>0, <1>3 DEF Exec
  <2>2. \/ kid' = [kid EXCEPT ![k].st = "writing"]
        \/ kid' = [kid EXCEPT ![k].st = "reading"]
        \/ End(k)
    BY <1>3 DEF Exec
  <2> QED BY <2>1, <2>2, StateFrame, EndFrame
<1>4. CASE Read(k)
  <2>1. kid[k].st # "none" /\ UNCHANGED <<shellVars, bg>>
    BY <1>4 DEF Read
  <2>2. full' \in [Pipes -> 0..Capacity]
    <3>1. full' = full \/ \E q : /\ full[q] > 0
                                 /\ full' = [full EXCEPT ![q] = @ - 1]
      BY <1>4 DEF Read
    <3>2. ASSUME NEW q, full[q] > 0, full' = [full EXCEPT ![q] = @ - 1]
          PROVE  full' \in [Pipes -> 0..Capacity]
      <4>1. CASE q \in Pipes
        <5>1. full[q] \in 0..Capacity /\ full[q] - 1 \in 0..Capacity
          BY <1>0, <3>2, <4>1, ShellAssumption DEF ShellAssumption
        <5> QED BY <1>0, <3>2, <5>1
      <4>2. CASE q \notin Pipes
        BY <1>0, <3>2, <4>2
      <4> QED BY <4>1, <4>2
    <3> QED BY <1>0, <3>1, <3>2
  <2>3. kid' = [kid EXCEPT ![k].st = "writing"] \/ End(k)
    BY <1>4 DEF Read
  <2> QED BY <2>1, <2>2, <2>3, StateFrame, EndFrame
<1>5. CASE Write(k)
  <2>1. kid[k].st # "none" /\ UNCHANGED <<shellVars, bg>>
    BY <1>5 DEF Write
  <2>2. full' \in [Pipes -> 0..Capacity]
    <3>1. full' = full \/ \E q : /\ full[q] < Capacity
                                 /\ full' = [full EXCEPT ![q] = @ + 1]
      BY <1>5 DEF Write
    <3>2. ASSUME NEW q, full[q] < Capacity, full' = [full EXCEPT ![q] = @ + 1]
          PROVE  full' \in [Pipes -> 0..Capacity]
      <4>1. CASE q \in Pipes
        <5>1. full[q] \in 0..Capacity /\ full[q] + 1 \in 0..Capacity
          BY <1>0, <3>2, <4>1, ShellAssumption DEF ShellAssumption
        <5> QED BY <1>0, <3>2, <5>1
      <4>2. CASE q \notin Pipes
        BY <1>0, <3>2, <4>2
      <4> QED BY <4>1, <4>2
    <3> QED BY <1>0, <3>1, <3>2
  <2> DEFINE x == IF Prog(k) = "yes" THEN kid[k].st ELSE "reading"
  <2>3. kid' = [kid EXCEPT ![k].st = x] \/ End(k)
    BY <1>5 DEF Write
  <2>4. x # "none"
    BY <2>1
  <2> HIDE DEF x
  <2> QED BY <2>1, <2>2, <2>3, <2>4, StateFrame, EndFrame
<1> QED BY <1>1, <1>2, <1>3, <1>4, <1>5 DEF KidStep

-----------------------------------------------------------------------------
(* Theorems *)

LEMMA InitShellInv == Init => ShellInv
<1> SUFFICES ASSUME Init PROVE ShellInv
  OBVIOUS
<1> USE DEF Init
<1>1. TypeOK
  BY ShellAssumption DEF TypeOK, ShellAssumption
<1>2. PipelineInv
  BY DEF PipelineInv, NoPipeline
<1>3. KidInv
  BY DEF KidInv, NoKid
<1>4. Cardinality(Children) = 0
  <2>1. Children = {}
    BY DEF Children, NoKid
  <2> QED BY <2>1, FS_EmptySet
<1>5. CountInv
  BY <1>4 DEF CountInv, ToWait
<1>6. BackgroundInv
  BY DEF BackgroundInv
<1> QED BY <1>1, <1>2, <1>3, <1>5, <1>6 DEF ShellInv

LEMMA NextShellInv == ShellInv /\ [Next]_vars => ShellInv'
<1> SUFFICES ASSUME ShellInv, [Next]_vars PROVE ShellInv'
  OBVIOUS
<1>1. ASSUME NEW line \in Lines, ReadLine(line) PROVE ShellInv'
  BY <1>1, ReadLinePreserves
<1>2. CASE EndOfInput
  BY <1>2, EndOfInputPreserves
<1>3. CASE ShellStep
  BY <1>3, StartPreserves, PipePreserves, ForkPreserves, ParentPreserves, WaitPreserves
     DEF ShellStep
<1>4. ASSUME NEW k \in Kids, KidStep(k) \/ RedirFails(k) PROVE ShellInv'
  BY <1>4, KidStepPreserves
<1>5. CASE UNCHANGED vars
  BY <1>5 DEF ShellInv, TypeOK, PipelineInv, KidInv, CountInv, ToWait, BackgroundInv, Children,
        vars, shellVars
<1> QED BY <1>1, <1>2, <1>3, <1>4, <1>5 DEF Next

\* Whatever the lines, the children and their interleaving: the invariant,
\* and with it the types, hold in every state of the shell.
THEOREM ShellInvariant == Spec => []ShellInv
  BY InitShellInv, NextShellInv, PTL DEF Spec

\* execute_pipeline() waits for exactly the children of the foreground
\* pipeline, or for as many as them, in whatever order children end: at the
\* prompt those that are left are as many as were started in the background.
THEOREM ShellCountsChildren == Spec => []ChildrenCounted
<1>1. ShellInv => ChildrenCounted
  <2> SUFFICES ASSUME ShellInv, pc = "prompt" PROVE Cardinality(Children) = bg
    BY DEF ChildrenCounted
  <2> QED BY DEF ShellInv, CountInv, ToWait, TypeOK
<1> QED BY <1>1, ShellInvariant, PTL

-----------------------------------------------------------------------------
(* Descriptors *)

\* No line has more than two commands.  With three the property is false:
\* the shell keeps the read end of the first pipe open (run shell_three).
ShortPipelines ==
    \A line \in Lines : LET s == ParsePipeline(line).cmds
                        IN s \in Seq(Range(s)) /\ Len(s) <= 2

\* What is left of the pipeline, and the pipe ends open at each point: those
\* of the pipe just opened, or the input of the last command.
FdsInv ==
    /\ apipe.cmds \in Seq(Range(apipe.cmds)) /\ Len(apipe.cmds) <= 2
    /\ pc \in {"prompt", "parsed", "wait", "gone"} => fds = {}
    /\ pc \in {"pipe", "fork", "parent"} /\ ~IsPipe => fds \subseteq {R(fd_in)}
    /\ pc = "pipe" /\ IsPipe => fds = {}
    /\ pc \in {"fork", "parent"} /\ IsPipe => fds = {R(pipefd), W(pipefd)}

LEMMA TailIsSeq ==
    ASSUME NEW s, s \in Seq(Range(s)), Len(s) > 1
    PROVE  Tail(s) \in Seq(Range(Tail(s))) /\ Len(Tail(s)) = Len(s) - 1
<1>1. Tail(s) \in Seq(Range(s)) /\ Len(Tail(s)) = Len(s) - 1
  OBVIOUS
<1>2. \A i \in 1..Len(Tail(s)) : Tail(s)[i] \in Range(Tail(s))
  <2>1. DOMAIN Tail(s) = 1..Len(Tail(s))
    BY <1>1
  <2> QED BY <2>1, Zenon DEF Range
<1>3. \A t \in Seq(Range(s)) : t \in [1..Len(t) -> Range(s)] /\ Len(t) \in Nat
  OBVIOUS
<1>4. Tail(s) \in [1..Len(Tail(s)) -> Range(Tail(s))]
  BY <1>1, <1>2, <1>3
<1>5. Seq(Range(Tail(s))) = UNION {[1..n -> Range(Tail(s))] : n \in Nat}
  BY SeqDef
<1>6. Len(Tail(s)) \in Nat
  BY <1>1, <1>3
<1>7. Tail(s) \in UNION {[1..n -> Range(Tail(s))] : n \in Nat}
  BY <1>4, <1>6, Zenon
<1> QED BY <1>1, <1>5, <1>7

LEMMA NextFdsInv == ShortPipelines /\ ShellInv /\ FdsInv /\ [Next]_vars => FdsInv'
<1> SUFFICES ASSUME ShortPipelines, ShellInv, FdsInv, [Next]_vars PROVE FdsInv'
  OBVIOUS
<1> USE DEF FdsInv
<1>1. ASSUME NEW line \in Lines, ReadLine(line) PROVE FdsInv'
  BY <1>1 DEF ReadLine, ShortPipelines
<1>2. CASE EndOfInput
  BY <1>2 DEF EndOfInput
<1>3. CASE Start
  <2>1. NoPipeline.cmds \in Seq(Range(NoPipeline.cmds)) /\ Len(NoPipeline.cmds) = 0
    BY DEF NoPipeline, Range
  <2> QED BY <1>3, <2>1 DEF Start, Exit, IsPipe
<1>4. CASE Pipe
  BY <1>4 DEF Pipe, Exit, IsPipe
<1>5. CASE Fork
  BY <1>5 DEF Fork, Exit, IsPipe
<1>6. CASE Parent
  <2>1. NoPipeline.cmds \in Seq(Range(NoPipeline.cmds)) /\ Len(NoPipeline.cmds) = 0
    BY DEF NoPipeline, Range
  <2>2. CASE IsPipe
    <3>1. apipe'.cmds = Tail(apipe.cmds)
      BY <1>6, <2>2 DEF Parent, ShellInv, PipelineInv
    <3>2. apipe'.cmds \in Seq(Range(apipe'.cmds)) /\ Len(apipe'.cmds) = Len(apipe.cmds) - 1
      BY <2>2, <3>1, TailIsSeq DEF IsPipe
    <3>3. Len(apipe'.cmds) <= 1
      BY <3>2
    <3>4. fds' = {R(pipefd)} /\ fd_in' = pipefd /\ pc' = "pipe"
      BY <1>6, <2>2 DEF Parent, R, W
    <3> QED BY <3>2, <3>3, <3>4 DEF IsPipe
  <2>3. CASE ~IsPipe
    BY <1>6, <2>1, <2>3 DEF Parent
  <2> QED BY <2>2, <2>3
<1>7. CASE Wait
  BY <1>7 DEF Wait, IsPipe
<1>8. ASSUME NEW k \in Kids, KidStep(k) \/ RedirFails(k) PROVE FdsInv'
  BY <1>8 DEF KidStep, Setup, Exec, Read, Write, RedirFails, shellVars, IsPipe
<1>9. CASE UNCHANGED vars
  BY <1>9 DEF vars, shellVars, IsPipe
<1> QED BY <1>1, <1>2, <1>3, <1>4, <1>5, <1>6, <1>7, <1>8, <1>9 DEF Next, ShellStep

\* With one or two commands to a line, the shell is back at the prompt with
\* every pipe it opened closed, although pipe() or fork() may have failed and
\* whatever its children did meanwhile.
THEOREM ShellRestoresFds ==
    ASSUME ShortPipelines
    PROVE  Spec => []FdsRestored
<1>1. Init => FdsInv
  BY DEF Init, FdsInv, NoPipeline, Range
<1>2. ShellInv /\ FdsInv /\ [Next]_vars => FdsInv'
  BY NextFdsInv, ShortPipelines
<1>3. FdsInv => FdsRestored
  BY DEF FdsInv, FdsRestored
<1> QED BY <1>1, <1>2, <1>3, ShellInvariant, PTL DEF Spec
=============================================================================
