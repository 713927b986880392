------------------------------- MODULE Shell --------------------------------
(***************************************************************************)
(* The shell of lab1: mybash.c, builtin.c and execute.c, with the children *)
(* it forks and the pipes between them.                                    *)
(*                                                                         *)
(* After fork() shell and child run concurrently, each with its own table  *)
(* of descriptors: the child sets up its own in one step, which nobody     *)
(* else sees but through the ends of pipes it keeps open.  The programs    *)
(* and the system calls are external: "yes" writes until it gets SIGPIPE,  *)
(* "echo" writes once, "cat" copies its input until the end of file,       *)
(* "head" reads once, and any other name is not found by execvp().         *)
(***************************************************************************)
EXTENDS Parsing, FiniteSets

CONSTANTS
    Lines,     \* lines the user may type
    MaxKids,   \* fork() fails when the shell has this many children
    MaxPipes,  \* pipe() fails when this many pipes are open
    Capacity   \* of a pipe

ASSUME ShellAssumption ==
    /\ MaxKids \in Nat \ {0}
    /\ MaxPipes \in Nat \ {0}
    /\ Capacity \in Nat \ {0}

Kids == 1..MaxKids
NoPipe == 0
Pipes == 1..MaxPipes
R(q) == <<q, "r">>
W(q) == <<q, "w">>
Tty == <<0, "tty">>
File == <<0, "file">>
Builtins == {"cd", "help", "exit"}

VARIABLES
    pc,       \* where the shell is
    typed,    \* the line it has read
    apipe,    \* the pipeline in execution, what is left of it
    fd_in,    \* pipe whose read end is the next command's input
    pipefd,   \* pipe opened for the command at hand
    count,    \* wait_counter
    fds,      \* pipe ends that the shell has open
    kid,      \* the children, by slot
    full,     \* what is in each pipe
    bg        \* history: children of background pipelines

shellVars == <<pc, typed, apipe, fd_in, pipefd, count, fds>>
vars == <<shellVars, kid, full, bg>>

NoKid == [st |-> "none", cmd |-> NewCommand, ends |-> {}, in |-> Tty, out |-> Tty,
          next |-> NoPipe, from |-> NoPipe]
NoPipeline == [cmds |-> <<>>, wait |-> TRUE]

Children == {k \in Kids : kid[k].st # "none"}
Zombies == {k \in Kids : kid[k].st = "zombie"}

\* The ends that child k has open, and those that anybody has.
Ends(k) == kid[k].ends \cup {kid[k].in, kid[k].out}
Held == fds \cup UNION {Ends(k) : k \in Kids}

Init ==
    /\ pc = "prompt" /\ typed = <<>> /\ apipe = NoPipeline
    /\ fd_in = NoPipe /\ pipefd = NoPipe /\ count = 0
    /\ fds = {} /\ kid = [k \in Kids |-> NoKid]
    /\ full = [q \in Pipes |-> 0] /\ bg = 0

-----------------------------------------------------------------------------
(* mybash.c *)

ReadLine(line) ==
    /\ pc = "prompt"
    /\ typed' = line
    /\ apipe' = ParsePipeline(line)
    /\ pc' = "parsed"
    /\ UNCHANGED <<fd_in, pipefd, count, fds, kid, full, bg>>

\* parser_at_eof(): the shell returns from main().
EndOfInput ==
    /\ pc = "prompt"
    /\ pc' = "gone"
    /\ fds' = {}
    /\ UNCHANGED <<typed, apipe, fd_in, pipefd, count, kid, full, bg>>

-----------------------------------------------------------------------------
(* execute_pipeline() *)

BuiltinAlone ==
    Len(apipe.cmds) = 1 /\ apipe.cmds[1].args[1] \in Builtins

\* exit(): the descriptors are closed.
Exit == pc' = "gone" /\ fds' = {}

\* A line without commands, a builtin, or the first turn of the loop.
Start ==
    /\ pc = "parsed"
    /\ typed' = <<>>
    /\ IF apipe.cmds # <<>> /\ ~BuiltinAlone
       THEN pc' = "pipe" /\ count' = 0 /\ UNCHANGED <<apipe, fds>>
       ELSE /\ apipe' = NoPipeline /\ UNCHANGED count
            /\ IF BuiltinAlone /\ apipe.cmds[1].args[1] = "exit" THEN Exit
               ELSE pc' = "prompt" /\ UNCHANGED fds
    /\ UNCHANGED <<fd_in, pipefd, kid, full, bg>>

IsPipe == Len(apipe.cmds) > 1

\* The pipes that nobody has open.
Unused == {q \in Pipes : R(q) \notin Held /\ W(q) \notin Held}

\* execute_scmd(): pipe(), unless the command is the last one.
Pipe ==
    /\ pc = "pipe"
    /\ IF ~IsPipe THEN pc' = "fork" /\ UNCHANGED <<pipefd, fds, full>>
       ELSE IF Unused = {} THEN Exit /\ UNCHANGED <<pipefd, full>>
       ELSE LET q == CHOOSE r \in Unused : \A s \in Unused : r <= s
            IN /\ pipefd' = q
               /\ fds' = fds \cup {R(q), W(q)}
               /\ full' = [full EXCEPT ![q] = 0]
               /\ pc' = "fork"
    /\ UNCHANGED <<typed, apipe, fd_in, count, kid, bg>>

\* fork(): the child gets a copy of every descriptor.
Fork ==
    /\ pc = "fork"
    /\ IF Children = Kids
       THEN Exit /\ UNCHANGED <<kid, bg>>
       ELSE LET k == CHOOSE j \in Kids \ Children : \A i \in Kids \ Children : j <= i
            IN /\ kid' = [kid EXCEPT ![k] =
                            [st |-> "forked", cmd |-> apipe.cmds[1], ends |-> fds,
                             in |-> Tty, out |-> Tty,
                             next |-> IF IsPipe THEN pipefd ELSE NoPipe,
                             from |-> fd_in]]
               /\ bg' = IF apipe.wait THEN bg ELSE bg + 1
               /\ pc' = "parent"
               /\ UNCHANGED fds
    /\ UNCHANGED <<typed, apipe, fd_in, pipefd, count, full>>

\* Mutant: the last command's input stays open in the shell.
ParentKeepsInput ==
    /\ pc = "parent"
    /\ IF IsPipe THEN fds' = fds \ {W(pipefd)} /\ fd_in' = pipefd
                 ELSE UNCHANGED fds /\ fd_in' = NoPipe
    /\ pipefd' = NoPipe
    /\ count' = IF IsPipe \/ apipe.wait THEN count + 1 ELSE 0
    /\ apipe' = IF IsPipe THEN [apipe EXCEPT !.cmds = Tail(@)] ELSE NoPipeline
    /\ pc' = IF IsPipe THEN "pipe" ELSE IF apipe.wait THEN "wait" ELSE "prompt"
    /\ UNCHANGED <<typed, kid, full, bg>>

\* The parent: close what the child uses, count the child, go on.  The
\* locals are dead after the last command.
Parent ==
    /\ pc = "parent"
    /\ IF IsPipe THEN fds' = fds \ {W(pipefd)} /\ fd_in' = pipefd
                 ELSE fds' = fds \ {R(fd_in)} /\ fd_in' = NoPipe
    /\ pipefd' = NoPipe
    /\ count' = IF IsPipe \/ apipe.wait THEN count + 1 ELSE 0
    /\ apipe' = IF IsPipe THEN [apipe EXCEPT !.cmds = Tail(@)] ELSE NoPipeline
    /\ pc' = IF IsPipe THEN "pipe" ELSE IF apipe.wait THEN "wait" ELSE "prompt"
    /\ UNCHANGED <<typed, kid, full, bg>>

\* Mutant: the last wait() is left out.
WaitOneLess ==
    /\ pc = "wait"
    /\ IF count <= 1 THEN pc' = "prompt" /\ UNCHANGED <<count, kid>>
       ELSE /\ \E k \in Zombies : kid' = [kid EXCEPT ![k] = NoKid]
            /\ count' = count - 1
            /\ UNCHANGED pc
    /\ UNCHANGED <<typed, apipe, fd_in, pipefd, fds, full, bg>>

\* wait(NULL), wait_counter times: any child that has ended will do.
Wait ==
    /\ pc = "wait"
    /\ IF count = 0 THEN pc' = "prompt" /\ UNCHANGED <<count, kid>>
       ELSE /\ IF Children = {} THEN UNCHANGED kid
               ELSE \E k \in Zombies : kid' = [kid EXCEPT ![k] = NoKid]
            /\ count' = count - 1
            /\ UNCHANGED pc
    /\ UNCHANGED <<typed, apipe, fd_in, pipefd, fds, full, bg>>

-----------------------------------------------------------------------------
(* A child *)

\* The process ends: its descriptors are closed.  A child of a shell that is
\* gone is reaped by init.
Ended(k) == IF pc = "gone" THEN NoKid
            ELSE [NoKid EXCEPT !.st = "zombie"]
End(k) == kid' = [kid EXCEPT ![k] = Ended(k)]

\* get_fd_redir(): a file that cannot be opened ends the child.
RedirFails(k) ==
    /\ kid[k].st = "forked"
    /\ kid[k].cmd.in # None \/ kid[k].cmd.out # None
    /\ End(k)
    /\ UNCHANGED <<shellVars, full, bg>>

\* Mutant: the child keeps the read end of the pipe it writes to.
SetupKeepsRead(k) ==
    LET c == kid[k] IN
    /\ c.st = "forked"
    /\ kid' = [kid EXCEPT ![k] =
                 [c EXCEPT !.st = "ready", !.next = NoPipe, !.from = NoPipe,
                           !.cmd.in = None, !.cmd.out = None,
                           !.ends = @ \ {W(c.next), R(c.from)},
                           !.out = IF c.cmd.out # None THEN File
                                   ELSE IF c.next # NoPipe THEN W(c.next) ELSE Tty,
                           !.in = IF c.from # NoPipe THEN R(c.from)
                                  ELSE IF c.cmd.in # None THEN File ELSE Tty]]
    /\ UNCHANGED <<shellVars, full, bg>>

\* The pipe, then dup_and_close(): "> f" wins over the pipe, and the pipe
\* over "< f".
Setup(k) ==
    LET c == kid[k] IN
    /\ c.st = "forked"
    /\ kid' = [kid EXCEPT ![k] =
                 [c EXCEPT !.st = "ready", !.next = NoPipe, !.from = NoPipe,
                           !.cmd.in = None, !.cmd.out = None,
                           !.ends = @ \ {R(c.next), W(c.next), R(c.from)},
                           !.out = IF c.cmd.out # None THEN File
                                   ELSE IF c.next # NoPipe THEN W(c.next) ELSE Tty,
                           !.in = IF c.from # NoPipe THEN R(c.from)
                                  ELSE IF c.cmd.in # None THEN File ELSE Tty]]
    /\ UNCHANGED <<shellVars, full, bg>>

\* execvp()
Prog(k) == kid[k].cmd.args[1]
Exec(k) ==
    /\ kid[k].st = "ready"
    /\ CASE Prog(k) \in {"yes", "echo"} -> kid' = [kid EXCEPT ![k].st = "writing"]
         [] Prog(k) \in {"cat", "head"} -> kid' = [kid EXCEPT ![k].st = "reading"]
         [] OTHER -> End(k)
    /\ UNCHANGED <<shellVars, full, bg>>

\* read() of a program: data, the end of file, or wait for one of them.
Read(k) ==
    LET q == kid[k].in[1]
        fromPipe == kid[k].in = R(q)
        got == fromPipe /\ full[q] > 0
        eof == ~got /\ (fromPipe => W(q) \notin Held)
    IN
    /\ kid[k].st = "reading"
    /\ ~got => eof
    /\ full' = IF got THEN [full EXCEPT ![q] = @ - 1] ELSE full
    /\ IF eof \/ Prog(k) = "head" THEN End(k)
       ELSE kid' = [kid EXCEPT ![k].st = "writing"]
    /\ UNCHANGED <<shellVars, bg>>

\* write() of a program: SIGPIPE when nobody can read.
Write(k) ==
    LET q == kid[k].out[1]
        toPipe == kid[k].out = W(q)
        broken == toPipe /\ R(q) \notin Held
    IN
    /\ kid[k].st = "writing"
    /\ toPipe /\ ~broken => full[q] < Capacity
    /\ full' = IF toPipe /\ ~broken THEN [full EXCEPT ![q] = @ + 1] ELSE full
    /\ IF broken \/ Prog(k) = "echo" THEN End(k)
       ELSE kid' = [kid EXCEPT ![k].st = IF Prog(k) = "yes" THEN @ ELSE "reading"]
    /\ UNCHANGED <<shellVars, bg>>

-----------------------------------------------------------------------------
ShellStep == Start \/ Pipe \/ Fork \/ Parent \/ Wait
KidStep(k) == Setup(k) \/ Exec(k) \/ Read(k) \/ Write(k)

Next ==
    \/ \E line \in Lines : ReadLine(line)
    \/ EndOfInput
    \/ ShellStep
    \/ \E k \in Kids : KidStep(k) \/ RedirFails(k)

Spec == Init /\ [][Next]_vars

\* The kernel runs the shell and every child that can run.
FairSpec == Spec /\ WF_vars(ShellStep) /\ \A k \in Kids : WF_vars(KidStep(k))

-----------------------------------------------------------------------------
(* Properties *)

\* Type invariant.
TypeOK ==
    /\ pc \in {"prompt", "parsed", "pipe", "fork", "parent", "wait", "gone"}
    /\ fd_in \in Pipes \cup {NoPipe} /\ pipefd \in Pipes \cup {NoPipe}
    /\ count \in 0..MaxKids
    /\ fds \subseteq Pipes \X {"r", "w"}
    /\ full \in [Pipes -> 0..Capacity]
    /\ bg \in 0..MaxKids

\* A line written as pipeline_to_string() would write it.
Canonical(line) ==
    /\ line # <<>> /\ line[1][1] = "arg"
    /\ \A i \in DOMAIN line :
          /\ line[i] = Amp => i = Len(line)
          /\ line[i][1] \in {"in", "out", "bar"} => line[i - 1][1] \in {"arg", "out", "in"}
          /\ line[i][1] = "out" => line[i - 1][1] = "arg"
          /\ line[i][1] = "in" => line[i - 1][1] \in {"arg", "out"}
          /\ line[i][1] = "arg" => i = 1 \/ line[i - 1][1] \in {"arg", "bar"}
    /\ Last(line) # Bar

\* parse_pipeline() and pipeline_to_string() are inverse: the pipeline of a
\* well-formed line prints as that line.
ParsedAsTyped ==
    pc = "parsed" /\ Canonical(typed) => PipelineToString(apipe) = typed

\* The shell has no pipe open when it is back at the prompt.
FdsRestored == pc = "prompt" => fds = {}

\* wait() is called once for each child of a foreground pipeline: at the
\* prompt the shell has exactly as many children it has not waited for as it
\* has started in the background.
ChildrenCounted == pc = "prompt" => Cardinality(Children) = bg

\* A pipeline of programs that stop at the end of their input or when nobody
\* reads their output brings the prompt back (or the shell exits).
PromptReturns == pc = "wait" ~> pc \in {"prompt", "gone"}
=============================================================================
