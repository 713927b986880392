--------------------------- MODULE MCUserPrograms ---------------------------
(***************************************************************************)
(* The machines on which the user programs run, each an initial state: a   *)
(* test of usertests with the memory and the disk that the test is about,  *)
(* shells with lines to run, a fresh boot, stressfs and grind.  Beside     *)
(* them the text tools and the allocator that the programs are linked      *)
(* with, and the progress of processes (MCProgress): they share no         *)
(* variable with the machines, so TLC explores one at a time: part says    *)
(* which.                                                                  *)
(***************************************************************************)
EXTENDS UserProgs, MCProgress

CONSTANT Which          \* the machines of the run

Elf(names) == [k \in DOMAIN names |-> <<"elf", names[k]>>]
Machine(main, pages, blocks) ==
    [init |-> initLoop, main |-> main, fresh |-> FALSE, names |-> <<"README", "echo", "cat">>,
     files |-> << <<"r", "e">> >> \o Elf(<<"echo", "cat">>), pages |-> pages, blocks |-> blocks]
On(test, pages, blocks) == Machine(run(test) \o <<Exit(0)>>, pages, blocks)
PAGES == 60             \* five processes
MANY == 130             \* more processes than the table holds
BLOCKS == 20
Tests(fs_) == [k \in DOMAIN fs_ |-> On(fs_[k], PAGES, BLOCKS)]

\* A limit of its own: the disk, the inodes, the memory, the process table.
LimitTests == <<
    On(fsfull, PAGES, 9), On(badwrite, PAGES, 3), On(diskfull, PAGES, 8), On(outofinodes, PAGES, BLOCKS),
    On(mem, PAGES, BLOCKS), On(forktest, MANY, BLOCKS), On(forktest, 30, BLOCKS), On(sbrkfail, PAGES, BLOCKS),
    On(execout, 30, BLOCKS), Machine(drivetests(opentest), 20, BLOCKS), On(forkforkfork, 36, BLOCKS) >>

\* The shell runs the lines; then a file holds what they should have put there.
Lines(bins, lines, name, content) ==
    [Machine(<<Fork(sh(lines), "pid", OK), Wait("_", ANY), Expect("st", {0}), Open(N(name), RDONLY, "fd", ANY),
               If("fd", OK, <<Read("fd", 9, ANY)>>, <<>>), Check({content}), Exit(0)>>, PAGES, BLOCKS)
       EXCEPT !.names = bins, !.files = Elf(bins)]
ShellTests ==
    LET ec == <<"echo", "cat">>
    IN  << Lines(ec, << <<"echo", "hi", ">", "x">>, <<"cat", "<", "x", ">", "y">> >>, "y", <<"hi", "nl">>),
           Lines(ec, << <<"echo", "a", "b", "|", "cat", ">", "x">> >>, "x", <<"a", "sp", "b", "nl">>),
           Lines(ec, << <<"(", "echo", "a", ";", "echo", "b", ")", ">", "x">> >>, "x", <<"a", "nl", "b", "nl">>),
           Lines(ec, << <<"echo", "a", "b", ">", "x">>, <<"echo", "c", ">>", "x">> >>, "x", <<"c", "nl", "b", "nl">>),
           Lines(ec, << <<"echo", "a", ">", "x", ">", "y">> >>, "x", <<"a", "nl">>),
           Lines(ec, << <<"echo", "a", "&", ";", "echo", "b", ">", "x">> >>, "x", <<"b", "nl">>),
           Lines(ec, << <<"(", "echo", "a", ">", "x">>, <<"echo", ">">>, <<"nosuch", "<", "x">> >>, "x", <<>>),
           Lines(<<"mkdir", "echo", "rm", "ln">>, << <<"mkdir", "d", "d", "e">>, <<"cd", "d">>, <<"echo", "a", ">", "f">>, <<"cd", "..">>,
                   <<"rm", "d">>, <<"ln", "echo", "x">>, <<"rm", "echo">> >>, "x", <<"elf", "echo">>),
           Lines(<<"zombie", "wc", "kill">>, << <<"zombie">>, <<"wc", "zombie", ">", "x">>, <<"kill">> >>, "x", <<"count">>),
           Lines(<<"ls", "rm">>, << <<"ls", "&">>, <<"rm", "ls">> >>, "ls", <<>>),
           [Machine(sh(<< <<"kill", "2">>, <<"kill", "2">> >>), PAGES, BLOCKS) EXCEPT !.names = <<"kill">>, !.files = Elf(<<"kill">>)] >>

FreshBoot == [Machine(<<>>, PAGES, BLOCKS) EXCEPT !.init = initMain, !.fresh = TRUE, !.names = <<"sh">>, !.files = Elf(<<"sh">>)]

Grind(a, b) == Machine(grindIter(a, b), MANY, BLOCKS)
relink == <<Unlink(N("b"), ANY), Link(Rel(<<"..", "grindir", ".", "..", "a">>), Rel(<<"..", "b">>), ANY)>>
LoadTests == << FreshBoot, Machine(stressfs, PAGES, BLOCKS), Machine(forktestMain, MANY, BLOCKS),
                Grind(grindFile, grindFile), Grind(grindProc, grindFile), On(<<Mkdir(N("grindir"), ANY)>> \o grindPipe, PAGES, BLOCKS), On(grindPipes, MANY, BLOCKS), On(grindForks, MANY, BLOCKS) >>

Machines == Tests(fileTests) \o Tests(processTests) \o LimitTests \o ShellTests \o LoadTests

AllMachines == DOMAIN Machines

\* They are machines of which KernelProofs shows that nothing leaks.
ASSUME MachinesAreMachines == \A k \in DOMAIN Machines : IsMachine(Machines[k])

---------------------------------------------------------------------------
VARIABLES tool, pattern, text, pos, buf, out, cnt, done,     \* TextTools
          heap, mine, gaps                                   \* Umalloc

UpTo(S, n) == UNION {[1..k -> S] : k \in 0..n}
Bodies == UpTo({"a", ".", "*"}, 3)
Anchors == {a \o b \o c : a \in {<<>>, <<"^">>}, b \in UpTo({"a", ".", "*"}, 2), c \in {<<>>, <<"$">>}}
Tools == INSTANCE TextTools
             WITH Patterns <- Bodies \cup Anchors, Texts <- UpTo({"a", "b", "nl"}, 4), BUF <- 4
Memory == INSTANCE Umalloc WITH NALLOC <- 4, LIMIT <- 15, Sizes <- 1..4, Gaps <- {2}

toolVars == <<tool, pattern, text, pos, buf, out, cnt, done>>
memoryVars == <<heap, mine, gaps>>

\* The parts that are not explored begin with one state.
ProgInit ==
    /\ part \in {"machine", "tools", "memory", "fair", "pingpong"}
    /\ IF part = "machine" THEN \E k \in Which : Boot(Machines[k]) ELSE Boot(Machine(<<>>, 0, 0))
    /\ Tools!ToolInit
    /\ part # "tools" => tool = "wc" /\ text = <<>>
    /\ Memory!MallocInit
    /\ ProgressInit

ProgNext ==
    /\ \/ part = "machine" /\ Next /\ UNCHANGED <<toolVars, memoryVars, progressVars>>
       \/ part = "tools" /\ Tools!ToolNext /\ UNCHANGED <<vars, memoryVars, progressVars>>
       \/ part = "memory" /\ Memory!MallocNext /\ UNCHANGED <<vars, toolVars, progressVars>>
       \/ ProgressNext /\ UNCHANGED <<vars, toolVars, memoryVars>>
    /\ UNCHANGED part

ProgSpec ==
    /\ ProgInit /\ [][ProgNext]_<<vars, toolVars, memoryVars, progressVars, part>>
    /\ ProgressFairness

\* grep and wc do not depend on how read() cuts the text (TextTools).
PiecesDontMatter == Tools!PiecesDontMatter

\* malloc() and free() keep the heap in order (Umalloc).
HeapPartition == Memory!HeapPartition
=============================================================================
