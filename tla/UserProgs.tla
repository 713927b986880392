----------------------------- MODULE UserProgs -----------------------------
(***************************************************************************)
(* The user programs of xv6 (directory user) as scripts over the system    *)
(* calls: init, the shell, the small commands, and the programs that are   *)
(* there to load the system (stressfs, forktest, grind).                   *)
(***************************************************************************)
EXTENDS UsertestsProc

---------------------------------------------------------------------------
(* The commands; args are those of exec(), the first the command's name.   *)

CHUNK == BSIZE          \* units that a command reads at a time
EachArg(args, Body(_)) == FlattenSeq([k \in 1..(Len(args) - 1) |-> Body(args[k + 1])])

echo(args) == EachArg(args, LAMBDA a : <<Write("1", <<a>>, ANY), Write("1", <<IF a = Last(args) THEN "nl" ELSE "sp">>, ANY)>>)
              \o <<Exit(0)>>

catFd(fd) == <<
    Read(fd, CHUNK, ANY),
    While("n", Positive, <<WriteBuf("1"), If("n", FAIL, <<Exit(1)>>, <<>>), Read(fd, CHUNK, ANY)>>),
    If("n", FAIL, <<Exit(1)>>, <<>>) >>
cat(args) == (IF Len(args) = 1 THEN catFd("0")
              ELSE EachArg(args, LAMBDA a : <<Open(N(a), RDONLY, "fd", ANY), If("fd", FAIL, <<Exit(1)>>, <<>>)>>
                                            \o catFd("fd") \o <<Close("fd")>>))
             \o <<Exit(0)>>

\* wc: what is counted is in module TextTools; here it reads to the end.
wcFd(fd) == <<Read(fd, CHUNK, ANY), While("n", Positive, <<Read(fd, CHUNK, ANY)>>),
              If("n", FAIL, <<Exit(1)>>, <<>>), Write("1", <<"count">>, ANY)>>
wc(args) == (IF Len(args) = 1 THEN wcFd("0")
             ELSE EachArg(args, LAMBDA a : <<Open(N(a), RDONLY, "fd", ANY), If("fd", FAIL, <<Exit(1)>>, <<>>)>>
                                           \o wcFd("fd") \o <<Close("fd")>>))
            \o <<Exit(0)>>

\* ls of the current directory: an entry may be gone when it is looked at.
ls(args) == <<Open(N("."), RDONLY, "fd", ANY),
              If("fd", OK, <<Fstat("fd"), Read("fd", 1, ANY), While("n", {1}, <<StatEach, Read("fd", 1, ANY)>>), Close("fd")>>, <<>>),
              Exit(0)>>

\* rm and mkdir stop at the first argument that fails.
rm(args) == EachArg(args, LAMBDA a : <<Unlink(N(a), ANY), If("_", FAIL, <<Exit(0)>>, <<>>)>>) \o <<Exit(IF Len(args) < 2 THEN 1 ELSE 0)>>
mkdirCmd(args) == EachArg(args, LAMBDA a : <<Mkdir(N(a), ANY), If("_", FAIL, <<Exit(0)>>, <<>>)>>) \o <<Exit(IF Len(args) < 2 THEN 1 ELSE 0)>>
\* kill: a pid is the register that holds it.
killCmd(args) == EachArg(args, LAMBDA a : <<Kill(a)>>) \o <<Exit(IF Len(args) < 2 THEN 1 ELSE 0)>>
ln(args) == IF Len(args) # 3 THEN <<Exit(1)>> ELSE <<Link(N(args[2]), N(args[3]), ANY), Exit(0)>>
zombie == <<Fork(<<Exit(0)>>, "pid", ANY), If("pid", Positive, <<Sleep>>, <<>>), Exit(0)>>

---------------------------------------------------------------------------
(* The shell (sh.c).  A line is a sequence of tokens, gettoken() having    *)
(* split it; a command is the tree of parsecmd(), or Syntax.               *)

Symbols == {"<", "|", ">", ">>", "&", ";", "(", ")"}
MAXARGS == 4
Syntax == [type |-> "SYNTAX"]
execcmd(argv) == [type |-> "EXEC", argv |-> argv]
redircmd(cmd, file_, mode, fd) == [type |-> "REDIR", cmd |-> cmd, file |-> file_, mode |-> mode, fd |-> fd]
pipecmd(l, r) == [type |-> "PIPE", left |-> l, right |-> r]
listcmd(l, r) == [type |-> "LIST", left |-> l, right |-> r]
backcmd(c) == [type |-> "BACK", cmd |-> c]

peek(ts, toks) == ts # <<>> /\ Head(ts) \in toks
Parsed(cmd, rest) == [cmd |-> cmd, rest |-> rest]
Failed == Parsed(Syntax, <<>>)

\* One redirection wraps the command that has been read so far.
redirect(cmd, op, f) ==
    CASE op = "<"  -> redircmd(cmd, f, RDONLY, "0")
      [] op = ">"  -> redircmd(cmd, f, WRONLY \cup CREATE \cup TRUNC, "1")
      [] op = ">>" -> redircmd(cmd, f, WRONLY \cup CREATE, "1")

RECURSIVE parseredirs(_, _)
parseredirs(cmd, ts) ==
    IF ~peek(ts, {"<", ">", ">>"}) THEN Parsed(cmd, ts)
    ELSE IF Len(ts) < 2 \/ ts[2] \in Symbols THEN Failed
    ELSE parseredirs(redirect(cmd, ts[1], ts[2]), SubSeq(ts, 3, Len(ts)))

\* The arguments go to the EXEC command inside the redirections around it.
RECURSIVE addArg(_, _)
addArg(cmd, a) == IF cmd.type = "EXEC" THEN [cmd EXCEPT !.argv = Append(@, a)]
                  ELSE [cmd EXCEPT !.cmd = addArg(@, a)]

RECURSIVE argLoop(_, _, _)
argNext(r, argc) == IF r.cmd = Syntax THEN r ELSE argLoop(r.cmd, r.rest, argc)
argLoop(cmd, ts, argc) ==
    IF ts = <<>> \/ peek(ts, {"|", ")", "&", ";"}) THEN Parsed(cmd, ts)
    ELSE IF Head(ts) \in Symbols \/ argc + 1 >= MAXARGS THEN Failed
    ELSE argNext(parseredirs(addArg(cmd, Head(ts)), Tail(ts)), argc + 1)

RECURSIVE parseline(_), parsepipe(_), backLoop(_, _)
blockEnd(l) == IF l.cmd = Syntax \/ ~peek(l.rest, {")"}) THEN Failed ELSE parseredirs(l.cmd, Tail(l.rest))
parseblock(ts) == blockEnd(parseline(Tail(ts)))
parseexec(ts) == IF peek(ts, {"("}) THEN parseblock(ts) ELSE argNext(parseredirs(execcmd(<<>>), ts), 0)

pipeJoin(cmd, r) == IF r.cmd = Syntax THEN r ELSE Parsed(pipecmd(cmd, r.cmd), r.rest)
pipeRest(l) == IF l.cmd = Syntax \/ ~peek(l.rest, {"|"}) THEN l ELSE pipeJoin(l.cmd, parsepipe(Tail(l.rest)))
parsepipe(ts) == pipeRest(parseexec(ts))

backLoop(cmd, ts) == IF peek(ts, {"&"}) THEN backLoop(backcmd(cmd), Tail(ts)) ELSE Parsed(cmd, ts)
listJoin(cmd, r) == IF r.cmd = Syntax THEN r ELSE Parsed(listcmd(cmd, r.cmd), r.rest)
listRest(b) == IF peek(b.rest, {";"}) THEN listJoin(b.cmd, parseline(Tail(b.rest))) ELSE b
lineRest(p) == IF p.cmd = Syntax THEN p ELSE listRest(backLoop(p.cmd, p.rest))
parseline(ts) == lineRest(parsepipe(ts))

lineEnd(l) == IF l.rest # <<>> THEN Syntax ELSE l.cmd
parsecmd(ts) == lineEnd(parseline(ts))

\* runcmd() never returns; "pid" is -1 after a fork1() that panics.
fork1(child, rest) == <<Fork(child, "pid", ANY), If("pid", FAIL, <<Exit(1)>>, rest)>>

RECURSIVE runcmd(_)
runcmd(cmd) ==
    CASE cmd.type = "SYNTAX" -> <<Exit(1)>>
      [] cmd.type = "EXEC" -> IF cmd.argv = <<>> THEN <<Exit(1)>> ELSE <<Exec(N(cmd.argv[1]), cmd.argv, ANY), Exit(0)>>
      [] cmd.type = "REDIR" -> <<Close(cmd.fd), Open(N(cmd.file), cmd.mode, "fd", ANY), If("fd", FAIL, <<Exit(1)>>, runcmd(cmd.cmd))>>
      [] cmd.type = "LIST" -> fork1(runcmd(cmd.left), <<Wait("_", ANY)>> \o runcmd(cmd.right))
      [] cmd.type = "BACK" -> fork1(runcmd(cmd.cmd), <<Exit(0)>>)
      [] cmd.type = "PIPE" ->
           <<MkPipe(ANY)>>
           \o fork1(<<Close("1"), Dup("w", "_", ANY), Close("r"), Close("w")>> \o runcmd(cmd.left),
                fork1(<<Close("0"), Dup("r", "_", ANY), Close("r"), Close("w")>> \o runcmd(cmd.right),
                  <<Close("r"), Close("w"), Wait("_", ANY), Wait("_", ANY), Exit(0)>>))

\* main() of the shell on the given lines; cd is run by the shell itself.
sh(lines) ==
    <<Open(N("console"), RDWR, "fd", ANY), While("fd", 0..2, <<Open(N("console"), RDWR, "fd", ANY)>>),
      If("fd", OK, <<Close("fd")>>, <<>>)>>
    \o FlattenSeq([k \in DOMAIN lines |->
         <<Write("2", <<"$">>, ANY)>>
         \o (IF lines[k][1] = "cd" THEN <<Chdir(N(lines[k][2]), ANY)>>
             ELSE fork1(runcmd(parsecmd(lines[k])), <<Wait("_", ANY)>>))])
    \o <<Exit(0)>>

---------------------------------------------------------------------------
(* init: the console, then a shell for ever.                               *)

initLoop == <<While("0", {0}, <<Wait("_", ANY)>>)>>
\* The shell gets the lowest slot, so its pid is 2 every time.
initMain == <<
    Open(N("console"), RDWR, "fd", ANY),
    If("fd", FAIL, <<Mknod(N("console"), ANY), Open(N("console"), RDWR, "fd", ANY)>>, <<>>),
    Dup("0", "_", {1}), Dup("0", "_", {2}),
    While("0", {0}, <<
      Fork(<<Exec(N("sh"), <<"sh">>, FAIL), Exit(1)>>, "pid", {2}),
      Set("m", 0), While("m", ANY \ {2}, <<Wait("m", OK)>>) >>) >>

---------------------------------------------------------------------------
(* Load.                                                                   *)

\* stressfs: each process of the chain of forks writes and reads a file
\* of its own.
stressfs ==
    LET work(k) == <<Open(Numbered("s", 3)[k], CREATE \cup RDWR, "fd", ANY)>>
                   \o Repeat(LOOP, <<Write("fd", Fill("a", 2), ANY)>>)
                   \o <<Close("fd"), Open(Numbered("s", 3)[k], RDONLY, "fd", ANY)>>
                   \o Repeat(LOOP, <<Read("fd", 2, ANY)>>) \o <<Close("fd"), Wait("_", ANY), Exit(0)>>
    IN  <<Fork(<<Fork(work(3), "pid", ANY)>> \o work(2), "pid", ANY)>> \o work(1)

\* forktest.c: like the test of usertests, with the process table as limit.
forktestMain == forktest \o <<Exit(0)>>

\* grind: what the two children of iter() may do; numbers as in go().
Fork1(child, rest) == <<Fork(child, "pid", ANY), If("pid", FAIL, <<Exit(1)>>, rest)>>
grindFile == {
    CloseOpen(Rel(<<"grindir", "..", "a">>), CREATE \cup RDWR),                                       \*  1
    CloseOpen(Rel(<<"grindir", "..", "grindir", "..", "b">>), CREATE \cup RDWR),                      \*  2
    <<Unlink(Rel(<<"grindir", "..", "a">>), ANY)>>,                                                   \*  3
    <<Chdir(N("grindir"), {0}), Unlink(Rel(<<"..", "b">>), ANY), Chdir(Abs(<<>>), ANY)>>,             \*  4
    <<Close("fd"), Open(Abs(<<"grindir", "..", "a">>), CREATE \cup RDWR, "fd", ANY),
      Write("fd", Fill("x", 3), ANY), Read("fd", 3, ANY)>>,                                           \*  5, 7, 8
    <<Close("fd"), Open(Abs(<<".", "grindir", ".", "..", "b">>), CREATE \cup RDWR, "fd", ANY)>>,      \*  6
    <<Mkdir(Rel(<<"grindir", "..", "a">>), ANY)>>
      \o CloseOpen(Rel(<<"a", "..", "a", ".", "a">>), CREATE \cup RDWR) \o <<Unlink(Rel(<<"a", "a">>), ANY)>>,  \*  9
    <<Mkdir(Abs(<<"..", "b">>), ANY)>>
      \o CloseOpen(Rel(<<"grindir", "..", "b", "b">>), CREATE \cup RDWR) \o <<Unlink(Rel(<<"b", "b">>), ANY)>>, \* 10
    <<Unlink(N("b"), ANY), Link(Rel(<<"..", "grindir", ".", "..", "a">>), Rel(<<"..", "b">>), ANY)>>, \* 11
    <<Unlink(Rel(<<"..", "grindir", "..", "a">>), ANY),
      Link(Rel(<<"..", ".", "b">>), Abs(<<"grindir", "..", "a">>), ANY)>>,                            \* 12
    Fork1(<<Unlink(N("a"), ANY), Mkdir(N("a"), ANY), Chdir(N("a"), ANY), Unlink(Rel(<<"..", "a">>), ANY),
            Open(N("x"), CREATE \cup RDWR, "fd", ANY), Unlink(N("x"), ANY), Exit(0)>>,
          <<Wait("_", ANY)>>) }                                                                       \* 20

grindProc == {
    Fork1(<<Exit(0)>>, <<Wait("_", ANY)>>),                                                           \* 13
    <<Sbrk(6, "_", ANY), Sbrk(0, "a", ANY), If("a", {ImageSize + 6}, <<Sbrk(-6, "_", OK)>>, <<>>)>>,  \* 15, 16
    Fork1(CloseOpen(N("a"), CREATE \cup RDWR) \o <<Exit(0)>>,
          <<Chdir(Rel(<<"..", "grindir", "..">>), {0}), Kill("pid"), Wait("_", ANY)>>),               \* 17
    Fork1(<<Getpid("a"), Kill("a"), Exit(0)>>, <<Wait("_", ANY)>>),                                   \* 18
    \* "c" can always be made: inodes, descriptors and blocks are not used up.
    <<Unlink(N("c"), ANY), Open(N("c"), CREATE \cup RDWR, "fd1", OK), Write("fd1", <<"x">>, {1}), Fstat("fd1"),
      Expect("n", {1}), Expect("m", Inum), Close("fd1"), Unlink(N("c"), ANY)>> }                       \* 21

grindForks == Fork1(<<ForkBoth("_", ANY), ForkBoth("_", ANY), Exit(0)>>, <<Wait("_", ANY)>>)          \* 14
\* Every process of the family puts a unit in the pipe and takes one out.
grindPipes == <<MkPipe(OK)>>
    \o Fork1(<<ForkBoth("_", ANY), ForkBoth("_", ANY), Write("w", <<"x">>, {1}), Read("r", 1, {1}), Exit(0)>>,
             <<Close("r"), Close("w"), Wait("_", ANY)>>)                                               \* 19

\* echo hi | cat, with both ends of two pipes to be closed in every process.
grindPipe ==
    <<MkPipe(OK), Copy("a", "r"), Copy("b", "w"), MkPipe(OK)>>
    \o Fork1(<<Close("r"), Close("w"), Close("a"), Close("1"), Dup("b", "_", {1}), Close("b"),
               Exec(Rel(<<"grindir", "..", "echo">>), <<"echo", "hi">>, OK)>>,
         Fork1(<<Close("b"), Close("r"), Close("0"), Dup("a", "_", {0}), Close("a"),
                 Close("1"), Dup("w", "_", {1}), Close("w"), Exec(Abs(<<"cat">>), <<"cat">>, OK)>>,
           <<Close("a"), Close("b"), Close("w"), Read("r", 1, ANY), Read("r", 1, ANY), Read("r", 1, ANY), Close("r"),
             Wait("_", ANY), Expect("st", {0}), Wait("_", ANY), Expect("st", {0}), Check({<<"hi", "nl">>})>>))   \* 22

go(what) == <<Set("fd", -1), Mkdir(N("grindir"), ANY), Chdir(N("grindir"), {0}), Chdir(Abs(<<>>), ANY), Choose(what), Exit(0)>>

grindIter(what1, what2) ==
    <<Unlink(N("a"), ANY), Unlink(N("b"), ANY), Fork(go(what1), "pid1", OK), Fork(go(what2), "pid2", OK),
      Wait("_", ANY), If("st", {0}, <<>>, <<Kill("pid1"), Kill("pid2")>>), Wait("_", ANY), Exit(0)>>

---------------------------------------------------------------------------
\* The binaries on the disk.
ProgramOf(name, args) ==
    CASE name = "echo" -> echo(args) [] name = "cat" -> cat(args) [] name = "wc" -> wc(args)
      [] name = "ls" -> ls(args) [] name = "rm" -> rm(args) [] name = "mkdir" -> mkdirCmd(args)
      [] name = "ln" -> ln(args) [] name = "zombie" -> zombie [] name = "kill" -> killCmd(args)
      [] name = "sh" -> sh(<<>>) [] OTHER -> <<Exit(1)>>
=============================================================================
