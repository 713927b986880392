--------------------------- MODULE UsertestsProc ---------------------------
(***************************************************************************)
(* The tests of processes, pipes and memory of user/usertests.c, and the   *)
(* driver that runs each test in a process of its own and counts the free  *)
(* pages before and after.                                                 *)
(***************************************************************************)
EXTENDS Usertests

Forever(body) == <<While("0", {0}, body)>>
TOOMUCH == 400 * PGSIZE       \* more memory than the machine has

pipe1 == <<
    MkPipe({0}),
    Fork(<<Close("r"), Write("w", <<"0", "1", "2">>, {3}), Write("w", <<"3", "4", "5">>, {3}), Exit(0)>>, "pid", OK),
    Close("w"), Read("r", 1, ANY), While("n", Positive, <<Read("r", 4, ANY)>>),
    Check({<<"0", "1", "2", "3", "4", "5">>}), Close("r"), Wait("_", ANY), ExitReg("st") >>

killstatus == Repeat(LOOP, <<Fork(Forever(<<Getpid("a")>>), "pid1", OK), Sleep, Kill("pid1"),
                             Wait("_", ANY), Expect("st", {-1})>>) \o <<Exit(0)>>

preempt == <<
    Fork(<<Spin>>, "pid1", OK), Fork(<<Spin>>, "pid2", OK), MkPipe(ANY),
    Fork(<<Close("r"), Write("w", <<"x">>, {1}), Close("w"), Spin>>, "pid3", OK),
    Close("w"), Read("r", 8, {1}), Close("r"), Kill("pid1"), Kill("pid2"), Kill("pid3"),
    Wait("_", ANY), Wait("_", ANY), Wait("_", ANY) >>

exitwait == FlattenSeq([k \in 1..LOOP |->
    <<Fork(<<Exit(k)>>, "pid", OK), Wait("a", OK), AtLeast("a", "pid"), AtLeast("pid", "a"), Expect("st", {k})>>])

reparentTest == <<Getpid("a")>>
    \o Repeat(LOOP, <<Fork(<<Fork(<<Exit(0)>>, "pid2", OK), Exit(0)>>, "pid", OK),
                      Wait("b", OK), AtLeast("b", "pid"), AtLeast("pid", "b")>>)
    \o <<Exit(0)>>

twochildren == Repeat(LOOP, <<Fork(<<Exit(0)>>, "pid1", OK), Fork(<<Exit(0)>>, "pid2", OK), Wait("_", ANY), Wait("_", ANY)>>)

forkfork == Repeat(2, <<Fork(Repeat(LOOP, <<Fork(<<Exit(0)>>, "pid1", OK), Wait("_", ANY)>>) \o <<Exit(0)>>, "pid", OK)>>)
            \o Repeat(2, <<Wait("_", ANY), Expect("st", {0})>>)

\* Every child forks until it finds the file, or makes it when fork() fails.
forkforkfork ==
    LET stop == N("stopforking")
        loop == Forever(<<Open(stop, RDONLY, "fd", ANY), If("fd", OK, <<Exit(0)>>, <<>>),
                          ForkBoth("pid", ANY), If("pid", FAIL, CloseOpen(stop, CREATE \cup RDWR), <<>>)>>)
    IN  <<Unlink(stop, ANY), Fork(loop, "pid", OK), Sleep>> \o CloseOpen(stop, CREATE \cup RDWR)
        \o <<Wait("_", ANY), Sleep>>

reparent2 == Repeat(LOOP, <<Fork(<<ForkBoth("_", ANY), ForkBoth("_", ANY), Exit(0)>>, "pid1", OK), Wait("_", ANY)>>)
             \o <<Exit(0)>>

\* malloc() until there is no memory; free() keeps it for the last malloc().
mem == <<Fork(<<Sbrk(4 * PGSIZE, "a", ANY), While("a", OK, <<Sbrk(4 * PGSIZE, "a", ANY)>>), Exit(0)>>, "pid", OK),
         Wait("_", ANY), If("st", {-1}, <<Exit(0)>>, <<>>), ExitReg("st")>>

\* fork() until it fails; "m" counts.
forktest == <<Fork(<<Exit(0)>>, "pid", ANY),
              While("pid", OK, <<Add("m", 1), Fork(<<Exit(0)>>, "pid", ANY)>>),
              Expect("m", Positive), While("m", Positive, <<Wait("_", OK), Add("m", -1)>>), Wait("_", FAIL)>>

sbrkbasic == <<
    Fork(<<Sbrk(TOOMUCH, "a", ANY), If("a", FAIL, <<Exit(0)>>, <<Touch(ImageSize, TRUE), Exit(1)>>)>>, "pid", OK),
    Wait("_", ANY), Expect("st", ANY \ {1}), Sbrk(0, "a", {ImageSize}) >>
    \o FlattenSeq([k \in 1..3 |-> <<Sbrk(1, "b", {ImageSize + k - 1}), Touch(ImageSize + k - 1, TRUE)>>])
    \o <<ForkBoth("pid", OK), Sbrk(1, "_", OK), Sbrk(1, "a", {ImageSize + 4}),
         If("pid", {0}, <<Exit(0)>>, <<>>), Wait("_", ANY), ExitReg("st")>>

sbrkmuch ==
    LET big == ImageSize + 6 * PGSIZE
    IN  <<Sbrk(0, "a", {ImageSize}), Sbrk(6 * PGSIZE, "a", {ImageSize}), Touch(ImageSize, TRUE), Touch(big - 1, TRUE),
          Sbrk(-PGSIZE, "a", {big}), Sbrk(0, "a", {big - PGSIZE}),
          Sbrk(PGSIZE, "a", {big - PGSIZE}), Sbrk(0, "a", {big}), Touch(big - 1, FALSE),
          Sbrk(-6 * PGSIZE, "a", {big}), Sbrk(0, "a", {ImageSize})>>

\* A child that touches what it may not is killed.
faultTest(va, store) == <<Fork(<<Touch(va, store), Exit(1)>>, "pid", OK), Wait("_", ANY), Expect("st", {-1})>>
kernmem == Repeat(LOOP, faultTest(BAD, FALSE))
MAXVAplus == Repeat(LOOP, faultTest(BAD, TRUE))
stacktest == <<Fork(<<Touch(IMAGE * PGSIZE, FALSE), Exit(1)>>, "pid", OK), Wait("_", ANY),
               If("st", {-1}, <<Exit(0)>>, <<ExitReg("st")>>)>>
textwrite == <<Fork(<<Touch(0, TRUE), Exit(1)>>, "pid", OK), Wait("_", ANY),
               If("st", {-1}, <<Exit(0)>>, <<ExitReg("st")>>)>>

\* Children take the memory, one of them in vain, and sleep until killed.
sbrkfail ==
    LET hog == <<Sbrk(16 * PGSIZE, "_", ANY), Write("w", <<"x">>, ANY)>> \o Forever(<<Sleep>>)
        start(pid) == <<Fork(hog, pid, ANY), If(pid, OK, <<Read("r", 1, ANY)>>, <<>>)>>
        stop(pid) == <<If(pid, OK, <<Kill(pid), Wait("_", ANY)>>, <<>>)>>
    IN  <<MkPipe({0})>> \o start("pid1") \o start("pid2") \o <<Sbrk(PGSIZE, "a", ANY)>>
        \o stop("pid1") \o stop("pid2")
        \o <<Expect("a", OK),
             Fork(<<Sbrk(0, "a", OK), Sbrk(TOOMUCH, "_", ANY), Touch(ImageSize + PGSIZE, FALSE), Exit(1)>>, "pid", OK),
             Wait("_", ANY), Expect("st", {-1, 2})>>

sbrkarg == <<Sbrk(PGSIZE, "a", {ImageSize}), Open(N("sbrk"), CREATE \cup WRONLY, "fd", ANY), Unlink(N("sbrk"), ANY),
             Expect("fd", OK), WriteAt("fd", Fill("x", PGSIZE), ImageSize, OK), Close("fd"),
             Sbrk(PGSIZE, "a", {ImageSize + PGSIZE}), PipeAt(ImageSize + PGSIZE, {0})>>

\* Arguments that do not fit on one page of stack.
bigargtest == <<
    Unlink(N("bigarg-ok"), ANY),
    Fork(<<Exec(N("echo"), Fill("a", MAXARG - 1), ANY)>> \o CloseOpen(N("bigarg-ok"), CREATE) \o <<Exit(0)>>, "pid", OK),
    Wait("_", ANY), Expect("st", {0}), Open(N("bigarg-ok"), RDONLY, "fd", OK), Close("fd") >>

argptest == <<Open(N("echo"), RDONLY, "fd", OK), ReadAt("fd", MAXRET, ImageSize - 1, ANY), Close("fd")>>

pgbug == <<Exec(BadPath, <<>>, ANY), PipeAt(BAD, ANY), Exit(0)>>

\* The break to zero, into the first page, and back by less than a page.  The
\* code after sbrk() may need the stack that the second child has given up.
sbrkbugs ==
    LET child(body) == <<Fork(body \o <<Exit(0)>>, "pid", OK), Wait("_", ANY)>>
    IN  child(<<Sbrk(-ImageSize, "_", ANY), Touch(0, FALSE)>>)
        \o child(<<Sbrk(3 - ImageSize, "_", ANY), Choose({<<>>, <<Touch(ImageSize - 1, FALSE)>>})>>)
        \o child(<<Sbrk(10 * PGSIZE + 4 - ImageSize, "_", ANY), Sbrk(-1, "_", ANY)>>)
        \o <<Exit(0)>>

\* The last page stays mapped while the break is inside it.
sbrklast ==
    LET va == ImageSize + PGSIZE - 3
    IN  <<Sbrk(PGSIZE, "_", ANY), Sbrk(2, "_", ANY), Sbrk(-4, "_", ANY), Touch(va, TRUE),
          Open(N("x"), RDWR \cup CREATE, "fd", ANY), WriteAt("fd", <<"x">>, va, ANY), Close("fd"),
          Open(N("x"), RDWR, "fd", ANY), ReadAt("fd", 1, va, ANY), Check({<<"x">>})>>

\* A decrement so large that the new size wraps around.
sbrk8000 == <<Sbrk(-TOOMUCH, "_", ANY), Touch(ImageSize - 1, TRUE)>>

badarg == Repeat(LOOP, <<ExecArgs(N("echo"), <<"bad">>, FALSE, ANY)>>) \o <<Exit(0)>>

\* All of memory, minus a few pages, then exec().
execout == FlattenSeq([k \in 1..5 |->
    <<Fork(<<Sbrk(PGSIZE, "a", ANY), While("a", OK, <<Sbrk(PGSIZE, "a", ANY)>>)>>
           \o Repeat(3 * k - 3, <<Sbrk(-PGSIZE, "_", ANY)>>)
           \o <<Close("1"), Exec(N("echo"), <<"echo", "x">>, ANY), Exit(0)>>, "pid", OK),
      Wait("_", ANY)>>]) \o <<Exit(0)>>

---------------------------------------------------------------------------
(* The driver.                                                             *)

\* run() a test and look at how it ended.
run(f) == <<Fork(f \o <<Exit(0)>>, "pid", OK), Wait("_", ANY), Expect("st", {0})>>

\* countfree(): a child allocates every page and reports each through a pipe;
\* the count is left in "m".
countfree == <<
    MkPipe(OK),
    Fork(<<Close("r"), Sbrk(PGSIZE, "a", ANY),
           While("a", OK, <<Write("w", <<"x">>, {1}), Sbrk(PGSIZE, "a", ANY)>>), Exit(0)>>, "pid", OK),
    Close("w"), Set("m", 0), Read("r", 1, OK), While("n", {1}, <<Add("m", 1), Read("r", 1, OK)>>),
    Close("r"), Wait("_", ANY) >>

\* drivetests(): the pages free afterwards are no fewer than before.
drivetests(f) == countfree \o <<Copy("b", "m")>> \o run(f) \o countfree \o <<AtLeast("m", "b"), Exit(0)>>

processTests == <<pipe1, killstatus, preempt, exitwait, reparentTest, twochildren, forkfork, reparent2,
    sbrkbasic, sbrkmuch, kernmem, MAXVAplus, stacktest, textwrite, sbrkarg, bigargtest, argptest, pgbug,
    sbrkbugs, sbrklast, sbrk8000, badarg>>
=============================================================================
