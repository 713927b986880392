----------------------------- MODULE Usertests -----------------------------
(***************************************************************************)
(* The tests of the system calls on files (user/usertests.c) as scripts.   *)
(* A test keeps its calls, their order and what it accepts of each; its    *)
(* sizes are those of the small machine, and LOOP stands for its long      *)
(* repetitions.  What is printed and the fill of buffers that nobody reads *)
(* back are left out.                                                      *)
(***************************************************************************)
EXTENDS Kernel

(* The control instructions of the scripts.                                *)

Control == {"if", "while", "set", "add", "copy", "atleast", "expect", "check", "entries", "writebuf", "stateach"}

OnceIn(buf, name) == Cardinality({s \in DOMAIN buf : buf[s].inum # None /\ buf[s].name = name}) = 1

\* Run the control instructions at the head of the code.
RECURSIVE RunControl(_)
RunControl(u) ==
    LET i == Head(u.code)
        rest == Tail(u.code)
    IN  IF u.code = <<>> \/ u.err # "" THEN u
        ELSE IF i.op \notin Control THEN u
        ELSE IF i.op = "if"
             THEN RunControl([u EXCEPT !.code = (IF u.reg[i.r] \in i.in THEN i.then ELSE i.else) \o rest])
        ELSE IF i.op = "while"
             THEN RunControl([u EXCEPT !.code = IF u.reg[i.r] \in i.in THEN i.body \o u.code ELSE rest])
        ELSE IF i.op = "set" THEN RunControl([u EXCEPT !.code = rest, !.reg[i.r] = i.n])
        ELSE IF i.op = "add" THEN RunControl([u EXCEPT !.code = rest, !.reg[i.r] = @ + i.n])
        ELSE IF i.op = "copy" THEN RunControl([u EXCEPT !.code = rest, !.reg[i.r] = u.reg[i.from]])
        ELSE IF i.op = "atleast"
             THEN RunControl([u EXCEPT !.code = rest,
                                   !.err = IF u.reg[i.r] >= u.reg[i.from] THEN "" ELSE "atleast"])
        ELSE IF i.op = "expect"
             THEN RunControl([u EXCEPT !.code = rest,
                                   !.err = IF u.reg[i.r] \in i.in THEN "" ELSE "expect " \o i.r])
        ELSE IF i.op = "check"
             THEN RunControl([u EXCEPT !.code = rest, !.buf = <<>>,
                                   !.err = IF u.buf \in i.in THEN "" ELSE "check"])
        ELSE IF i.op = "entries"
             THEN RunControl([u EXCEPT !.code = rest, !.buf = <<>>,
                                   !.err = IF \A x \in i.names : OnceIn(u.buf, x) THEN "" ELSE "entries"])
        ELSE IF i.op = "writebuf"
             THEN [u EXCEPT !.code = <<Write(i.fd, u.buf, ANY)>> \o rest, !.buf = <<>>]
        ELSE RunControl([u EXCEPT !.buf = <<>>, !.code = FlattenSeq([k \in DOMAIN u.buf |->
                       IF u.buf[k].inum = None THEN <<>>
                       ELSE <<Open(Rel(<<u.buf[k].name>>), {}, "fd1", ANY),
                              If("fd1", OK, <<Fstat("fd1"), Close("fd1")>>, <<>>)>>]) \o rest])

---------------------------------------------------------------------------
LOOP == 2               \* stands for the 50 to 1000 rounds of a test

N(name) == Rel(<<name>>)
RDONLY == {}
WRONLY == {"WRONLY"}
RDWR == {"RDWR"}
CREATE == {"CREATE"}
TRUNC == {"TRUNC"}
CloseOpen(path, mode) == <<Open(path, mode, "fd", ANY), Close("fd")>>
Fill(c, n) == [k \in 1..n |-> c]
Digit == <<"0", "1", "2", "3", "4", "5", "6", "7", "8", "9">>
Numbered(c, n) == [k \in 1..n |-> N(c \o Digit[k])]       \* the paths c0, c1, ...
ForEach(paths, Body(_)) == FlattenSeq([k \in DOMAIN paths |-> Body(paths[k])])
Positive == 1..MAXRET
FreedPage == ImageSize + PGSIZE      \* above the break after it went down

copyin == Repeat(2, <<
    Open(N("copyin1"), CREATE \cup WRONLY, "fd", OK), WriteAt("fd", Fill("x", 8), BAD, FAIL),
    Close("fd"), Unlink(N("copyin1"), ANY),
    WriteAt("1", Fill("x", 8), BAD, {-1, 0}),
    MkPipe(OK), WriteAt("w", Fill("x", 8), BAD, {-1, 0}), Close("r"), Close("w") >>)

copyout == Repeat(2, <<
    Open(N("README"), RDONLY, "fd", OK), ReadAt("fd", 8, BAD, {-1, 0}), Close("fd"),
    MkPipe(OK), Write("w", <<"x">>, {1}), ReadAt("r", 8, BAD, {-1, 0}), Close("r"), Close("w") >>)

copyinstr1 == Repeat(2, <<Open(BadPath, CREATE \cup WRONLY, "fd", FAIL)>>)

\* The string of copyinstr2 is as long as the buffer of the kernel, that of
\* copyinstr3 runs past the end of the memory: neither can be copied.
badStrings == <<
    Unlink(BadPath, FAIL), Open(BadPath, CREATE \cup WRONLY, "fd", FAIL),
    Link(BadPath, BadPath, FAIL), Exec(BadPath, <<"xx">>, FAIL) >>
copyinstr2 == badStrings \o <<
    Fork(<<ExecArgs(N("echo"), <<"big", "big", "big">>, FALSE, FAIL), Exit(7)>>, "pid", OK),
    Wait("_", OK), Expect("st", {7}) >>
copyinstr3 == <<Sbrk(2 * PGSIZE, "_", OK), Sbrk(0, "a", {ImageSize + 2 * PGSIZE})>> \o badStrings

rwsbrk == <<
    Sbrk(2 * PGSIZE, "a", OK), Sbrk(-(2 * PGSIZE), "_", OK),
    Open(N("rwsbrk"), CREATE \cup WRONLY, "fd", OK), WriteAt("fd", Fill("x", 2), FreedPage, FAIL),
    Close("fd"), Unlink(N("rwsbrk"), ANY),
    Open(N("README"), RDONLY, "fd", OK), ReadAt("fd", 2, FreedPage, FAIL), Close("fd"), Exit(0) >>

truncate1 == <<
    Unlink(N("truncfile"), ANY),
    Open(N("truncfile"), CREATE \cup WRONLY \cup TRUNC, "fd1", ANY),
    Write("fd1", <<"a", "b", "c", "d">>, ANY), Close("fd1"),
    Open(N("truncfile"), RDONLY, "fd2", ANY), Read("fd2", 8, {4}),
    Open(N("truncfile"), WRONLY \cup TRUNC, "fd1", ANY),
    Open(N("truncfile"), RDONLY, "fd3", ANY), Read("fd3", 8, {0}), Read("fd2", 8, {0}),
    Write("fd1", <<"a", "b", "c", "d", "e", "f">>, ANY),
    Read("fd3", 8, {6}), Read("fd2", 8, {2}),
    Unlink(N("truncfile"), ANY), Close("fd1"), Close("fd2"), Close("fd3") >>

truncate2 == <<
    Unlink(N("truncfile"), ANY),
    Open(N("truncfile"), CREATE \cup TRUNC \cup WRONLY, "fd1", ANY),
    Write("fd1", <<"a", "b", "c", "d">>, ANY),
    Open(N("truncfile"), TRUNC \cup WRONLY, "fd2", ANY), Write("fd1", <<"x">>, FAIL),
    Unlink(N("truncfile"), ANY), Close("fd1"), Close("fd2") >>

truncate3 ==
    CloseOpen(N("truncfile"), CREATE \cup TRUNC \cup WRONLY) \o <<
    Fork(Repeat(LOOP, <<
           Open(N("truncfile"), WRONLY, "fd", OK), Write("fd", Fill("1", 4), {4}), Close("fd"),
           Open(N("truncfile"), RDONLY, "fd", ANY), Read("fd", 8, ANY), Close("fd") >>)
         \o <<Exit(0)>>, "pid", OK) >>
    \o Repeat(LOOP, <<
         Open(N("truncfile"), CREATE \cup WRONLY \cup TRUNC, "fd", OK),
         Write("fd", Fill("x", 3), {3}), Close("fd") >>)
    \o <<Wait("_", ANY), Unlink(N("truncfile"), ANY), ExitReg("st")>>

iputtest == <<Mkdir(N("iputdir"), OK), Chdir(N("iputdir"), OK),
              Unlink(Rel(<<"..", "iputdir">>), OK), Chdir(Abs(<<>>), OK)>>
exitiputtest == <<
    Fork(<<Mkdir(N("iputdir"), OK), Chdir(N("iputdir"), OK),
           Unlink(Rel(<<"..", "iputdir">>), OK), Exit(0)>>, "pid", OK),
    Wait("_", ANY), ExitReg("st") >>
openiputtest == <<
    Mkdir(N("oidir"), OK), Fork(<<Open(N("oidir"), RDWR, "fd", FAIL), Exit(0)>>, "pid", OK),
    Sleep, Unlink(N("oidir"), {0}), Wait("_", ANY), ExitReg("st") >>

opentest == <<Open(N("echo"), RDONLY, "fd", OK), Close("fd"), Open(N("doesnotexist"), RDONLY, "fd", FAIL)>>

writetest == <<Open(N("small"), CREATE \cup RDWR, "fd", OK)>>
    \o Repeat(3, <<Write("fd", Fill("a", 2), {2}), Write("fd", Fill("b", 2), {2})>>)
    \o <<Close("fd"), Open(N("small"), RDONLY, "fd", OK), Read("fd", 12, {12}), Close("fd"),
         Unlink(N("small"), OK)>>

writebig == <<Open(N("big"), CREATE \cup RDWR, "fd", OK)>>
    \o [k \in 1..MAXFILE |-> Write("fd", Fill(Digit[k], BSIZE), {BSIZE})]
    \o <<Close("fd"), Open(N("big"), RDONLY, "fd", OK)>>
    \o Repeat(MAXFILE, <<Read("fd", BSIZE, {BSIZE})>>)
    \o <<Read("fd", BSIZE, {0}), Check({FlattenSeq([k \in 1..MAXFILE |-> Fill(Digit[k], BSIZE)])}),
         Close("fd"), Unlink(N("big"), OK)>>

createtest == ForEach(Numbered("a", 3), LAMBDA f : CloseOpen(f, CREATE \cup RDWR))
              \o ForEach(Numbered("a", 3), LAMBDA f : <<Unlink(f, ANY)>>)

dirtest == <<Mkdir(N("dir0"), OK), Chdir(N("dir0"), OK), Chdir(N(".."), OK), Unlink(N("dir0"), OK)>>

exectest == <<
    Unlink(N("echo-ok"), ANY),
    Fork(<<Close("1"), Open(N("echo-ok"), CREATE \cup WRONLY, "fd", {1}),
           Exec(N("echo"), <<"echo", "OK">>, OK)>>, "pid", OK),
    Wait("_", OK), Expect("st", {0}),
    Open(N("echo-ok"), RDONLY, "fd", OK), Read("fd", 1, {1}), Unlink(N("echo-ok"), ANY),
    Check({<<"OK">>}), Exit(0) >>

\* Two processes write through one descriptor.
sharedfd == <<
    Unlink(N("sharedfd"), ANY), Open(N("sharedfd"), CREATE \cup RDWR, "fd", OK),
    Fork(Repeat(LOOP, <<Write("fd", Fill("c", 2), {2})>>) \o <<Exit(0)>>, "pid", OK) >>
    \o Repeat(LOOP, <<Write("fd", Fill("p", 2), {2})>>)
    \o <<Wait("_", ANY), Expect("st", {0}), Close("fd"), Open(N("sharedfd"), RDONLY, "fd", OK)>>
    \o Repeat(2 * LOOP, <<Read("fd", 2, {2})>>)
    \o <<Read("fd", 2, {0}), Close("fd"), Unlink(N("sharedfd"), ANY),
         Check({FlattenSeq([k \in 1..(2 * LOOP) |-> Fill(IF k \in C THEN "c" ELSE "p", 2)]) :
                  C \in {D \in SUBSET (1..(2 * LOOP)) : Cardinality(D) = LOOP}}), Exit(0)>>

\* Children write files of their own, of the paths in names.
fourfiles ==
    LET names == Numbered("f", 2)
    IN  FlattenSeq([k \in DOMAIN names |-> <<
          Unlink(names[k], ANY),
          Fork(<<Open(names[k], CREATE \cup RDWR, "fd", OK)>>
               \o Repeat(LOOP, <<Write("fd", Fill(Digit[k], 3), {3})>>) \o <<Exit(0)>>, "pid", OK)>>])
        \o Repeat(2, <<Wait("_", ANY), Expect("st", {0})>>)
        \o FlattenSeq([k \in DOMAIN names |-> <<
             Open(names[k], RDONLY, "fd", ANY), Read("fd", 8, {3 * LOOP}), Read("fd", 8, {0}),
             Check({Fill(Digit[k], 3 * LOOP)}), Close("fd"), Unlink(names[k], ANY)>>])

\* Two children create files 0..3 of their letter and delete file 1 when they
\* have reached file 2; the test cleans up other names than it created.
createdelete ==
    LET files(c) == Numbered(c, 4)
        child(c) == CloseOpen(files(c)[1], CREATE \cup RDWR) \o CloseOpen(files(c)[2], CREATE \cup RDWR)
                    \o <<Open(files(c)[3], CREATE \cup RDWR, "fd", OK), Close("fd"), Unlink(files(c)[2], OK)>>
                    \o CloseOpen(files(c)[4], CREATE \cup RDWR) \o <<Exit(0)>>
    IN  <<Fork(child("p"), "pid", OK), Fork(child("q"), "pid", OK),
          Wait("_", ANY), Expect("st", {0}), Wait("_", ANY), Expect("st", {0})>>
        \o FlattenSeq([k \in 1..4 |-> <<
             Open(files("p")[k], RDONLY, "fd", IF k = 2 THEN FAIL ELSE OK), Close("fd"),
             Open(files("q")[k], RDONLY, "fd", IF k = 2 THEN FAIL ELSE OK), Close("fd")>>])
        \o <<Unlink(N("p0"), ANY), Unlink(N("q1"), ANY), Unlink(N("r2"), ANY), Unlink(N("s3"), ANY)>>

unlinkread == <<
    Open(N("unlinkread"), CREATE \cup RDWR, "fd", OK),
    Write("fd", <<"h", "e", "l", "l", "o">>, ANY), Close("fd"),
    Open(N("unlinkread"), RDWR, "fd", OK), Unlink(N("unlinkread"), {0}),
    Open(N("unlinkread"), CREATE \cup RDWR, "fd1", ANY), Write("fd1", Fill("y", 3), ANY), Close("fd1"),
    Read("fd", 16, {5}), Check({<<"h", "e", "l", "l", "o">>}), Write("fd", Fill("h", 10), {10}),
    Close("fd"), Unlink(N("unlinkread"), ANY) >>

linktest == <<
    Unlink(N("lf1"), ANY), Unlink(N("lf2"), ANY),
    Open(N("lf1"), CREATE \cup RDWR, "fd", OK), Write("fd", Fill("h", 5), {5}), Close("fd"),
    Link(N("lf1"), N("lf2"), OK), Unlink(N("lf1"), ANY), Open(N("lf1"), RDONLY, "fd", FAIL),
    Open(N("lf2"), RDONLY, "fd", OK), Read("fd", 16, {5}), Close("fd"),
    Link(N("lf2"), N("lf2"), FAIL), Unlink(N("lf2"), ANY),
    Link(N("lf2"), N("lf1"), FAIL), Link(N("."), N("lf1"), FAIL) >>

\* Parent and child create, link and unlink the same files at the same time.
concreate ==
    LET n == 7
        C == Numbered("C", n)
        linkOr(k, m) == IF (k - 1) % m = 1 THEN <<Link(C[1], C[k], ANY)>>
                        ELSE <<Open(C[k], CREATE \cup RDWR, "fd", OK), Close("fd")>>
        opens(k) == Repeat(LOOP, CloseOpen(C[k], RDONLY))
        unlinks(k) == Repeat(LOOP, <<Unlink(C[k], ANY)>>)
    IN  FlattenSeq([k \in 1..n |->
          <<Unlink(C[k], ANY), Fork(linkOr(k, 5) \o <<Exit(0)>>, "pid", OK)>> \o linkOr(k, 3)
          \o <<Wait("_", ANY), Expect("st", {0})>>])
        \o <<Open(N("."), RDONLY, "fd", OK), Read("fd", MAXFILE * BSIZE, Positive), Close("fd"),
             Entries({C[k].elems[1] : k \in 1..n})>>
        \o FlattenSeq([k \in 1..n |->
             <<Fork((IF (k - 1) % 3 = 0 THEN opens(k) ELSE unlinks(k)) \o <<Exit(0)>>, "pid", OK)>>
             \o (IF (k - 1) % 3 = 1 THEN opens(k) ELSE unlinks(k)) \o <<Wait("_", ANY)>>])

\* The pseudo-random choice of linkunlink is any choice.
linkunlink ==
    LET rounds == Repeat(LOOP, <<Choose({CloseOpen(N("x"), RDWR \cup CREATE),
                                         <<Link(N("echo"), N("x"), ANY)>>, <<Unlink(N("x"), ANY)>>})>>)
    IN  <<Unlink(N("x"), ANY), Fork(rounds \o <<Exit(0)>>, "pid", OK)>> \o rounds \o <<Wait("_", ANY)>>

subdir ==
    LET P(a, b) == Rel(<<a, b>>)
        Q(a, b, c) == Rel(<<a, b, c>>)
    IN  <<Unlink(N("ff"), ANY), Mkdir(N("dd"), {0}),
          Open(P("dd", "ff"), CREATE \cup RDWR, "fd", OK), Write("fd", Fill("f", 2), ANY), Close("fd"),
          Unlink(N("dd"), FAIL), Mkdir(Abs(<<"dd", "dd">>), {0}),
          Open(Q("dd", "dd", "ff"), CREATE \cup RDWR, "fd", OK), Write("fd", Fill("F", 2), ANY), Close("fd"),
          Open(Rel(<<"dd", "dd", "..", "ff">>), RDONLY, "fd", OK), Read("fd", 16, {2}),
          Check({Fill("f", 2)}), Close("fd"),
          Link(Q("dd", "dd", "ff"), Q("dd", "dd", "ffff"), {0}), Unlink(Q("dd", "dd", "ff"), {0}),
          Open(Q("dd", "dd", "ff"), RDONLY, "fd", FAIL),
          Chdir(N("dd"), {0}), Chdir(Rel(<<"dd", "..", "..", "dd">>), {0}),
          Chdir(Rel(<<"dd", "..", "..", "..", "dd">>), {0}), Chdir(P(".", ".."), {0}),
          Open(Q("dd", "dd", "ffff"), RDONLY, "fd", OK), Read("fd", 16, {2}), Close("fd"),
          Open(Q("dd", "dd", "ff"), RDONLY, "fd", FAIL),
          Open(Q("dd", "ff", "ff"), CREATE \cup RDWR, "fd", FAIL),
          Open(Q("dd", "xx", "ff"), CREATE \cup RDWR, "fd", FAIL),
          Open(N("dd"), CREATE, "fd", FAIL), Open(N("dd"), RDWR, "fd", FAIL), Open(N("dd"), WRONLY, "fd", FAIL),
          Link(Q("dd", "ff", "ff"), Q("dd", "dd", "xx"), FAIL), Link(Q("dd", "xx", "ff"), Q("dd", "dd", "xx"), FAIL),
          Link(P("dd", "ff"), Q("dd", "dd", "ffff"), FAIL),
          Mkdir(Q("dd", "ff", "ff"), FAIL), Mkdir(Q("dd", "xx", "ff"), FAIL), Mkdir(Q("dd", "dd", "ffff"), FAIL),
          Unlink(Q("dd", "xx", "ff"), FAIL), Unlink(Q("dd", "ff", "ff"), FAIL),
          Chdir(P("dd", "ff"), FAIL), Chdir(P("dd", "xx"), FAIL),
          Unlink(Q("dd", "dd", "ffff"), {0}), Unlink(P("dd", "ff"), {0}),
          Unlink(N("dd"), FAIL), Unlink(P("dd", "dd"), OK), Unlink(N("dd"), OK)>>

\* Sizes below and above what filewrite() puts in one transaction.
bigwrite == <<Unlink(N("bigwrite"), ANY)>> \o FlattenSeq([k \in 1..2 |->
    <<Open(N("bigwrite"), CREATE \cup RDWR, "fd", OK)>>
    \o Repeat(2, <<Write("fd", Fill("x", 4 * k - 1), {4 * k - 1})>>)
    \o <<Close("fd"), Unlink(N("bigwrite"), ANY)>>])

bigfile == <<Unlink(N("bigfile"), ANY), Open(N("bigfile"), CREATE \cup RDWR, "fd", OK)>>
    \o [k \in 1..3 |-> Write("fd", Fill(Digit[k], 4), {4})]
    \o <<Close("fd"), Open(N("bigfile"), RDONLY, "fd", OK)>> \o Repeat(6, <<Read("fd", 2, {2})>>)
    \o <<Read("fd", 2, {0}), Check({FlattenSeq([k \in 1..3 |-> Fill(Digit[k], 4)])}),
         Close("fd"), Unlink(N("bigfile"), ANY)>>

\* A name of 15 characters is its first 14.
fourteen ==
    LET s == "name14"
        l == "name15"
    IN  <<Mkdir(N(s), {0}), Mkdir(Rel(<<s, l>>), {0}),
          Open(Rel(<<l, l, l>>), CREATE, "fd", OK), Close("fd"),
          Open(Rel(<<s, s, s>>), RDONLY, "fd", OK), Close("fd"),
          Mkdir(Rel(<<s, s>>), FAIL), Mkdir(Rel(<<l, s>>), FAIL),
          Unlink(Rel(<<l, s>>), ANY), Unlink(Rel(<<s, s>>), ANY), Unlink(Rel(<<s, s, s>>), ANY),
          Unlink(Rel(<<l, l, l>>), ANY), Unlink(Rel(<<s, l>>), ANY), Unlink(N(s), ANY)>>

rmdot == <<Mkdir(N("dots"), {0}), Chdir(N("dots"), {0}), Unlink(N("."), FAIL), Unlink(N(".."), FAIL),
           Chdir(Abs(<<>>), {0}), Unlink(Rel(<<"dots", ".">>), FAIL), Unlink(Rel(<<"dots", "..">>), FAIL),
           Unlink(N("dots"), {0})>>

dirfile ==
    LET xx == Rel(<<"dirfile", "xx">>)
    IN  <<Open(N("dirfile"), CREATE, "fd", OK), Close("fd"), Chdir(N("dirfile"), FAIL),
          Open(xx, RDONLY, "fd", FAIL), Open(xx, CREATE, "fd", FAIL), Mkdir(xx, FAIL),
          Unlink(xx, FAIL), Link(N("README"), xx, FAIL), Unlink(N("dirfile"), {0}),
          Open(N("."), RDWR, "fd", FAIL), Open(N("."), RDONLY, "fd", ANY), Write("fd", <<"x">>, FAIL), Close("fd")>>

\* More levels than the inode table has entries.
irefLevels == NINODE + 1
iref == Repeat(irefLevels, <<
          Mkdir(N("irefd"), {0}), Chdir(N("irefd"), {0}),
          Mkdir(Rel(<<>>), ANY), Link(N("README"), Rel(<<>>), ANY),
          Open(Rel(<<>>), CREATE, "fd", ANY), If("fd", OK, <<Close("fd")>>, <<>>),
          Open(N("xx"), CREATE, "fd", ANY), If("fd", OK, <<Close("fd")>>, <<>>), Unlink(N("xx"), ANY)>>)
        \o Repeat(irefLevels, <<Chdir(N(".."), ANY), Unlink(N("irefd"), ANY)>>) \o <<Chdir(Abs(<<>>), ANY)>>

validatetest == <<Link(N("nosuchfile"), BadPath, FAIL), Link(N("nosuchfile"), N("x"), FAIL)>>

\* A file per pass until one cannot be created or gets nothing written.
fsfull ==
    LET f == Numbered("f", 4)
        pass(k) == <<If("a", {0}, <<
            Open(f[k], CREATE \cup RDWR, "fd", ANY),
            If("fd", FAIL, <<Set("a", 1)>>, <<
              Write("fd", Fill("x", BSIZE), ANY), If("n", FAIL, <<Set("a", 1)>>, <<>>),
              While("n", {BSIZE}, <<Write("fd", Fill("x", BSIZE), ANY)>>), Close("fd")>>)>>, <<>>)>>
    IN  FlattenSeq([k \in 1..4 |-> pass(k)]) \o <<Expect("a", {1})>>
        \o ForEach(f, LAMBDA x : <<Unlink(x, ANY)>>)

\* A directory that needs its indirect block.
bigdir == <<Unlink(N("bd"), ANY), Open(N("bd"), CREATE, "fd", OK), Close("fd")>>
    \o ForEach(Numbered("x", 7), LAMBDA x : <<Link(N("bd"), x, {0})>>)
    \o <<Unlink(N("bd"), ANY)>> \o ForEach(Numbered("x", 7), LAMBDA x : <<Unlink(x, {0})>>)

manywrites ==
    LET f == Numbered("b", 2)
        child(k) == <<Unlink(f[k], ANY)>>
          \o Repeat(k, <<Open(f[k], CREATE \cup RDWR, "fd", OK), Write("fd", Fill("x", 6), {6}), Close("fd")>>)
          \o <<Unlink(f[k], ANY), Unlink(f[k], ANY), Exit(0)>>
    IN  <<Fork(child(1), "pid", OK), Fork(child(2), "pid", OK)>>
        \o Repeat(2, <<Wait("_", ANY), Expect("st", {0})>>) \o <<Exit(0)>>

\* More rounds than there are free blocks.
badwrite ==
    LET junk(write) == <<Open(N("junk"), CREATE \cup WRONLY, "fd", OK), write, Close("fd"), Unlink(N("junk"), ANY)>>
    IN  <<Unlink(N("junk"), ANY)>> \o Repeat(4, junk(WriteAt("fd", <<"x">>, BAD, ANY)))
        \o junk(Write("fd", <<"x">>, {1})) \o <<Exit(0)>>

\* Fill the disk, then the directory; "a" is done.
diskfull ==
    LET big == Numbered("g", 3)
        zz == Numbered("z", 4)
    IN  <<Unlink(N("diskfulldir"), ANY)>>
        \o ForEach(big, LAMBDA f : <<If("a", {0},
             <<Unlink(f, ANY), Open(f, CREATE \cup RDWR \cup TRUNC, "fd", ANY),
               If("fd", FAIL, <<Set("a", 1)>>,
                  Repeat(MAXFILE, <<If("a", {0}, <<Write("fd", Fill("x", BSIZE), ANY),
                                                   If("n", FAIL, <<Set("a", 1), Close("fd")>>, <<>>)>>, <<>>)>>)
                  \o <<Close("fd")>>)>>, <<>>)>>)
        \o <<Expect("a", {1}), Set("fd", 0)>>
        \o ForEach(zz, LAMBDA f : <<If("fd", OK,
             <<Unlink(f, ANY), Open(f, CREATE \cup RDWR \cup TRUNC, "fd", ANY),
               If("fd", OK, <<Close("fd")>>, <<>>)>>, <<>>)>>)
        \o <<Mkdir(N("diskfulldir"), FAIL), Unlink(N("diskfulldir"), ANY)>>
        \o ForEach(zz \o big, LAMBDA f : <<Unlink(f, ANY)>>)

outofinodes ==
    LET zz == Numbered("z", 10)
    IN  ForEach(zz, LAMBDA f : <<If("fd", OK,
          <<Unlink(f, ANY), Open(f, CREATE \cup RDWR \cup TRUNC, "fd", ANY),
            If("fd", OK, <<Close("fd")>>, <<>>)>>, <<>>)>>)
        \o <<Expect("fd", FAIL)>> \o ForEach(zz, LAMBDA f : <<Unlink(f, ANY)>>)

fileTests == <<copyin, copyout, copyinstr1, copyinstr2, copyinstr3, rwsbrk, truncate1, truncate2, truncate3,
    openiputtest, exitiputtest, iputtest, opentest, writetest, writebig, createtest, dirtest, exectest,
    sharedfd, fourfiles, createdelete, unlinkread, linktest, concreate, linkunlink, subdir, bigwrite,
    bigfile, fourteen, rmdot, dirfile, iref, validatetest, bigdir, manywrites>>
=============================================================================
