----------------------------- MODULE TextTools -----------------------------
(***************************************************************************)
(* The programs of xv6 that take a text apart (user/grep.c, user/wc.c).    *)
(* They read it in pieces: a file in pieces of the buffer's size, a pipe   *)
(* in whatever pieces the writer has put there, so a step reads any number *)
(* of characters that fit.  What they find must not depend on the pieces.  *)
(***************************************************************************)
EXTENDS Naturals, Sequences, FiniteSets, SequencesExt

CONSTANTS Patterns,     \* patterns of grep, sequences of characters
          Texts,        \* the texts, sequences of characters
          BUF           \* sizeof(buf)

Newline == "nl"
Blanks == {"sp", Newline}

VARIABLES tool,         \* "grep" or "wc"
          pattern, text,
          pos,          \* characters of the text read so far
          buf,          \* grep: the beginning of a line that buf keeps
          out,          \* grep: the lines written
          cnt,          \* wc: l, w, c and inword
          done

tvars == <<tool, pattern, text, pos, buf, out, cnt, done>>

ToolInit ==
    /\ tool \in {"grep", "wc"}
    /\ pattern \in IF tool = "grep" THEN Patterns ELSE {<<>>}
    /\ text \in Texts
    /\ pos = 0 /\ buf = <<>> /\ out = <<>> /\ done = FALSE
    /\ cnt = [l |-> 0, w |-> 0, c |-> 0, inword |-> FALSE]

---------------------------------------------------------------------------
(* The matcher of grep.c.                                                  *)

From(s, k) == SubSeq(s, k, Len(s))

RECURSIVE matchhere(_, _), matchstar(_, _, _)

\* matchstar(): zero or more characters c, then re.
\* A bug: at least one.
matchstarPlus(c, re, t) ==
    t # <<>> /\ c \in {t[1], "."} /\ (matchhere(re, Tail(t)) \/ matchstar(c, re, Tail(t)))
matchstar(c, re, t) ==
    \/ matchhere(re, t)
    \/ t # <<>> /\ c \in {t[1], "."} /\ matchstar(c, re, Tail(t))

\* matchhere(): re at the beginning of t.
matchhere(re, t) ==
    IF re = <<>> THEN TRUE
    ELSE IF Len(re) > 1 /\ re[2] = "*" THEN matchstar(re[1], From(re, 3), t)
    ELSE IF re = <<"$">> THEN t = <<>>
    ELSE t # <<>> /\ re[1] \in {t[1], "."} /\ matchhere(Tail(re), Tail(t))

match(re, t) ==
    IF re # <<>> /\ re[1] = "^" THEN matchhere(Tail(re), t)
    ELSE \E k \in 1..(Len(t) + 1) : matchhere(re, From(t, k))

---------------------------------------------------------------------------
(* The lines of s that a newline ends, and what follows the last newline.  *)

Ends(s) == {k \in DOMAIN s : s[k] = Newline}
LineUpTo(s, e) == LET starts == {0} \cup {d \in Ends(s) : d < e}
                      b == CHOOSE x \in starts : \A y \in starts : y <= x
                  IN  SubSeq(s, b + 1, e - 1)
Lines(s) == [k \in 1..Cardinality(Ends(s)) |-> LineUpTo(s, SetToSortSeq(Ends(s), <)[k])]
Unended(s) == LineUpTo(s, Len(s) + 1)

\* One turn of the loop of grep(): n more characters in the buffer.  With no
\* room in it, and at the end of the text, read() returns 0.
grep ==
    /\ tool = "grep" /\ ~done
    /\ \/ \E n \in 1..(BUF - Len(buf) - 1) :
            LET b == buf \o SubSeq(text, pos + 1, pos + n) IN
            /\ pos + n <= Len(text)
            /\ pos' = pos + n
            /\ out' = out \o SelectSeq(Lines(b), LAMBDA t : match(pattern, t))
            /\ buf' = Unended(b)
            /\ UNCHANGED done
       \/ /\ pos = Len(text) \/ Len(buf) = BUF - 1
          /\ done' = TRUE /\ UNCHANGED <<pos, out, buf>>
    /\ UNCHANGED <<tool, pattern, text, cnt>>

\* The body of the loop of wc() for one character.
count(n, ch) ==
    [l |-> n.l + (IF ch = Newline THEN 1 ELSE 0),
     w |-> n.w + (IF ch \notin Blanks /\ ~n.inword THEN 1 ELSE 0),
     c |-> n.c + 1,
     inword |-> ch \notin Blanks]

wc ==
    /\ tool = "wc" /\ ~done
    /\ \/ \E n \in 1..BUF :
            /\ pos + n <= Len(text)
            /\ pos' = pos + n
            /\ cnt' = FoldLeft(count, cnt, SubSeq(text, pos + 1, pos + n))
            /\ UNCHANGED done
       \/ pos = Len(text) /\ done' = TRUE /\ UNCHANGED <<pos, cnt>>
    /\ UNCHANGED <<tool, pattern, text, buf, out>>

ToolNext == grep \/ wc \/ (done /\ UNCHANGED tvars)

ToolSpec == ToolInit /\ [][ToolNext]_tvars

---------------------------------------------------------------------------
(* What a pattern means: its items, each a character or any number of it,  *)
(* and the places where the items cut the line.                            *)

Anchored(re) == re # <<>> /\ re[1] = "^"
RECURSIVE Items(_)
Items(re) ==
    IF re = <<>> THEN <<>>
    ELSE IF Len(re) > 1 /\ re[2] = "*" THEN <<[c |-> re[1], star |-> TRUE]>> \o Items(From(re, 3))
    ELSE <<[c |-> re[1], star |-> FALSE]>> \o Items(Tail(re))
AtEnd == [c |-> "$", star |-> FALSE]

Means(re, t) ==
    LET all == Items(IF Anchored(re) THEN Tail(re) ELSE re)
        toEnd == all # <<>> /\ Last(all) = AtEnd
        it == IF toEnd THEN Front(all) ELSE all
    IN  \E cut \in [0..Len(it) -> 0..Len(t)] :
          /\ Anchored(re) => cut[0] = 0
          /\ toEnd => cut[Len(it)] = Len(t)
          /\ \A k \in 1..Len(it) :
               /\ IF it[k].star THEN cut[k - 1] <= cut[k] ELSE cut[k] = cut[k - 1] + 1
               /\ \A j \in (cut[k - 1] + 1)..cut[k] : it[k].c \in {t[j], "."}

\* Whatever the pieces in which read() delivers the text: grep has written
\* exactly the lines ended so far in which the pattern occurs, in order, and
\* stops before the end of the text only at a line that fills its buffer; wc
\* has counted the lines, words and characters of what it has read.
PiecesDontMatter ==
    LET read == SubSeq(text, 1, pos) IN
    /\ tool = "grep" =>
         /\ out = SelectSeq(Lines(read), LAMBDA t : Means(pattern, t))
         /\ done => pos = Len(text) \/ Len(Unended(read)) = BUF - 1
    /\ tool = "wc" =>
         /\ cnt.c = pos /\ cnt.l = Cardinality(Ends(read))
         /\ cnt.w = Cardinality({k \in 1..pos : text[k] \notin Blanks /\ (k = 1 \/ text[k - 1] \in Blanks)})
         /\ done => pos = Len(text)
=============================================================================
