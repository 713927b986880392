----------------------------- MODULE LineQueue ------------------------------
(***************************************************************************)
(* What the console of the xv6 kernel promises to read(): what has been    *)
(* typed and not erased arrives, in order and once, when the line is       *)
(* complete or the buffer is full.  edit is the line being typed, ready    *)
(* what read() may take.                                                   *)
(***************************************************************************)
EXTENDS Integers, Sequences

CONSTANTS
    Chars,   \* characters that end no line
    Ends,    \* newline and end of file, which complete a line
    Size     \* characters that are held in all

VARIABLES ready, edit

Init == ready = <<>> /\ edit = <<>>

Room == Len(ready) + Len(edit) < Size

\* A character that leaves room for another one.
Type(c) ==
    /\ c \in Chars /\ Len(ready) + Len(edit) + 1 < Size
    /\ edit' = Append(edit, c)
    /\ UNCHANGED ready

\* The line is complete, or the last place is taken.
Finish(c) ==
    /\ Room /\ (c \in Ends \/ Len(ready) + Len(edit) + 1 = Size)
    /\ ready' = ready \o Append(edit, c)
    /\ edit' = <<>>

Erase ==
    /\ edit # <<>>
    /\ edit' = SubSeq(edit, 1, Len(edit) - 1)
    /\ UNCHANGED ready

EraseLine == edit' = <<>> /\ UNCHANGED ready

Take ==
    /\ ready # <<>>
    /\ ready' = Tail(ready)
    /\ UNCHANGED edit

Next ==
    \/ \E c \in Chars \cup Ends : Type(c) \/ Finish(c)
    \/ Erase \/ EraseLine \/ Take

Spec == Init /\ [][Next]_<<ready, edit>>
=============================================================================
