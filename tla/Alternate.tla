----------------------------- MODULE Alternate ------------------------------
(***************************************************************************)
(* What user/pingpong.c promises: it prints N lines "Ping" and N lines     *)
(* "Pong", one Pong after each Ping, and then it is over.                  *)
(***************************************************************************)
EXTENDS Naturals

CONSTANT N      \* the number of rounds

VARIABLES pings, pongs   \* lines printed so far

Init == pings = 0 /\ pongs = 0
Ping == pings = pongs /\ pings < N /\ pings' = pings + 1 /\ UNCHANGED pongs
Pong == pongs < pings /\ pongs' = pongs + 1 /\ UNCHANGED pings
Next == Ping \/ Pong

Spec == Init /\ [][Next]_<<pings, pongs>> /\ WF_<<pings, pongs>>(Next)
=============================================================================
