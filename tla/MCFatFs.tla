------------------------------ MODULE MCFatFs -------------------------------
(***************************************************************************)
(* Small instances of FatFs for TLC, and of the tree of its files (HTree), *)
(* which FatFs sees as a set: it takes more files than FatFs has to fill   *)
(* the tree, so TLC explores one at a time: part says which.               *)
(***************************************************************************)
EXTENDS FatFs

CONSTANT Parts          \* "volume", "tree" or both
VARIABLES t, files, broken, part

Tree == INSTANCE HTree WITH Paths <- 7
treeVars == <<t, files, broken>>

VolumeInit == Init /\ Tree!HTreeInit /\ part \in Parts

VolumeNext ==
    \/ part = "volume" /\ Next /\ UNCHANGED <<treeVars, part>>
    \/ part = "tree" /\ Tree!HTreeNext /\ UNCHANGED <<vars, part>>

VolumeSpec == VolumeInit /\ [][VolumeNext]_<<vars, treeVars, part>>

\* The tree finds the files it was given (HTree).
TreeExact == Tree!TreeExact
=============================================================================
