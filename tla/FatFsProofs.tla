---------------------------- MODULE FatFsProofs -----------------------------
(***************************************************************************)
(* Proofs about module FatFs, for any number of clusters of any size, any  *)
(* files and writes of any length.                                         *)
(*                                                                         *)
(* The image is described by a labelling: each cluster in use is owned by  *)
(* one entry and has one place in its chain (Links), and each unit of a    *)
(* file is in the cluster of its place (Placed).  Following the chain from *)
(* the start of a file passes the places 0, 1, 2, ... in turn, so that     *)
(* Seek and Chain, which are iterations, come to the cluster with a given  *)
(* label.  A call links a cluster behind the last one, adds a file, cuts a *)
(* chain or removes one, and fills clusters: a lemma for each says what    *)
(* becomes of the labels.  Induction over the numbers is that of the least *)
(* counterexample, from the library's WFMin.                               *)
(***************************************************************************)
EXTENDS FatFs, FiniteSetTheorems, WellFoundedInduction, TLAPS

-----------------------------------------------------------------------------
(* Numbers and iterations. *)

\* Quotient and remainder.
LEMMA DivMod ==
    ASSUME NEW m \in Nat \ {0}, NEW a \in Int
    PROVE  a \div m \in Int /\ a % m \in 0..(m - 1) /\ a = m * (a \div m) + (a % m)
BY SMT

\* A set of numbers has a least one.
LEMMA LeastNumber ==
    ASSUME NEW T \in SUBSET Nat, T # {}
    PROVE  \E x \in T : \A y \in T : x <= y
<1> DEFINE R == OpToRel(<, Nat)
<1>1. IsWellFoundedOn(R, Nat)
  BY NatLessThanWellFounded
<1>2. \A x, y \in Nat : y < x => <<y, x>> \in R
  BY DEF OpToRel
<1> HIDE DEF R
<1>3. T \subseteq Nat
  OBVIOUS
<1>4. PICK x \in T : \A y \in T : ~(<<y, x>> \in R)
  BY <1>1, <1>3, WFMin, Zenon
<1>5. \A y \in T : x <= y
  <2> SUFFICES ASSUME NEW y \in T PROVE x <= y
    OBVIOUS
  <2>1. x \in Nat /\ y \in Nat /\ ~(y < x)
    BY <1>2, <1>3, <1>4
  <2> QED BY <2>1
<1> QED BY <1>5

\* Induction.
LEMMA AllNumbers ==
    ASSUME NEW S \in SUBSET Nat, 0 \in S, \A k \in S : k + 1 \in S
    PROVE  S = Nat
<1> SUFFICES ASSUME ~(Nat \subseteq S) PROVE FALSE
  OBVIOUS
<1>1. Nat \ S # {} /\ Nat \ S \in SUBSET Nat
  OBVIOUS
<1>2. PICK x \in Nat \ S : \A y \in Nat \ S : x <= y
  BY <1>1, LeastNumber, Zenon
<1>3. x # 0 /\ x - 1 \in Nat /\ x - 1 \in S /\ (x - 1) + 1 = x
  BY <1>2
<1> QED BY <1>2, <1>3

\* A step on the elements of a set, and the sequence it makes of c.
StepOn(A, G) == G \in [A -> A]
Iteration(w, A, G, c) == w \in [Nat -> A] /\ w[0] = c /\ \A k \in Nat : w[k + 1] = G[w[k]]

\* There is such a sequence.
LEMMA Iterates ==
    ASSUME NEW A, NEW G, NEW c, StepOn(A, G), c \in A
    PROVE  \E w : Iteration(w, A, G, c)
<1>0. G \in [A -> A]
  BY DEF StepOn
<1> DEFINE Upto(k, w) == w \in [0..k -> A] /\ w[0] = c /\ \A i \in 0..(k - 1) : w[i + 1] = G[w[i]]
<1>1. \A k \in Nat : \E w : Upto(k, w)
  <2> DEFINE S == {k \in Nat : \E w : Upto(k, w)}
  <2>1. 0 \in S
    <3>1. Upto(0, [i \in 0..0 |-> c])
      OBVIOUS
    <3> QED BY <3>1
  <2>2. ASSUME NEW k \in S PROVE k + 1 \in S
    <3>1. k \in Nat
      OBVIOUS
    <3>2. PICK w : Upto(k, w)
      OBVIOUS
    <3> DEFINE v == [i \in 0..(k + 1) |-> IF i <= k THEN w[i] ELSE G[w[k]]]
    <3>3. v \in [0..(k + 1) -> A] /\ v[0] = c
      BY <1>0, <3>1, <3>2
    <3>4. \A i \in 0..((k + 1) - 1) : v[i + 1] = G[v[i]]
      BY <3>1, <3>2
    <3>5. Upto(k + 1, v)
      BY <3>3, <3>4
    <3> HIDE DEF Upto, v
    <3> QED BY <3>1, <3>5
  <2>3. S \in SUBSET Nat
    OBVIOUS
  <2> HIDE DEF S
  <2>4. S = Nat
    BY <2>1, <2>2, <2>3, AllNumbers, Zenon
  <2> QED BY <2>4 DEF S
<1>2. \A k \in Nat : \A l \in Nat : \A w, v : k <= l /\ Upto(k, w) /\ Upto(l, v) => w[k] = v[k]
  <2> DEFINE S == {k \in Nat : \A l \in Nat : \A w, v : k <= l /\ Upto(k, w) /\ Upto(l, v) => w[k] = v[k]}
  <2>1. 0 \in S
    OBVIOUS
  <2>2. ASSUME NEW k \in S PROVE k + 1 \in S
    <3> SUFFICES ASSUME NEW l \in Nat, NEW w, NEW v, k + 1 <= l, Upto(k + 1, w), Upto(l, v)
                 PROVE  w[k + 1] = v[k + 1]
      OBVIOUS
    <3> DEFINE u == [i \in 0..k |-> w[i]]
    <3>1. Upto(k, u) /\ u[k] = w[k]
      OBVIOUS
    <3>2. k \in Nat /\ k \in S
      OBVIOUS
    <3>5. k <= l
      BY <3>2
    <3>3. u[k] = v[k]
      <4> HIDE DEF u, Upto
      <4> QED BY <3>1, <3>2, <3>5
    <3>4. w[k + 1] = G[w[k]] /\ v[k + 1] = G[v[k]]
      BY <3>2
    <3> QED BY <3>1, <3>3, <3>4
  <2>3. S \in SUBSET Nat
    OBVIOUS
  <2> HIDE DEF S
  <2>4. S = Nat
    BY <2>1, <2>2, <2>3, AllNumbers, Zenon
  <2> HIDE DEF Upto
  <2> QED BY <2>4 DEF S
<1> DEFINE W(k) == CHOOSE w : Upto(k, w)
           f == [k \in Nat |-> W(k)[k]]
<1>3. \A k \in Nat : Upto(k, W(k))
  <2> HIDE DEF Upto
  <2> QED BY <1>1
<1>4. f \in [Nat -> A] /\ f[0] = c
  <2>1. \A k \in Nat : W(k)[k] \in A
    <3> HIDE DEF W
    <3> QED BY <1>3
  <2>2. W(0)[0] = c
    <3> HIDE DEF W
    <3> QED BY <1>3
  <2> HIDE DEF W
  <2> QED BY <2>1, <2>2
<1>5. ASSUME NEW k \in Nat PROVE f[k + 1] = G[f[k]]
  <2>1. Upto(k, W(k)) /\ Upto(k + 1, W(k + 1)) /\ k + 1 \in Nat /\ k <= k + 1
    <3> HIDE DEF Upto, W
    <3> QED BY <1>3
  <2>2. W(k)[k] = W(k + 1)[k]
    <3> HIDE DEF Upto, W
    <3> QED BY <1>2, <2>1
  <2>3. W(k + 1)[k + 1] = G[W(k + 1)[k]]
    <3> HIDE DEF W
    <3> QED BY <2>1
  <2> HIDE DEF W, Upto
  <2> QED BY <2>1, <2>2, <2>3
<1> HIDE DEF f
<1> QED BY <1>4, <1>5 DEF Iteration

\* What Walk does.
LEMMA WalkStep ==
    ASSUME NEW fat, NEW c \in Clusters \cup {EOC}
    PROVE  /\ Walk(fat, c, 0) = c
           /\ \A k \in Nat : /\ Walk(fat, c, k) \in Clusters \cup {EOC}
                             /\ Walk(fat, c, k + 1) =
                                   IF Walk(fat, c, k) = EOC THEN EOC
                                   ELSE NextCluster(fat, Walk(fat, c, k))
<1> DEFINE A == Clusters \cup {EOC}
           G == [x \in A |-> IF x = EOC THEN EOC ELSE NextCluster(fat, x)]
           Fits(k, w) == w = [i \in 0..k |-> IF i = 0 THEN c
                              ELSE IF w[i - 1] = EOC THEN EOC ELSE NextCluster(fat, w[i - 1])]
<1>1. StepOn(A, G)
  BY DEF NextCluster, StepOn
<1>2. c \in A
  OBVIOUS
<1> HIDE DEF A, G, Fits
<1>3. PICK w : Iteration(w, A, G, c)
  BY <1>1, <1>2, Iterates, Zenon
<1> USE DEF Fits
<1>5. \A k \in Nat : w[k + 1] = IF w[k] = EOC THEN EOC ELSE NextCluster(fat, w[k])
  BY <1>3 DEF A, G, Iteration
<1>4. ASSUME NEW k \in Nat PROVE Walk(fat, c, k) = w[k]
  <2> DEFINE g == [i \in 0..k |-> w[i]]
             v == CHOOSE u : Fits(k, u)
  <2>1. Fits(k, g)
    <3>1. \A i \in 1..k : w[i] = IF g[i - 1] = EOC THEN EOC ELSE NextCluster(fat, g[i - 1])
      <4> SUFFICES ASSUME NEW i \in 1..k
                   PROVE  w[i] = IF g[i - 1] = EOC THEN EOC ELSE NextCluster(fat, g[i - 1])
        OBVIOUS
      <4>1. i - 1 \in Nat /\ (i - 1) + 1 = i /\ g[i - 1] = w[i - 1]
        OBVIOUS
      <4> QED BY <1>5, <4>1
    <3>2. w[0] = c
      BY <1>3 DEF Iteration
    <3> QED BY <3>1, <3>2
  <2>2. Fits(k, v)
    <3> HIDE DEF Fits, g
    <3> QED BY <2>1
  <2>3. Walk(fat, c, k) = v[k]
    BY DEF Walk
  <2> HIDE DEF v
  <2> DEFINE S == {i \in Nat : i <= k => v[i] = w[i]}
  <2>4. 0 \in S
    BY <1>3, <2>2 DEF Iteration
  <2>5. ASSUME NEW i \in S PROVE i + 1 \in S
    <3> SUFFICES ASSUME i + 1 <= k PROVE v[i + 1] = w[i + 1]
      OBVIOUS
    <3>1. i \in Nat /\ i + 1 \in 0..k /\ i + 1 # 0 /\ (i + 1) - 1 = i /\ v[i] = w[i]
      OBVIOUS
    <3>2. v[i + 1] = IF v[i] = EOC THEN EOC ELSE NextCluster(fat, v[i])
      BY <2>2, <3>1
    <3> QED BY <1>5, <3>1, <3>2
  <2>6. S \in SUBSET Nat
    OBVIOUS
  <2> HIDE DEF S
  <2>7. S = Nat
    BY <2>4, <2>5, <2>6, AllNumbers, Zenon
  <2> QED BY <2>3, <2>7 DEF S
<1> QED BY <1>3, <1>4, <1>5 DEF A, Iteration

-----------------------------------------------------------------------------
(* Chains. *)

LiveIn(dir) == {i \in Slots : dir[i] \notin {End, Deleted}}

\* A chain is described by the entry that owns each cluster (-1: none) and by the
\* cluster's place in the chain of that entry.
Labels(own, rank) == own \in [Clusters -> Slots \cup {-1}] /\ rank \in [Clusters -> Nat]

RootKept(fat, own) == own[RootCluster] = -1 /\ fat[RootCluster] # FREE
UsedOwned(fat, own) == \A c \in Clusters \ {RootCluster} : fat[c] = FREE <=> own[c] = -1
OwnersLive(dir, own) == \A c \in Clusters : own[c] # -1 => own[c] \in LiveIn(dir)
NextOwned(fat, own, rank) ==
    \A c \in Clusters : own[c] # -1 /\ fat[c] \in Clusters =>
        own[fat[c]] = own[c] /\ rank[fat[c]] = rank[c] + 1
Reached(fat, own, rank) ==
    \A c \in Clusters : own[c] # -1 /\ rank[c] # 0 => \E d \in Clusters : own[d] = own[c] /\ fat[d] = c
PlaceUnique(own, rank) ==
    \A c, d \in Clusters : own[c] = own[d] /\ own[c] # -1 /\ rank[c] = rank[d] => c = d
Starts(dir, own, rank) ==
    \A i \in LiveIn(dir) : dir[i].start \in Clusters /\ own[dir[i].start] = i /\ rank[dir[i].start] = 0

Links(fat, dir, own, rank) ==
    /\ Labels(own, rank) /\ RootKept(fat, own) /\ UsedOwned(fat, own) /\ OwnersLive(dir, own)
    /\ NextOwned(fat, own, rank) /\ Reached(fat, own, rank) /\ PlaceUnique(own, rank)
    /\ Starts(dir, own, rank)

\* Every unit is in the cluster with its place, and holds what was written there.
Placed(dir, data, own, rank) ==
    \A i \in LiveIn(dir) : \A k \in 0..(dir[i].size - 1) :
        \E c \in Clusters : /\ own[c] = i /\ rank[c] = k \div CS
                            /\ data[c][k % CS] = <<dir[i].name, k>>

\* The numbers: clusters are positive, the special values are none of them.
LEMMA ClusterNumbers ==
    /\ N \in Nat \ {0} /\ CS \in Nat \ {0} /\ DirCap \in Nat \ {0} /\ Cardinality(OnImage) \in Nat
    /\ RootCluster \in Clusters /\ FREE \notin Clusters /\ EOC \notin Clusters /\ Clusters \subseteq Nat
    /\ -1 \notin Slots
<1>1. Cardinality(OnImage) \in Nat
  BY FatAssumption, FS_CardinalityType DEF FatAssumption
<1> QED BY <1>1, FatAssumption DEF FatAssumption, RootCluster, Clusters, FREE, EOC, Slots

\* Where a walk along a chain comes to.
LEMMA WalkAt ==
    ASSUME NEW fat, NEW dir, NEW own, NEW rank, Links(fat, dir, own, rank),
           NEW c \in Clusters, own[c] # -1, NEW k \in Nat
    PROVE  /\ Walk(fat, c, k) # EOC => /\ Walk(fat, c, k) \in Clusters
                                       /\ own[Walk(fat, c, k)] = own[c]
                                       /\ rank[Walk(fat, c, k)] = rank[c] + k
           /\ \A d \in Clusters : own[d] = own[c] /\ rank[d] = rank[c] + k => Walk(fat, c, k) = d
<1> DEFINE W(i) == Walk(fat, c, i)
           P(i) == /\ W(i) # EOC => W(i) \in Clusters /\ own[W(i)] = own[c] /\ rank[W(i)] = rank[c] + i
                   /\ \A d \in Clusters : own[d] = own[c] /\ rank[d] = rank[c] + i => W(i) = d
           S == {i \in Nat : P(i)}
<1>1. /\ W(0) = c
      /\ \A i \in Nat : /\ W(i) \in Clusters \cup {EOC}
                        /\ W(i + 1) = IF W(i) = EOC THEN EOC ELSE NextCluster(fat, W(i))
  BY WalkStep
<1> HIDE DEF W
<1>2. rank \in [Clusters -> Nat] /\ own \in [Clusters -> Slots \cup {-1}]
  BY DEF Links, Labels
<1>3. 0 \in S
  BY <1>1, <1>2 DEF Links, PlaceUnique
<1>4. ASSUME NEW i \in S PROVE i + 1 \in S
  <2>1. i \in Nat /\ i + 1 \in Nat /\ P(i) /\ rank[c] \in Nat
    BY <1>2
  <2>2. W(i + 1) = IF W(i) = EOC THEN EOC ELSE NextCluster(fat, W(i))
    BY <1>1, <2>1
  <2>3. ASSUME W(i + 1) # EOC
        PROVE  W(i + 1) \in Clusters /\ own[W(i + 1)] = own[c] /\ rank[W(i + 1)] = rank[c] + (i + 1)
    <3>1. W(i) # EOC /\ W(i + 1) = fat[W(i)] /\ fat[W(i)] \in Clusters
      BY <2>2, <2>3 DEF NextCluster
    <3>2. own[fat[W(i)]] = own[W(i)] /\ rank[fat[W(i)]] = rank[W(i)] + 1
      BY <2>1, <3>1 DEF Links, NextOwned
    <3> QED BY <2>1, <3>1, <3>2
  <2>4. ASSUME NEW d \in Clusters, own[d] = own[c], rank[d] = rank[c] + (i + 1)
        PROVE  W(i + 1) = d
    <3>1. rank[d] # 0 /\ own[d] # -1
      BY <2>1, <2>4
    <3>2. PICK b \in Clusters : own[b] = own[d] /\ fat[b] = d
      BY <3>1 DEF Links, Reached
    <3>3. rank[d] = rank[b] + 1
      BY <3>1, <3>2 DEF Links, NextOwned
    <3>4. W(i) = b
      BY <1>2, <2>1, <2>4, <3>2, <3>3
    <3> QED BY <2>2, <3>2, <3>4, ClusterNumbers DEF NextCluster
  <2>5. P(i + 1)
    BY <2>3, <2>4
  <2> HIDE DEF P
  <2> QED BY <2>1, <2>5
<1>5. S \in SUBSET Nat
  OBVIOUS
<1> HIDE DEF S
<1>6. S = Nat
  BY <1>3, <1>4, <1>5, AllNumbers, Zenon
<1>7. P(k)
  BY <1>6 DEF S
<1> QED BY <1>7 DEF W

\* A chain has a cluster at every place up to its last, so it is not longer than
\* there are clusters.
LEMMA PlaceBound ==
    ASSUME NEW fat, NEW dir, NEW own, NEW rank, Links(fat, dir, own, rank),
           NEW c \in Clusters, own[c] # -1
    PROVE  /\ rank[c] \in 0..(N - 1)
           /\ \A q \in 0..rank[c] : \E d \in Clusters : own[d] = own[c] /\ rank[d] = q
<1> DEFINE P(j) == j <= rank[c] => \E d \in Clusters : own[d] = own[c] /\ rank[d] = rank[c] - j
           S == {j \in Nat : P(j)}
<1>1. rank \in [Clusters -> Nat] /\ own \in [Clusters -> Slots \cup {-1}] /\ rank[c] \in Nat
  BY DEF Links, Labels
<1>2. 0 \in S
  BY <1>1
<1>3. ASSUME NEW j \in S PROVE j + 1 \in S
  <2>1. j \in Nat /\ j + 1 \in Nat /\ P(j)
    OBVIOUS
  <2>2. ASSUME j + 1 <= rank[c]
        PROVE  \E d \in Clusters : own[d] = own[c] /\ rank[d] = rank[c] - (j + 1)
    <3>1. PICK d \in Clusters : own[d] = own[c] /\ rank[d] = rank[c] - j
      BY <1>1, <2>1, <2>2
    <3>2. rank[d] # 0 /\ own[d] # -1
      BY <1>1, <2>1, <2>2, <3>1
    <3>3. PICK b \in Clusters : own[b] = own[d] /\ fat[b] = d
      BY <3>2 DEF Links, Reached
    <3>4. rank[d] = rank[b] + 1
      BY <3>2, <3>3 DEF Links, NextOwned
    <3>5. rank[b] = rank[c] - (j + 1)
      BY <1>1, <2>1, <3>1, <3>4
    <3> QED BY <3>1, <3>3, <3>5
  <2>3. P(j + 1)
    BY <2>2
  <2> HIDE DEF P
  <2> QED BY <2>1, <2>3
<1>4. S \in SUBSET Nat
  OBVIOUS
<1>5. S = Nat
  <2> HIDE DEF S
  <2> QED BY <1>2, <1>3, <1>4, AllNumbers, Zenon
<1>6. ASSUME NEW q \in 0..rank[c] PROVE \E d \in Clusters : own[d] = own[c] /\ rank[d] = q
  <2>1. rank[c] - q \in Nat /\ rank[c] - q <= rank[c] /\ rank[c] - (rank[c] - q) = q
    BY <1>1
  <2>2. P(rank[c] - q)
    <3> HIDE DEF P
    <3> QED BY <1>5, <2>1
  <2> QED BY <2>1, <2>2
<1>7. rank[c] < N
  <2> SUFFICES ASSUME ~(rank[c] < N) PROVE FALSE
    OBVIOUS
  <2> DEFINE Q == 0..rank[c]
             f == [q \in Q |-> CHOOSE d \in Clusters : own[d] = own[c] /\ rank[d] = q]
  <2>1. IsFiniteSet(Q) /\ Cardinality(Q) = rank[c] + 1
    <3>1. 0 \in Int /\ rank[c] \in Int /\ ~(0 > rank[c]) /\ rank[c] - 0 + 1 = rank[c] + 1
      BY <1>1
    <3> QED BY <3>1, FS_Interval
  <2>2. IsFiniteSet(Clusters) /\ Cardinality(Clusters) = N
    <3>1. 2 \in Int /\ N + 1 \in Int /\ ~(2 > N + 1) /\ (N + 1) - 2 + 1 = N
      BY ClusterNumbers
    <3> QED BY <3>1, FS_Interval DEF Clusters
  <2>3. Cardinality(Clusters) < Cardinality(Q)
    BY <1>1, <2>1, <2>2, ClusterNumbers
  <2>4. \A q \in Q : f[q] \in Clusters /\ rank[f[q]] = q
    BY <1>6
  <2>5. f \in [Q -> Clusters]
    BY <2>4
  <2> HIDE DEF f, Q
  <2>6. PICK x, y \in Q : x # y /\ f[x] = f[y]
    BY <2>1, <2>2, <2>3, <2>5, FS_PigeonHole
  <2> QED BY <2>4, <2>6
<1> QED BY <1>1, <1>6, <1>7, ClusterNumbers

\* The clusters from c on are those of the same owner with the following places.
LEMMA ChainIs ==
    ASSUME NEW fat, NEW dir, NEW own, NEW rank, Links(fat, dir, own, rank),
           NEW c \in Clusters, own[c] # -1
    PROVE  Chain(fat, c) = {d \in Clusters : own[d] = own[c] /\ rank[d] >= rank[c]}
<1>1. rank \in [Clusters -> Nat] /\ own \in [Clusters -> Slots \cup {-1}]
  BY DEF Links, Labels
<1>2. ASSUME NEW k \in 0..N, Walk(fat, c, k) # EOC
      PROVE  /\ Walk(fat, c, k) \in Clusters /\ own[Walk(fat, c, k)] = own[c]
             /\ rank[Walk(fat, c, k)] >= rank[c]
  <2>1. k \in Nat
    OBVIOUS
  <2> QED BY <1>1, <1>2, <2>1, WalkAt
<1>3. ASSUME NEW d \in Clusters, own[d] = own[c], rank[d] >= rank[c]
      PROVE  d # EOC /\ \E k \in 0..N : Walk(fat, c, k) = d
  <2>1. rank[d] \in 0..(N - 1)
    BY <1>3, PlaceBound
  <2>2. rank[d] - rank[c] \in 0..N /\ rank[d] - rank[c] \in Nat /\ rank[d] = rank[c] + (rank[d] - rank[c])
    BY <1>1, <1>3, <2>1, ClusterNumbers
  <2>3. Walk(fat, c, rank[d] - rank[c]) = d
    BY <1>3, <2>2, WalkAt
  <2> QED BY <2>2, <2>3, ClusterNumbers
<1> QED BY <1>2, <1>3 DEF Chain

-----------------------------------------------------------------------------
(* What the operations do to the chains. *)

FatType == [Clusters -> {FREE, EOC} \cup Clusters]
EntryType == [name : Names \cup {"end", "deleted"}, start : Clusters \cup {0}, size : Nat]
DirType == [Slots -> EntryType]

\* NextFree gives a cluster, or the end.
LEMMA FreeClusterTyped ==
    ASSUME NEW fat
    PROVE  NextFree(fat) \in Clusters \cup {EOC}
<1> DEFINE F == {c \in Clusters : fat[c] = FREE}
<1>1. CASE F = {}
  BY <1>1 DEF NextFree
<1>2. CASE F # {}
  <2>1. F \in SUBSET Nat
    BY ClusterNumbers
  <2>2. \E c \in F : \A d \in F : c <= d
    <3> HIDE DEF F
    <3> QED BY <1>2, <2>1, LeastNumber
  <2> QED BY <1>2, <2>2 DEF NextFree
<1> QED BY <1>1, <1>2

\* The cluster it gives is free, and not the root's.
LEMMA FreeCluster ==
    ASSUME NEW fat, NEW own, RootKept(fat, own)
    PROVE  /\ NextFree(fat) \in Clusters \cup {EOC}
           /\ NextFree(fat) # EOC =>
                 NextFree(fat) \in Clusters \ {RootCluster} /\ fat[NextFree(fat)] = FREE
<1> DEFINE F == {c \in Clusters : fat[c] = FREE}
<1>1. CASE F = {}
  BY <1>1 DEF NextFree
<1>2. CASE F # {}
  <2>1. F \in SUBSET Nat
    BY ClusterNumbers
  <2>2. \E c \in F : \A d \in F : c <= d
    <3> HIDE DEF F
    <3> QED BY <1>2, <2>1, LeastNumber
  <2>3. NextFree(fat) \in F
    BY <1>2, <2>2 DEF NextFree
  <2> QED BY <2>3, ClusterNumbers DEF RootKept
<1> QED BY <1>1, <1>2

\* A cluster that is not the last has the one that follows at its next place; the
\* last has none there.
LEMMA LastPlace ==
    ASSUME NEW fat \in FatType, NEW dir, NEW own, NEW rank, Links(fat, dir, own, rank),
           NEW c \in Clusters, own[c] # -1, NextCluster(fat, c) = EOC
    PROVE  /\ fat[c] = EOC
           /\ \A d \in Clusters : own[d] = own[c] => rank[d] <= rank[c]
<1>1. rank \in [Clusters -> Nat] /\ own \in [Clusters -> Slots \cup {-1}]
  BY DEF Links, Labels
<1>2. fat[c] = EOC
  BY ClusterNumbers DEF NextCluster, FatType, Links, RootKept, UsedOwned
<1>3. ASSUME NEW d \in Clusters, own[d] = own[c], ~(rank[d] <= rank[c]) PROVE FALSE
  <2>1. rank[c] + 1 \in 0..rank[d]
    BY <1>1, <1>3
  <2>2. PICK a \in Clusters : own[a] = own[d] /\ rank[a] = rank[c] + 1
    BY <1>3, <2>1, PlaceBound
  <2>3. rank[a] # 0 /\ own[a] # -1
    BY <1>1, <1>3, <2>2
  <2>4. PICK b \in Clusters : own[b] = own[a] /\ fat[b] = a
    BY <2>3 DEF Links, Reached
  <2>5. rank[a] = rank[b] + 1
    BY <2>3, <2>4 DEF Links, NextOwned
  <2>6. rank[b] = rank[c] /\ own[b] = own[c]
    BY <1>1, <1>3, <2>2, <2>4, <2>5
  <2>7. b = c
    BY <2>6 DEF Links, PlaceUnique
  <2> QED BY <1>2, <2>4, <2>7, ClusterNumbers
<1> QED BY <1>2, <1>3

\* A free cluster is linked after the last of a chain.
Linked(fat, own, rank, c, new, fat2, own2, rank2) ==
    /\ c \in Clusters /\ own[c] # -1 /\ NextCluster(fat, c) = EOC
    /\ new \in Clusters \ {RootCluster} /\ fat[new] = FREE
    /\ fat2 = [fat EXCEPT ![c] = new, ![new] = EOC]
    /\ own2 = [own EXCEPT ![new] = own[c]]
    /\ rank2 = [rank EXCEPT ![new] = rank[c] + 1]

\* A free cluster put behind the last one of a chain belongs to that chain.
LEMMA LinkAfter ==
    ASSUME NEW fat \in FatType, NEW dir, NEW data, NEW own, NEW rank, Links(fat, dir, own, rank),
           Placed(dir, data, own, rank), NEW c, NEW new, NEW fat2, NEW own2, NEW rank2,
           Linked(fat, own, rank, c, new, fat2, own2, rank2)
    PROVE  /\ Links(fat2, dir, own2, rank2) /\ Placed(dir, data, own2, rank2)
           /\ own2[c] = own[c] /\ rank2[c] = rank[c] /\ NextCluster(fat2, c) = new
           /\ own2[new] = own[c] /\ rank2[new] = rank[c] + 1
<1> c \in Clusters /\ own[c] # -1 /\ NextCluster(fat, c) = EOC
    /\ new \in Clusters /\ new # RootCluster /\ fat[new] = FREE
  BY DEF Linked
<1>0. /\ fat2 = [fat EXCEPT ![c] = new, ![new] = EOC] /\ own2 = [own EXCEPT ![new] = own[c]]
      /\ rank2 = [rank EXCEPT ![new] = rank[c] + 1]
  BY DEF Linked
<1>1. rank \in [Clusters -> Nat] /\ own \in [Clusters -> Slots \cup {-1}]
  BY DEF Links, Labels
<1>2. fat[c] = EOC /\ \A d \in Clusters : own[d] = own[c] => rank[d] <= rank[c]
  BY LastPlace
<1>3. own[new] = -1 /\ new # c
  BY <1>2, ClusterNumbers DEF Links, UsedOwned, FREE, EOC
<1>4. /\ \A d \in Clusters : own2[d] = IF d = new THEN own[c] ELSE own[d]
      /\ \A d \in Clusters : rank2[d] = IF d = new THEN rank[c] + 1 ELSE rank[d]
      /\ \A d \in Clusters : fat2[d] = IF d = new THEN EOC ELSE IF d = c THEN new ELSE fat[d]
      /\ own2 \in [Clusters -> Slots \cup {-1}] /\ rank2 \in [Clusters -> Nat]
  BY <1>0, <1>1, <1>3 DEF FatType
<1>5. EOC # FREE /\ EOC \notin Clusters /\ FREE \notin Clusters /\ RootCluster \in Clusters
  BY ClusterNumbers DEF EOC, FREE
<1>6. Labels(own2, rank2)
  BY <1>4 DEF Labels
<1>7. RootKept(fat2, own2)
  BY <1>4, <1>5 DEF Links, RootKept
<1>8. UsedOwned(fat2, own2)
  BY <1>3, <1>4, <1>5 DEF Links, UsedOwned
<1>9. OwnersLive(dir, own2)
  BY <1>4 DEF Links, OwnersLive
<1>10. NextOwned(fat2, own2, rank2)
  <2> SUFFICES ASSUME NEW d \in Clusters, own2[d] # -1, fat2[d] \in Clusters
               PROVE  own2[fat2[d]] = own2[d] /\ rank2[fat2[d]] = rank2[d] + 1
    BY DEF NextOwned
  <2>1. d # new
    BY <1>4, <1>5
  <2>2. CASE d = c
    BY <1>3, <1>4, <2>2
  <2>3. CASE d # c
    <3>1. fat2[d] = fat[d] /\ own[d] # -1 /\ fat[d] \in Clusters
      BY <1>4, <2>1, <2>3
    <3>2. own[fat[d]] = own[d] /\ rank[fat[d]] = rank[d] + 1
      BY <3>1 DEF Links, NextOwned
    <3> QED BY <1>3, <1>4, <2>1, <3>1, <3>2
  <2> QED BY <2>2, <2>3
<1>11. Reached(fat2, own2, rank2)
  <2> SUFFICES ASSUME NEW d \in Clusters, own2[d] # -1, rank2[d] # 0
               PROVE  \E b \in Clusters : own2[b] = own2[d] /\ fat2[b] = d
    BY DEF Reached
  <2>1. CASE d = new
    BY <1>3, <1>4, <2>1
  <2>2. CASE d # new
    <3>1. PICK b \in Clusters : own[b] = own[d] /\ fat[b] = d
      BY <1>4, <2>2 DEF Links, Reached
    <3>2. b # new /\ b # c
      BY <1>2, <1>5, <3>1
    <3> QED BY <1>4, <2>2, <3>1, <3>2
  <2> QED BY <2>1, <2>2
<1>12. PlaceUnique(own2, rank2)
  <2> SUFFICES ASSUME NEW a \in Clusters, NEW b \in Clusters, own2[a] = own2[b], own2[a] # -1, rank2[a] = rank2[b]
               PROVE  a = b
    BY DEF PlaceUnique
  <2>1. \A d \in Clusters : own[d] = own[c] => rank[d] # rank[c] + 1
    BY <1>1, <1>2
  <2>2. CASE a = new \/ b = new
    BY <1>4, <2>1, <2>2
  <2>3. CASE a # new /\ b # new
    BY <1>4, <2>3 DEF Links, PlaceUnique
  <2> QED BY <2>2, <2>3
<1>13. Starts(dir, own2, rank2)
  <2> SUFFICES ASSUME NEW i \in LiveIn(dir)
               PROVE  dir[i].start \in Clusters /\ own2[dir[i].start] = i /\ rank2[dir[i].start] = 0
    BY DEF Starts
  <2>1. dir[i].start \in Clusters /\ own[dir[i].start] = i /\ rank[dir[i].start] = 0 /\ i # -1
    BY ClusterNumbers DEF Links, Starts, LiveIn
  <2>2. dir[i].start # new
    BY <1>3, <2>1
  <2> QED BY <1>4, <2>1, <2>2
<1>14. Placed(dir, data, own2, rank2)
  <2> SUFFICES ASSUME NEW i \in LiveIn(dir), NEW k \in 0..(dir[i].size - 1)
               PROVE  \E d \in Clusters : /\ own2[d] = i /\ rank2[d] = k \div CS
                                          /\ data[d][k % CS] = <<dir[i].name, k>>
    BY DEF Placed
  <2>1. PICK d \in Clusters : own[d] = i /\ rank[d] = k \div CS /\ data[d][k % CS] = <<dir[i].name, k>>
    BY DEF Placed
  <2>2. d # new
    BY <1>3, <2>1, ClusterNumbers DEF LiveIn
  <2>3. own2[d] = i /\ rank2[d] = k \div CS
    BY <1>4, <2>1, <2>2
  <2> QED BY <2>1, <2>3
<1>15. own2[c] = own[c] /\ rank2[c] = rank[c] /\ NextCluster(fat2, c) = new /\ own2[new] = own[c] /\ rank2[new] = rank[c] + 1
  BY <1>3, <1>4 DEF NextCluster
<1> QED BY <1>6, <1>7, <1>8, <1>9, <1>10, <1>11, <1>12, <1>13, <1>14, <1>15 DEF Links

\* A new file gets a free cluster and an entry that was not in use.
Added(fat, dir, new, p, f, fat2, dir2) ==
    /\ new \in Clusters \ {RootCluster} /\ fat[new] = FREE /\ p \in Slots /\ p \notin LiveIn(dir)
    /\ fat2 = [fat EXCEPT ![new] = EOC] /\ dir2 = [dir EXCEPT ![p] = Entry(f, new, 0)]

\* A free cluster and a free slot make a file; the other chains stay.
LEMMA AddFile ==
    ASSUME NEW fat \in FatType, NEW dir \in DirType, NEW data, NEW own, NEW rank,
           Links(fat, dir, own, rank), Placed(dir, data, own, rank),
           NEW new, NEW p, NEW nm, NEW fat2, NEW dir2, Added(fat, dir, new, p, nm, fat2, dir2)
    PROVE  /\ \E own2, rank2 : Links(fat2, dir2, own2, rank2) /\ Placed(dir2, data, own2, rank2)
           /\ LiveIn(dir2) = LiveIn(dir) \cup {p}
<1> DEFINE own2 == [own EXCEPT ![new] = p]
           rank2 == [rank EXCEPT ![new] = 0]
<1>0. fat2 = [fat EXCEPT ![new] = EOC] /\ dir2 = [dir EXCEPT ![p] = Entry(nm, new, 0)]
  BY DEF Added
<1> new \in Clusters \ {RootCluster} /\ fat[new] = FREE /\ p \in Slots /\ p \notin LiveIn(dir)
  BY DEF Added
<1>1. rank \in [Clusters -> Nat] /\ own \in [Clusters -> Slots \cup {-1}]
  BY DEF Links, Labels
<1>2. EOC # FREE /\ EOC \notin Clusters /\ FREE \notin Clusters /\ RootCluster \in Clusters /\ -1 \notin Slots
  BY ClusterNumbers DEF EOC, FREE
<1>3. own[new] = -1 /\ \A d \in Clusters : own[d] # p
  BY <1>2 DEF Links, UsedOwned, OwnersLive
<1>4. /\ \A d \in Clusters : own2[d] = IF d = new THEN p ELSE own[d]
      /\ \A d \in Clusters : rank2[d] = IF d = new THEN 0 ELSE rank[d]
      /\ \A d \in Clusters : fat2[d] = IF d = new THEN EOC ELSE fat[d]
      /\ \A i \in Slots : dir2[i] = IF i = p THEN Entry(nm, new, 0) ELSE dir[i]
      /\ own2 \in [Clusters -> Slots \cup {-1}] /\ rank2 \in [Clusters -> Nat]
  BY <1>0, <1>1 DEF FatType, DirType
<1>5. /\ Entry(nm, new, 0).start = new /\ Entry(nm, new, 0).size = 0
      /\ Entry(nm, new, 0) \notin {End, Deleted}
  BY <1>2 DEF Entry, End, Deleted, FREE
<1> HIDE DEF own2, rank2
<1>6. LiveIn(dir2) = LiveIn(dir) \cup {p}
  BY <1>4, <1>5 DEF LiveIn
<1>7. Labels(own2, rank2)
  BY <1>4 DEF Labels
<1>8. RootKept(fat2, own2) /\ UsedOwned(fat2, own2)
  BY <1>2, <1>4 DEF Links, RootKept, UsedOwned
<1>9. OwnersLive(dir2, own2)
  BY <1>4, <1>6 DEF Links, OwnersLive
<1>10. NextOwned(fat2, own2, rank2)
  <2> SUFFICES ASSUME NEW d \in Clusters, own2[d] # -1, fat2[d] \in Clusters
               PROVE  own2[fat2[d]] = own2[d] /\ rank2[fat2[d]] = rank2[d] + 1
    BY DEF NextOwned
  <2>1. d # new
    BY <1>2, <1>4
  <2>2. fat2[d] = fat[d] /\ own[d] # -1 /\ fat[d] \in Clusters
    BY <1>4, <2>1
  <2>3. own[fat[d]] = own[d] /\ rank[fat[d]] = rank[d] + 1
    BY <2>2 DEF Links, NextOwned
  <2> QED BY <1>3, <1>4, <2>1, <2>2, <2>3
<1>11. Reached(fat2, own2, rank2)
  <2> SUFFICES ASSUME NEW d \in Clusters, own2[d] # -1, rank2[d] # 0
               PROVE  \E b \in Clusters : own2[b] = own2[d] /\ fat2[b] = d
    BY DEF Reached
  <2>1. d # new
    BY <1>4
  <2>2. PICK b \in Clusters : own[b] = own[d] /\ fat[b] = d
    BY <1>4, <2>1 DEF Links, Reached
  <2>3. b # new
    BY <1>2, <2>2
  <2> QED BY <1>4, <2>1, <2>2, <2>3
<1>12. PlaceUnique(own2, rank2)
  BY <1>3, <1>4 DEF Links, PlaceUnique
<1>13. Starts(dir2, own2, rank2)
  <2> SUFFICES ASSUME NEW i \in LiveIn(dir2)
               PROVE  dir2[i].start \in Clusters /\ own2[dir2[i].start] = i /\ rank2[dir2[i].start] = 0
    BY DEF Starts
  <2>1. CASE i = p
    BY <1>4, <1>5, <2>1
  <2>2. CASE i # p
    <3>1. i \in LiveIn(dir) /\ dir2[i] = dir[i] /\ i \in Slots
      BY <1>4, <1>6, <2>2 DEF LiveIn
    <3>2. dir[i].start \in Clusters /\ own[dir[i].start] = i /\ rank[dir[i].start] = 0
      BY <3>1 DEF Links, Starts
    <3>3. dir[i].start # new
      BY <1>2, <1>3, <3>1, <3>2
    <3> QED BY <1>4, <3>1, <3>2, <3>3
  <2> QED BY <2>1, <2>2
<1>14. Placed(dir2, data, own2, rank2)
  <2> SUFFICES ASSUME NEW i \in LiveIn(dir2), NEW k \in 0..(dir2[i].size - 1)
               PROVE  \E d \in Clusters : /\ own2[d] = i /\ rank2[d] = k \div CS
                                          /\ data[d][k % CS] = <<dir2[i].name, k>>
    BY DEF Placed
  <2>1. i # p
    BY <1>4, <1>5
  <2>2. i \in LiveIn(dir) /\ dir2[i] = dir[i] /\ i \in Slots
    BY <1>4, <1>6, <2>1 DEF LiveIn
  <2>3. PICK d \in Clusters : own[d] = i /\ rank[d] = k \div CS /\ data[d][k % CS] = <<dir[i].name, k>>
    BY <2>2 DEF Placed
  <2>4. d # new
    BY <1>2, <1>3, <2>2, <2>3
  <2>5. own2[d] = i /\ rank2[d] = k \div CS
    BY <1>4, <2>3, <2>4
  <2> QED BY <2>2, <2>3, <2>5
<1> QED BY <1>6, <1>7, <1>8, <1>9, <1>10, <1>11, <1>12, <1>13, <1>14 DEF Links

\* A chain is cut after c: the clusters behind it are freed, those before stay.
LEMMA CutAfter ==
    ASSUME NEW fat \in FatType, NEW dir \in DirType, NEW data, NEW own, NEW rank,
           Links(fat, dir, own, rank), Placed(dir, data, own, rank),
           NEW i \in LiveIn(dir), NEW c \in Clusters, own[c] = i,
           NEW z \in 0..dir[i].size, \A k \in 0..(z - 1) : k \div CS <= rank[c],
           NEW dir2, dir2 = [dir EXCEPT ![i] = Entry(dir[i].name, dir[i].start, z)]
    PROVE  LET fat2 == FreeChain([fat EXCEPT ![c] = EOC], NextCluster(fat, c))
               own2 == [d \in Clusters |-> IF own[d] = i /\ rank[d] > rank[c] THEN -1 ELSE own[d]]
           IN Links(fat2, dir2, own2, rank) /\ Placed(dir2, data, own2, rank)
<1> DEFINE cut == [fat EXCEPT ![c] = EOC]
           next == NextCluster(fat, c)
           fat2 == FreeChain(cut, next)
           own2 == [d \in Clusters |-> IF own[d] = i /\ rank[d] > rank[c] THEN -1 ELSE own[d]]
<1>1. rank \in [Clusters -> Nat] /\ own \in [Clusters -> Slots \cup {-1}]
  BY DEF Links, Labels
<1>2. EOC # FREE /\ EOC \notin Clusters /\ FREE \notin Clusters /\ RootCluster \in Clusters /\ -1 \notin Slots
  BY ClusterNumbers DEF EOC, FREE
<1>3. own[c] # -1 /\ i \in Slots /\ c # RootCluster
  BY <1>2 DEF LiveIn, Links, RootKept
<1>4. \A d \in Clusters : cut[d] = IF d = c THEN EOC ELSE fat[d]
  BY DEF FatType
<1>5. next = EOC => \A d \in Clusters : own[d] = i => ~(rank[d] > rank[c])
  <2>1. ASSUME next = EOC, NEW d \in Clusters, own[d] = i PROVE rank[d] <= rank[c]
    BY <1>3, <2>1, LastPlace
  <2> QED BY <1>1, <2>1
<1>6. next # EOC => Chain(cut, next) = {d \in Clusters : own[d] = i /\ rank[d] > rank[c]}
  <2> SUFFICES ASSUME next # EOC
               PROVE  Chain(cut, next) = {d \in Clusters : own[d] = i /\ rank[d] > rank[c]}
    OBVIOUS
  <2>1. next \in Clusters /\ own[next] = i /\ rank[next] = rank[c] + 1
    BY <1>3 DEF NextCluster, Links, NextOwned
  <2>2. /\ Walk(fat, next, 0) = next /\ Walk(cut, next, 0) = next
        /\ \A k \in Nat : /\ Walk(fat, next, k) \in Clusters \cup {EOC}
                          /\ Walk(fat, next, k + 1) =
                                IF Walk(fat, next, k) = EOC THEN EOC
                                ELSE NextCluster(fat, Walk(fat, next, k))
                          /\ Walk(cut, next, k + 1) =
                                IF Walk(cut, next, k) = EOC THEN EOC
                                ELSE NextCluster(cut, Walk(cut, next, k))
    <3> HIDE DEF next, cut
    <3> QED BY <2>1, WalkStep
  <2> DEFINE S == {k \in Nat : Walk(cut, next, k) = Walk(fat, next, k)}
  <2>3. 0 \in S
    BY <2>2
  <2>4. ASSUME NEW k \in S PROVE k + 1 \in S
    <3>1. k \in Nat /\ k + 1 \in Nat /\ Walk(cut, next, k) = Walk(fat, next, k)
      OBVIOUS
    <3>2. CASE Walk(fat, next, k) = EOC
      BY <2>2, <3>1, <3>2
    <3>3. CASE Walk(fat, next, k) # EOC
      <4>1. Walk(fat, next, k) \in Clusters /\ rank[Walk(fat, next, k)] = rank[next] + k
        BY <1>3, <2>1, <3>1, <3>3, WalkAt
      <4>2. Walk(fat, next, k) # c
        BY <1>1, <2>1, <3>1, <4>1
      <4>3. NextCluster(cut, Walk(fat, next, k)) = NextCluster(fat, Walk(fat, next, k))
        BY <1>4, <4>1, <4>2 DEF NextCluster
      <4> QED BY <2>2, <3>1, <3>3, <4>3
    <3> QED BY <3>2, <3>3
  <2>5. S \in SUBSET Nat
    OBVIOUS
  <2>6. S = Nat
    <3> HIDE DEF S
    <3> QED BY <2>3, <2>4, <2>5, AllNumbers, Zenon
  <2>7. \A k \in 0..N : Walk(cut, next, k) = Walk(fat, next, k)
    <3>1. \A k \in 0..N : k \in Nat
      BY ClusterNumbers
    <3> QED BY <2>6, <3>1
  <2>8. Chain(cut, next) = Chain(fat, next)
    BY <2>7 DEF Chain
  <2>9. Chain(fat, next) = {d \in Clusters : own[d] = own[next] /\ rank[d] >= rank[next]}
    <3> HIDE DEF next
    <3> QED BY <1>3, <2>1, ChainIs
  <2>10. \A d \in Clusters : rank[d] >= rank[next] <=> rank[d] > rank[c]
    BY <1>1, <2>1
  <2> HIDE DEF next, cut
  <2> QED BY <2>1, <2>8, <2>9, <2>10
<1>7. \A d \in Clusters : fat2[d] = IF own[d] = i /\ rank[d] > rank[c] THEN FREE
                                    ELSE IF d = c THEN EOC ELSE fat[d]
  BY <1>4, <1>5, <1>6 DEF FreeChain
<1>8. /\ \A d \in Clusters : own2[d] = IF own[d] = i /\ rank[d] > rank[c] THEN -1 ELSE own[d]
      /\ own2 \in [Clusters -> Slots \cup {-1}]
  BY <1>1
<1>9. /\ dir2[i].name = dir[i].name /\ dir2[i].start = dir[i].start /\ dir2[i].size = z
      /\ \A j \in Slots \ {i} : dir2[j] = dir[j]
  BY <1>3 DEF Entry, DirType
<1>10. LiveIn(dir2) = LiveIn(dir)
  <2>1. dir[i].start \in Clusters
    BY DEF Links, Starts
  <2>2. dir2[i] \notin {End, Deleted}
    BY <1>2, <1>9, <2>1 DEF Entry, End, Deleted, FREE
  <2> QED BY <1>9, <2>2 DEF LiveIn
<1> HIDE DEF fat2, own2, cut, next
<1>11. Labels(own2, rank) /\ RootKept(fat2, own2) /\ UsedOwned(fat2, own2) /\ OwnersLive(dir2, own2)
  <2>1. Labels(own2, rank)
    BY <1>1, <1>8 DEF Labels
  <2>2. RootKept(fat2, own2)
    BY <1>2, <1>3, <1>7, <1>8 DEF Links, RootKept
  <2>3. UsedOwned(fat2, own2)
    BY <1>2, <1>3, <1>7, <1>8 DEF Links, UsedOwned
  <2>4. OwnersLive(dir2, own2)
    BY <1>8, <1>10 DEF Links, OwnersLive
  <2> QED BY <2>1, <2>2, <2>3, <2>4
<1>12. NextOwned(fat2, own2, rank)
  <2> SUFFICES ASSUME NEW d \in Clusters, own2[d] # -1, fat2[d] \in Clusters
               PROVE  own2[fat2[d]] = own2[d] /\ rank[fat2[d]] = rank[d] + 1
    BY DEF NextOwned
  <2>1. ~(own[d] = i /\ rank[d] > rank[c]) /\ own2[d] = own[d]
    BY <1>8
  <2>2. d # c /\ fat2[d] = fat[d]
    BY <1>2, <1>7, <2>1
  <2>3. own[fat[d]] = own[d] /\ rank[fat[d]] = rank[d] + 1
    BY <2>1, <2>2 DEF Links, NextOwned
  <2>4. own[d] = i => rank[d] # rank[c]
    BY <1>3, <2>2 DEF Links, PlaceUnique
  <2>5. ~(own[fat[d]] = i /\ rank[fat[d]] > rank[c])
    BY <1>1, <2>1, <2>2, <2>3, <2>4
  <2> QED BY <1>8, <2>1, <2>2, <2>3, <2>5
<1>13. Reached(fat2, own2, rank)
  <2> SUFFICES ASSUME NEW d \in Clusters, own2[d] # -1, rank[d] # 0
               PROVE  \E b \in Clusters : own2[b] = own2[d] /\ fat2[b] = d
    BY DEF Reached
  <2>1. ~(own[d] = i /\ rank[d] > rank[c]) /\ own2[d] = own[d]
    BY <1>8
  <2>2. PICK b \in Clusters : own[b] = own[d] /\ fat[b] = d
    BY <2>1 DEF Links, Reached
  <2>3. rank[d] = rank[b] + 1
    BY <2>1, <2>2 DEF Links, NextOwned
  <2>4. ~(own[b] = i /\ rank[b] > rank[c]) /\ b # c
    BY <1>1, <2>1, <2>2, <2>3
  <2> QED BY <1>7, <1>8, <2>1, <2>2, <2>4
<1>14. PlaceUnique(own2, rank)
  BY <1>8 DEF Links, PlaceUnique
<1>15. Starts(dir2, own2, rank)
  <2> SUFFICES ASSUME NEW j \in LiveIn(dir2)
               PROVE  dir2[j].start \in Clusters /\ own2[dir2[j].start] = j /\ rank[dir2[j].start] = 0
    BY DEF Starts
  <2>1. j \in LiveIn(dir) /\ dir2[j].start = dir[j].start
    BY <1>9, <1>10 DEF LiveIn
  <2>2. dir[j].start \in Clusters /\ own[dir[j].start] = j /\ rank[dir[j].start] = 0
    BY <2>1 DEF Links, Starts
  <2> QED BY <1>1, <1>8, <2>1, <2>2
<1>16. Placed(dir2, data, own2, rank)
  <2> SUFFICES ASSUME NEW j \in LiveIn(dir2), NEW k \in 0..(dir2[j].size - 1)
               PROVE  \E d \in Clusters : /\ own2[d] = j /\ rank[d] = k \div CS
                                          /\ data[d][k % CS] = <<dir2[j].name, k>>
    BY DEF Placed
  <2>1. dir[i].size \in Nat /\ j \in LiveIn(dir)
    BY <1>3, <1>10 DEF DirType, EntryType
  <2>2. dir2[j].name = dir[j].name /\ k \in 0..(dir[j].size - 1)
    BY <1>9, <2>1 DEF LiveIn
  <2>3. PICK d \in Clusters : own[d] = j /\ rank[d] = k \div CS /\ data[d][k % CS] = <<dir[j].name, k>>
    BY <2>1, <2>2 DEF Placed
  <2>4. j = i => rank[d] <= rank[c]
    BY <1>9, <2>3
  <2>5. own2[d] = j
    BY <1>1, <1>8, <2>3, <2>4
  <2> QED BY <2>2, <2>3, <2>5
<1> QED BY <1>11, <1>12, <1>13, <1>14, <1>15, <1>16 DEF Links, fat2, own2, cut, next

\* A file is removed with its chain.
LEMMA RemoveFile ==
    ASSUME NEW fat \in FatType, NEW dir \in DirType, NEW data, NEW own, NEW rank,
           Links(fat, dir, own, rank), Placed(dir, data, own, rank), NEW i \in LiveIn(dir)
    PROVE  LET fat2 == FreeChain(fat, dir[i].start)
               dir2 == [dir EXCEPT ![i] = Deleted]
               own2 == [d \in Clusters |-> IF own[d] = i THEN -1 ELSE own[d]]
           IN Links(fat2, dir2, own2, rank) /\ Placed(dir2, data, own2, rank)
<1> DEFINE fat2 == FreeChain(fat, dir[i].start)
           dir2 == [dir EXCEPT ![i] = Deleted]
           own2 == [d \in Clusters |-> IF own[d] = i THEN -1 ELSE own[d]]
<1>1. rank \in [Clusters -> Nat] /\ own \in [Clusters -> Slots \cup {-1}]
  BY DEF Links, Labels
<1>2. EOC # FREE /\ EOC \notin Clusters /\ FREE \notin Clusters /\ RootCluster \in Clusters /\ -1 \notin Slots
  BY ClusterNumbers DEF EOC, FREE
<1>3. dir[i].start \in Clusters /\ own[dir[i].start] = i /\ rank[dir[i].start] = 0 /\ i \in Slots /\ i # -1
  BY <1>2 DEF Links, Starts, LiveIn
<1>4. Chain(fat, dir[i].start) = {d \in Clusters : own[d] = i}
  <2>1. Chain(fat, dir[i].start) = {d \in Clusters : own[d] = own[dir[i].start] /\ rank[d] >= rank[dir[i].start]}
    BY <1>3, ChainIs
  <2> QED BY <1>1, <1>3, <2>1
<1>5. \A d \in Clusters : fat2[d] = IF own[d] = i THEN FREE ELSE fat[d]
  BY <1>2, <1>3, <1>4 DEF FreeChain
<1>6. /\ \A d \in Clusters : own2[d] = IF own[d] = i THEN -1 ELSE own[d]
      /\ own2 \in [Clusters -> Slots \cup {-1}]
  BY <1>1
<1>7. /\ \A j \in Slots : dir2[j] = IF j = i THEN Deleted ELSE dir[j]
      /\ LiveIn(dir2) = LiveIn(dir) \ {i}
  BY DEF DirType, LiveIn
<1> HIDE DEF fat2, own2, dir2
<1>8. Labels(own2, rank) /\ RootKept(fat2, own2)
  <2>1. Labels(own2, rank)
    BY <1>1, <1>6 DEF Labels
  <2>2. RootKept(fat2, own2)
    BY <1>2, <1>3, <1>5, <1>6 DEF Links, RootKept
  <2> QED BY <2>1, <2>2
<1>9. UsedOwned(fat2, own2) /\ OwnersLive(dir2, own2)
  BY <1>5, <1>6, <1>7 DEF Links, UsedOwned, OwnersLive
<1>10. NextOwned(fat2, own2, rank)
  BY <1>2, <1>5, <1>6 DEF Links, NextOwned
<1>11. Reached(fat2, own2, rank)
  <2> SUFFICES ASSUME NEW d \in Clusters, own2[d] # -1, rank[d] # 0
               PROVE  \E b \in Clusters : own2[b] = own2[d] /\ fat2[b] = d
    BY DEF Reached
  <2>1. own[d] # i /\ own2[d] = own[d]
    BY <1>6
  <2>2. PICK b \in Clusters : own[b] = own[d] /\ fat[b] = d
    BY <2>1 DEF Links, Reached
  <2> QED BY <1>5, <1>6, <2>1, <2>2
<1>12. PlaceUnique(own2, rank)
  BY <1>6 DEF Links, PlaceUnique
<1>13. Starts(dir2, own2, rank)
  <2> SUFFICES ASSUME NEW j \in LiveIn(dir2)
               PROVE  dir2[j].start \in Clusters /\ own2[dir2[j].start] = j /\ rank[dir2[j].start] = 0
    BY DEF Starts
  <2>1. j \in LiveIn(dir) /\ j # i /\ dir2[j] = dir[j]
    BY <1>7 DEF LiveIn
  <2>2. dir[j].start \in Clusters /\ own[dir[j].start] = j /\ rank[dir[j].start] = 0
    BY <2>1 DEF Links, Starts
  <2> QED BY <1>6, <2>1, <2>2
<1>14. Placed(dir2, data, own2, rank)
  <2> SUFFICES ASSUME NEW j \in LiveIn(dir2), NEW k \in 0..(dir2[j].size - 1)
               PROVE  \E d \in Clusters : /\ own2[d] = j /\ rank[d] = k \div CS
                                          /\ data[d][k % CS] = <<dir2[j].name, k>>
    BY DEF Placed
  <2>1. j \in LiveIn(dir) /\ j # i /\ dir2[j] = dir[j]
    BY <1>7 DEF LiveIn
  <2>2. PICK d \in Clusters : own[d] = j /\ rank[d] = k \div CS /\ data[d][k % CS] = <<dir[j].name, k>>
    BY <2>1 DEF Placed
  <2> QED BY <1>6, <2>1, <2>2
<1> QED BY <1>8, <1>9, <1>10, <1>11, <1>12, <1>13, <1>14 DEF Links, fat2, own2, dir2

\* What a write puts into a file: units that belong where they are, up to the new size.
Fills(own, rank, i, f, data, data2, size, z) ==
    /\ \A d \in Clusters : \A u \in Units :
          data2[d][u] = data[d][u] \/ (own[d] = i /\ data2[d][u] = <<f, rank[d] * CS + u>>)
    /\ \A k \in size..(z - 1) :
          \E d \in Clusters : /\ own[d] = i /\ rank[d] = k \div CS
                              /\ data2[d][k % CS] = <<f, k>>

\* What fills more fills less.
LEMMA FillsLess ==
    ASSUME NEW own, NEW rank, NEW i, NEW f, NEW data, NEW data2, NEW a, NEW b, NEW size, NEW z,
           Fills(own, rank, i, f, data, data2, a, b), size..(z - 1) \subseteq a..(b - 1)
    PROVE  Fills(own, rank, i, f, data, data2, size, z)
<1>1. \A k \in size..(z - 1) : k \in a..(b - 1)
  BY Zenon
<1> QED BY <1>1, Zenon DEF Fills

\* Units are written: each cluster of the file gets, or keeps, what belongs there.
LEMMA WriteUnits ==
    ASSUME NEW fat, NEW dir \in DirType, NEW data, NEW own, NEW rank,
           Links(fat, dir, own, rank), Placed(dir, data, own, rank),
           NEW i \in LiveIn(dir), NEW z \in Nat, NEW data2,
           Fills(own, rank, i, dir[i].name, data, data2, dir[i].size, z),
           NEW dir2, dir2 = [dir EXCEPT ![i] = Entry(dir[i].name, dir[i].start, z)]
    PROVE  Links(fat, dir2, own, rank) /\ Placed(dir2, data2, own, rank)
<1> /\ \A d \in Clusters : \A u \in Units :
           data2[d][u] = data[d][u] \/ (own[d] = i /\ data2[d][u] = <<dir[i].name, rank[d] * CS + u>>)
    /\ \A k \in dir[i].size..(z - 1) :
           \E d \in Clusters : /\ own[d] = i /\ rank[d] = k \div CS
                               /\ data2[d][k % CS] = <<dir[i].name, k>>
  BY DEF Fills
<1>1. rank \in [Clusters -> Nat] /\ own \in [Clusters -> Slots \cup {-1}]
  BY DEF Links, Labels
<1>2. /\ dir2[i].name = dir[i].name /\ dir2[i].start = dir[i].start /\ dir2[i].size = z
      /\ i \in Slots /\ \A j \in Slots \ {i} : dir2[j] = dir[j]
  BY DEF Entry, DirType, LiveIn
<1>3. LiveIn(dir2) = LiveIn(dir)
  <2>1. dir[i].start \in Clusters
    BY DEF Links, Starts
  <2>2. dir2[i] \notin {End, Deleted}
    BY <1>2, <2>1, ClusterNumbers DEF Entry, End, Deleted, FREE
  <2> QED BY <1>2, <2>2 DEF LiveIn
<1>4. Starts(dir2, own, rank)
  <2> SUFFICES ASSUME NEW j \in LiveIn(dir2)
               PROVE  dir2[j].start \in Clusters /\ own[dir2[j].start] = j /\ rank[dir2[j].start] = 0
    BY DEF Starts
  <2>1. j \in LiveIn(dir) /\ dir2[j].start = dir[j].start
    BY <1>2, <1>3 DEF LiveIn
  <2> QED BY <2>1 DEF Links, Starts
<1>5. Links(fat, dir2, own, rank)
  BY <1>3, <1>4 DEF Links, OwnersLive
<1>6. Placed(dir2, data2, own, rank)
  <2> SUFFICES ASSUME NEW j \in LiveIn(dir2), NEW k \in 0..(dir2[j].size - 1)
               PROVE  \E d \in Clusters : /\ own[d] = j /\ rank[d] = k \div CS
                                          /\ data2[d][k % CS] = <<dir2[j].name, k>>
    BY DEF Placed
  <2>1. j \in LiveIn(dir) /\ dir2[j].name = dir[j].name /\ dir[j].size \in Nat
    BY <1>2, <1>3 DEF LiveIn, DirType, EntryType
  <2>2. CASE k \in 0..(dir[j].size - 1)
    <3>1. PICK d \in Clusters : own[d] = j /\ rank[d] = k \div CS /\ data[d][k % CS] = <<dir[j].name, k>>
      BY <2>1, <2>2 DEF Placed
    <3>2. k % CS \in Units /\ k = CS * (k \div CS) + (k % CS) /\ CS \in Nat /\ k \div CS \in Int
      <4>1. CS \in Nat \ {0} /\ k \in Int
        BY ClusterNumbers
      <4>2. k \div CS \in Int /\ k % CS \in 0..(CS - 1) /\ k = CS * (k \div CS) + (k % CS)
        BY <4>1, DivMod, Zenon
      <4> QED BY <4>1, <4>2 DEF Units
    <3>3. rank[d] * CS + (k % CS) = k
      BY <3>1, <3>2
    <3>4. data2[d][k % CS] = data[d][k % CS] \/ (own[d] = i /\ data2[d][k % CS] = <<dir[i].name, rank[d] * CS + (k % CS)>>)
      BY <3>2
    <3> QED BY <2>1, <3>1, <3>3, <3>4
  <2>3. CASE k \notin 0..(dir[j].size - 1)
    <3>1. j = i
      BY <1>2, <1>3, <2>3 DEF LiveIn
    <3>2. k \in dir[i].size..(z - 1)
      BY <1>2, <2>1, <2>3, <3>1
    <3> QED BY <1>2, <3>1, <3>2
  <2> QED BY <2>2, <2>3
<1> QED BY <1>5, <1>6

-----------------------------------------------------------------------------
(* The image and the memory of the daemon. *)

DataType == [Clusters -> [Units -> (Names \cup {""}) \X Nat]]
FileType == [Names -> [start : Clusters \cup {0}, size : Nat, pos : Nat]]
Fs == [fat : FatType, data : DataType, dir : DirType, file : FileType, tree : SUBSET Names,
       nentries : 0..DirCap, children_read : BOOLEAN,
       errno : {"none", "ENOENT", "ENOSPC", "EOVERFLOW"}, up : BOOLEAN, spilled : BOOLEAN]

\* The chains hold the files, as long as no write ran past the end of its chain.
Stored(s) ==
    \/ s.spilled
    \/ \E own, rank : Links(s.fat, s.dir, own, rank) /\ Placed(s.dir, s.data, own, rank)

\* Entries in use have a cluster, and different names.
Named(s) == \A i \in LiveIn(s.dir) : /\ s.dir[i].name \in Names /\ s.dir[i].start \in Clusters
                                     /\ \A j \in LiveIn(s.dir) : s.dir[j].name = s.dir[i].name => j = i

\* nentries is the first entry that was never used; the log has an entry, or there is
\* a place for it.
EndsAt(s, z) == /\ \A i \in Slots : s.dir[i] = End <=> i >= z
                /\ s.children_read => s.nentries = z
                /\ z = DirCap => \E i \in LiveIn(s.dir) : s.dir[i].name = "fs.log"
Counted(s) == \E z \in 0..DirCap : EndsAt(s, z)

\* A file in the tree has an entry, with what is in memory.
InMemory(s) ==
    \A f \in s.tree : /\ s.file[f].pos \in Slots /\ s.file[f].start \in Clusters
                      /\ s.dir[s.file[f].pos] = Entry(f, s.file[f].start, s.file[f].size)

\* After a listing all files are in the tree; before it none is.
AllRead(s) == IF s.children_read THEN \A i \in LiveIn(s.dir) : s.dir[i].name \in s.tree
              ELSE s.tree = {}

Good(s) == s \in Fs /\ Stored(s) /\ Named(s) /\ Counted(s) /\ InMemory(s) /\ AllRead(s)

\* The entries keep their names; a new one may be added.
Kept(s, t) == \A i \in Slots : s.dir[i] # End => t.dir[i] # End /\ t.dir[i].name = s.dir[i].name

\* The parts of a state on which Good depends.
SameParts(s, t) ==
    /\ t.fat = s.fat /\ t.data = s.data /\ t.dir = s.dir /\ t.file = s.file /\ t.tree = s.tree
    /\ t.nentries = s.nentries /\ t.children_read = s.children_read /\ t.spilled = s.spilled

\* Only these parts matter.
LEMMA SameIsGood ==
    ASSUME NEW s, NEW t, Good(s), t \in Fs, SameParts(s, t)
    PROVE  Good(t) /\ Kept(s, t)
<1>1. Stored(t)
  BY DEF Good, Stored, SameParts
<1>2. Named(t) /\ InMemory(t) /\ AllRead(t)
  BY DEF Good, Named, InMemory, AllRead, SameParts
<1>3. Counted(t)
  BY DEF Good, Counted, EndsAt, SameParts
<1>4. Kept(s, t)
  BY DEF Kept, SameParts
<1> QED BY <1>1, <1>2, <1>3, <1>4 DEF Good

\* One step after the other.
LEMMA KeptOn ==
    ASSUME NEW s, NEW t, NEW u, Kept(s, t), Kept(t, u)
    PROVE  Kept(s, u)
BY DEF Kept

\* What keeps everything but errno and up.
LEMMA ErrorsAreGood ==
    ASSUME NEW s, Good(s), NEW x \in {"none", "ENOENT", "ENOSPC", "EOVERFLOW"}
    PROVE  /\ Good([s EXCEPT !.errno = x]) /\ Kept(s, [s EXCEPT !.errno = x])
           /\ SameParts(s, [s EXCEPT !.errno = x]) /\ [s EXCEPT !.errno = x].up = s.up
           /\ Good(Segfault(s)) /\ Kept(s, Segfault(s)) /\ SameParts(s, Segfault(s)) /\ ~Segfault(s).up
           /\ Good(s) /\ Kept(s, s)
<1>1. s \in Fs
  BY DEF Good
<1>2. [s EXCEPT !.errno = x] \in Fs /\ SameParts(s, [s EXCEPT !.errno = x]) /\ [s EXCEPT !.errno = x].up = s.up
  BY <1>1 DEF Fs, SameParts
<1>3. Segfault(s) \in Fs /\ SameParts(s, Segfault(s)) /\ ~Segfault(s).up
  BY <1>1 DEF Fs, SameParts, Segfault
<1>4. SameParts(s, s)
  BY DEF SameParts
<1> QED BY <1>1, <1>2, <1>3, <1>4, SameIsGood

\* The entry of a file in the tree, and its cluster chain.
LEMMA EntryOf ==
    ASSUME NEW s, Good(s), NEW f \in s.tree
    PROVE  /\ f \in Names /\ s.file[f].pos \in LiveIn(s.dir) /\ s.file[f].pos \in Slots
           /\ s.file[f].start \in Clusters /\ s.file[f].size \in Nat
           /\ s.dir[s.file[f].pos].name = f
           /\ s.dir[s.file[f].pos].start = s.file[f].start
           /\ s.dir[s.file[f].pos].size = s.file[f].size
           /\ s.dir[s.file[f].pos] = Entry(f, s.file[f].start, s.file[f].size)
<1>1. f \in Names /\ s.file[f].size \in Nat
  BY DEF Good, Fs, FileType
<1>2. /\ s.file[f].pos \in Slots /\ s.file[f].start \in Clusters
      /\ s.dir[s.file[f].pos] = Entry(f, s.file[f].start, s.file[f].size)
  BY DEF Good, InMemory
<1>3. s.dir[s.file[f].pos].start # 0
  BY <1>2, ClusterNumbers DEF Entry, FREE
<1>4. s.dir[s.file[f].pos] \notin {End, Deleted}
  BY <1>3 DEF End, Deleted, Entry
<1> QED BY <1>1, <1>2, <1>4 DEF LiveIn, Entry

\* Writing the entry of a file that has not changed changes nothing.
LEMMA EntryAgain ==
    ASSUME NEW s, Good(s), NEW f \in s.tree
    PROVE  Good(WriteEntry(s, f)) /\ Kept(s, WriteEntry(s, f)) /\ SameParts(s, WriteEntry(s, f))
           /\ WriteEntry(s, f).up = s.up
<1>1. s \in Fs /\ s.file[f].pos \in Slots /\ ~(DirCap <= s.file[f].pos)
  BY EntryOf, ClusterNumbers DEF Good, Slots
<1> DEFINE p == s.file[f].pos
           x == Entry(f, s.file[f].start, s.file[f].size)
<1>2. s.dir[p] = x
  BY EntryOf
<1>3. s.dir \in DirType
  BY <1>1 DEF Fs
<1>4. [s.dir EXCEPT ![p] = x] = s.dir
  BY <1>1, <1>2, <1>3 DEF DirType
<1>5. WriteEntry(s, f) = [s EXCEPT !.dir[p] = x]
  BY <1>1 DEF WriteEntry, WriteDirEntry
<1> HIDE DEF p, x
<1>6. WriteEntry(s, f) \in Fs /\ SameParts(s, WriteEntry(s, f)) /\ WriteEntry(s, f).up = s.up
  BY <1>1, <1>4, <1>5 DEF Fs, SameParts
<1> QED BY <1>6, SameIsGood

\* A file gets another size, on the image and in memory.
Resized(s, f, z, t) ==
    /\ t.dir = [s.dir EXCEPT ![s.file[f].pos] = Entry(f, s.file[f].start, z)]
    /\ t.file = [s.file EXCEPT ![f].size = z]
    /\ t.tree = s.tree /\ t.nentries = s.nentries /\ t.children_read = s.children_read

\* A file with another size, its entry written: as good, when the clusters hold the units.
LEMMA ResizeIsGood ==
    ASSUME NEW s, Good(s), NEW f \in s.tree, NEW z \in Nat, NEW t \in Fs, Stored(t), Resized(s, f, z, t)
    PROVE  Good(t) /\ Kept(s, t)
<1> USE DEF Resized
<1> DEFINE p == s.file[f].pos
           x == Entry(f, s.file[f].start, z)
<1>1. /\ f \in Names /\ p \in LiveIn(s.dir) /\ p \in Slots /\ s.file[f].start \in Clusters
      /\ s.dir[p].name = f
  BY EntryOf
<1>2. x.name = f /\ x.start = s.file[f].start /\ x.size = z /\ x \notin {End, Deleted}
  BY <1>1, ClusterNumbers DEF Entry, End, Deleted, FREE
<1>3. \A i \in Slots : t.dir[i] = IF i = p THEN x ELSE s.dir[i]
  BY DEF Good, Fs, DirType
<1>4. /\ \A g \in Names : t.file[g].pos = s.file[g].pos /\ t.file[g].start = s.file[g].start
      /\ \A g \in Names : t.file[g].size = IF g = f THEN z ELSE s.file[g].size
  BY DEF Good, Fs, FileType
<1> HIDE DEF x
<1>5. LiveIn(t.dir) = LiveIn(s.dir) /\ \A i \in Slots : t.dir[i].name = s.dir[i].name
  BY <1>1, <1>2, <1>3 DEF LiveIn
<1>6. \A i \in Slots : t.dir[i] = End <=> s.dir[i] = End
  BY <1>1, <1>2, <1>3 DEF LiveIn
<1>7. LiveIn(s.dir) \subseteq Slots
  BY DEF LiveIn
<1>8. Named(t)
  <2>1. \A i \in Slots : t.dir[i].start = s.dir[i].start
    BY <1>2, <1>3, EntryOf
  <2> QED BY <1>5, <1>7, <2>1 DEF Good, Named
<1>9. Counted(t)
  <2>1. PICK y \in 0..DirCap : EndsAt(s, y)
    BY DEF Good, Counted
  <2>2. EndsAt(t, y)
    BY <1>5, <1>6, <1>7, <2>1 DEF EndsAt
  <2> QED BY <2>2 DEF Counted
<1>10. InMemory(t)
  <2> SUFFICES ASSUME NEW g \in s.tree
               PROVE  /\ t.file[g].pos \in Slots /\ t.file[g].start \in Clusters
                      /\ t.dir[t.file[g].pos] = Entry(g, t.file[g].start, t.file[g].size)
    BY DEF InMemory
  <2>1. g \in Names /\ s.file[g].pos \in Slots /\ s.file[g].start \in Clusters
        /\ s.dir[s.file[g].pos] = Entry(g, s.file[g].start, s.file[g].size) /\ s.dir[s.file[g].pos].name = g
    BY EntryOf
  <2>2. CASE g = f
    BY <1>3, <1>4, <2>1, <2>2 DEF x
  <2>3. CASE g # f
    BY <1>1, <1>3, <1>4, <2>1, <2>3
  <2> QED BY <2>2, <2>3
<1>11. AllRead(t)
  BY <1>5, <1>7 DEF Good, AllRead
<1>12. Kept(s, t)
  BY <1>5, <1>6 DEF Kept
<1> QED BY <1>8, <1>9, <1>10, <1>11, <1>12 DEF Good

-----------------------------------------------------------------------------
(* The loop of fat_file_pwrite. *)

Splits(a, m, q, r) ==
    /\ m \in Nat \ {0} /\ q \in Int /\ r \in 0..(m - 1) /\ a \in Int
    /\ a = m * q + r

\* Quotient and remainder are unique.
LEMMA DivIs ==
    ASSUME NEW a, NEW m, NEW q, NEW r, Splits(a, m, q, r)
    PROVE  a \div m = q /\ a % m = r
<1> m \in Nat \ {0} /\ q \in Int /\ r \in 0..(m - 1) /\ a \in Int /\ a = m * q + r
  BY DEF Splits
<1> DEFINE d == a \div m
           e == a % m
<1>1. d \in Int /\ e \in 0..(m - 1) /\ a = m * d + e
  BY DivMod
<1> HIDE DEF d, e
<1>2. m * (q - d) = e - r
  BY <1>1
<1>3. CASE q - d >= 1
  <2>1. m * (q - d) >= m
    BY <1>1, <1>3
  <2> QED BY <1>1, <1>2, <2>1
<1>4. CASE d - q >= 1
  <2>1. m * (d - q) >= m /\ m * (d - q) = r - e
    BY <1>1, <1>4
  <2> QED BY <1>1, <2>1
<1>5. CASE q = d
  BY <1>1, <1>5 DEF d, e
<1> QED BY <1>1, <1>3, <1>4, <1>5

\* The loop comes to where its turns come to.
LoopFits(f, w, n, g) ==
    g = [i \in 0..n |-> IF i = 0 THEN w ELSE WriteCluster(f, g[i - 1])]

\* WriteLoop is any function that the turns make.
LEMMA LoopIs ==
    ASSUME NEW f, NEW w, NEW n \in Nat, NEW g, LoopFits(f, w, n, g)
    PROVE  WriteLoop(f, w, n) = g[n]
<1> DEFINE v == CHOOSE u : u = [i \in 0..n |-> IF i = 0 THEN w ELSE WriteCluster(f, u[i - 1])]
<1>1. v = [i \in 0..n |-> IF i = 0 THEN w ELSE WriteCluster(f, v[i - 1])]
  BY DEF LoopFits
<1>2. WriteLoop(f, w, n) = v[n]
  BY DEF WriteLoop
<1> HIDE DEF v
<1> DEFINE S == {i \in Nat : i <= n => v[i] = g[i]}
<1>3. 0 \in S
  BY <1>1 DEF LoopFits
<1>4. ASSUME NEW i \in S PROVE i + 1 \in S
  <2> SUFFICES ASSUME i + 1 <= n PROVE v[i + 1] = g[i + 1]
    OBVIOUS
  <2>1. i \in Nat /\ i + 1 \in 0..n /\ i + 1 # 0 /\ (i + 1) - 1 = i /\ v[i] = g[i]
    OBVIOUS
  <2>2. v[i + 1] = WriteCluster(f, v[i])
    BY <1>1, <2>1
  <2>3. g[i + 1] = WriteCluster(f, g[i])
    BY <2>1 DEF LoopFits
  <2> QED BY <2>1, <2>2, <2>3
<1>5. S \in SUBSET Nat
  OBVIOUS
<1>6. S = Nat
  <2> HIDE DEF S
  <2> QED BY <1>3, <1>4, <1>5, AllNumbers, Zenon
<1> QED BY <1>2, <1>6

LoopRec == [fat : FatType, data : DataType, cluster : Clusters, off : Nat, rem : Nat,
            spilled : BOOLEAN]

\* What the cluster holds after a turn that writes k units to it from its place m on.
Filled(f, L, off, m, k) ==
    [u \in Units |-> IF u \in m..(m + k - 1) THEN <<f, off + u - m>> ELSE L[u]]

\* One turn, field by field; end: the chain ends here, and units are left.
TurnGives(f, w, v, m, k, next, end) ==
    /\ v.fat = IF end THEN [w.fat EXCEPT ![w.cluster] = NextFree(w.fat)] ELSE w.fat
    /\ v.data = [w.data EXCEPT ![w.cluster] = Filled(f, w.data[w.cluster], w.off, m, k)]
    /\ v.off = w.off + k /\ v.rem = w.rem - k
    /\ v.cluster = IF w.rem > k /\ next # EOC THEN next ELSE w.cluster
    /\ v.spilled = (w.spilled \/ end)

\* What WriteCluster makes of each field of the record.
LEMMA TurnIs ==
    ASSUME NEW f, NEW w \in LoopRec, w.rem # 0, NEW v, v = WriteCluster(f, w),
           NEW m, m = w.off % CS, NEW k, k = Min(CS - m, w.rem),
           NEW next, next = NextCluster(w.fat, w.cluster),
           NEW end \in BOOLEAN, end = (w.rem > k /\ next = EOC)
    PROVE  /\ TurnGives(f, w, v, m, k, next, end)
           /\ v = [fat |-> v.fat, data |-> v.data, cluster |-> v.cluster, off |-> v.off,
                   rem |-> v.rem, spilled |-> v.spilled]
<1>1. PICK D2 : D2 = [w.data EXCEPT ![w.cluster] = Filled(f, w.data[w.cluster], w.off, m, k)]
  OBVIOUS
<1>2. PICK F2 : F2 = [w.fat EXCEPT ![w.cluster] = IF end THEN NextFree(w.fat) ELSE w.fat[w.cluster]]
  OBVIOUS
<1>3. F2 = IF end THEN [w.fat EXCEPT ![w.cluster] = NextFree(w.fat)] ELSE w.fat
  BY <1>2 DEF LoopRec, FatType
<1>4. PICK o, r : o = w.off + k /\ r = w.rem - k
  OBVIOUS
<1>5. PICK d : d = IF w.rem > k /\ next # EOC THEN next ELSE w.cluster
  OBVIOUS
<1>6. PICK b : b = (w.spilled \/ end)
  OBVIOUS
<1>8. v = [w EXCEPT !.data = D2, !.off = o, !.rem = r, !.fat = F2, !.cluster = d, !.spilled = b]
  BY <1>1, <1>2, <1>4, <1>5, <1>6 DEF WriteCluster, Filled
<1>9. [w EXCEPT !.data = D2, !.off = o, !.rem = r, !.fat = F2, !.cluster = d, !.spilled = b]
      = [fat |-> F2, data |-> D2, cluster |-> d, off |-> o, rem |-> r, spilled |-> b]
  <2>0. PICK a1, a2, a3, a4, a5, a6 :
           w = [fat |-> a1, data |-> a2, cluster |-> a3, off |-> a4, rem |-> a5, spilled |-> a6]
    BY DEF LoopRec
  <2>1. PICK w1 : w1 = [w EXCEPT !.data = D2]
    OBVIOUS
  <2>2. w1 = [fat |-> a1, data |-> D2, cluster |-> a3, off |-> a4, rem |-> a5, spilled |-> a6]
    BY <2>0, <2>1
  <2>3. PICK w2 : w2 = [w1 EXCEPT !.off = o]
    OBVIOUS
  <2>4. w2 = [fat |-> a1, data |-> D2, cluster |-> a3, off |-> o, rem |-> a5, spilled |-> a6]
    BY <2>2, <2>3
  <2>5. PICK w3 : w3 = [w2 EXCEPT !.rem = r]
    OBVIOUS
  <2>6. w3 = [fat |-> a1, data |-> D2, cluster |-> a3, off |-> o, rem |-> r, spilled |-> a6]
    BY <2>4, <2>5
  <2>7. PICK w4 : w4 = [w3 EXCEPT !.fat = F2]
    OBVIOUS
  <2>8. w4 = [fat |-> F2, data |-> D2, cluster |-> a3, off |-> o, rem |-> r, spilled |-> a6]
    BY <2>6, <2>7
  <2>9. PICK w5 : w5 = [w4 EXCEPT !.cluster = d]
    OBVIOUS
  <2>10. w5 = [fat |-> F2, data |-> D2, cluster |-> d, off |-> o, rem |-> r, spilled |-> a6]
    BY <2>8, <2>9
  <2>11. [w5 EXCEPT !.spilled = b]
         = [fat |-> F2, data |-> D2, cluster |-> d, off |-> o, rem |-> r, spilled |-> b]
    BY <2>10
  <2> QED BY <2>1, <2>3, <2>5, <2>7, <2>9, <2>11, Zenon
<1>10. v = [fat |-> F2, data |-> D2, cluster |-> d, off |-> o, rem |-> r, spilled |-> b]
  BY <1>8, <1>9, Zenon
<1> QED BY <1>1, <1>3, <1>4, <1>5, <1>6, <1>10 DEF TurnGives

\* A turn writes at least one unit.
LEMMA TurnTyped ==
    ASSUME NEW f \in Names, NEW w \in LoopRec, NEW v, v = WriteCluster(f, w)
    PROVE  /\ v \in LoopRec /\ v.off + v.rem = w.off + w.rem
           /\ w.spilled => v.spilled
           /\ (v.rem = w.rem /\ w.rem = 0) \/ v.rem < w.rem
<1>1. CASE w.rem = 0
  <2>1. v = w
    BY <1>1 DEF WriteCluster
  <2> QED BY <1>1, <2>1 DEF LoopRec
<1>2. CASE w.rem # 0
  <2>1. PICK m, k, next : m = w.off % CS /\ k = Min(CS - m, w.rem) /\ next = NextCluster(w.fat, w.cluster)
    OBVIOUS
  <2>2. PICK end \in BOOLEAN : end = (w.rem > k /\ next = EOC)
    OBVIOUS
  <2>3. /\ TurnGives(f, w, v, m, k, next, end)
        /\ v = [fat |-> v.fat, data |-> v.data, cluster |-> v.cluster, off |-> v.off,
                rem |-> v.rem, spilled |-> v.spilled]
    BY <1>2, <2>1, <2>2, TurnIs
  <2>4. /\ w.fat \in FatType /\ w.data \in DataType /\ w.cluster \in Clusters /\ w.off \in Nat
        /\ w.rem \in Nat /\ w.spilled \in BOOLEAN
    BY DEF LoopRec
  <2>5. m \in 0..(CS - 1) /\ k \in 1..w.rem /\ CS \in Nat
    <3>1. CS \in Nat \ {0} /\ w.off \in Int
      BY <2>4, ClusterNumbers
    <3>2. m \in 0..(CS - 1)
      BY <2>1, <3>1, DivMod
    <3> QED BY <1>2, <2>1, <2>4, <3>1, <3>2 DEF Min
  <2>6. v.fat \in FatType /\ v.cluster \in Clusters
    <3>1. next \in Clusters \cup {EOC} /\ NextFree(w.fat) \in Clusters \cup {EOC}
      BY <2>1, FreeClusterTyped DEF NextCluster
    <3>2. v.cluster \in Clusters
      BY <2>3, <2>4, <3>1 DEF TurnGives
    <3>3. v.fat \in FatType
      BY <2>2, <2>3, <2>4, <3>1 DEF TurnGives, FatType
    <3> QED BY <3>2, <3>3
  <2>7. v.data \in DataType
    <3> DEFINE X == (Names \cup {""}) \X Nat
    <3>1. w.data \in [Clusters -> [Units -> X]]
      BY <2>4 DEF DataType
    <3>2. \A u \in Units : u \in m..(m + k - 1) => <<f, w.off + u - m>> \in X
      <4>1. PICK o \in Nat : o = w.off
        BY <2>4
      <4>2. \A u \in Units : u \in m..(m + k - 1) => o + u - m \in Nat
        BY <2>5 DEF Units
      <4> QED BY <4>1, <4>2
    <3> HIDE DEF X
    <3>3. w.data[w.cluster] \in [Units -> X]
      BY <2>4, <3>1
    <3>4. Filled(f, w.data[w.cluster], w.off, m, k) \in [Units -> X]
      BY <3>2, <3>3 DEF Filled
    <3>5. v.data \in [Clusters -> [Units -> X]]
      BY <2>3, <2>4, <3>1, <3>4 DEF TurnGives
    <3> QED BY <3>5 DEF DataType, X
  <2>8. v.off = w.off + k /\ v.rem = w.rem - k /\ v.spilled = (w.spilled \/ end)
    BY <2>3 DEF TurnGives
  <2>9. v \in LoopRec
    <3>1. v.off \in Nat /\ v.rem \in Nat /\ v.spilled \in BOOLEAN
      BY <2>4, <2>5, <2>8
    <3> QED BY <2>3, <2>6, <2>7, <3>1 DEF LoopRec
  <2> QED BY <2>2, <2>4, <2>5, <2>8, <2>9
<1> QED BY <1>1, <1>2

\* The turns of a loop, the last of them where WriteLoop comes to.
Turns(f, w0, h, n) ==
    /\ h \in [Nat -> LoopRec] /\ h[0] = w0 /\ \A i \in Nat : h[i + 1] = WriteCluster(f, h[i])
    /\ h[n] = WriteLoop(f, w0, n)

\* There are such turns.
LEMMA LoopRuns ==
    ASSUME NEW f \in Names, NEW w0 \in LoopRec, NEW n \in Nat
    PROVE  \E h : Turns(f, w0, h, n)
<1> DEFINE G == [x \in LoopRec |-> WriteCluster(f, x)]
<1>1. StepOn(LoopRec, G)
  BY TurnTyped DEF StepOn
<1>2. PICK h : Iteration(h, LoopRec, G, w0)
  BY <1>1, Iterates
<1>3. h \in [Nat -> LoopRec] /\ h[0] = w0 /\ \A i \in Nat : h[i + 1] = WriteCluster(f, h[i])
  BY <1>2 DEF Iteration
<1> DEFINE g == [i \in 0..n |-> h[i]]
<1>4. LoopFits(f, w0, n, g)
  <2>1. \A i \in 0..n : g[i] = IF i = 0 THEN w0 ELSE WriteCluster(f, g[i - 1])
    <3> SUFFICES ASSUME NEW i \in 1..n PROVE g[i] = WriteCluster(f, g[i - 1])
      BY <1>3
    <3>1. i - 1 \in Nat /\ (i - 1) + 1 = i /\ i - 1 \in 0..n /\ i \in 0..n
      OBVIOUS
    <3>2. h[i] = WriteCluster(f, h[i - 1])
      BY <1>3, <3>1
    <3> QED BY <3>1, <3>2
  <2> QED BY <2>1 DEF LoopFits
<1>5. g[n] = h[n]
  OBVIOUS
<1> HIDE DEF g
<1>6. WriteLoop(f, w0, n) = g[n]
  BY <1>4, LoopIs
<1> QED BY <1>3, <1>5, <1>6 DEF Turns

\* Whatever the chains are, the loop writes names and positions, and follows or makes links.
LEMMA LoopTyped ==
    ASSUME NEW f \in Names, NEW w0 \in LoopRec, NEW n \in Nat, NEW w, w = WriteLoop(f, w0, n)
    PROVE  w \in LoopRec /\ (w0.spilled => w.spilled)
<1>1. PICK h : Turns(f, w0, h, n)
  BY LoopRuns
<1>2. h \in [Nat -> LoopRec] /\ h[0] = w0 /\ \A i \in Nat : h[i + 1] = WriteCluster(f, h[i])
  BY <1>1 DEF Turns
<1>3. h[n] = w
  BY <1>1 DEF Turns
<1> DEFINE S == {i \in Nat : w0.spilled => h[i].spilled}
<1>4. 0 \in S
  BY <1>2
<1>5. ASSUME NEW i \in S PROVE i + 1 \in S
  <2>1. i \in Nat /\ i + 1 \in Nat /\ h[i] \in LoopRec /\ h[i + 1] = WriteCluster(f, h[i])
    BY <1>2
  <2>2. h[i].spilled => h[i + 1].spilled
    BY <2>1, TurnTyped
  <2> QED BY <2>1, <2>2
<1>6. S \in SUBSET Nat
  OBVIOUS
<1>7. S = Nat
  <2> HIDE DEF S
  <2> QED BY <1>4, <1>5, <1>6, AllNumbers, Zenon
<1> QED BY <1>2, <1>3, <1>7

\* The loop is at the cluster for w.off of the file with entry p, and the units from
\* start to w.off are in place.
Filling(own, rank, p, f, fat, data, start, w) ==
    /\ w.fat = fat /\ start <= w.off
    /\ Fills(own, rank, p, f, data, w.data, start, w.off)
    /\ w.rem # 0 => own[w.cluster] = p /\ rank[w.cluster] = w.off \div CS

\* A turn that does not come to the end of the chain goes on in the same way.
LEMMA TurnFills ==
    ASSUME NEW f \in Names, NEW w \in LoopRec, NEW v, v = WriteCluster(f, w), ~v.spilled,
           NEW fat, NEW dir, NEW own, NEW rank, Links(fat, dir, own, rank), NEW p, p # -1,
           NEW data, NEW start \in Nat, Filling(own, rank, p, f, fat, data, start, w)
    PROVE  Filling(own, rank, p, f, fat, data, start, v)
<1>1. CASE w.rem = 0
  <2>1. v = w
    BY <1>1 DEF WriteCluster
  <2> QED BY <2>1
<1>2. CASE w.rem # 0
  <2>1. PICK m, k, next : m = w.off % CS /\ k = Min(CS - m, w.rem) /\ next = NextCluster(w.fat, w.cluster)
    OBVIOUS
  <2>2. PICK end \in BOOLEAN : end = (w.rem > k /\ next = EOC)
    OBVIOUS
  <2>3. TurnGives(f, w, v, m, k, next, end)
    BY <1>2, <2>1, <2>2, TurnIs
  <2>4. PICK c \in Clusters, off \in Nat, rem \in Nat : c = w.cluster /\ off = w.off /\ rem = w.rem
    BY DEF LoopRec
  <2>4a. w.data \in DataType
    BY DEF LoopRec
  <2>5. /\ w.fat = fat /\ start <= off /\ Fills(own, rank, p, f, data, w.data, start, off)
        /\ own[c] = p /\ rank[c] = off \div CS
    BY <1>2, <2>4 DEF Filling
  <2>6. ~end /\ v.fat = fat /\ v.off = off + k /\ v.rem = rem - k
        /\ v.cluster = IF rem > k /\ next # EOC THEN next ELSE c
    BY <2>3, <2>4, <2>5 DEF TurnGives
  <2>7. CS \in Nat \ {0} /\ rank[c] \in Nat /\ EOC \notin Clusters
    BY ClusterNumbers DEF Links, Labels
  <2>8. PICK q \in Nat : q = rank[c]
    BY <2>7
  <2>9. m \in 0..(CS - 1) /\ off = CS * q + m /\ CS * q \in Nat
    <3>1. off \in Int
      OBVIOUS
    <3>2. PICK a \in Int, b \in 0..(CS - 1) : a = off \div CS /\ b = off % CS /\ off = CS * a + b
      BY <2>7, <3>1, DivMod
    <3>3. a = q /\ b = m
      BY <2>1, <2>4, <2>5, <2>8, <3>2
    <3>4. CS * q \in Nat
      BY <2>7
    <3> QED BY <3>2, <3>3, <3>4
  <2>10. k \in 1..rem /\ k <= CS - m /\ (rem > k => k = CS - m)
    BY <1>2, <2>1, <2>4, <2>7, <2>9 DEF Min
  <2>11. start <= v.off
    BY <2>5, <2>6, <2>10
  <2>12. v.rem # 0 => own[v.cluster] = p /\ rank[v.cluster] = v.off \div CS
    <3> SUFFICES ASSUME v.rem # 0 PROVE own[v.cluster] = p /\ rank[v.cluster] = v.off \div CS
      OBVIOUS
    <3>1. rem > k
      BY <2>6, <2>10
    <3>2. next # EOC /\ v.cluster = next
      BY <2>2, <2>4, <2>6, <3>1
    <3>3. next = fat[c] /\ fat[c] \in Clusters
      BY <2>1, <2>4, <2>5, <3>2 DEF NextCluster
    <3>4. own[next] = p /\ rank[next] = q + 1
      BY <2>5, <2>8, <3>3 DEF Links, NextOwned
    <3>5. PICK a, b : a = v.off /\ b = q + 1
      OBVIOUS
    <3>6. Splits(a, CS, b, 0)
      BY <2>6, <2>7, <2>9, <2>10, <3>1, <3>5 DEF Splits
    <3>7. a \div CS = b
      BY <3>6, DivIs
    <3> QED BY <3>2, <3>4, <3>5, <3>7
  <2>13. \A d \in Clusters : \A u \in Units :
            v.data[d][u] = IF d = c /\ u \in m..(m + k - 1) THEN <<f, CS * q + u>> ELSE w.data[d][u]
    <3>1. v.data = [w.data EXCEPT ![c] = Filled(f, w.data[c], off, m, k)]
      BY <2>3, <2>4 DEF TurnGives
    <3>2. \A u \in Units : off + u - m = CS * q + u
      BY <2>7, <2>9 DEF Units
    <3>3. \A d \in Clusters : v.data[d] = IF d = c THEN Filled(f, w.data[c], off, m, k) ELSE w.data[d]
      BY <2>4a, <3>1 DEF DataType
    <3>4. \A u \in Units : Filled(f, w.data[c], off, m, k)[u]
                              = IF u \in m..(m + k - 1) THEN <<f, CS * q + u>> ELSE w.data[c][u]
      BY <3>2 DEF Filled
    <3> QED BY <3>3, <3>4
  <2>14. Fills(own, rank, p, f, data, v.data, start, v.off)
    <3>0. /\ \A d \in Clusters : \A u \in Units :
                w.data[d][u] = data[d][u] \/ (own[d] = p /\ w.data[d][u] = <<f, rank[d] * CS + u>>)
          /\ \A j \in start..(off - 1) :
                \E d \in Clusters : /\ own[d] = p /\ rank[d] = j \div CS
                                    /\ w.data[d][j % CS] = <<f, j>>
      BY <2>5 DEF Fills
    <3>00. CS * q = q * CS
      BY <2>7
    <3>1. ASSUME NEW d \in Clusters, NEW u \in Units
          PROVE  v.data[d][u] = data[d][u] \/ (own[d] = p /\ v.data[d][u] = <<f, rank[d] * CS + u>>)
      <4>1. CASE d = c /\ u \in m..(m + k - 1)
        BY <2>5, <2>8, <2>13, <3>00, <4>1
      <4>2. CASE ~(d = c /\ u \in m..(m + k - 1))
        BY <2>13, <3>0, <4>2
      <4> QED BY <4>1, <4>2
    <3>2. ASSUME NEW j \in start..(v.off - 1)
          PROVE  \E d \in Clusters : /\ own[d] = p /\ rank[d] = j \div CS
                                     /\ v.data[d][j % CS] = <<f, j>>
      <4>0. j \in Int /\ start <= j /\ j < off + k /\ j >= 0
        BY <2>6, <2>10
      <4>1. PICK e \in Int, r \in 0..(CS - 1) : e = j \div CS /\ r = j % CS /\ j = CS * e + r
        BY <2>7, <4>0, DivMod
      <4>2. r \in Units
        BY DEF Units
      <4>3. CASE j < off
        <5>0. j \in start..(off - 1)
          BY <4>0, <4>3
        <5>1. PICK d \in Clusters : own[d] = p /\ rank[d] = e /\ w.data[d][r] = <<f, j>>
          <6>1. PICK d \in Clusters : own[d] = p /\ rank[d] = j \div CS /\ w.data[d][j % CS] = <<f, j>>
            BY <3>0, <5>0, Zenon
          <6> QED BY <4>1, <6>1
        <5>2. CASE d = c /\ r \in m..(m + k - 1)
          <6>1. v.data[d][r] = <<f, CS * q + r>>
            BY <2>13, <4>2, <5>2
          <6>2. CS * q + r = j
            BY <2>8, <4>1, <5>1, <5>2
          <6> QED BY <4>1, <5>1, <6>1, <6>2
        <5>3. CASE ~(d = c /\ r \in m..(m + k - 1))
          BY <2>13, <4>1, <4>2, <5>1, <5>3
        <5> QED BY <5>2, <5>3
      <4>4. CASE ~(j < off)
        <5> DEFINE x == j - CS * q
        <5>1. x \in m..(m + k - 1) /\ x \in 0..(CS - 1) /\ j = CS * q + x
          BY <2>7, <2>9, <2>10, <4>0, <4>4
        <5> HIDE DEF x
        <5>2. PICK j0, x0 : j0 = j /\ x0 = x
          OBVIOUS
        <5>3. Splits(j0, CS, q, x0)
          BY <2>7, <4>0, <5>1, <5>2 DEF Splits
        <5>4. j0 \div CS = q /\ j0 % CS = x0
          BY <5>3, DivIs
        <5>5. v.data[c][x] = <<f, j>>
          BY <2>13, <5>1 DEF Units
        <5> QED BY <2>5, <2>8, <5>2, <5>4, <5>5
      <4> QED BY <4>3, <4>4
    <3> QED BY <3>1, <3>2 DEF Fills
  <2> QED BY <2>6, <2>11, <2>12, <2>14 DEF Filling
<1> QED BY <1>1, <1>2

\* A write that never comes to the end of its chain changes no link and puts each unit
\* where a read looks for it, however many clusters it spans.
LEMMA LoopFills ==
    ASSUME NEW f \in Names, NEW w0 \in LoopRec, NEW n, n = w0.rem,
           NEW w, w = WriteLoop(f, w0, n), ~w.spilled,
           NEW dir, NEW own, NEW rank, Links(w0.fat, dir, own, rank), NEW p, p # -1,
           own[w0.cluster] = p, rank[w0.cluster] = w0.off \div CS
    PROVE  w.fat = w0.fat /\ Fills(own, rank, p, f, w0.data, w.data, w0.off, w0.off + n)
<1>0. n \in Nat /\ w0.off \in Nat
  BY DEF LoopRec
<1>1. PICK h : Turns(f, w0, h, n)
  BY <1>0, LoopRuns
<1>2. h \in [Nat -> LoopRec] /\ h[0] = w0 /\ \A i \in Nat : h[i + 1] = WriteCluster(f, h[i])
  BY <1>1 DEF Turns
<1>3. h[n] = w
  BY <1>1 DEF Turns
<1> DEFINE Ok(x) == Filling(own, rank, p, f, w0.fat, w0.data, w0.off, x)
           S == {i \in Nat : /\ h[i].spilled \/ Ok(h[i])
                             /\ h[i].off + h[i].rem = w0.off + n
                             /\ h[i].rem = 0 \/ h[i].rem + i <= n}
<1>4. 0 \in S
  <2>1. Fills(own, rank, p, f, w0.data, w0.data, w0.off, w0.off)
    <3>1. w0.off..(w0.off - 1) = {}
      BY <1>0
    <3> QED BY <3>1 DEF Fills
  <2>2. Ok(w0)
    BY <1>0, <2>1 DEF Filling
  <2> HIDE DEF Ok
  <2> QED BY <1>0, <1>2, <2>2
<1>5. ASSUME NEW i \in S PROVE i + 1 \in S
  <2>1. i \in Nat /\ i + 1 \in Nat /\ h[i] \in LoopRec /\ h[i + 1] = WriteCluster(f, h[i])
    BY <1>2
  <2>2. PICK x, y : x = h[i] /\ y = h[i + 1]
    OBVIOUS
  <2>3. /\ x \in LoopRec /\ y = WriteCluster(f, x) /\ y \in LoopRec /\ x.rem \in Nat /\ y.rem \in Nat
        /\ y.off + y.rem = x.off + x.rem
        /\ x.spilled => y.spilled
        /\ (y.rem = x.rem /\ x.rem = 0) \/ y.rem < x.rem
    <3>1. x \in LoopRec /\ y = WriteCluster(f, x)
      BY <2>1, <2>2
    <3>2. /\ y \in LoopRec /\ y.off + y.rem = x.off + x.rem
          /\ x.spilled => y.spilled
          /\ (y.rem = x.rem /\ x.rem = 0) \/ y.rem < x.rem
      BY <3>1, TurnTyped
    <3> QED BY <3>1, <3>2 DEF LoopRec
  <2>4. (x.spilled \/ Ok(x)) /\ x.off + x.rem = w0.off + n /\ (x.rem = 0 \/ x.rem + i <= n)
    BY <2>2
  <2>5. y.spilled \/ Ok(y)
    <3> SUFFICES ASSUME ~y.spilled PROVE Ok(y)
      OBVIOUS
    <3>1. Ok(x)
      BY <2>3, <2>4
    <3> QED BY <1>0, <2>3, <3>1, TurnFills
  <2> HIDE DEF Ok
  <2>6. y.rem = 0 \/ y.rem + (i + 1) <= n
    BY <1>0, <2>1, <2>3, <2>4
  <2> QED BY <2>1, <2>2, <2>3, <2>4, <2>5, <2>6
<1>6. S \in SUBSET Nat
  OBVIOUS
<1>7. S = Nat
  <2> HIDE DEF S
  <2> QED BY <1>4, <1>5, <1>6, AllNumbers, Zenon
<1>8. Ok(w) /\ w.off + w.rem = w0.off + n /\ (w.rem = 0 \/ w.rem + n <= n) /\ w \in LoopRec
  <2> HIDE DEF Ok
  <2> QED BY <1>0, <1>2, <1>3, <1>7
<1>9. w.rem \in Nat /\ w.off \in Nat
  BY <1>8 DEF LoopRec
<1>10. w.off = w0.off + n
  <2> HIDE DEF Ok
  <2> QED BY <1>0, <1>8, <1>9
<1> QED BY <1>8, <1>10 DEF Filling

\* A state with the same tree, and the entries that were there.
Steady(s, t) == Good(t) /\ Kept(s, t) /\ t.tree = s.tree /\ t.children_read = s.children_read

\* The death of the daemon changes nothing of the tree.
LEMMA SegfaultIsSteady ==
    ASSUME NEW s, Good(s)
    PROVE  Steady(s, Segfault(s)) /\ ~Segfault(s).up
<1>1. "none" \in {"none", "ENOENT", "ENOSPC", "EOVERFLOW"}
  OBVIOUS
<1>2. Good(Segfault(s)) /\ Kept(s, Segfault(s)) /\ SameParts(s, Segfault(s)) /\ ~Segfault(s).up
  BY <1>1, ErrorsAreGood
<1> QED BY <1>2 DEF Steady, SameParts

\* Nor does an error number.
LEMMA ErrnoIsSteady ==
    ASSUME NEW s, Good(s), NEW x \in {"none", "ENOENT", "ENOSPC", "EOVERFLOW"}
    PROVE  /\ Steady(s, [s EXCEPT !.errno = x]) /\ SameParts(s, [s EXCEPT !.errno = x])
           /\ [s EXCEPT !.errno = x].up = s.up
           /\ Steady(s, s)
<1>1. /\ Good([s EXCEPT !.errno = x]) /\ Kept(s, [s EXCEPT !.errno = x])
      /\ SameParts(s, [s EXCEPT !.errno = x]) /\ [s EXCEPT !.errno = x].up = s.up
      /\ Kept(s, s)
  BY ErrorsAreGood
<1> QED BY <1>1 DEF Steady, SameParts

\* Steps follow each other.
LEMMA SteadyOn ==
    ASSUME NEW s, NEW t, NEW u, Steady(s, t), Steady(t, u)
    PROVE  Steady(s, u)
<1>1. Kept(s, u)
  BY KeptOn DEF Steady
<1> QED BY <1>1 DEF Steady

\* A cluster of a chain that has no next one says so.
LEMMA LinksMade ==
    ASSUME NEW s, Good(s), ~s.spilled, NEW c \in Clusters, NextCluster(s.fat, c) = EOC, NextFree(s.fat) = EOC
    PROVE  s.fat[c] = EOC
<1>1. s.fat[c] = EOC \/ s.fat[c] = FREE
  BY ClusterNumbers DEF Good, Fs, FatType, NextCluster
<1>2. s.fat[c] # FREE
  <2> SUFFICES ASSUME s.fat[c] = FREE PROVE FALSE
    OBVIOUS
  <2> DEFINE F == {d \in Clusters : s.fat[d] = FREE}
  <2>1. c \in F /\ F \in SUBSET Nat
    BY ClusterNumbers
  <2>2. \E d \in F : \A e \in F : d <= e
    <3> HIDE DEF F
    <3> QED BY <2>1, LeastNumber
  <2>3. NextFree(s.fat) \in F
    BY <2>1, <2>2 DEF NextFree
  <2> QED BY <2>3, ClusterNumbers
<1> QED BY <1>1, <1>2

\* Other chains, with the same entries.
SameEntries(s, t) ==
    /\ t.dir = s.dir /\ t.file = s.file /\ t.tree = s.tree
    /\ t.nentries = s.nentries /\ t.children_read = s.children_read

\* All that is said of the entries is true of them still.
LEMMA ChainsAreApart ==
    ASSUME NEW s, Good(s), NEW t \in Fs, Stored(t), SameEntries(s, t)
    PROVE  Steady(s, t)
<1>1. Named(t) /\ InMemory(t) /\ AllRead(t)
  BY DEF Good, Named, InMemory, AllRead, SameEntries
<1>2. Counted(t)
  BY DEF Good, Counted, EndsAt, SameEntries
<1>3. Kept(s, t)
  BY DEF Kept, SameEntries
<1> QED BY <1>1, <1>2, <1>3 DEF Good, Steady, SameEntries

\* A cluster of a file always has one behind it, or there is none left.
Extended(s, c, t) ==
    /\ t.up => t.fat \in FatType /\ t = [s EXCEPT !.fat = t.fat]
    /\ ~t.up => Steady(s, t)

\* Whatever the chains are, Preallocate changes links, or the daemon dies.
LEMMA PreallocateIs ==
    ASSUME NEW s, Good(s), s.up, NEW c \in Clusters, NEW t, t = Preallocate(s, c)
    PROVE  Extended(s, c, t)
<1> USE DEF Extended
<1>1. s \in Fs /\ s.fat \in FatType
  BY DEF Good, Fs
<1>2. CASE NextCluster(s.fat, c) # EOC
  <2>1. t = s
    BY <1>2 DEF Preallocate
  <2>2. s = [s EXCEPT !.fat = s.fat]
    BY <1>1 DEF Fs
  <2> QED BY <1>1, <2>1, <2>2
<1>3. CASE NextCluster(s.fat, c) = EOC /\ NextFree(s.fat) = EOC
  <2> DEFINE fat2 == [s.fat EXCEPT ![c] = EOC]
             y == [s EXCEPT !.fat = fat2]
  <2>1. t = Segfault(y)
    BY <1>3 DEF Preallocate
  <2>2. fat2 \in FatType
    BY <1>1 DEF FatType
  <2>3. s.spilled \/ y = s
    <3> SUFFICES ASSUME ~s.spilled PROVE y = s
      OBVIOUS
    <3>1. s.fat[c] = EOC
      BY <1>3, LinksMade
    <3>2. fat2 = s.fat
      BY <1>1, <3>1 DEF FatType
    <3> QED BY <1>1, <3>2 DEF Fs
  <2> HIDE DEF fat2
  <2>4. y \in Fs /\ SameEntries(s, y) /\ y.spilled = s.spilled
    BY <1>1, <2>2 DEF Fs, SameEntries
  <2> HIDE DEF y
  <2>5. Stored(y)
    BY <2>3, <2>4 DEF Good, Stored
  <2>6. Steady(s, y)
    BY <2>4, <2>5, ChainsAreApart
  <2>7. Steady(y, t) /\ ~t.up
    BY <2>1, <2>6, SegfaultIsSteady DEF Steady
  <2> QED BY <2>6, <2>7, SteadyOn
<1>4. CASE NextCluster(s.fat, c) = EOC /\ NextFree(s.fat) # EOC
  <2>1. PICK new \in Clusters : new = NextFree(s.fat)
    BY <1>4, FreeClusterTyped
  <2> DEFINE fat2 == [s.fat EXCEPT ![c] = new, ![new] = EOC]
  <2>2. t = [s EXCEPT !.fat = fat2]
    BY <1>4, <2>1 DEF Preallocate
  <2>3. fat2 \in FatType
    BY <1>1 DEF FatType
  <2> HIDE DEF fat2
  <2>4. t.fat = fat2 /\ t.up
    BY <1>1, <2>2 DEF Fs
  <2> QED BY <2>2, <2>3, <2>4
<1> QED BY <1>2, <1>3, <1>4

\* The cluster in hand keeps its place when one is linked behind it.
LEMMA PreallocateGives ==
    ASSUME NEW s, Good(s), s.up, NEW own, NEW rank, Links(s.fat, s.dir, own, rank),
           Placed(s.dir, s.data, own, rank), NEW c \in Clusters, own[c] # -1,
           NEW t, t = Preallocate(s, c), t.up
    PROVE  \E own1, rank1 :
              /\ Links(t.fat, s.dir, own1, rank1) /\ Placed(s.dir, s.data, own1, rank1)
              /\ own1[c] = own[c] /\ rank1[c] = rank[c]
<1>1. s \in Fs /\ s.fat \in FatType
  BY DEF Good, Fs
<1>2. CASE NextCluster(s.fat, c) # EOC
  <2>1. t = s
    BY <1>2 DEF Preallocate
  <2> QED BY <2>1
<1>3. CASE NextCluster(s.fat, c) = EOC /\ NextFree(s.fat) = EOC
  <2>1. t = Segfault([s EXCEPT !.fat[c] = EOC])
    BY <1>3 DEF Preallocate
  <2>2. ~t.up
    BY <1>1, <2>1 DEF Segfault, Fs
  <2> QED BY <2>2
<1>4. CASE NextCluster(s.fat, c) = EOC /\ NextFree(s.fat) # EOC
  <2>1. PICK new \in Clusters \ {RootCluster} : new = NextFree(s.fat) /\ s.fat[new] = FREE
    BY <1>4, FreeCluster DEF Links
  <2> DEFINE fat2 == [s.fat EXCEPT ![c] = new, ![new] = EOC]
             own2 == [own EXCEPT ![new] = own[c]]
             rank2 == [rank EXCEPT ![new] = rank[c] + 1]
  <2>2. t = [s EXCEPT !.fat = fat2]
    BY <1>4, <2>1 DEF Preallocate
  <2> HIDE DEF fat2, own2, rank2
  <2>3. t.fat = fat2
    BY <1>1, <2>2 DEF Fs
  <2>4. PICK fat0 \in FatType : fat0 = s.fat
    BY <1>1
  <2>5. /\ Links(fat0, s.dir, own, rank) /\ NextCluster(fat0, c) = EOC /\ fat0[new] = FREE
        /\ fat2 = [fat0 EXCEPT ![c] = new, ![new] = EOC]
    BY <1>4, <2>1, <2>4 DEF fat2
  <2>6. own2 = [own EXCEPT ![new] = own[c]] /\ rank2 = [rank EXCEPT ![new] = rank[c] + 1]
    BY DEF own2, rank2
  <2>7. Linked(fat0, own, rank, c, new, fat2, own2, rank2)
    BY <2>1, <2>5, <2>6 DEF Linked
  <2>8. /\ Links(fat2, s.dir, own2, rank2) /\ Placed(s.dir, s.data, own2, rank2)
        /\ own2[c] = own[c] /\ rank2[c] = rank[c]
    BY <2>5, <2>7, LinkAfter
  <2> QED BY <2>3, <2>8
<1> QED BY <1>2, <1>3, <1>4

\* The loop has come to w, and the size of f is known.
LoopDone(t, w, f, off, n) ==
    [t EXCEPT !.fat = w.fat, !.data = w.data, !.spilled = w.spilled,
              !.file[f].size = IF off + n > @ THEN off + n ELSE @]

\* What fat_file_pwrite leaves after a loop that comes to w, with the size z.
WriteLeaves(s, f, w, z, u) ==
    /\ u \in Fs /\ Resized(s, f, z, u) /\ u.fat = w.fat /\ u.data = w.data /\ u.spilled = w.spilled
    /\ w.fat \in FatType /\ w.data \in DataType /\ (s.spilled => w.spilled)

\* The parts of the state that the write changes.
LEMMA WriteGives ==
    ASSUME NEW s, Good(s), s.up, NEW f \in s.tree, NEW c \in Clusters, NEW off \in Nat, NEW n \in Nat,
           NEW t, t = Preallocate(s, c), t.up, NEW w0 \in LoopRec, w0.spilled = s.spilled,
           NEW w, w = WriteLoop(f, w0, n), NEW z \in Nat, z = IF off + n > s.file[f].size THEN off + n ELSE s.file[f].size,
           NEW u, u = WriteEntry(LoopDone(t, w, f, off, n), f)
    PROVE  WriteLeaves(s, f, w, z, u)
<1>1. f \in Names /\ s.file[f].pos \in Slots /\ s.file[f].start \in Clusters
  BY EntryOf
<1>2. PICK p, start : p = s.file[f].pos /\ start = s.file[f].start
  OBVIOUS
<1>3. s \in Fs /\ s.file \in FileType /\ s.dir \in DirType /\ t = [s EXCEPT !.fat = t.fat]
  BY PreallocateIs DEF Good, Fs, Extended
<1>4. w \in LoopRec /\ (w0.spilled => w.spilled)
  BY <1>1, LoopTyped
<1>5. w.fat \in FatType /\ w.data \in DataType /\ w.spilled \in BOOLEAN
  BY <1>4 DEF LoopRec
<1>6. PICK F2, D2, b : F2 = w.fat /\ D2 = w.data /\ b = w.spilled
  OBVIOUS
<1> DEFINE file2 == [s.file EXCEPT ![f].size = z]
           y == [s EXCEPT !.fat = F2, !.data = D2, !.spilled = b, !.file = file2]
<1>7. file2 \in FileType /\ file2[f].pos = p /\ file2[f].start = start /\ file2[f].size = z
  BY <1>1, <1>2, <1>3 DEF FileType
<1>8. u = WriteEntry(y, f)
  <2>1. t.file = s.file
    BY <1>3 DEF Fs
  <2>2. LoopDone(t, w, f, off, n)
        = [t EXCEPT !.fat = F2, !.data = D2, !.spilled = b, !.file = file2]
    BY <1>6, <2>1 DEF LoopDone
  <2>3. [t EXCEPT !.fat = F2, !.data = D2, !.spilled = b, !.file = file2] = y
    <3> HIDE DEF file2
    <3> QED BY <1>3 DEF Fs
  <2> HIDE DEF y, file2
  <2> QED BY <2>2, <2>3
<1> HIDE DEF file2
<1>9. /\ y \in Fs /\ y.file[f].pos = p /\ y.file[f].start = start /\ y.file[f].size = z /\ y.dir = s.dir
      /\ y.fat = F2 /\ y.data = D2 /\ y.spilled = b /\ y.file = file2 /\ y.tree = s.tree
      /\ y.nentries = s.nentries /\ y.children_read = s.children_read
  BY <1>3, <1>5, <1>6, <1>7 DEF Fs
<1>10. ~(DirCap <= p)
  BY <1>1, <1>2, ClusterNumbers DEF Slots
<1>11. PICK dir2 : dir2 = [s.dir EXCEPT ![p] = Entry(f, start, z)]
  OBVIOUS
<1>12. u = [y EXCEPT !.dir = dir2]
  <2> HIDE DEF y
  <2> QED BY <1>8, <1>9, <1>10, <1>11 DEF WriteEntry, WriteDirEntry
<1>13. dir2 \in DirType
  <2>1. Entry(f, start, z) \in EntryType
    BY <1>1, <1>2 DEF Entry, EntryType
  <2> QED BY <1>3, <1>11, <2>1 DEF DirType
<1> HIDE DEF y
<1>14. /\ u \in Fs /\ u.fat = F2 /\ u.data = D2 /\ u.spilled = b /\ u.dir = dir2 /\ u.file = file2
       /\ u.tree = s.tree /\ u.nentries = s.nentries /\ u.children_read = s.children_read
  BY <1>9, <1>12, <1>13 DEF Fs
<1>15. Resized(s, f, z, u)
  BY <1>2, <1>11, <1>14 DEF Resized, file2
<1> QED BY <1>4, <1>5, <1>6, <1>14, <1>15 DEF WriteLeaves

\* fat_file_pwrite keeps the files where they are, or records that it ran out of clusters.
LEMMA PwriteIsSteady ==
    ASSUME NEW s, Good(s), s.up, NEW f \in s.tree, NEW off \in Nat, NEW n \in Nat
    PROVE  Steady(s, Pwrite(s, f, off, n))
<1> DEFINE p == s.file[f].pos
           size == s.file[f].size
           start == s.file[f].start
           u == Pwrite(s, f, off, n)
<1> SUFFICES Steady(s, u)
  OBVIOUS
<1>1. /\ s \in Fs /\ f \in Names /\ p \in LiveIn(s.dir) /\ p \in Slots /\ start \in Clusters /\ size \in Nat
      /\ s.dir[p].name = f /\ s.dir[p].start = start /\ s.dir[p].size = size
  <2>1. s \in Fs
    BY DEF Good
  <2> QED BY <2>1, EntryOf
<1>2. PICK c, t : c = Seek(s.fat, start, off) /\ t = Preallocate(s, c)
  OBVIOUS
<1>3. CASE off > size \/ SeekFails(s.fat, start, off)
  <2>1. u = [s EXCEPT !.errno = "EOVERFLOW"]
    BY <1>3 DEF Pwrite
  <2> HIDE DEF u
  <2> QED BY <2>1, ErrnoIsSteady
<1>4. CASE ~(off > size \/ SeekFails(s.fat, start, off)) /\ s.errno # "none"
  <2>1. u = s
    BY <1>4 DEF Pwrite
  <2>2. Steady(s, s)
    BY ErrnoIsSteady
  <2> HIDE DEF u
  <2> QED BY <2>1, <2>2
<1>5. CASE ~(off > size \/ SeekFails(s.fat, start, off)) /\ s.errno = "none" /\ c = EOC
  <2>1. u = Segfault(s)
    BY <1>2, <1>5 DEF Pwrite
  <2> HIDE DEF u
  <2> QED BY <2>1, SegfaultIsSteady
<1>6. CASE ~(off > size \/ SeekFails(s.fat, start, off)) /\ s.errno = "none" /\ c # EOC
  <2>0. PICK q \in Nat : q = off \div CS
    BY ClusterNumbers
  <2>1. c \in Clusters
    <3>1. c = Walk(s.fat, start, q)
      BY <1>2, <2>0 DEF Seek
    <3>2. c \in Clusters \cup {EOC}
      BY <1>1, <3>1, WalkStep
    <3> QED BY <1>6, <3>2
  <2>2. PICK w0, w, z :
           /\ w0 = [fat |-> t.fat, data |-> t.data, cluster |-> c, off |-> off, rem |-> n, spilled |-> t.spilled]
           /\ w = WriteLoop(f, w0, n)
           /\ z = IF off + n > size THEN off + n ELSE size
    OBVIOUS
  <2>3. u = IF t.up THEN WriteEntry(LoopDone(t, w, f, off, n), f) ELSE t
    BY <1>2, <1>6, <2>2 DEF Pwrite, LoopDone
  <2> HIDE DEF u, p, size, start
  <2>4. Extended(s, c, t)
    BY <1>2, <2>1, PreallocateIs
  <2>5. CASE ~t.up
    BY <2>3, <2>4, <2>5 DEF Extended
  <2>6. CASE t.up
    <3>1. t.fat \in FatType /\ t = [s EXCEPT !.fat = t.fat]
      BY <2>4, <2>6 DEF Extended
    <3>2. t.data = s.data /\ t.spilled = s.spilled /\ s.data \in DataType /\ s.dir \in DirType /\ s.spilled \in BOOLEAN
      BY <1>1, <3>1 DEF Fs
    <3>3. /\ w0 \in LoopRec /\ w0.spilled = s.spilled /\ w0.fat = t.fat /\ w0.data = s.data
          /\ w0.cluster = c /\ w0.off = off /\ w0.rem = n
      BY <2>1, <2>2, <3>1, <3>2 DEF LoopRec
    <3>4. z \in Nat
      BY <1>1, <2>2
    <3>5. WriteLeaves(s, f, w, z, u)
      <4>1. u = WriteEntry(LoopDone(t, w, f, off, n), f)
        BY <2>3, <2>6
      <4>2. z = IF off + n > s.file[f].size THEN off + n ELSE s.file[f].size
        BY <2>2 DEF size
      <4>3. t = Preallocate(s, c) /\ w = WriteLoop(f, w0, n) /\ w0.spilled = s.spilled
        BY <1>2, <2>2, <3>3
      <4> QED BY <2>1, <2>6, <3>3, <3>4, <4>1, <4>2, <4>3, WriteGives
    <3>6. Stored(u)
      <4>1. CASE u.spilled
        BY <4>1 DEF Stored
      <4>2. CASE ~u.spilled
        <5>1. ~w.spilled /\ ~s.spilled
          BY <3>5, <4>2 DEF WriteLeaves
        <5>2. PICK own, rank : Links(s.fat, s.dir, own, rank) /\ Placed(s.dir, s.data, own, rank)
          BY <5>1 DEF Good, Stored
        <5>3. own[start] = p /\ rank[start] = 0 /\ p # -1
          BY <1>1, <5>2, ClusterNumbers DEF Links, Starts
        <5>4. own[c] = p /\ rank[c] = q
          <6>1. Walk(s.fat, start, q) = c /\ own[start] # -1
            BY <1>2, <2>0, <5>3 DEF Seek
          <6>2. own[c] = own[start] /\ rank[c] = rank[start] + q
            BY <1>1, <1>6, <5>2, <6>1, WalkAt
          <6> QED BY <5>3, <6>2
        <5>5. PICK own1, rank1 : /\ Links(t.fat, s.dir, own1, rank1) /\ Placed(s.dir, s.data, own1, rank1)
                                 /\ own1[c] = p /\ rank1[c] = q
          <6>1. own[c] # -1
            BY <5>3, <5>4
          <6> QED BY <1>2, <2>1, <2>6, <5>2, <5>4, <6>1, PreallocateGives
        <5>6. w.fat = t.fat /\ Fills(own1, rank1, p, f, s.data, w.data, off, off + n)
          <6>1. Links(w0.fat, s.dir, own1, rank1) /\ own1[w0.cluster] = p /\ rank1[w0.cluster] = w0.off \div CS
            BY <2>0, <3>3, <5>5
          <6>2. w.fat = w0.fat /\ Fills(own1, rank1, p, f, w0.data, w.data, w0.off, w0.off + n)
            BY <1>1, <2>2, <3>3, <5>1, <5>3, <6>1, LoopFills
          <6> QED BY <3>3, <6>2
        <5>7. Fills(own1, rank1, p, f, s.data, w.data, size, z)
          <6>1. size..(z - 1) \subseteq off..(off + n - 1)
            BY <1>1, <1>6, <2>2
          <6> QED BY <5>6, <6>1, FillsLess
        <5>8. PICK dir0 \in DirType : dir0 = s.dir
          BY <3>2
        <5>8a. PICK dir2 : dir2 = [dir0 EXCEPT ![p] = Entry(dir0[p].name, dir0[p].start, z)]
          OBVIOUS
        <5>9. /\ Links(t.fat, dir0, own1, rank1) /\ Placed(dir0, s.data, own1, rank1) /\ p \in LiveIn(dir0)
              /\ Fills(own1, rank1, p, dir0[p].name, s.data, w.data, dir0[p].size, z)
          BY <1>1, <5>5, <5>7, <5>8
        <5>10. Links(t.fat, dir2, own1, rank1) /\ Placed(dir2, w.data, own1, rank1)
          BY <3>4, <5>8a, <5>9, WriteUnits
        <5>11. u.dir = dir2 /\ u.fat = t.fat /\ u.data = w.data
          BY <1>1, <3>5, <5>6, <5>8, <5>8a DEF WriteLeaves, Resized, p, start
        <5> QED BY <5>10, <5>11 DEF Stored
      <4> QED BY <4>1, <4>2
    <3>7. u \in Fs /\ Resized(s, f, z, u)
      BY <3>5 DEF WriteLeaves
    <3>8. Good(u) /\ Kept(s, u)
      BY <3>4, <3>6, <3>7, ResizeIsGood
    <3> QED BY <3>7, <3>8 DEF Steady, Resized
  <2> QED BY <2>5, <2>6
<1> QED BY <1>3, <1>4, <1>5, <1>6

\* Division by a positive number is monotonic.
LEMMA DivMono ==
    ASSUME NEW m \in Nat \ {0}, NEW a \in Int, NEW b \in Int, a <= b
    PROVE  a \div m <= b \div m
<1> PICK d \in Int, e \in 0..(m - 1) : d = a \div m /\ a = m * d + e
  BY DivMod
<1> PICK g \in Int, h \in 0..(m - 1) : g = b \div m /\ b = m * g + h
  BY DivMod
<1> SUFFICES ASSUME d >= g + 1 PROVE FALSE
  OBVIOUS
<1>1. m * (d - g) >= m
  OBVIOUS
<1>2. m * (d - g) = (a - e) - (b - h)
  OBVIOUS
<1> QED BY <1>1, <1>2

\* fat_file_truncate keeps the files where they are.
LEMMA TruncIsSteady ==
    ASSUME NEW s, Good(s), NEW f \in s.tree, NEW off \in Nat
    PROVE  Steady(s, Trunc(s, f, off))
<1> DEFINE p == s.file[f].pos
           size == s.file[f].size
           start == s.file[f].start
           u == Trunc(s, f, off)
<1> SUFFICES Steady(s, u)
  OBVIOUS
<1>1. /\ s \in Fs /\ f \in Names /\ p \in LiveIn(s.dir) /\ p \in Slots /\ start \in Clusters /\ size \in Nat
      /\ s.dir[p].name = f /\ s.dir[p].start = start /\ s.dir[p].size = size
  <2>1. s \in Fs
    BY DEF Good
  <2> QED BY <2>1, EntryOf
<1>2. PICK c, next, cut : /\ c = Seek(s.fat, start, off) /\ next = NextCluster(s.fat, c)
                          /\ cut = [s.fat EXCEPT ![c] = EOC]
  OBVIOUS
<1>3. CASE off > size \/ NumClusters(off) >= NumClusters(size)
  <2>1. u = s
    BY <1>3 DEF Trunc
  <2>2. Steady(s, s)
    BY ErrnoIsSteady
  <2> HIDE DEF u
  <2> QED BY <2>1, <2>2
<1>4. CASE ~(off > size \/ NumClusters(off) >= NumClusters(size)) /\ SeekFails(s.fat, start, off)
  <2>1. u = [s EXCEPT !.errno = "EOVERFLOW"]
    BY <1>4 DEF Trunc
  <2> HIDE DEF u
  <2> QED BY <2>1, ErrnoIsSteady
<1>5. CASE /\ ~(off > size \/ NumClusters(off) >= NumClusters(size)) /\ ~SeekFails(s.fat, start, off)
           /\ c = EOC
  <2>1. u = Segfault(s)
    BY <1>2, <1>5 DEF Trunc
  <2> HIDE DEF u
  <2> QED BY <2>1, SegfaultIsSteady
<1>6. CASE /\ ~(off > size \/ NumClusters(off) >= NumClusters(size)) /\ ~SeekFails(s.fat, start, off)
           /\ c # EOC
  <2> DEFINE fat2 == FreeChain(cut, next)
  <2>1. u = WriteEntry([s EXCEPT !.fat = fat2, !.file[f].size = off], f)
    BY <1>2, <1>6 DEF Trunc
  <2> HIDE DEF u, p, size, start
  <2>1a. PICK dir2 : dir2 = [s.dir EXCEPT ![p] = Entry(f, start, off)]
    OBVIOUS
  <2>1b. s.spilled \/ \E own2, rank2 : Links(fat2, dir2, own2, rank2) /\ Placed(dir2, s.data, own2, rank2)
    <3> SUFFICES ASSUME ~s.spilled
                 PROVE  \E own2, rank2 : Links(fat2, dir2, own2, rank2) /\ Placed(dir2, s.data, own2, rank2)
      OBVIOUS
    <3>2. PICK own, rank : Links(s.fat, s.dir, own, rank) /\ Placed(s.dir, s.data, own, rank)
      BY DEF Good, Stored
    <3>3. own[start] = p /\ rank[start] = 0 /\ p # -1
      BY <1>1, <3>2, ClusterNumbers DEF Links, Starts
    <3>4. PICK q \in Nat : q = off \div CS
      BY ClusterNumbers
    <3>5. c \in Clusters /\ own[c] = p /\ rank[c] = q
      <4>1. Walk(s.fat, start, q) = c /\ own[start] # -1
        BY <1>2, <3>3, <3>4 DEF Seek
      <4>2. c \in Clusters /\ own[c] = own[start] /\ rank[c] = rank[start] + q
        BY <1>1, <1>6, <3>2, <4>1, WalkAt
      <4> QED BY <3>3, <4>2
    <3>6. \A k \in 0..(off - 1) : k \div CS <= rank[c]
      <4> SUFFICES ASSUME NEW k \in 0..(off - 1) PROVE k \div CS <= rank[c]
        OBVIOUS
      <4>1. CS \in Nat \ {0} /\ k \in Int /\ off \in Int /\ k <= off
        BY ClusterNumbers
      <4>2. k \div CS <= off \div CS
        BY <4>1, DivMono
      <4> QED BY <3>4, <3>5, <4>2
    <3>8. off \in 0..size /\ s.fat \in FatType /\ s.dir \in DirType
      BY <1>1, <1>6 DEF Fs
    <3>9. \E own2 : Links(fat2, dir2, own2, rank) /\ Placed(dir2, s.data, own2, rank)
      <4>1. PICK fat0 \in FatType, dir0 \in DirType : fat0 = s.fat /\ dir0 = s.dir
        BY <3>8
      <4>2. /\ Links(fat0, dir0, own, rank) /\ Placed(dir0, s.data, own, rank)
            /\ p \in LiveIn(dir0) /\ off \in 0..dir0[p].size
            /\ dir2 = [dir0 EXCEPT ![p] = Entry(dir0[p].name, dir0[p].start, off)]
            /\ fat2 = FreeChain([fat0 EXCEPT ![c] = EOC], NextCluster(fat0, c))
        BY <1>1, <1>2, <3>2, <2>1a, <3>8, <4>1
      <4> HIDE DEF fat2
      <4> QED BY <3>5, <3>6, <4>2, CutAfter
    <3> QED BY <3>9
  <2>8. s.fat \in FatType /\ s.dir \in DirType
    BY <1>1 DEF Fs
  <2>10. fat2 \in FatType
    BY <1>2, <2>8 DEF FreeChain, FatType
  <2> HIDE DEF fat2
  <2>11. u = [s EXCEPT !.fat = fat2, !.file[f].size = off, !.dir[p] = Entry(f, start, off)] /\ u \in Fs
    <3> DEFINE y == [s EXCEPT !.fat = fat2, !.file[f].size = off]
    <3>1. y \in Fs /\ y.file[f].pos = p /\ y.file[f].start = start /\ y.file[f].size = off /\ y.dir = s.dir
      <4> DEFINE file2 == [s.file EXCEPT ![f].size = off]
      <4>1. file2 \in FileType /\ file2[f].pos = p /\ file2[f].start = start /\ file2[f].size = off
        BY <1>1 DEF Fs, FileType, p, start
      <4>2. y = [s EXCEPT !.fat = fat2, !.file = file2]
        OBVIOUS
      <4> HIDE DEF y, file2
      <4> QED BY <1>1, <2>10, <4>1, <4>2 DEF Fs
    <3>2. u = WriteEntry(y, f)
      BY <2>1
    <3>3. ~(DirCap <= p)
      BY <1>1, ClusterNumbers DEF Slots
    <3>4. u = [y EXCEPT !.dir[p] = Entry(f, start, off)]
      <4> HIDE DEF y
      <4> QED BY <3>1, <3>2, <3>3 DEF WriteEntry, WriteDirEntry
    <3>5. u \in Fs
      <4>1. Entry(f, start, off) \in EntryType
        BY <1>1 DEF Entry, EntryType
      <4> HIDE DEF y
      <4> QED BY <3>1, <3>4, <4>1 DEF Fs, DirType
    <3> QED BY <3>4, <3>5
  <2>12. /\ u.fat = fat2 /\ u.data = s.data /\ u.dir = dir2
         /\ u.file = [s.file EXCEPT ![f].size = off]
         /\ u.tree = s.tree /\ u.nentries = s.nentries /\ u.children_read = s.children_read
         /\ u.spilled = s.spilled
    BY <1>1, <2>1a, <2>11 DEF Fs
  <2>13. Stored(u)
    BY <2>1b, <2>12 DEF Stored
  <2>14. Good(u) /\ Kept(s, u)
    <3>1. u.dir = [s.dir EXCEPT ![s.file[f].pos] = Entry(f, s.file[f].start, off)]
      BY <2>1a, <2>12 DEF p, start
    <3>2. Resized(s, f, off, u)
      BY <2>12, <3>1 DEF Resized
    <3> QED BY <2>11, <2>13, <3>2, ResizeIsGood
  <2> QED BY <2>12, <2>14 DEF Steady
<1> QED BY <1>3, <1>4, <1>5, <1>6

\* fat_file_pread
LEMMA PreadIsSteady ==
    ASSUME NEW s, Good(s), NEW f \in s.tree, NEW off \in Nat
    PROVE  Steady(s, Pread(s, f, off)) /\ Pread(s, f, off).up = s.up
<1> PICK u : u = Pread(s, f, off)
  OBVIOUS
<1> SUFFICES Steady(s, u) /\ u.up = s.up
  OBVIOUS
<1>1. CASE u = [s EXCEPT !.errno = "EOVERFLOW"]
  BY <1>1, ErrnoIsSteady
<1>2. CASE u = s
  <2>1. Steady(s, s)
    BY ErrnoIsSteady
  <2> QED BY <1>2, <2>1
<1>3. CASE u = WriteEntry(s, f)
  <2>1. Good(WriteEntry(s, f)) /\ Kept(s, WriteEntry(s, f)) /\ SameParts(s, WriteEntry(s, f))
        /\ WriteEntry(s, f).up = s.up
    BY EntryAgain
  <2> QED BY <1>3, <2>1 DEF Steady, SameParts
<1> QED BY <1>1, <1>2, <1>3 DEF Pread

\* A line more in fs.log.
LEMMA LogActivityIsSteady ==
    ASSUME NEW s, Good(s), s.up
    PROVE  Steady(s, LogActivity(s))
<1> DEFINE u == LogActivity(s)
<1>1. CASE "fs.log" \notin s.tree
  <2>1. u = Segfault(s)
    BY <1>1 DEF LogActivity
  <2> QED BY <2>1, SegfaultIsSteady
<1>2. CASE "fs.log" \in s.tree
  <2>1. PICK f, off, n : f = "fs.log" /\ off = s.file[f].size /\ n = LogLen
    OBVIOUS
  <2>2. f \in s.tree /\ off \in Nat
    BY <1>2, <2>1, EntryOf
  <2>3. n \in Nat
    BY <2>1, FatAssumption DEF FatAssumption
  <2>4. u = Pwrite(s, f, off, n)
    BY <1>2, <2>1 DEF LogActivity
  <2> HIDE DEF u
  <2>5. Steady(s, u)
    BY <2>2, <2>3, <2>4, PwriteIsSteady
  <2> QED BY <2>5 DEF u
<1> QED BY <1>1, <1>2

\* Clear and a lookup that fails.
LEMMA ClearIsSteady ==
    ASSUME NEW s, Good(s)
    PROVE  Steady(s, Clear(s)) /\ SameParts(s, Clear(s)) /\ Clear(s).up = s.up /\ Clear(s).errno = "none"
<1> DEFINE t == [s EXCEPT !.errno = "none"]
<1>1. Steady(s, t) /\ SameParts(s, t) /\ t.up = s.up
  <2>1. PICK x \in {"none", "ENOENT", "ENOSPC", "EOVERFLOW"} : x = "none"
    OBVIOUS
  <2>2. t = [s EXCEPT !.errno = x]
    BY <2>1
  <2> HIDE DEF t
  <2> QED BY <2>2, ErrnoIsSteady
<1>2. t.errno = "none"
  BY DEF Good, Fs
<1> QED BY <1>1, <1>2 DEF Clear

\* A file that is not in the tree gets a cluster and the first entry never used.
LEMMA MknodIsGood ==
    ASSUME NEW s, Good(s), s.up, s.children_read, NEW f \in Names \ s.tree, s.nentries < DirCap,
           f = "fs.log" \/ "fs.log" \in s.tree
    PROVE  LET t == Mknod(s, f) IN
           /\ Good(t) /\ Kept(s, t) /\ t.children_read /\ s.tree \subseteq t.tree
           /\ t.up => t.tree = s.tree \cup {f}
<1> DEFINE t == Mknod(s, f)
<1> SUFFICES /\ Good(t) /\ Kept(s, t) /\ t.children_read /\ s.tree \subseteq t.tree
             /\ t.up => t.tree = s.tree \cup {f}
  OBVIOUS
<1>1. Steady(s, Clear(s)) /\ SameParts(s, Clear(s)) /\ Clear(s).up /\ Clear(s).errno = "none"
  BY ClearIsSteady
<1>2. PICK c : c = NextFree(s.fat)
  OBVIOUS
<1>3. s \in Fs /\ Clear(s) \in Fs
  BY <1>1 DEF Good, Steady
<1>4. CASE c = EOC
  <2>1. FileInit(Clear(s), f) = Segfault(Clear(s))
    BY <1>1, <1>2, <1>4 DEF FileInit, SameParts
  <2>2. Steady(Clear(s), Segfault(Clear(s))) /\ ~Segfault(Clear(s)).up
    BY <1>1, SegfaultIsSteady DEF Steady
  <2>3. t = Segfault(Clear(s))
    BY <2>1, <2>2 DEF Mknod
  <2> HIDE DEF t
  <2> QED BY <1>1, <2>2, <2>3, KeptOn DEF Steady
<1>5. CASE c # EOC
  <2> DEFINE z == s.nentries
             fat2 == [s.fat EXCEPT ![c] = EOC]
             dir2 == [s.dir EXCEPT ![z] = Entry(f, c, 0)]
             file1 == [s.file EXCEPT ![f] = [start |-> c, size |-> 0, pos |-> 0]]
             file2 == [s.file EXCEPT ![f] = [start |-> c, size |-> 0, pos |-> z]]
  <2>2. c \in Clusters
    BY <1>2, <1>5, FreeClusterTyped
  <2>3. EndsAt(s, z) /\ z \in Slots /\ z \in Nat /\ z + 1 \in 0..DirCap
    <3>1. PICK y \in 0..DirCap : EndsAt(s, y)
      BY DEF Good, Counted
    <3>2. z = y
      BY <3>1 DEF EndsAt
    <3> QED BY <3>1, <3>2, ClusterNumbers DEF Slots
  <2>4. s.dir[z] = End /\ z \notin LiveIn(s.dir)
    BY <2>3 DEF EndsAt, LiveIn
  <2>5. s.fat \in FatType /\ s.dir \in DirType /\ s.file \in FileType
    BY <1>3 DEF Fs
  <2>6. Entry(f, c, 0) \in EntryType
    BY <2>2 DEF Entry, EntryType
  <2>7. fat2 \in FatType /\ dir2 \in DirType /\ file2 \in FileType /\ file1 \in FileType
    <3>1. fat2 \in FatType
      BY <2>2, <2>5 DEF FatType
    <3>2. dir2 \in DirType
      BY <2>3, <2>5, <2>6 DEF DirType
    <3>3. file2 \in FileType /\ file1 \in FileType
      BY <2>2, <2>3, <2>5 DEF FileType
    <3> QED BY <3>1, <3>2, <3>3
  <2>8. /\ t.fat = fat2 /\ t.data = s.data /\ t.dir = dir2 /\ t.file = file2
        /\ t.tree = s.tree \cup {f} /\ t.nentries = z + 1 /\ t.children_read = TRUE /\ t.up /\ t \in Fs
        /\ t.spilled = s.spilled
    <3> DEFINE s0 == Clear(s)
               s1 == [s0 EXCEPT !.fat = fat2, !.file = file1, !.tree = s.tree \cup {f}]
    <3>1. /\ s0.fat = s.fat /\ s0.data = s.data /\ s0.dir = s.dir /\ s0.file = s.file /\ s0.tree = s.tree
          /\ s0.nentries = z /\ s0.children_read /\ s0.up /\ s0.errno = "none" /\ s0 \in Fs
          /\ s0.spilled = s.spilled
      BY <1>1, <1>3 DEF SameParts
    <3> HIDE DEF s0, fat2, file1, file2, dir2
    <3>2. FileInit(s0, f) = [s0 EXCEPT !.fat = fat2, !.file = file1]
      BY <1>2, <1>5, <3>1 DEF FileInit, fat2, file1
    <3>3. /\ FileInit(s0, f).up /\ s1 = [FileInit(s0, f) EXCEPT !.tree = @ \cup {f}]
      BY <3>1, <3>2 DEF Fs
    <3>4. /\ s1 \in Fs /\ s1.fat = fat2 /\ s1.data = s.data /\ s1.dir = s.dir /\ s1.file = file1
          /\ s1.tree = s.tree \cup {f} /\ s1.nentries = z /\ s1.children_read /\ s1.up /\ s1.errno = "none"
          /\ s1.spilled = s.spilled
      BY <2>7, <3>1 DEF Fs
    <3>5. t = AddChild(s1, f)
      BY <3>3 DEF Mknod, s0
    <3> HIDE DEF s1, t
    <3>6. s1.file[f].start = c /\ ~(DirCap <= z)
      BY <2>3, <2>5, <3>4, ClusterNumbers DEF file1, FileType, Slots
    <3>7. WriteDirEntry(s1, s1.nentries, Entry(f, s1.file[f].start, 0)) = [s1 EXCEPT !.dir = dir2]
      BY <3>4, <3>6 DEF WriteDirEntry, dir2
    <3>8. t = [s1 EXCEPT !.dir = dir2, !.file[f].pos = z, !.nentries = z + 1]
      <4>1. [s1 EXCEPT !.dir = dir2].errno = "none"
        BY <3>4 DEF Fs
      <4> QED BY <3>4, <3>5, <3>7, <4>1 DEF AddChild
    <3>9. [file1 EXCEPT ![f].pos = z] = file2
      BY <2>5 DEF file1, file2, FileType
    <3>10. t = [s1 EXCEPT !.dir = dir2, !.file = file2, !.nentries = z + 1]
      BY <3>4, <3>8, <3>9
    <3> QED BY <2>3, <2>7, <3>4, <3>10 DEF Fs
  <2>9. LiveIn(dir2) = LiveIn(s.dir) \cup {z}
    <3>1. \A i \in Slots : dir2[i] = IF i = z THEN Entry(f, c, 0) ELSE s.dir[i]
      BY <2>5 DEF DirType
    <3>2. Entry(f, c, 0) \notin {End, Deleted}
      BY <2>2, ClusterNumbers DEF Entry, End, Deleted, FREE
    <3> HIDE DEF dir2
    <3> QED BY <2>3, <3>1, <3>2 DEF LiveIn
  <2>9a. s.spilled \/ \E own2, rank2 : Links(fat2, dir2, own2, rank2) /\ Placed(dir2, s.data, own2, rank2)
    <3> SUFFICES ASSUME ~s.spilled
                 PROVE  \E own2, rank2 : Links(fat2, dir2, own2, rank2) /\ Placed(dir2, s.data, own2, rank2)
      OBVIOUS
    <3>1. PICK own, rank : Links(s.fat, s.dir, own, rank) /\ Placed(s.dir, s.data, own, rank)
      BY DEF Good, Stored
    <3>2. c \in Clusters \ {RootCluster} /\ s.fat[c] = FREE
      BY <1>2, <1>5, <3>1, FreeCluster DEF Links
    <3>3. PICK fat0 \in FatType, dir0 \in DirType : fat0 = s.fat /\ dir0 = s.dir
      BY <2>5
    <3>4. Added(fat0, dir0, c, z, f, fat2, dir2)
      BY <2>3, <2>4, <3>2, <3>3 DEF Added
    <3>5. Links(fat0, dir0, own, rank) /\ Placed(dir0, s.data, own, rank)
      BY <3>1, <3>3
    <3> HIDE DEF fat2, dir2, z
    <3> QED BY <3>4, <3>5, AddFile
  <2>10. /\ \A i \in Slots : dir2[i] = IF i = z THEN Entry(f, c, 0) ELSE s.dir[i]
         /\ \A g \in Names : file2[g] = IF g = f THEN [start |-> c, size |-> 0, pos |-> z] ELSE s.file[g]
    BY <2>5 DEF DirType, FileType
  <2> HIDE DEF t, z, fat2, dir2, file1, file2
  <2>11. Stored(t)
    BY <2>8, <2>9a DEF Stored
  <2>12. LiveIn(s.dir) \subseteq Slots /\ Entry(f, c, 0).name = f /\ Entry(f, c, 0) # End
    BY <2>2, ClusterNumbers DEF LiveIn, Entry, End, FREE
  <2>13. Named(t)
    <3>1. \A i \in LiveIn(s.dir) : s.dir[i].name \in s.tree
      BY DEF Good, AllRead
    <3>2. \A i \in LiveIn(s.dir) : dir2[i].name = s.dir[i].name /\ s.dir[i].name # f /\ i # z
      BY <2>4, <2>10, <2>12, <3>1
    <3>3. dir2[z].name = f /\ dir2[z].start \in Clusters
      BY <2>2, <2>3, <2>10, <2>12 DEF Entry
    <3>4. \A i \in LiveIn(s.dir) : dir2[i].start = s.dir[i].start
      BY <2>4, <2>10, <2>12
    <3> QED BY <2>8, <2>9, <3>2, <3>3, <3>4 DEF Good, Named
  <2>14. Counted(t)
    <3>1. \A i \in Slots : dir2[i] = End <=> i >= z + 1
      BY <2>3, <2>10, <2>12 DEF EndsAt, Slots
    <3>2. z + 1 = DirCap => \E i \in LiveIn(dir2) : dir2[i].name = "fs.log"
      <4>1. CASE f = "fs.log"
        BY <2>3, <2>9, <2>10, <2>12, <4>1
      <4>2. CASE f # "fs.log"
        <5>1. "fs.log" \in s.tree
          BY <4>2
        <5>2. PICK i \in LiveIn(s.dir) : s.dir[i].name = "fs.log"
          BY <5>1, EntryOf
        <5>3. i # z /\ i \in Slots /\ dir2[i] = s.dir[i]
          BY <2>4, <2>10, <2>12, <5>2
        <5> QED BY <2>9, <5>2, <5>3
      <4> QED BY <4>1, <4>2
    <3>3. EndsAt(t, z + 1)
      BY <2>8, <3>1, <3>2 DEF EndsAt
    <3> QED BY <2>3, <3>3 DEF Counted
  <2>15. InMemory(t)
    <3> SUFFICES ASSUME NEW g \in s.tree \cup {f}
                 PROVE  /\ file2[g].pos \in Slots /\ file2[g].start \in Clusters
                        /\ dir2[file2[g].pos] = Entry(g, file2[g].start, file2[g].size)
      BY <2>8 DEF InMemory
    <3>1. CASE g = f
      BY <2>2, <2>3, <2>10, <3>1
    <3>2. CASE g # f
      <4>1. g \in s.tree /\ g \in Names /\ file2[g] = s.file[g]
        BY <2>10, <3>2, EntryOf
      <4>2. /\ s.file[g].pos \in Slots /\ s.file[g].start \in Clusters /\ s.file[g].pos \in LiveIn(s.dir)
            /\ s.dir[s.file[g].pos] = Entry(g, s.file[g].start, s.file[g].size)
        BY <4>1, EntryOf
      <4>3. s.file[g].pos # z
        BY <2>4, <4>2
      <4> QED BY <2>10, <4>1, <4>2, <4>3
    <3> QED BY <3>1, <3>2
  <2>16. AllRead(t)
    <3>1. \A i \in LiveIn(dir2) : dir2[i].name \in s.tree \cup {f}
      <4> SUFFICES ASSUME NEW i \in LiveIn(s.dir) \cup {z} PROVE dir2[i].name \in s.tree \cup {f}
        BY <2>9
      <4>1. CASE i = z
        BY <2>3, <2>10, <2>12, <4>1
      <4>2. CASE i # z
        BY <2>10, <2>12, <4>2 DEF Good, AllRead
      <4> QED BY <4>1, <4>2
    <3> QED BY <2>8, <3>1 DEF AllRead
  <2>17. Kept(s, t)
    BY <2>4, <2>8, <2>10 DEF Kept
  <2> QED BY <2>8, <2>11, <2>13, <2>14, <2>15, <2>16, <2>17 DEF Good
<1> QED BY <1>4, <1>5

\* fat_fuse_log_init: when the daemon survives it, the log is in the tree.
LEMMA LogInitIsGood ==
    ASSUME NEW s, Good(s), s.up, s.children_read
    PROVE  /\ Good(LogInit(s)) /\ Kept(s, LogInit(s)) /\ s.tree \subseteq LogInit(s).tree
           /\ LogInit(s).children_read /\ (LogInit(s).up => "fs.log" \in LogInit(s).tree)
<1> DEFINE t == LogInit(s)
           s1 == Mknod(s, "fs.log")
<1> SUFFICES /\ Good(t) /\ Kept(s, t) /\ s.tree \subseteq t.tree
             /\ t.children_read /\ (t.up => "fs.log" \in t.tree)
  OBVIOUS
<1>1. CASE "fs.log" \in s.tree
  <2>1. t = s
    BY <1>1 DEF LogInit
  <2>2. Steady(s, s)
    BY ClearIsSteady, ErrnoIsSteady
  <2> HIDE DEF t
  <2> QED BY <1>1, <2>1, <2>2 DEF Steady
<1>2. CASE "fs.log" \notin s.tree
  <2>1. s.nentries < DirCap
    <3>1. PICK y \in 0..DirCap : EndsAt(s, y)
      BY DEF Good, Counted
    <3>2. y # DirCap
      BY <1>2, <3>1 DEF EndsAt, Good, AllRead
    <3> QED BY <3>1, <3>2, ClusterNumbers DEF EndsAt
  <2>2. PICK f \in Names \ s.tree : f = "fs.log"
    BY <1>2 DEF Names
  <2>3. /\ Good(s1) /\ Kept(s, s1) /\ s1.children_read /\ s.tree \subseteq s1.tree
        /\ s1.up => s1.tree = s.tree \cup {f}
    BY <2>1, <2>2, MknodIsGood
  <2>4. t = IF s1.up /\ s1.errno = "none" THEN LogActivity(s1) ELSE s1
    BY <1>2 DEF LogInit
  <2> HIDE DEF s1, t
  <2>5. CASE s1.up /\ s1.errno = "none"
    <3>1. Steady(s1, LogActivity(s1))
      BY <2>3, <2>5, LogActivityIsSteady
    <3>2. Kept(s, t)
      BY <2>3, <2>4, <2>5, <3>1, KeptOn DEF Steady
    <3> QED BY <2>2, <2>3, <2>4, <2>5, <3>1, <3>2 DEF Steady
  <2>6. CASE ~(s1.up /\ s1.errno = "none")
    <3>1. t = s1
      BY <2>4, <2>6
    <3> QED BY <2>2, <2>3, <3>1
  <2> QED BY <2>5, <2>6
<1> QED BY <1>1, <1>2

\* fat_file_read_children finds every file on the image.
LEMMA ReadChildrenIsGood ==
    ASSUME NEW s, Good(s), ~s.children_read
    PROVE  LET t == ReadChildren(s) IN
           /\ Good(t) /\ Kept(s, t) /\ t.children_read /\ t.up = s.up /\ s.tree \subseteq t.tree
<1> DEFINE t == ReadChildren(s)
           ends == {i \in Slots : s.dir[i] = End}
           end == IF ends = {} THEN DirCap
                  ELSE CHOOSE i \in ends : \A j \in ends : i <= j
           at(f) == {i \in 0..(end - 1) : s.dir[i].name = f}
           first(f) == CHOOSE i \in at(f) : \A j \in at(f) : i <= j
           file2 == [f \in Names |->
                       IF f \in s.tree \/ at(f) = {} THEN s.file[f]
                       ELSE [start |-> s.dir[first(f)].start,
                             size |-> s.dir[first(f)].size, pos |-> first(f)]]
           tree2 == {f \in Names : at(f) # {}}
<1> SUFFICES Good(t) /\ Kept(s, t) /\ t.children_read /\ t.up = s.up /\ s.tree \subseteq t.tree
  OBVIOUS
<1>1. s \in Fs /\ s.tree = {} /\ s.dir \in DirType /\ s.file \in FileType
  <2>1. s \in Fs /\ s.tree = {}
    BY DEF Good, AllRead
  <2> QED BY <2>1 DEF Fs
<1>2. t = [s EXCEPT !.file = file2, !.tree = s.tree \cup tree2, !.nentries = end, !.children_read = TRUE]
  BY DEF ReadChildren
<1>3. PICK z \in 0..DirCap : EndsAt(s, z)
  BY DEF Good, Counted
<1>4. end = z
  <2>1. ends = {i \in Slots : i >= z}
    BY <1>3 DEF EndsAt
  <2>2. CASE z = DirCap
    <3>1. ends = {}
      BY <2>1, <2>2, ClusterNumbers DEF Slots
    <3> QED BY <2>2, <3>1
  <2>3. CASE z # DirCap
    <3>1. z \in ends /\ \A j \in ends : z <= j
      BY <2>1, <2>3, ClusterNumbers DEF Slots
    <3>2. ends \subseteq Int
      BY ClusterNumbers DEF Slots
    <3> HIDE DEF ends
    <3>3. end \in ends /\ \A j \in ends : end <= j
      <4>1. ends # {}
        BY <3>1
      <4>2. end = CHOOSE i \in ends : \A j \in ends : i <= j
        BY <4>1
      <4> HIDE DEF end
      <4> QED BY <3>1, <4>2
    <3> HIDE DEF end
    <3>4. end <= z /\ z <= end /\ end \in Int /\ z \in Int
      BY <3>1, <3>2, <3>3
    <3> QED BY <3>4
  <2> QED BY <2>2, <2>3
<1> HIDE DEF end, t
<1>5. ASSUME NEW f \in Names
      PROVE  at(f) = {i \in LiveIn(s.dir) : s.dir[i].name = f}
  <2>1. \A i \in 0..(end - 1) : i \in Slots /\ s.dir[i] # End
    BY <1>3, <1>4, ClusterNumbers DEF EndsAt, Slots
  <2>2. \A i \in Slots : s.dir[i] # End => i \in 0..(end - 1)
    BY <1>3, <1>4, ClusterNumbers DEF EndsAt, Slots
  <2>3. Deleted.name # f
    BY FatAssumption DEF FatAssumption, Names, Deleted, Entry
  <2> QED BY <2>1, <2>2, <2>3 DEF LiveIn
<1>6. ASSUME NEW f \in Names, at(f) # {}
      PROVE  first(f) \in LiveIn(s.dir) /\ s.dir[first(f)].name = f
  <2>1. at(f) \in SUBSET Nat
    <3>1. LiveIn(s.dir) \subseteq Nat
      BY ClusterNumbers DEF LiveIn, Slots
    <3> QED BY <1>5, <3>1
  <2> HIDE DEF at
  <2>2. \E i \in at(f) : \A j \in at(f) : i <= j
    BY <1>6, <2>1, LeastNumber
  <2>3. first(f) \in at(f)
    BY <2>2
  <2> HIDE DEF first
  <2> QED BY <1>5, <2>3
<1> HIDE DEF at, first
<1>7. /\ \A i \in LiveIn(s.dir) : i \in Slots /\ i \in Nat /\ s.dir[i] \in EntryType /\ s.dir[i].start \in Clusters
      /\ z \in Nat
  <2>1. \A i \in LiveIn(s.dir) : s.dir[i].start \in Clusters
    BY DEF Good, Named
  <2>2. \A i \in LiveIn(s.dir) : i \in Slots /\ i \in Nat
    BY ClusterNumbers DEF LiveIn, Slots
  <2>3. \A i \in Slots : s.dir[i] \in EntryType
    BY <1>1 DEF DirType
  <2>4. z \in Nat
    BY ClusterNumbers
  <2> QED BY <2>1, <2>2, <2>3, <2>4
<1>8. ASSUME NEW f \in Names
      PROVE  file2[f] = IF f \in tree2
                        THEN [start |-> s.dir[first(f)].start, size |-> s.dir[first(f)].size, pos |-> first(f)]
                        ELSE s.file[f]
  BY <1>1
<1>9. file2 \in FileType
  <2> SUFFICES ASSUME NEW f \in Names
               PROVE  file2[f] \in [start : Clusters \cup {0}, size : Nat, pos : Nat]
    BY DEF FileType
  <2>1. CASE f \in tree2
    <3>1. s.dir[first(f)] \in EntryType /\ s.dir[first(f)].start \in Clusters /\ first(f) \in Nat
      BY <1>6, <1>7, <2>1
    <3>2. file2[f] = [start |-> s.dir[first(f)].start, size |-> s.dir[first(f)].size, pos |-> first(f)]
      BY <1>8, <2>1
    <3> HIDE DEF file2
    <3> QED BY <3>1, <3>2 DEF EntryType
  <2>2. CASE f \notin tree2
    <3>1. file2[f] = s.file[f]
      BY <1>8, <2>2
    <3> HIDE DEF file2
    <3> QED BY <1>1, <3>1 DEF FileType
  <2> QED BY <2>1, <2>2
<1>10. /\ t.fat = s.fat /\ t.data = s.data /\ t.dir = s.dir /\ t.file = file2 /\ t.tree = tree2
       /\ t.nentries = z /\ t.children_read = TRUE /\ t.up = s.up /\ t \in Fs
       /\ t.spilled = s.spilled
  <2>1. s.tree \cup tree2 = tree2 /\ tree2 \subseteq Names
    BY <1>1
  <2> HIDE DEF file2, tree2
  <2> QED BY <1>1, <1>2, <1>4, <1>9, <2>1 DEF Fs
<1> HIDE DEF file2
<1>11. Stored(t)
  BY <1>10 DEF Good, Stored
<1>12. Named(t)
  BY <1>10 DEF Good, Named
<1>13. Counted(t)
  <2>1. EndsAt(t, z)
    BY <1>3, <1>10 DEF EndsAt
  <2> QED BY <2>1 DEF Counted
<1>14. InMemory(t)
  <2> SUFFICES ASSUME NEW f \in tree2
               PROVE  /\ file2[f].pos \in Slots /\ file2[f].start \in Clusters
                      /\ s.dir[file2[f].pos] = Entry(f, file2[f].start, file2[f].size)
    BY <1>10 DEF InMemory
  <2>1. PICK i : i = first(f)
    OBVIOUS
  <2>2. i \in LiveIn(s.dir) /\ s.dir[i].name = f
    BY <1>6, <2>1
  <2>3. file2[f] = [start |-> s.dir[i].start, size |-> s.dir[i].size, pos |-> i]
    BY <1>8, <2>1
  <2>4. s.dir[i] \in EntryType /\ i \in Slots /\ s.dir[i].start \in Clusters
    BY <1>7, <2>2
  <2>5. s.dir[i] = Entry(s.dir[i].name, s.dir[i].start, s.dir[i].size)
    BY <2>4 DEF EntryType, Entry
  <2> QED BY <2>2, <2>3, <2>4, <2>5
<1>15. AllRead(t)
  <2>1. \A i \in LiveIn(s.dir) : s.dir[i].name \in Names
    BY DEF Good, Named
  <2>2. \A i \in LiveIn(s.dir) : s.dir[i].name \in tree2
    BY <1>5, <2>1
  <2> QED BY <1>10, <2>2 DEF AllRead
<1>16. Kept(s, t)
  BY <1>10 DEF Kept
<1> QED BY <1>1, <1>10, <1>11, <1>12, <1>13, <1>14, <1>15, <1>16 DEF Good

\* What unlink leaves.
Unlinked(s, f) ==
    WriteDirEntry([Clear(s) EXCEPT !.fat = FreeChain(@, s.file[f].start),
                                   !.file[f] = NoFile, !.tree = @ \ {f}],
                  s.file[f].pos, Deleted)

\* fat_file_unlink takes the file out, and marks its entry.
LEMMA UnlinkIsGood ==
    ASSUME NEW s, Good(s), NEW f \in s.tree, f # "fs.log",
           NEW t, t = Unlinked(s, f)
    PROVE  /\ Good(t) /\ t.tree = s.tree \ {f} /\ t.children_read = s.children_read
           /\ \A i \in Slots : t.dir[i] = s.dir[i] \/ t.dir[i] = Deleted
<1> DEFINE p == s.file[f].pos
           fat2 == FreeChain(s.fat, s.file[f].start)
           dir2 == [s.dir EXCEPT ![p] = Deleted]
           file2 == [s.file EXCEPT ![f] = NoFile]
<1>1. /\ Clear(s) \in Fs /\ SameParts(s, Clear(s)) /\ s \in Fs
      /\ s.fat \in FatType /\ s.dir \in DirType /\ s.file \in FileType
  <2>1. Clear(s) \in Fs /\ SameParts(s, Clear(s)) /\ s \in Fs
    BY ClearIsSteady DEF Steady, Good
  <2> QED BY <2>1 DEF Fs
<1>2. /\ f \in Names /\ p \in LiveIn(s.dir) /\ p \in Slots /\ s.dir[p].name = f
      /\ s.dir[p].start = s.file[f].start
  BY EntryOf
<1>3. fat2 \in FatType /\ dir2 \in DirType /\ file2 \in FileType
  <2>1. fat2 \in FatType
    BY <1>1 DEF FreeChain, FatType
  <2>2. Deleted \in EntryType /\ NoFile \in [start : Clusters \cup {0}, size : Nat, pos : Nat]
    BY DEF Deleted, Entry, EntryType, NoFile
  <2>3. dir2 \in DirType
    BY <1>1, <2>2 DEF DirType
  <2>4. file2 \in FileType
    BY <1>1, <2>2 DEF FileType
  <2> QED BY <2>1, <2>3, <2>4
<1>4. /\ t.fat = fat2 /\ t.data = s.data /\ t.dir = dir2 /\ t.file = file2 /\ t.tree = s.tree \ {f}
      /\ t.nentries = s.nentries /\ t.children_read = s.children_read /\ t \in Fs
      /\ t.spilled = s.spilled
  <2>1. ~(DirCap <= p)
    BY <1>2, ClusterNumbers DEF Slots
  <2> DEFINE s1 == [Clear(s) EXCEPT !.fat = fat2, !.file = file2, !.tree = s.tree \ {f}]
  <2>2. t = WriteDirEntry(s1, p, Deleted)
    BY <1>1 DEF SameParts, Unlinked
  <2> HIDE DEF fat2, file2
  <2>3. /\ s1 \in Fs /\ s1.fat = fat2 /\ s1.data = s.data /\ s1.dir = s.dir /\ s1.file = file2
        /\ s1.tree = s.tree \ {f} /\ s1.nentries = s.nentries /\ s1.children_read = s.children_read
        /\ s1.spilled = s.spilled
    BY <1>1, <1>3 DEF SameParts, Fs
  <2> HIDE DEF s1
  <2>4. t = [s1 EXCEPT !.dir = dir2]
    BY <2>1, <2>2, <2>3 DEF WriteDirEntry
  <2> HIDE DEF dir2
  <2> QED BY <1>3, <2>3, <2>4 DEF Fs
<1>5. /\ \A i \in Slots : dir2[i] = IF i = p THEN Deleted ELSE s.dir[i]
      /\ \A g \in Names : g # f => file2[g] = s.file[g]
      /\ LiveIn(dir2) = LiveIn(s.dir) \ {p}
  BY <1>1 DEF DirType, FileType, LiveIn
<1>6. Deleted # End
  BY DEF Deleted, End, Entry
<1>7. Stored(t)
  <2>0. CASE s.spilled
    BY <1>4, <2>0 DEF Stored
  <2> SUFFICES ASSUME ~s.spilled PROVE Stored(t)
    BY <2>0
  <2>1. PICK own, rank : Links(s.fat, s.dir, own, rank) /\ Placed(s.dir, s.data, own, rank)
    BY DEF Good, Stored
  <2>2. PICK fat0 \in FatType, dir0 \in DirType : fat0 = s.fat /\ dir0 = s.dir
    BY <1>1
  <2>2a. PICK i \in LiveIn(dir0) : i = p
    BY <1>2, <2>2
  <2>3. Links(fat0, dir0, own, rank) /\ Placed(dir0, s.data, own, rank)
    BY <2>1, <2>2
  <2>4. \E own2 : /\ Links(FreeChain(fat0, dir0[i].start), [dir0 EXCEPT ![i] = Deleted], own2, rank)
                  /\ Placed([dir0 EXCEPT ![i] = Deleted], s.data, own2, rank)
    BY <2>3, RemoveFile
  <2>5. fat2 = FreeChain(fat0, dir0[i].start) /\ dir2 = [dir0 EXCEPT ![i] = Deleted]
    BY <1>2, <2>2, <2>2a
  <2> HIDE DEF fat2, dir2
  <2> QED BY <1>4, <2>4, <2>5 DEF Stored
<1> HIDE DEF fat2, dir2, file2, p
<1>8. LiveIn(s.dir) \subseteq Slots
  BY DEF LiveIn
<1>9. Named(t)
  BY <1>4, <1>5, <1>8 DEF Good, Named
<1>10. Counted(t)
  <2>1. PICK z \in 0..DirCap : EndsAt(s, z)
    BY DEF Good, Counted
  <2>2. \A i \in Slots : dir2[i] = End <=> i >= z
    BY <1>2, <1>5, <1>6, <2>1 DEF EndsAt, LiveIn
  <2>3. z = DirCap => \E i \in LiveIn(dir2) : dir2[i].name = "fs.log"
    BY <1>2, <1>5, <1>8, <2>1 DEF EndsAt
  <2>4. EndsAt(t, z)
    BY <1>4, <2>1, <2>2, <2>3 DEF EndsAt
  <2> QED BY <2>4 DEF Counted
<1>11. InMemory(t)
  <2> SUFFICES ASSUME NEW g \in s.tree \ {f}
               PROVE  /\ file2[g].pos \in Slots /\ file2[g].start \in Clusters
                      /\ dir2[file2[g].pos] = Entry(g, file2[g].start, file2[g].size)
    BY <1>4 DEF InMemory
  <2>1. /\ g \in Names /\ s.file[g].pos \in Slots /\ s.file[g].start \in Clusters
        /\ s.dir[s.file[g].pos] = Entry(g, s.file[g].start, s.file[g].size) /\ s.dir[s.file[g].pos].name = g
    BY EntryOf
  <2>2. file2[g] = s.file[g] /\ s.file[g].pos # p
    BY <1>2, <1>5, <2>1
  <2> QED BY <1>5, <2>1, <2>2
<1>12. AllRead(t)
  <2>1. s.children_read => \A i \in LiveIn(s.dir) \ {p} : s.dir[i].name \in s.tree /\ s.dir[i].name # f
    BY <1>2 DEF Good, AllRead, Named
  <2>2. ~s.children_read => s.tree = {}
    BY DEF Good, AllRead
  <2> QED BY <1>4, <1>5, <1>8, <2>1, <2>2 DEF AllRead
<1> QED BY <1>4, <1>5, <1>7, <1>9, <1>10, <1>11, <1>12 DEF Good

-----------------------------------------------------------------------------
(* The invariant. *)

FatInv == /\ Good(fs) /\ open \subseteq fs.tree
          /\ fs.up /\ fs.children_read => "fs.log" \in fs.tree

\* What a step does to the entries.
EntriesKept == \A i \in Slots : fs.dir[i] \notin {End, Deleted} =>
                                   fs'.dir[i].name \in {fs.dir[i].name, "deleted"}

\* The first form is the stronger one.
LEMMA KeptIsKept ==
    ASSUME Kept(fs, fs')
    PROVE  EntriesKept
BY DEF Kept, EntriesKept

\* A step that leaves the tree.
LEMMA SteadyStep ==
    ASSUME FatInv, fs.up, Steady(fs, fs'), UNCHANGED open
    PROVE  FatInv' /\ EntriesKept
<1>1. EntriesKept
  BY KeptIsKept DEF Steady
<1> QED BY <1>1 DEF FatInv, Steady

\* readdir reads the children, and creates the log on the first time.
LEMMA ReaddirKeeps ==
    ASSUME FatInv, Readdir
    PROVE  FatInv' /\ EntriesKept
<1> DEFINE s1 == IF fs.children_read THEN Clear(fs) ELSE ReadChildren(Clear(fs))
<1>1. /\ Good(fs) /\ Good(Clear(fs)) /\ Kept(fs, Clear(fs)) /\ Clear(fs).tree = fs.tree
      /\ Clear(fs).children_read = fs.children_read /\ Clear(fs).up
  <2>1. Good(fs)
    BY DEF FatInv
  <2> QED BY <2>1, ClearIsSteady DEF Steady, Readdir
<1>2. Good(s1) /\ Kept(fs, s1) /\ s1.children_read /\ s1.up /\ fs.tree \subseteq s1.tree
  <2>1. CASE fs.children_read
    BY <1>1, <2>1
  <2>2. CASE ~fs.children_read
    <3> DEFINE t == ReadChildren(Clear(fs))
    <3>1. Good(t) /\ Kept(Clear(fs), t) /\ t.children_read /\ t.up = Clear(fs).up /\ Clear(fs).tree \subseteq t.tree
      BY <1>1, <2>2, ReadChildrenIsGood
    <3>2. s1 = t
      BY <2>2
    <3> HIDE DEF s1, t
    <3> QED BY <1>1, <3>1, <3>2, KeptOn
  <2> QED BY <2>1, <2>2
<1>3. fs' = LogInit(s1) /\ open' = open
  BY DEF Readdir
<1> HIDE DEF s1
<1>4. /\ Good(LogInit(s1)) /\ Kept(s1, LogInit(s1)) /\ s1.tree \subseteq LogInit(s1).tree
      /\ LogInit(s1).up => "fs.log" \in LogInit(s1).tree
  BY <1>1, <1>2, LogInitIsGood
<1>5. Kept(fs, fs')
  BY <1>2, <1>3, <1>4, KeptOn
<1>6. EntriesKept
  BY <1>5, KeptIsKept
<1> QED BY <1>2, <1>3, <1>4, <1>6 DEF FatInv

\* A new mount knows nothing in memory.
LEMMA RemountKeeps ==
    ASSUME FatInv, Remount
    PROVE  FatInv' /\ EntriesKept
<1> DEFINE t == Clear(fs)
<1>1. /\ t \in Fs /\ SameParts(fs, t) /\ Good(fs)
  <2>1. Good(fs)
    BY DEF FatInv
  <2> QED BY <2>1, ClearIsSteady DEF Steady, Good
<1>2. [f \in Names |-> NoFile] \in FileType
  BY DEF FileType, NoFile
<1>3. /\ fs' = [t EXCEPT !.up = TRUE, !.tree = {}, !.nentries = 0,
                         !.file = [f \in Names |-> NoFile], !.children_read = FALSE]
      /\ open' = {}
  BY DEF Remount
<1> HIDE DEF t
<1>4. /\ fs'.fat = fs.fat /\ fs'.data = fs.data /\ fs'.dir = fs.dir /\ fs'.tree = {}
      /\ fs'.children_read = FALSE /\ fs' \in Fs /\ fs'.spilled = fs.spilled
  <2>1. PICK u, new : u = fs' /\ new = [f \in Names |-> NoFile]
    OBVIOUS
  <2>2. u = [t EXCEPT !.up = TRUE, !.tree = {}, !.nentries = 0, !.file = new, !.children_read = FALSE]
    BY <1>3, <2>1
  <2>3. new \in FileType /\ 0 \in 0..DirCap
    BY <1>2, <2>1, ClusterNumbers
  <2>4. /\ u.fat = t.fat /\ u.data = t.data /\ u.dir = t.dir /\ u.tree = {}
        /\ u.children_read = FALSE /\ u \in Fs /\ u.spilled = t.spilled
    BY <1>1, <2>2, <2>3 DEF Fs
  <2> QED BY <1>1, <2>1, <2>4 DEF SameParts
<1>5. Stored(fs)' /\ Named(fs)'
  BY <1>1, <1>4 DEF Good, Stored, Named
<1>6. Counted(fs)'
  BY <1>1, <1>4 DEF Good, Counted, EndsAt
<1>7. InMemory(fs)' /\ AllRead(fs)'
  BY <1>4 DEF InMemory, AllRead
<1>8. EntriesKept
  BY <1>4 DEF EntriesKept
<1> QED BY <1>3, <1>4, <1>5, <1>6, <1>7, <1>8 DEF FatInv, Good

\* mknod adds a file to the tree, its entry to a free slot.
LEMMA CreateKeeps ==
    ASSUME FatInv, ListFirst, NEW f \in Files, Create(f)
    PROVE  FatInv' /\ EntriesKept
<1>1. /\ Good(fs) /\ fs.up /\ fs.children_read /\ f \in Names \ fs.tree /\ fs.nentries < DirCap
      /\ "fs.log" \in fs.tree /\ fs' = Mknod(fs, f) /\ open' = open /\ open \subseteq fs.tree
  BY DEF Create, FatInv, Names
<1>2. Good(Mknod(fs, f)) /\ Kept(fs, Mknod(fs, f)) /\ fs.tree \subseteq Mknod(fs, f).tree
  BY <1>1, MknodIsGood
<1>3. EntriesKept
  BY <1>1, <1>2, KeptIsKept
<1> QED BY <1>1, <1>2, <1>3 DEF FatInv

\* unlink takes one away.
LEMMA UnlinkKeeps ==
    ASSUME FatInv, NEW f \in Files, Unlink(f)
    PROVE  FatInv' /\ EntriesKept
<1>1. Good(fs) /\ fs.up /\ f \in fs.tree /\ f \notin open /\ open \subseteq fs.tree /\ f # "fs.log" /\ open' = open
  BY FatAssumption DEF Unlink, FatInv, FatAssumption
<1>2. fs' = Unlinked(fs, f)
  BY DEF Unlink, Unlinked
<1>3. /\ Good(fs') /\ fs'.tree = fs.tree \ {f} /\ fs'.children_read = fs.children_read
      /\ \A i \in Slots : fs'.dir[i] = fs.dir[i] \/ fs'.dir[i] = Deleted
  BY <1>1, <1>2, UnlinkIsGood
<1>4. Deleted.name = "deleted"
  BY DEF Deleted, Entry
<1> QED BY <1>1, <1>3, <1>4 DEF FatInv, EntriesKept

\* write, with its line in the log.
LEMMA WriteKeeps ==
    ASSUME FatInv, NEW f \in Files, NEW off \in Nat, NEW n \in Lengths, Write(f, off, n)
    PROVE  FatInv' /\ EntriesKept
<1>1. /\ Good(fs) /\ fs.up /\ f \in fs.tree /\ open' = open /\ n \in Nat
  BY FatAssumption DEF Write, FatInv, FatAssumption
<1>2. PICK s1 : s1 = LogActivity(fs)
  OBVIOUS
<1>3. fs' = IF s1.up THEN Pwrite(s1, f, off, n) ELSE s1
  BY <1>2 DEF Write
<1>4. Steady(fs, s1)
  BY <1>1, <1>2, LogActivityIsSteady
<1>5. CASE s1.up
  <2>1. Good(s1) /\ f \in s1.tree
    BY <1>1, <1>4 DEF Steady
  <2>2. Steady(s1, Pwrite(s1, f, off, n))
    BY <1>1, <1>5, <2>1, PwriteIsSteady
  <2>3. Steady(fs, fs')
    BY <1>3, <1>4, <1>5, <2>2, SteadyOn
  <2> QED BY <1>1, <2>3, SteadyStep
<1>6. CASE ~s1.up
  <2>1. Steady(fs, fs')
    BY <1>3, <1>4, <1>6
  <2> QED BY <1>1, <2>1, SteadyStep
<1> QED BY <1>5, <1>6

\* read changes no file but the log.
LEMMA ReadKeeps ==
    ASSUME FatInv, NEW f \in Files, NEW off \in Nat, Read(f, off)
    PROVE  FatInv' /\ EntriesKept
<1>1. Good(fs) /\ fs.up /\ f \in fs.tree /\ open' = open
  BY DEF Read, FatInv
<1>2. PICK s0, s1 : s0 = Clear(fs) /\ s1 = Pread(s0, f, off)
  OBVIOUS
<1>3. fs' = IF s1.errno # "none" THEN s1 ELSE LogActivity(s1)
  BY <1>2 DEF Read
<1>4. Steady(fs, s0) /\ s0.up /\ Good(s0) /\ f \in s0.tree
  BY <1>1, <1>2, ClearIsSteady DEF Steady
<1>5. Steady(s0, s1) /\ s1.up /\ Good(s1)
  BY <1>2, <1>4, PreadIsSteady DEF Steady
<1>6. Steady(fs, s1)
  BY <1>4, <1>5, SteadyOn
<1>7. Steady(fs, LogActivity(s1))
  <2>1. Steady(s1, LogActivity(s1))
    BY <1>1, <1>5, LogActivityIsSteady
  <2> QED BY <1>6, <2>1, SteadyOn
<1>8. Steady(fs, fs')
  BY <1>3, <1>6, <1>7
<1> QED BY <1>1, <1>8, SteadyStep

\* truncate cuts the chain and writes the entry.
LEMMA TruncateKeeps ==
    ASSUME FatInv, NEW f \in Files, NEW off \in Nat, Truncate(f, off)
    PROVE  FatInv' /\ EntriesKept
<1>1. Good(fs) /\ fs.up /\ f \in fs.tree /\ open' = open
  BY DEF Truncate, FatInv
<1>2. PICK s0 : s0 = Clear(fs)
  OBVIOUS
<1>3. Steady(fs, s0) /\ Good(s0) /\ f \in s0.tree
  BY <1>1, <1>2, ClearIsSteady DEF Steady
<1>4. fs' = Trunc(s0, f, off)
  BY <1>2 DEF Truncate
<1>5. Steady(s0, fs')
  BY <1>3, <1>4, TruncIsSteady
<1>6. Steady(fs, fs')
  BY <1>3, <1>5, SteadyOn
<1> QED BY <1>1, <1>6, SteadyStep

\* utime writes the entry as it is.
LEMMA UtimeKeeps ==
    ASSUME FatInv, NEW f \in Files, Utime(f)
    PROVE  FatInv' /\ EntriesKept
<1>1. Good(fs) /\ fs.up /\ f \in fs.tree /\ open' = open
  BY DEF Utime, FatInv
<1>2. PICK s0 : s0 = Clear(fs)
  OBVIOUS
<1>3. Steady(fs, s0) /\ Good(s0) /\ f \in s0.tree
  BY <1>1, <1>2, ClearIsSteady DEF Steady
<1>4. fs' = WriteEntry(s0, f)
  BY <1>2 DEF Utime
<1>5. Steady(s0, fs')
  BY <1>3, <1>4, EntryAgain DEF Steady, SameParts
<1>6. Steady(fs, fs')
  BY <1>3, <1>5, SteadyOn
<1> QED BY <1>1, <1>6, SteadyStep

\* getattr of a name that is not there leaves an error number.
LEMMA LookupKeeps ==
    ASSUME FatInv, NEW f \in Files, Lookup(f)
    PROVE  FatInv' /\ EntriesKept
<1>1. Good(fs) /\ fs.up /\ open' = open
  BY DEF Lookup, FatInv
<1>2. PICK x \in {"none", "ENOENT", "ENOSPC", "EOVERFLOW"} : x = "ENOENT"
  OBVIOUS
<1>3. fs' = [fs EXCEPT !.errno = x]
  BY <1>2 DEF Lookup
<1>4. Steady(fs, fs')
  BY <1>1, <1>3, ErrnoIsSteady
<1> QED BY <1>1, <1>4, SteadyStep

\* Every step keeps the invariant and the entries.
LEMMA FatNext ==
    ASSUME FatInv, ListFirst, [Next]_vars
    PROVE  FatInv' /\ EntriesKept
<1>1. CASE Readdir
  BY <1>1, ReaddirKeeps
<1>2. CASE Remount
  BY <1>2, RemountKeeps
<1>3. ASSUME NEW f \in Files,
             Lookup(f) \/ Create(f) \/ Open(f) \/ Release(f) \/ Utime(f) \/ Unlink(f)
      PROVE  FatInv' /\ EntriesKept
  <2>1. CASE Lookup(f)
    BY <2>1, LookupKeeps
  <2>2. CASE Create(f)
    BY <2>2, CreateKeeps
  <2>3. CASE Open(f)
    BY <2>3 DEF Open, FatInv, EntriesKept
  <2>4. CASE Release(f)
    BY <2>4 DEF Release, FatInv, EntriesKept
  <2>5. CASE Utime(f)
    BY <2>5, UtimeKeeps
  <2>6. CASE Unlink(f)
    BY <2>6, UnlinkKeeps
  <2> QED BY <1>3, <2>1, <2>2, <2>3, <2>4, <2>5, <2>6
<1>4. ASSUME NEW f \in Files, NEW off \in 0..MaxSize,
             Read(f, off) \/ Truncate(f, off) \/ \E n \in Lengths : Write(f, off, n)
      PROVE  FatInv' /\ EntriesKept
  <2>0. off \in Nat
    BY FatAssumption DEF FatAssumption
  <2>1. CASE Read(f, off)
    BY <2>0, <2>1, ReadKeeps
  <2>2. CASE Truncate(f, off)
    BY <2>0, <2>2, TruncateKeeps
  <2>3. CASE \E n \in Lengths : Write(f, off, n)
    BY <2>0, <2>3, WriteKeeps
  <2> QED BY <1>4, <2>1, <2>2, <2>3
<1>5. CASE UNCHANGED vars
  <2>1. fs' = fs /\ open' = open
    BY <1>5 DEF vars
  <2> QED BY <2>1 DEF FatInv, EntriesKept
<1> QED BY <1>1, <1>2, <1>3, <1>4, <1>5 DEF Next

\* The image that is there at the start.
LEMMA FatInit ==
    ASSUME Init
    PROVE  FatInv
<1> DEFINE K == Cardinality(OnImage)
           D == 0..(K - 1)
<1>1. PICK name \in [D -> OnImage] :
          /\ \A f \in OnImage : \E i \in DOMAIN name : name[i] = f
          /\ fs = [fat |-> [c \in Clusters |->
                        IF c <= RootCluster + K THEN EOC ELSE FREE],
                   data |-> [c \in Clusters |-> [u \in Units |->
                        IF u = 0 /\ c - RootCluster - 1 \in DOMAIN name
                        THEN <<name[c - RootCluster - 1], 0>> ELSE Blank]],
                   dir |-> [i \in Slots |-> IF i \in DOMAIN name
                        THEN Entry(name[i], RootCluster + 1 + i, 1) ELSE End],
                   file |-> [f \in Names |-> NoFile],
                   tree |-> {},
                   nentries |-> 0,
                   children_read |-> FALSE,
                   errno |-> "none",
                   up |-> TRUE,
                   spilled |-> FALSE]
  BY DEF Init
<1>2. open = {}
  BY DEF Init
<1>3. K \in Nat /\ K < DirCap /\ K < N /\ N \in Nat /\ DirCap \in Nat /\ CS \in Nat /\ CS >= 1
  BY ClusterNumbers, FatAssumption DEF FatAssumption
<1>4. OnImage \subseteq Names /\ IsFiniteSet(OnImage)
  BY FatAssumption DEF FatAssumption, Names
<1> HIDE DEF K
<1>5. /\ \A i \in D : i \in Nat /\ i < K /\ i \in Slots /\ RootCluster + 1 + i \in Clusters
      /\ DOMAIN name = D /\ \A i \in D : name[i] \in OnImage /\ name[i] \in Names
      /\ D \subseteq Slots
  BY <1>3, <1>4 DEF Slots, Clusters, RootCluster
<1>6. \A i, j \in D : name[i] = name[j] => i = j
  <2>1. IsFiniteSet(D) /\ Cardinality(D) = K
    <3>1. CASE K = 0
      <4>1. D = {}
        BY <3>1
      <4> HIDE DEF D
      <4> QED BY <3>1, <4>1, FS_EmptySet
    <3>2. CASE K # 0
      <4>1. 0 \in Int /\ K - 1 \in Int /\ ~(0 > K - 1) /\ K - 1 - 0 + 1 = K
        BY <1>3, <3>2
      <4> QED BY <4>1, FS_Interval
    <3> QED BY <3>1, <3>2
  <2> HIDE DEF D
  <2>2. name \in Surjection(D, OnImage)
    BY <1>1, <1>5 DEF Surjection
  <2>3. Cardinality(D) = Cardinality(OnImage)
    BY <2>1 DEF K
  <2>4. name \in Injection(D, OnImage)
    BY <2>1, <2>2, <2>3, FS_SurjSameCardinalityImpliesInj
  <2> QED BY <2>2, <2>4 DEF Injection, IsInjective, Surjection
<1> DEFINE fat == [c \in Clusters |-> IF c <= RootCluster + K THEN EOC ELSE FREE]
           data == [c \in Clusters |-> [u \in Units |->
                        IF u = 0 /\ c - RootCluster - 1 \in DOMAIN name
                        THEN <<name[c - RootCluster - 1], 0>> ELSE Blank]]
           dir == [i \in Slots |-> IF i \in DOMAIN name
                        THEN Entry(name[i], RootCluster + 1 + i, 1) ELSE End]
           file == [f \in Names |-> NoFile]
           own == [c \in Clusters |-> IF c # RootCluster /\ c <= RootCluster + K THEN c - RootCluster - 1 ELSE -1]
           rank == [c \in Clusters |-> 0]
<1>7. /\ fs.fat = fat /\ fs.data = data /\ fs.dir = dir /\ fs.file = file /\ fs.tree = {}
      /\ fs.nentries = 0 /\ fs.children_read = FALSE
      /\ fs = [fat |-> fat, data |-> data, dir |-> dir, file |-> file, tree |-> {}, nentries |-> 0,
               children_read |-> FALSE, errno |-> "none", spilled |-> FALSE, up |-> TRUE]
  BY <1>1
<1> HIDE DEF D
<1>8. \A c \in Clusters : /\ c \in Nat /\ c >= 2 /\ c <= N + 1
                          /\ fat[c] = IF c <= RootCluster + K THEN EOC ELSE FREE
                          /\ own[c] = IF c # RootCluster /\ c <= RootCluster + K
                                      THEN c - RootCluster - 1 ELSE -1
                          /\ rank[c] = 0
                          /\ c - RootCluster - 1 \in D <=> (c # RootCluster /\ c <= RootCluster + K)
  BY <1>3 DEF Clusters, RootCluster, D
<1>9. \A i \in Slots : dir[i] = IF i \in D THEN Entry(name[i], RootCluster + 1 + i, 1) ELSE End
  BY <1>5
<1>10. \A i \in D : /\ Entry(name[i], RootCluster + 1 + i, 1) \notin {End, Deleted}
                    /\ Entry(name[i], RootCluster + 1 + i, 1) \in EntryType
                    /\ Entry(name[i], RootCluster + 1 + i, 1).name = name[i]
                    /\ Entry(name[i], RootCluster + 1 + i, 1).start = RootCluster + 1 + i
                    /\ Entry(name[i], RootCluster + 1 + i, 1).size = 1
  BY <1>5, ClusterNumbers DEF Entry, End, Deleted, EntryType, RootCluster
<1>11. LiveIn(dir) = D
  BY <1>5, <1>9, <1>10 DEF LiveIn
<1>12. /\ fat \in FatType /\ dir \in DirType /\ file \in FileType /\ data \in DataType
  <2>1. fat \in FatType
    BY DEF FatType
  <2>2. End \in EntryType
    BY DEF End, Entry, EntryType
  <2>3. dir \in DirType
    <3> HIDE DEF dir
    <3>1. dir = [i \in Slots |-> dir[i]]
      BY DEF dir
    <3>2. \A i \in Slots : dir[i] \in EntryType
      BY <1>9, <1>10, <2>2
    <3> QED BY <3>1, <3>2 DEF DirType
  <2>4. file \in FileType
    BY DEF FileType, NoFile
  <2>5. data \in DataType
    <3> DEFINE X == (Names \cup {""}) \X Nat
    <3>1. Blank \in X /\ \A i \in D : <<name[i], 0>> \in X
      BY <1>5 DEF Blank
    <3> HIDE DEF X
    <3>2. data \in [Clusters -> [Units -> X]]
      BY <1>5, <3>1
    <3> QED BY <3>2 DEF DataType, X
  <2> QED BY <2>1, <2>3, <2>4, <2>5
<1> HIDE DEF fat, dir, file, own, rank
<1>13. fs \in Fs
  <2> HIDE DEF data
  <2>1. 0 \in 0..DirCap
    BY <1>3
  <2> QED BY <1>7, <1>12, <2>1 DEF Fs
<1>14. Links(fat, dir, own, rank)
  <2>1. EOC # FREE /\ EOC \notin Clusters /\ FREE \notin Clusters /\ RootCluster \in Clusters /\ -1 \notin Slots
    BY ClusterNumbers DEF EOC, FREE
  <2>2. \A c \in Clusters : c - RootCluster - 1 \in D => c - RootCluster - 1 \in Slots
    BY <1>5
  <2>3. Labels(own, rank)
    <3>1. own = [c \in Clusters |-> own[c]] /\ rank = [c \in Clusters |-> rank[c]]
      BY DEF own, rank
    <3>2. \A c \in Clusters : own[c] \in Slots \cup {-1} /\ rank[c] \in Nat
      BY <1>8, <2>2
    <3> QED BY <3>1, <3>2 DEF Labels
  <2>4. RootKept(fat, own)
    <3>1. RootCluster <= RootCluster + K
      BY <1>3 DEF RootCluster
    <3> QED BY <1>8, <2>1, <3>1 DEF RootKept
  <2>5. UsedOwned(fat, own)
    BY <1>8, <2>1, <2>2 DEF UsedOwned
  <2>6. OwnersLive(dir, own)
    BY <1>8, <1>11 DEF OwnersLive
  <2>7. NextOwned(fat, own, rank)
    BY <1>8, <2>1 DEF NextOwned
  <2>8. Reached(fat, own, rank)
    BY <1>8 DEF Reached
  <2>9. PlaceUnique(own, rank)
    <3> SUFFICES ASSUME NEW c \in Clusters, NEW d \in Clusters, own[c] = own[d], own[c] # -1
                 PROVE  c = d
      BY DEF PlaceUnique
    <3>1. own[c] = c - RootCluster - 1 /\ own[d] = d - RootCluster - 1
      BY <1>8
    <3>2. c \in Nat /\ d \in Nat /\ c - RootCluster - 1 = d - RootCluster - 1
      BY <1>8, <3>1
    <3> QED BY <3>2 DEF RootCluster
  <2>10. Starts(dir, own, rank)
    <3> SUFFICES ASSUME NEW i \in D
                 PROVE  dir[i].start \in Clusters /\ own[dir[i].start] = i /\ rank[dir[i].start] = 0
      BY <1>11 DEF Starts
    <3>1. PICK c \in Clusters : c = RootCluster + 1 + i
      BY <1>5
    <3>2. dir[i].start = c
      BY <1>5, <1>9, <1>10, <3>1
    <3>3. c # RootCluster /\ c <= RootCluster + K /\ c - RootCluster - 1 = i
      BY <1>3, <1>5, <3>1 DEF RootCluster
    <3> QED BY <1>8, <3>2, <3>3
  <2> QED BY <2>3, <2>4, <2>5, <2>6, <2>7, <2>8, <2>9, <2>10 DEF Links
<1>15. Placed(dir, data, own, rank)
  <2> SUFFICES ASSUME NEW i \in D, NEW k \in 0..(dir[i].size - 1)
               PROVE  \E c \in Clusters : /\ own[c] = i /\ rank[c] = k \div CS
                                          /\ data[c][k % CS] = <<dir[i].name, k>>
    BY <1>11 DEF Placed
  <2>1. PICK c \in Clusters : c = RootCluster + 1 + i
    BY <1>5
  <2>2. c # RootCluster /\ c <= RootCluster + K /\ c - RootCluster - 1 = i
    BY <1>3, <1>5, <2>1 DEF RootCluster
  <2>3. dir[i].name = name[i] /\ dir[i].size = 1
    BY <1>5, <1>9, <1>10
  <2>4. k = 0
    BY <2>3
  <2>5. k \div CS = 0 /\ k % CS = 0
    BY <1>3, <2>4
  <2>6. own[c] = i /\ rank[c] = 0
    BY <1>8, <2>2
  <2>7. 0 \in Units
    BY <1>3 DEF Units
  <2>8. data[c][0] = <<name[i], 0>>
    BY <1>5, <2>2, <2>7
  <2> QED BY <2>3, <2>4, <2>5, <2>6, <2>8
<1> HIDE DEF data
<1>16. Stored(fs)
  BY <1>7, <1>14, <1>15 DEF Stored
<1>17. Named(fs)
  BY <1>5, <1>6, <1>7, <1>9, <1>10, <1>11 DEF Named
<1>18. Counted(fs)
  <2>1. \A i \in Slots : i \in D <=> ~(i >= K)
    BY <1>3 DEF D, Slots
  <2>2. \A i \in Slots : dir[i] = End <=> i >= K
    BY <1>9, <1>10, <2>1
  <2>3. EndsAt(fs, K) /\ K \in 0..DirCap
    BY <1>3, <1>7, <2>2 DEF EndsAt
  <2> QED BY <2>3 DEF Counted
<1>19. InMemory(fs) /\ AllRead(fs)
  BY <1>7 DEF InMemory, AllRead
<1> QED BY <1>2, <1>7, <1>13, <1>16, <1>17, <1>18, <1>19 DEF FatInv, Good

-----------------------------------------------------------------------------
(* What the four properties of FatFs say is in the invariant. *)

\* Seek comes to the cluster with the place.
LEMMA InPlace ==
    ASSUME Good(fs), ~fs.spilled
    PROVE  DataInPlace
<1> SUFFICES ASSUME NEW i \in LiveIn(fs.dir), NEW k \in 0..(fs.dir[i].size - 1)
             PROVE  LET c == Seek(fs.fat, fs.dir[i].start, k) IN
                    c # EOC /\ fs.data[c][k % CS] = <<fs.dir[i].name, k>>
  BY DEF DataInPlace, Live, LiveIn
<1>1. PICK own, rank : Links(fs.fat, fs.dir, own, rank) /\ Placed(fs.dir, fs.data, own, rank)
  BY DEF Good, Stored
<1>2. PICK start \in Clusters : start = fs.dir[i].start /\ own[start] = i /\ rank[start] = 0 /\ own[start] # -1
  BY <1>1, ClusterNumbers DEF Links, Starts, LiveIn
<1>3. k \in Nat /\ k \div CS \in Nat
  <2>1. CS \in Nat \ {0} /\ k \in Nat
    BY ClusterNumbers
  <2> QED BY <2>1
<1>4. PICK q \in Nat : q = k \div CS
  BY <1>3
<1>5. PICK c \in Clusters : own[c] = i /\ rank[c] = q /\ fs.data[c][k % CS] = <<fs.dir[i].name, k>>
  BY <1>1, <1>4 DEF Placed
<1>6. own[c] = own[start] /\ rank[c] = rank[start] + q
  BY <1>2, <1>4, <1>5
<1>7. Walk(fs.fat, start, q) = c
  BY <1>1, <1>2, <1>4, <1>6, WalkAt
<1>8. Seek(fs.fat, fs.dir[i].start, k) = c
  BY <1>2, <1>4, <1>7 DEF Seek
<1> QED BY <1>5, <1>8, ClusterNumbers

\* Each cluster is on the chain of its owner, and on no other.
LEMMA Partition ==
    ASSUME Good(fs), ~fs.spilled
    PROVE  ChainsPartition
<1>1. PICK own, rank : Links(fs.fat, fs.dir, own, rank)
  BY DEF Good, Stored
<1>2. Live = LiveIn(fs.dir)
  BY DEF Live, LiveIn
<1>3. ASSUME NEW i \in Live
      PROVE  Chain(fs.fat, fs.dir[i].start) = {d \in Clusters : own[d] = i}
  <2>0. i \in LiveIn(fs.dir) /\ i # -1
    BY <1>2, ClusterNumbers DEF Live
  <2>1. PICK start \in Clusters : start = fs.dir[i].start /\ own[start] = i /\ rank[start] = 0 /\ own[start] # -1
    BY <1>1, <2>0 DEF Links, Starts
  <2>2. Chain(fs.fat, start) = {d \in Clusters : own[d] = own[start] /\ rank[d] >= rank[start]}
    BY <1>1, <2>1, ChainIs
  <2>3. \A d \in Clusters : rank[d] \in Nat
    BY <1>1 DEF Links, Labels
  <2> QED BY <2>1, <2>2, <2>3
<1>4. \A i, j \in Live : i # j => Chain(fs.fat, fs.dir[i].start) \cap Chain(fs.fat, fs.dir[j].start) = {}
  BY <1>3
<1>5. \A c \in Clusters : (fs.fat[c] # FREE /\ c # RootCluster) <=> \E i \in Live : own[c] = i
  <2>1. \A i \in Live : i # -1
    BY ClusterNumbers DEF Live
  <2> QED BY <1>1, <1>2, <2>1 DEF Links, RootKept, UsedOwned, OwnersLive
<1>6. {c \in Clusters : fs.fat[c] # FREE} \ {RootCluster} = UNION {Chain(fs.fat, fs.dir[i].start) : i \in Live}
  <2>1. UNION {Chain(fs.fat, fs.dir[i].start) : i \in Live} = {c \in Clusters : \E i \in Live : own[c] = i}
    BY <1>3
  <2> QED BY <1>5, <2>1
<1> QED BY <1>4, <1>6 DEF ChainsPartition

\* The entry of a file in memory is the one on the image.
LEMMA Matches ==
    ASSUME Good(fs)
    PROVE  MemoryMatchesImage
BY DEF Good, InMemory, MemoryMatchesImage

-----------------------------------------------------------------------------
\* The chains hold the files until a write runs past the end of its chain, and the memory
\* and the image stay in step, through every sequence of calls, writes of any length,
\* mounts and deaths of the daemon, when the root is listed before files are created.
THEOREM FatInvariant ==
    ASSUME ListFirst
    PROVE  Spec => []FatInv
<1>1. Init => FatInv
  BY FatInit
<1>2. FatInv /\ [Next]_vars => FatInv'
  BY FatNext
<1> QED BY <1>1, <1>2, PTL DEF Spec

\* A read finds, at every position of every file, what was last written there:
\* fat_table_seek_cluster comes to the cluster that fat_file_pwrite wrote to.  Only the
\* branch of fat_file.c:577 breaks it, and fs.spilled is set there and nowhere else.
THEOREM FilesReadBack ==
    ASSUME ListFirst
    PROVE  Spec => []DataKept
<1>1. FatInv => DataKept
  BY InPlace DEF FatInv, DataKept
<1> QED BY <1>1, FatInvariant, PTL

\* The calls to fat_table_set_next_cluster never share a cluster between two files
\* and never lose one, but for the cluster that the branch of fat_file.c:577 leaves free.
THEOREM ClustersOwnedOnce ==
    ASSUME ListFirst
    PROVE  Spec => []ChainsKept
<1>1. FatInv => ChainsKept
  BY Partition DEF FatInv, ChainsKept
<1> QED BY <1>1, FatInvariant, PTL

\* write_dir_entry is called wherever a file in memory changes: the memory and the image
\* agree, after a write past the end of a chain too.
THEOREM EntriesMatch ==
    ASSUME ListFirst
    PROVE  Spec => []MemoryMatchesImage
<1>1. FatInv => MemoryMatchesImage
  BY Matches DEF FatInv
<1> QED BY <1>1, FatInvariant, PTL

\* No call writes its entry over that of another file, whatever the chains are.
THEOREM EntriesOfOthersKept ==
    ASSUME ListFirst
    PROVE  Spec => OthersKept
<1>1. FatInv /\ [Next]_vars => [\A i \in Slots :
          fs.dir[i] \notin {End, Deleted} =>
             fs'.dir[i].name \in {fs.dir[i].name, "deleted"}]_vars
  BY FatNext DEF EntriesKept
<1> QED BY <1>1, FatInvariant, PTL DEF Spec, OthersKept
=============================================================================
