---------------------------- MODULE LinksProofs -----------------------------
(***************************************************************************)
(* Proofs about Links: the lists, the graph and the menu of betakit in one *)
(* program, for any number of cells, nodes, items and calls.               *)
(*                                                                         *)
(* What list_find and list_del do is a matter of walks alone (Path, Reach  *)
(* and StepsTo below).  That the three components leave each other's lists *)
(* alone is not: the invariant IInv says that every pointer stays with its *)
(* owner (Owned), that the edges of the graph are as node_connect leaves   *)
(* them (Fair), and that the items of the menu are in a row (MenuRow).     *)
(* For it what a new cell holds must not happen to be a pointer to another *)
(* (NoStalePointers): StrayProofs does without, and has the theorems.      *)
(***************************************************************************)
EXTENDS Links, FiniteSetTheorems, WellFoundedInduction, TLAPS

-----------------------------------------------------------------------------
(* Walks, over any cells in use (lv) with any pointers (nx).               *)

Far == Cardinality(Cells)
Onward(nx, lv, c) == IF c \in lv THEN nx[c] ELSE c

Path(nx, lv, head) ==
  LET w[n \in 0 .. Far] == IF n = 0 THEN head ELSE Onward(nx, lv, w[n - 1]) IN w

Reach(nx, lv, head) == Range(Path(nx, lv, head)) \cap lv

LEMMA FarType == Far \in Nat
BY ListAssumption, FS_CardinalityType DEF Far

LEMMA WalkIsPath ==
  ASSUME NEW head
  PROVE  Walk(head) = Path(next, live, head) /\ Chain(head) = Reach(next, live, head)
<1>1. Walk(head) = Path(next, live, head)
  BY DEF Walk, Path, Onward, Far
<1> QED  BY <1>1 DEF Chain, Reach

LEMMA LeastNumber ==
  ASSUME NEW S, S # {}, S \subseteq Nat
  PROVE  \E k \in S : \A j \in S : k <= j
<1>1. PICK k \in S : \A j \in S : ~(<<j, k>> \in OpToRel(<, Nat))
  BY NatLessThanWellFounded, WFMin
<1>2. ASSUME NEW j \in S PROVE k <= j
  <2>1. j \in Nat /\ k \in Nat
    OBVIOUS
  <2>2. ~(j < k)
    BY <1>1, <2>1 DEF OpToRel
  <2> QED  BY <2>1, <2>2
<1> QED  BY <1>2

(* A walk that far exists. *)
Starts(nx, lv, head, n, f) ==
  /\ DOMAIN f = 0 .. n /\ f[0] = head
  /\ \A i \in 1 .. n : f[i] = Onward(nx, lv, f[i - 1])

LEMMA StartsExists ==
  ASSUME NEW nx, NEW lv, NEW head, NEW n \in Nat
  PROVE  \E f : Starts(nx, lv, head, n, f)
<1> DEFINE Bad == {m \in Nat : ~ \E f : Starts(nx, lv, head, m, f)}
<1>1. SUFFICES Bad = {}
  OBVIOUS
<1>2. SUFFICES ASSUME Bad # {} PROVE FALSE
  OBVIOUS
<1>3. PICK m \in Bad : \A k \in Bad : m <= k
  <2>1. Bad \subseteq Nat
    OBVIOUS
  <2> HIDE DEF Bad
  <2> QED  BY <1>2, <2>1, LeastNumber
<1>4. m \in Nat /\ ~ \E f : Starts(nx, lv, head, m, f)
  OBVIOUS
<1>5. CASE m = 0
  <2> DEFINE f == [i \in 0 .. 0 |-> head]
  <2>1. Starts(nx, lv, head, 0, f)
    BY DEF Starts
  <2> QED  BY <1>4, <1>5, <2>1
<1>6. CASE m # 0
  <2>1. m - 1 \in Nat /\ m - 1 \notin Bad
    BY <1>3, <1>4, <1>6
  <2>2. PICK f : Starts(nx, lv, head, m - 1, f)
    BY <2>1
  <2> DEFINE g == [i \in 0 .. m |-> IF i = m THEN Onward(nx, lv, f[m - 1]) ELSE f[i]]
  <2>3. Starts(nx, lv, head, m, g)
    <3>1. g[0] = head /\ DOMAIN g = 0 .. m
      BY <1>4, <1>6, <2>2 DEF Starts
    <3>2. ASSUME NEW i \in 1 .. m PROVE g[i] = Onward(nx, lv, g[i - 1])
      <4>1. i - 1 \in 0 .. m /\ i \in 0 .. m /\ i - 1 # m
        BY <1>4
      <4>2. g[i - 1] = f[i - 1]
        BY <4>1
      <4>3. CASE i = m
        BY <4>1, <4>2, <4>3
      <4>4. CASE i # m
        <5>1. i \in 1 .. m - 1
          BY <1>4, <4>4
        <5>2. f[i] = Onward(nx, lv, f[i - 1])
          BY <2>2, <5>1 DEF Starts
        <5> QED  BY <4>1, <4>2, <4>4, <5>2
      <4> QED  BY <4>3, <4>4
    <3> HIDE DEF g
    <3> QED  BY <3>1, <3>2 DEF Starts
  <2> QED  BY <1>4, <2>3
<1> QED  BY <1>5, <1>6

LEMMA PathStarts ==
  ASSUME NEW nx, NEW lv, NEW head
  PROVE  Starts(nx, lv, head, Far, Path(nx, lv, head))
<1> DEFINE Next_(w) == [n \in 0 .. Far |-> IF n = 0 THEN head ELSE Onward(nx, lv, w[n - 1])]
<1>1. PICK f : Starts(nx, lv, head, Far, f)
  BY FarType, StartsExists
<1> DEFINE g == [n \in 0 .. Far |-> f[n]]
<1>2. g = Next_(g)
  <2>1. ASSUME NEW n \in 0 .. Far
        PROVE g[n] = IF n = 0 THEN head ELSE Onward(nx, lv, g[n - 1])
    <3>1. n # 0 => n - 1 \in 0 .. Far /\ n \in 1 .. Far
      BY FarType
    <3> QED  BY <1>1, <3>1 DEF Starts
  <2> HIDE DEF g
  <2>2. g = [n \in 0 .. Far |-> g[n]]
    BY DEF g
  <2> QED  BY <2>1, <2>2
<1>3. Path(nx, lv, head) = Next_(Path(nx, lv, head))
  <2>1. Path(nx, lv, head) = CHOOSE w : w = Next_(w)
    BY DEF Path
  <2> HIDE DEF Next_, g
  <2> QED  BY <1>2, <2>1
<1>4. ASSUME NEW i \in 1 .. Far
      PROVE Path(nx, lv, head)[i] = Onward(nx, lv, Path(nx, lv, head)[i - 1])
  BY <1>3, FarType
<1>5. Path(nx, lv, head)[0] = head /\ DOMAIN Path(nx, lv, head) = 0 .. Far
  BY <1>3, FarType
<1> QED  BY <1>4, <1>5 DEF Starts

LEMMA PathStep ==
  ASSUME NEW nx, NEW lv, NEW head
  PROVE  /\ DOMAIN Path(nx, lv, head) = 0 .. Far
         /\ Path(nx, lv, head)[0] = head
         /\ \A n \in 0 .. Far - 1 :
              Path(nx, lv, head)[n + 1] = Onward(nx, lv, Path(nx, lv, head)[n])
<1>1. Starts(nx, lv, head, Far, Path(nx, lv, head))
  BY PathStarts
<1>2. ASSUME NEW n \in 0 .. Far - 1
      PROVE  Path(nx, lv, head)[n + 1] = Onward(nx, lv, Path(nx, lv, head)[n])
  <2>1. n + 1 \in 1 .. Far /\ (n + 1) - 1 = n
    BY FarType
  <2> QED  BY <1>1, <2>1 DEF Starts
<1> QED  BY <1>1, <1>2 DEF Starts

(* A walk stays where it cannot go on; until then all cells are in use.    *)
LEMMA PathStays ==
  ASSUME NEW nx, NEW lv, NEW head, NEW i \in 0 .. Far, Path(nx, lv, head)[i] \notin lv,
         NEW j \in i .. Far
  PROVE  Path(nx, lv, head)[j] = Path(nx, lv, head)[i]
<1> DEFINE w == Path(nx, lv, head)
           Bad == {k \in i .. Far : w[k] # w[i]}
<1>1. SUFFICES Bad = {}
  OBVIOUS
<1>2. SUFFICES ASSUME Bad # {} PROVE FALSE
  OBVIOUS
<1>3. PICK k \in Bad : \A l \in Bad : k <= l
  <2>1. Bad \subseteq Nat
    BY FarType
  <2> HIDE DEF Bad
  <2> QED  BY <1>2, <2>1, LeastNumber
<1>4. k \in i .. Far /\ w[k] # w[i]
  OBVIOUS
<1>5. k - 1 \in i .. Far /\ k - 1 \in 0 .. Far - 1 /\ k = (k - 1) + 1 /\ k - 1 < k
  BY <1>4, FarType
<1>6. w[k - 1] = w[i]
  BY <1>3, <1>5
<1>7. w[(k - 1) + 1] = Onward(nx, lv, w[k - 1])
  BY <1>5, PathStep
<1> HIDE DEF w, Bad
<1>8. w[i] \notin lv
  BY DEF w
<1> QED  BY <1>4, <1>5, <1>6, <1>7, <1>8 DEF Onward

LEMMA PathLive ==
  ASSUME NEW nx, NEW lv, NEW head, NEW j \in 0 .. Far, Path(nx, lv, head)[j] \in lv,
         NEW i \in 0 .. j
  PROVE  /\ Path(nx, lv, head)[i] \in lv
         /\ i < j => Path(nx, lv, head)[i + 1] = nx[Path(nx, lv, head)[i]]
<1>1. i \in 0 .. Far /\ j \in i .. Far
  BY FarType
<1>2. Path(nx, lv, head)[i] \in lv
  BY <1>1, PathStays
<1>3. i < j => i \in 0 .. Far - 1
  BY FarType
<1> QED  BY <1>2, <1>3, PathStep DEF Onward

(* Where it comes by twice it goes the same way.                           *)
LEMMA PathShift ==
  ASSUME NEW nx, NEW lv, NEW head, NEW i \in 0 .. Far, NEW j \in 0 .. Far,
         Path(nx, lv, head)[i] = Path(nx, lv, head)[j], i < j,
         NEW t \in 0 .. Far - j
  PROVE  Path(nx, lv, head)[i + t] = Path(nx, lv, head)[j + t]
<1> DEFINE w == Path(nx, lv, head)
           Bad == {k \in 0 .. Far - j : w[i + k] # w[j + k]}
<1>1. SUFFICES Bad = {}
  OBVIOUS
<1>2. SUFFICES ASSUME Bad # {} PROVE FALSE
  OBVIOUS
<1>3. PICK k \in Bad : \A l \in Bad : k <= l
  <2>1. Bad \subseteq Nat
    BY FarType
  <2> HIDE DEF Bad
  <2> QED  BY <1>2, <2>1, LeastNumber
<1>4. k \in 0 .. Far - j /\ w[i + k] # w[j + k]
  OBVIOUS
<1>5. k # 0
  BY <1>4
<1>6. /\ k - 1 \in 0 .. Far - j /\ k - 1 < k
      /\ i + (k - 1) \in 0 .. Far - 1 /\ (i + (k - 1)) + 1 = i + k
      /\ j + (k - 1) \in 0 .. Far - 1 /\ (j + (k - 1)) + 1 = j + k
  BY <1>4, <1>5, FarType
<1>7. w[i + (k - 1)] = w[j + (k - 1)]
  BY <1>3, <1>6
<1>8. /\ w[(i + (k - 1)) + 1] = Onward(nx, lv, w[i + (k - 1)])
      /\ w[(j + (k - 1)) + 1] = Onward(nx, lv, w[j + (k - 1)])
  BY <1>6, PathStep
<1> HIDE DEF w, Bad
<1> QED  BY <1>4, <1>6, <1>7, <1>8

-----------------------------------------------------------------------------
(* What a walk reaches is the least set of cells that has its first cell,  *)
(* if it is in use, and with a cell the next one, if it is.                *)

LEMMA ReachIs ==
  ASSUME NEW nx, NEW lv, NEW head
  PROVE  Reach(nx, lv, head) = {Path(nx, lv, head)[n] : n \in 0 .. Far} \cap lv
BY PathStep DEF Reach, Range

LEMMA ReachLeast ==
  ASSUME NEW nx, NEW lv, NEW head, NEW S, head \in lv => head \in S,
         \A c \in S \cap lv : nx[c] \in lv => nx[c] \in S
  PROVE  Reach(nx, lv, head) \subseteq S
<1> DEFINE w == Path(nx, lv, head)
           Bad == {k \in 0 .. Far : w[k] \in lv \ S}
<1>1. SUFFICES Bad = {}
  BY ReachIs
<1>2. SUFFICES ASSUME Bad # {} PROVE FALSE
  OBVIOUS
<1>3. PICK k \in Bad : \A l \in Bad : k <= l
  <2>1. Bad \subseteq Nat
    BY FarType
  <2> HIDE DEF Bad
  <2> QED  BY <1>2, <2>1, LeastNumber
<1>4. k \in 0 .. Far /\ w[k] \in lv /\ w[k] \notin S
  OBVIOUS
<1>5. k # 0
  BY <1>4, PathStep
<1>6. k - 1 \in 0 .. k /\ k - 1 \in 0 .. Far /\ k - 1 < k /\ (k - 1) + 1 = k
  BY <1>4, <1>5, FarType
<1>7. w[k - 1] \in lv /\ w[(k - 1) + 1] = nx[w[k - 1]]
  BY <1>4, <1>6, PathLive
<1>8. w[k - 1] \in S
  BY <1>3, <1>6, <1>7
<1> HIDE DEF w, Bad
<1> QED  BY <1>4, <1>6, <1>7, <1>8

LEMMA ReachOnward ==
  ASSUME NEW nx, NEW lv \in SUBSET Cells, NEW head,
         NEW c \in Reach(nx, lv, head), nx[c] \in lv
  PROVE  nx[c] \in Reach(nx, lv, head)
<1> DEFINE w == Path(nx, lv, head)
<1>1. PICK n \in 0 .. Far : w[n] = c /\ c \in lv
  BY ReachIs
<1>2. ASSUME NEW m \in 0 .. Far - 1, w[m] = c PROVE nx[c] \in Reach(nx, lv, head)
  <2>1. m + 1 \in 0 .. Far
    BY FarType
  <2>2. w[m + 1] = nx[c]
    BY <1>1, <1>2, PathStep DEF Onward
  <2> HIDE DEF w
  <2>3. w[m + 1] \in {w[k] : k \in 0 .. Far}
    BY <2>1
  <2> QED  BY <2>2, <2>3, ReachIs DEF w
<1>3. CASE n = Far
  <2>1. \A k \in 0 .. Far : w[k] \in lv
    BY <1>1, <1>3, PathLive, FarType
  <2> DEFINE f == [k \in 0 .. Far |-> w[k]]
  <2>2. PICK x, y \in 0 .. Far : x # y /\ f[x] = f[y]
    <3>1. f \in [0 .. Far -> Cells]
      BY <2>1
    <3>2. IsFiniteSet(0 .. Far) /\ Cardinality(0 .. Far) = Far + 1
      BY FarType, FS_Interval
    <3>3. IsFiniteSet(Cells) /\ Cardinality(Cells) < Cardinality(0 .. Far)
      BY <3>2, ListAssumption, FarType DEF Far
    <3> HIDE DEF f
    <3> QED  BY <3>1, <3>2, <3>3, FS_PigeonHole
  <2>3. PICK i \in 0 .. Far, j \in 0 .. Far : i < j /\ w[i] = w[j]
    <3>1. x < y \/ y < x
      BY <2>2, FarType
    <3>2. w[x] = w[y]
      BY <2>2
    <3> QED  BY <3>1, <3>2
  <2>4. Far - j \in 0 .. Far - j /\ i + (Far - j) \in 0 .. Far - 1 /\ j + (Far - j) = Far
    BY <2>3, FarType
  <2>5. w[i + (Far - j)] = w[Far]
    BY <2>3, <2>4, PathShift
  <2> QED  BY <1>1, <1>2, <1>3, <2>4, <2>5
<1>4. CASE n # Far
  <2>1. n \in 0 .. Far - 1
    BY <1>4, FarType
  <2> QED  BY <1>1, <1>2, <2>1
<1> QED  BY <1>3, <1>4

LEMMA ReachFacts ==
  ASSUME NEW nx, NEW lv \in SUBSET Cells, NEW head
  PROVE  /\ Reach(nx, lv, head) \subseteq lv
         /\ head \in lv => head \in Reach(nx, lv, head)
         /\ head \notin lv => Reach(nx, lv, head) = {}
         /\ \A c \in Reach(nx, lv, head) : nx[c] \in lv => nx[c] \in Reach(nx, lv, head)
         /\ \A c \in Reach(nx, lv, head) : c # head => \E p \in Reach(nx, lv, head) : nx[p] = c
<1> DEFINE R == Reach(nx, lv, head)
<1>1. R \subseteq lv
  BY DEF Reach
<1>2. head \in lv => head \in R
  <2>1. 0 \in 0 .. Far
    BY FarType
  <2> QED  BY <2>1, PathStep, ReachIs
<1>3. head \notin lv => R = {}
  <2>1. PICK S : S = {}
    OBVIOUS
  <2>2. head \notin lv => R \subseteq S
    BY <2>1, ReachLeast
  <2> QED  BY <2>1, <2>2
<1>4. \A c \in R : nx[c] \in lv => nx[c] \in R
  BY ReachOnward
<1>5. ASSUME NEW c \in R, c # head PROVE \E p \in R : nx[p] = c
  <2> DEFINE S == {head} \cup {x \in R : \E p \in R : nx[p] = x}
  <2>1. \A x \in S \cap lv : nx[x] \in lv => nx[x] \in S
    <3>1. ASSUME NEW x \in S \cap lv, nx[x] \in lv PROVE nx[x] \in S
      <4>1. x \in R
        BY <1>2
      <4>2. nx[x] \in R
        BY <1>4, <3>1, <4>1
      <4> QED  BY <4>1, <4>2
    <3> QED  BY <3>1
  <2>2. R \subseteq S
    <3> HIDE DEF R
    <3>1. head \in S
      OBVIOUS
    <3> HIDE DEF S
    <3> QED  BY <2>1, <3>1, ReachLeast DEF R
  <2> QED  BY <1>5, <2>2
<1> QED  BY <1>1, <1>2, <1>3, <1>4, <1>5

(* A list that ends, and a ring, is a row of different cells.              *)
Row(nx, lv, head, m) ==
  /\ \A i \in 0 .. m : Path(nx, lv, head)[i] \in lv
  /\ \A i \in 0 .. m - 1 : Path(nx, lv, head)[i + 1] = nx[Path(nx, lv, head)[i]]
  /\ nx[Path(nx, lv, head)[m]] \in {head, Null}
  /\ \A i, j \in 0 .. m : Path(nx, lv, head)[i] = Path(nx, lv, head)[j] => i = j
  /\ Reach(nx, lv, head) = {Path(nx, lv, head)[i] : i \in 0 .. m}

LEMMA RowExists ==
  ASSUME NEW nx, NEW lv \in SUBSET Cells, NEW head,
         NEW c \in Reach(nx, lv, head), nx[c] \in {head, Null}
  PROVE  \E m \in 0 .. Far : Row(nx, lv, head, m)
<1> DEFINE w == Path(nx, lv, head)
           M == {n \in 0 .. Far : w[n] \in lv /\ nx[w[n]] \in {head, Null}}
<1>1. PICK m \in M : \A k \in M : m <= k
  <2>1. M \subseteq Nat
    BY FarType
  <2>2. M # {}
    <3>1. PICK n \in 0 .. Far : w[n] = c /\ c \in lv
      BY ReachIs
    <3>2. n \in M
      BY <3>1
    <3> QED  BY <3>2
  <2> HIDE DEF M
  <2> QED  BY <2>1, <2>2, LeastNumber
<1>2. m \in 0 .. Far /\ w[m] \in lv /\ nx[w[m]] \in {head, Null}
  OBVIOUS
<1>3. \A i \in 0 .. m : w[i] \in lv
  BY <1>2, PathLive
<1>4. \A i \in 0 .. m - 1 : w[i + 1] = nx[w[i]]
  <2>1. ASSUME NEW i \in 0 .. m - 1 PROVE w[i + 1] = nx[w[i]]
    <3>1. i \in 0 .. m /\ i < m
      BY <1>2, FarType
    <3> QED  BY <1>2, <3>1, PathLive
  <2> QED  BY <2>1
<1>5. ASSUME NEW i \in 0 .. m, NEW j \in 0 .. m, w[i] = w[j], i < j PROVE FALSE
  <2>1. /\ i \in 0 .. Far /\ j \in 0 .. Far /\ m - j \in 0 .. Far - j
        /\ i + (m - j) \in 0 .. Far /\ i + (m - j) < m /\ j + (m - j) = m
    BY <1>2, <1>5, FarType
  <2>2. w[i + (m - j)] = w[m]
    BY <1>5, <2>1, PathShift
  <2>3. i + (m - j) \in M
    BY <1>2, <2>1, <2>2
  <2>4. m <= i + (m - j)
    BY <1>1, <2>3
  <2> QED  BY <2>1, <2>4, <1>2, FarType
<1>6. \A i, j \in 0 .. m : w[i] = w[j] => i = j
  <2>1. SUFFICES ASSUME NEW i \in 0 .. m, NEW j \in 0 .. m, w[i] = w[j], i # j PROVE FALSE
    OBVIOUS
  <2>2. i < j \/ j < i
    BY <1>2, <2>1, FarType
  <2> QED  BY <1>5, <2>1, <2>2
<1>7. Reach(nx, lv, head) = {w[i] : i \in 0 .. m}
  <2> DEFINE S == {w[i] : i \in 0 .. m}
  <2>1. head \in S
    <3>1. 0 \in 0 .. m /\ w[0] = head
      BY <1>2, PathStep, FarType
    <3> QED  BY <3>1
  <2>2. \A x \in S \cap lv : nx[x] \in lv => nx[x] \in S
    <3>1. ASSUME NEW i \in 0 .. m, nx[w[i]] \in lv PROVE nx[w[i]] \in S
      <4>1. CASE i = m
        BY <1>2, <2>1, <3>1, <4>1, ListAssumption
      <4>2. CASE i # m
        <5>1. i \in 0 .. m - 1 /\ i + 1 \in 0 .. m
          BY <1>2, <4>2, FarType
        <5> QED  BY <1>4, <5>1
      <4> QED  BY <4>1, <4>2
    <3> QED  BY <3>1
  <2>3. Reach(nx, lv, head) \subseteq S
    <3> HIDE DEF S
    <3> QED  BY <2>1, <2>2, ReachLeast
  <2>4. S \subseteq Reach(nx, lv, head)
    <3>1. 0 .. m \subseteq 0 .. Far
      BY <1>2, FarType
    <3> QED  BY <1>3, <3>1, ReachIs
  <2> QED  BY <2>3, <2>4
<1> HIDE DEF M
<1> QED  BY <1>2, <1>3, <1>4, <1>6, <1>7 DEF Row

-----------------------------------------------------------------------------
(* Loops along a walk, that end at a cell of T.                            *)

Earliest(S) == CHOOSE n \in S : \A m \in S : n <= m

LEMMA EarliestIs ==
  ASSUME NEW S, S # {}, S \subseteq Nat
  PROVE  Earliest(S) \in S /\ \A j \in S : Earliest(S) <= j
<1>1. \E k \in S : \A j \in S : k <= j
  BY LeastNumber
<1> QED  BY <1>1 DEF Earliest

StepsTo(nx, lv, head, T) ==
  LET w == Path(nx, lv, head)
      bad == {n \in 0 .. Far : w[n] \notin lv}
      good == {n \in 0 .. Far : w[n] \in lv /\ w[n] \in T}
  IN IF good # {} /\ \A n \in bad : Earliest(good) < n THEN Earliest(good)
     ELSE IF bad # {} THEN -1
     ELSE -2

LEMMA StepsFacts ==
  ASSUME NEW nx, NEW lv, NEW head, NEW T, NEW k, k = StepsTo(nx, lv, head, T)
  PROVE  /\ k \in 0 .. Far \/ k = -1 \/ k = -2
         /\ k < 0 <=> k \notin 0 .. Far
         /\ k \in 0 .. Far =>
              /\ Path(nx, lv, head)[k] \in lv \cap T
              /\ \A i \in 0 .. k - 1 : Path(nx, lv, head)[i] \in lv \ T
         /\ k = -1 =>
              \E n \in 0 .. Far : /\ Path(nx, lv, head)[n] \notin lv
                                  /\ \A i \in 0 .. n - 1 : Path(nx, lv, head)[i] \in lv \ T
         /\ k = -2 => \A n \in 0 .. Far : Path(nx, lv, head)[n] \in lv \ T
<1> DEFINE w == Path(nx, lv, head)
           bad == {n \in 0 .. Far : w[n] \notin lv}
           good == {n \in 0 .. Far : w[n] \in lv /\ w[n] \in T}
<1>1. bad \subseteq Nat /\ good \subseteq Nat /\ bad \subseteq 0 .. Far /\ good \subseteq 0 .. Far
  BY FarType
<1>2. k = IF good # {} /\ \A n \in bad : Earliest(good) < n THEN Earliest(good)
          ELSE IF bad # {} THEN -1 ELSE -2
  BY DEF StepsTo
<1>3. good # {} => Earliest(good) \in good /\ \A j \in good : Earliest(good) <= j
  <2> HIDE DEF good
  <2> QED  BY <1>1, EarliestIs
<1>4. bad # {} => Earliest(bad) \in bad /\ \A j \in bad : Earliest(bad) <= j
  <2> HIDE DEF bad
  <2> QED  BY <1>1, EarliestIs
<1>5. CASE good # {} /\ \A n \in bad : Earliest(good) < n
  <2>1. k = Earliest(good)
    BY <1>2, <1>5
  <2>2. k \in 0 .. Far /\ w[k] \in lv \cap T /\ k >= 0
    BY <1>3, <1>5, <2>1, FarType
  <2>3. ASSUME NEW i \in 0 .. k - 1 PROVE w[i] \in lv \ T
    <3>1. i \in 0 .. Far /\ i < k
      BY <2>2, FarType
    <3>2. i \notin good
      <4>1. i \in good => k <= i
        BY <1>3, <1>5, <2>1
      <4> HIDE DEF good
      <4> QED  BY <3>1, <4>1, <2>2, FarType
    <3>3. i \notin bad
      <4>1. i \in bad => k < i
        BY <1>5, <2>1
      <4> HIDE DEF bad
      <4> QED  BY <3>1, <4>1, <2>2, FarType
    <3> QED  BY <3>1, <3>2, <3>3
  <2>4. k # -1 /\ k # -2
    BY <2>2
  <2> HIDE DEF good, bad, w
  <2> QED  BY <2>2, <2>3, <2>4, FarType DEF w
<1>6. CASE ~(good # {} /\ \A n \in bad : Earliest(good) < n) /\ bad # {}
  <2>1. k = -1
    BY <1>2, <1>6
  <2> DEFINE b == Earliest(bad)
  <2>2. b \in 0 .. Far /\ w[b] \notin lv /\ \A j \in bad : b <= j
    BY <1>4, <1>6
  <2>3. ASSUME NEW i \in 0 .. b - 1 PROVE w[i] \in lv \ T
    <3>1. i \in 0 .. Far /\ i < b
      BY <2>2, FarType
    <3>2. i \notin bad
      <4> HIDE DEF bad, b
      <4> QED  BY <2>2, <3>1, FarType
    <3>3. i \notin good
      <4> SUFFICES ASSUME i \in good PROVE FALSE
        OBVIOUS
      <4>1. Earliest(good) <= i /\ Earliest(good) \in 0 .. Far
        BY <1>3, <1>1
      <4>2. \A n \in bad : Earliest(good) < n
        <5> HIDE DEF bad, good, b
        <5> QED  BY <1>1, <2>2, <3>1, <4>1, FarType
      <4> QED  BY <1>6, <4>2
    <3> QED  BY <3>1, <3>2, <3>3
  <2> HIDE DEF good, bad, w
  <2>4. \E n \in 0 .. Far : w[n] \notin lv /\ \A i \in 0 .. n - 1 : w[i] \in lv \ T
    BY <2>2, <2>3
  <2> QED  BY <2>1, <2>4, FarType DEF w
<1>7. CASE ~(good # {} /\ \A n \in bad : Earliest(good) < n) /\ bad = {}
  <2>1. k = -2 /\ good = {}
    BY <1>2, <1>7
  <2>2. \A n \in 0 .. Far : w[n] \in lv \ T
    BY <1>7, <2>1
  <2> HIDE DEF good, bad, w
  <2> QED  BY <2>1, <2>2, FarType DEF w
<1> QED  BY <1>5, <1>6, <1>7

(* list_find, with its loop as one of StepsTo.                             *)
Seen(head, d) ==
  LET w == Path(next, live, head)
  IN {n \in 0 .. Far :
        (\A m \in 0 .. n : w[m] \in live /\ next[w[m]] \notin {head, w[m]}) /\ data[w[n]] = d}

LEMMA FindIs ==
  ASSUME NEW head, NEW d
  PROVE  list_find(head, d)
           = IF Seen(head, d) # {} THEN Path(next, live, head)[Earliest(Seen(head, d))]
             ELSE IF StepsTo(next, live, head, {c \in live : next[c] \in {head, c, Null}}) >= 0
             THEN Null ELSE Junk
<1> DEFINE w == Path(next, live, head)
           found == Seen(head, d)
<1> DEFINE T == {c \in live : next[c] \in {head, c, Null}}
           v == Walk(head)
           bad == {n \in DOMAIN v : v[n] \notin live}
           good == {n \in 0 .. Far : w[n] \in live /\ w[n] \in T}
           good2 == {n \in DOMAIN v : v[n] \in live /\ (next[v[n]] \in {head, v[n]} \/ next[v[n]] = Null)}
           found2 == {n \in DOMAIN v :
                        (\A m \in 0 .. n : v[m] \in live /\ ~(next[v[m]] \in {head, v[m]})) /\ data[v[n]] = d}
           steps == IF good2 # {} /\ \A n \in bad : Earliest(good2) < n THEN Earliest(good2)
                    ELSE IF bad # {} THEN -1 ELSE -2
<1>1. v = w /\ DOMAIN v = 0 .. Far
  BY WalkIsPath, PathStep
<1>2. list_find(head, d)
        = IF found2 # {} THEN v[Earliest(found2)] ELSE IF steps >= 0 THEN Null ELSE Junk
  BY DEF list_find, LoopSteps, Earliest, FindStops
<1> HIDE DEF v
<1>3. good = good2 /\ bad = {n \in 0 .. Far : w[n] \notin live}
  BY <1>1
<1>4. found2 = found
  BY <1>1 DEF Seen
<1>5. steps = StepsTo(next, live, head, T)
  <2> HIDE DEF good, good2, bad
  <2> QED BY <1>3 DEF StepsTo, good
<1> HIDE DEF steps, T, found2
<1> QED  BY <1>1, <1>2, <1>4, <1>5 DEF T

LEMMA EarliestAgree ==
  ASSUME NEW S, NEW F, S \subseteq Nat, F \subseteq S,
         \A n \in S : \E f \in F : f <= n
  PROVE  (F = {} <=> S = {}) /\ (S # {} => Earliest(S) = Earliest(F))
<1>1. F = {} <=> S = {}
  OBVIOUS
<1>2. ASSUME S # {} PROVE Earliest(S) = Earliest(F)
  <2>1. Earliest(S) \in S /\ \A j \in S : Earliest(S) <= j
    BY <1>2, EarliestIs
  <2>2. Earliest(F) \in F /\ \A j \in F : Earliest(F) <= j
    BY <1>1, <1>2, EarliestIs
  <2>3. PICK f \in F : f <= Earliest(S)
    BY <2>1
  <2>4. Earliest(S) \in Nat /\ Earliest(F) \in Nat /\ f \in Nat
    BY <2>1, <2>2
  <2>5. Earliest(F) <= f /\ Earliest(S) <= Earliest(F)
    BY <2>1, <2>2, <2>3
  <2> QED  BY <2>3, <2>4, <2>5
<1> QED  BY <1>1, <1>2

LEMMA FindsRight ==
  ASSUME live \subseteq Cells, NEW h \in live, NEW d, Ring(h) \/ Ends0(h)
  PROVE  LET w == Walk(h)
             last == {c \in Chain(h) : next[c] = h}
             With == {n \in DOMAIN w : w[n] \in live \ last /\ data[w[n]] = d}
             First == CHOOSE n \in With : \A m \in With : n <= m
         IN list_find(h, d) = IF With = {} THEN Null ELSE w[First]
<1> DEFINE w == Path(next, live, h)
           last == {c \in Chain(h) : next[c] = h}
           With == {n \in 0 .. Far : w[n] \in live \ last /\ data[w[n]] = d}
           found == {n \in 0 .. Far :
                       (\A i \in 0 .. n : w[i] \in live /\ next[w[i]] \notin {h, w[i]}) /\ data[w[n]] = d}
<1>1. Walk(h) = w /\ DOMAIN w = 0 .. Far /\ Chain(h) = Reach(next, live, h) /\ w[0] = h
  BY WalkIsPath, PathStep
<1>2. PICK m \in 0 .. Far : Row(next, live, h, m)
  <2>1. \E c \in Chain(h) : next[c] \in {h, Null}
    BY DEF Ring, Ends0
  <2> QED  BY <1>1, <2>1, RowExists
<1>3. /\ \A i \in 0 .. m : w[i] \in live
      /\ \A i \in 0 .. m - 1 : w[i + 1] = next[w[i]]
      /\ next[w[m]] \in {h, Null}
      /\ \A i, j \in 0 .. m : w[i] = w[j] => i = j
      /\ Chain(h) = {w[i] : i \in 0 .. m}
  BY <1>1, <1>2 DEF Row
<1> HIDE DEF w
<1>4. ASSUME NEW i \in 0 .. m - 1 PROVE next[w[i]] \notin {h, w[i], Null} /\ i \in 0 .. m
  <2>1. i \in 0 .. m /\ i + 1 \in 0 .. m /\ 0 \in 0 .. m /\ i + 1 # 0 /\ i + 1 # i
    BY FarType
  <2>2. next[w[i]] = w[i + 1] /\ w[i + 1] # w[0] /\ w[i + 1] # w[i] /\ w[i + 1] \in live
    BY <1>3, <2>1
  <2> QED  BY <1>1, <2>1, <2>2, ListAssumption
<1>5. ASSUME NEW n \in found PROVE n \in 0 .. m /\ w[n] \notin last /\ data[w[n]] = d
  <2>1. n \in 0 .. Far /\ \A i \in 0 .. n : w[i] \in live /\ next[w[i]] \notin {h, w[i]}
    OBVIOUS
  <2>2. n \in 0 .. n
    BY <2>1, FarType
  <2>3. n <= m
    <3> SUFFICES ASSUME ~(n <= m) PROVE FALSE
      OBVIOUS
    <3>1. m \in 0 .. n /\ m + 1 \in 0 .. n /\ m \in 0 .. Far - 1
      BY <2>1, <1>2, FarType
    <3>2. next[w[m]] = Null /\ w[m] \in live
      BY <1>3, <2>1, <3>1
    <3>3. w[m + 1] = Null
      BY <3>1, <3>2, PathStep DEF w, Onward
    <3>4. w[m + 1] \in live
      BY <2>1, <3>1
    <3> QED  BY <3>3, <3>4, ListAssumption
  <2>4. n \in 0 .. m
    BY <2>1, <2>3, <1>2, FarType
  <2>5. next[w[n]] # h /\ data[w[n]] = d
    BY <2>1, <2>2
  <2> QED  BY <2>4, <2>5
<1>6. ASSUME NEW n \in 0 .. m, w[n] \notin last, data[w[n]] = d PROVE n \in found
  <2>1. n \in 0 .. Far
    BY <1>2, FarType
  <2>2. ASSUME NEW i \in 0 .. n PROVE w[i] \in live /\ next[w[i]] \notin {h, w[i]}
    <3>1. i \in 0 .. m /\ (i = m => n = m)
      BY <2>1, <1>2, FarType
    <3>2. CASE i = m
      <4>1. w[m] \in Chain(h) /\ w[m] \in live
        BY <1>3, <3>1, <3>2
      <4>2. next[w[m]] # h
        BY <1>6, <3>1, <3>2, <4>1
      <4>3. next[w[m]] = Null
        BY <1>3, <4>2
      <4> QED  BY <3>2, <4>1, <4>2, <4>3, ListAssumption
    <3>3. CASE i # m
      <4>1. i \in 0 .. m - 1
        BY <3>1, <3>3, <1>2, FarType
      <4> QED  BY <1>3, <1>4, <3>1, <4>1
    <3> QED  BY <3>2, <3>3
  <2> QED  BY <1>6, <2>1, <2>2
<1>7. found \subseteq With
  <2>1. ASSUME NEW n \in found PROVE n \in With
    <3>1. n \in 0 .. Far /\ n \in 0 .. m /\ w[n] \notin last /\ data[w[n]] = d
      BY <1>5
    <3> QED  BY <1>3, <3>1
  <2> HIDE DEF found, With
  <2> QED  BY <2>1
<1>8. ASSUME NEW n \in With PROVE \E f \in found : f <= n
  <2>1. n \in 0 .. Far /\ w[n] \in live \ last /\ data[w[n]] = d
    OBVIOUS
  <2>2. PICK f \in 0 .. m : w[f] = w[n]
    <3>1. w[n] \in Chain(h)
      BY <1>1, <2>1, ReachIs DEF w
    <3> QED  BY <1>3, <3>1
  <2>3. CASE n \in 0 .. m
    <3>1. n \in found
      BY <1>6, <2>1, <2>3
    <3> QED  BY <2>1, <3>1, FarType
  <2>4. CASE n \notin 0 .. m
    <3>1. f <= n
      BY <2>1, <2>4, <1>2, FarType
    <3>2. f \in found
      BY <1>6, <2>1, <2>2
    <3> QED  BY <3>1, <3>2
  <2> QED  BY <2>3, <2>4
<1>9. (found = {} <=> With = {}) /\ (With # {} => Earliest(With) = Earliest(found))
  <2>1. With \subseteq Nat
    BY FarType
  <2> HIDE DEF found, With
  <2> QED  BY <1>7, <1>8, <2>1, EarliestAgree
<1> DEFINE T == {c \in live : next[c] \in {h, c, Null}}
           k == StepsTo(next, live, h, T)
<1>10. k >= 0
  <2> HIDE DEF T
  <2>1. m \in 0 .. m /\ w[m] \in T
    BY <1>2, <1>3, FarType DEF T
  <2>2. k # -2
    <3>1. k = -2 => \A n \in 0 .. Far : w[n] \in live \ T
      BY StepsFacts DEF w
    <3> QED  BY <1>2, <2>1, <3>1
  <2>3. k # -1
    <3> SUFFICES ASSUME k = -1 PROVE FALSE
      OBVIOUS
    <3>1. PICK n \in 0 .. Far : w[n] \notin live /\ \A i \in 0 .. n - 1 : w[i] \in live \ T
      BY StepsFacts DEF w
    <3>2. n \notin 0 .. m
      BY <1>3, <3>1
    <3>3. m \in 0 .. n - 1
      BY <1>2, <3>1, <3>2, FarType
    <3> QED  BY <2>1, <3>1, <3>3
  <2>4. k \in 0 .. Far \/ k = -1 \/ k = -2
    BY StepsFacts
  <2> QED  BY <2>2, <2>3, <2>4, FarType
<1>11. list_find(h, d) = IF found # {} THEN w[Earliest(found)] ELSE IF k >= 0 THEN Null ELSE Junk
  <2>1. found = Seen(h, d)
    BY DEF Seen, w
  <2> QED  BY <2>1, FindIs DEF w
<1>12. list_find(h, d) = IF With = {} THEN Null ELSE w[Earliest(With)]
  <2> HIDE DEF found, With, k
  <2> QED  BY <1>9, <1>10, <1>11
<1> QED  BY <1>1, <1>12 DEF Earliest

-----------------------------------------------------------------------------
(* How what a walk reaches changes with a pointer.                         *)

(* New cells and pointers elsewhere make no difference.                    *)
LEMMA ReachFrame ==
  ASSUME NEW nx, NEW lv \in SUBSET Cells, NEW nx2, NEW lv2 \in SUBSET Cells, NEW head,
         lv \subseteq lv2, head \in lv2 => head \in lv,
         \A c \in Reach(nx, lv, head) : nx2[c] = nx[c] /\ (nx[c] \in lv2 => nx[c] \in lv)
  PROVE  Reach(nx2, lv2, head) = Reach(nx, lv, head)
<1> DEFINE R == Reach(nx, lv, head)
           R2 == Reach(nx2, lv2, head)
<1>1. /\ R \subseteq lv
      /\ head \in lv => head \in R
      /\ \A c \in R : nx[c] \in lv => nx[c] \in R
  BY ReachFacts
<1>2. /\ R2 \subseteq lv2
      /\ head \in lv2 => head \in R2
      /\ \A c \in R2 : nx2[c] \in lv2 => nx2[c] \in R2
  BY ReachFacts
<1>3. \A c \in R \cap lv2 : nx2[c] \in lv2 => nx2[c] \in R
  BY <1>1
<1>4. R2 \subseteq R
  <2> HIDE DEF R
  <2>1. head \in lv2 => head \in R
    BY <1>1
  <2> QED  BY <1>3, <2>1, ReachLeast
<1>5. R \subseteq R \cap R2
  <2> DEFINE S == R \cap R2
  <2>1. head \in lv => head \in S
    BY <1>1, <1>2
  <2>2. \A c \in S \cap lv : nx[c] \in lv => nx[c] \in S
    BY <1>1, <1>2
  <2> HIDE DEF S
  <2>3. R \subseteq S
    BY <2>1, <2>2, ReachLeast
  <2> QED  BY <2>3 DEF S
<1> QED  BY <1>4, <1>5

(* A new cell behind the last one, e.                                      *)
LEMMA ReachExtend ==
  ASSUME NEW nx, NEW lv \in SUBSET Cells, NEW nx2, NEW head, NEW c \in Cells, c \notin lv,
         NEW e \in Reach(nx, lv, head),
         nx[e] = head \/ nx[e] \notin lv \cup {c},
         nx2[e] = c, nx2[c] = head \/ nx2[c] \notin lv \cup {c},
         \A x \in Reach(nx, lv, head) : x # e => nx2[x] = nx[x] /\ nx[x] # c
  PROVE  Reach(nx2, lv \cup {c}, head) = Reach(nx, lv, head) \cup {c}
<1> DEFINE lv2 == lv \cup {c}
           R == Reach(nx, lv, head)
           R2 == Reach(nx2, lv2, head)
<1>1. /\ R \subseteq lv /\ head \in lv
      /\ head \in R
      /\ \A x \in R : nx[x] \in lv => nx[x] \in R
  BY ReachFacts
<1>2. /\ R2 \subseteq lv2 /\ head \in R2
      /\ \A x \in R2 : nx2[x] \in lv2 => nx2[x] \in R2
  <2>1. lv2 \in SUBSET Cells /\ head \in lv2
    BY <1>1
  <2> HIDE DEF lv2
  <2> QED  BY <2>1, ReachFacts
<1>3. R2 \subseteq R \cup {c}
  <2> DEFINE S == R \cup {c}
  <2>1. head \in S
    BY <1>1
  <2>2. \A x \in S \cap lv2 : nx2[x] \in lv2 => nx2[x] \in S
    <3>1. ASSUME NEW x \in S, nx2[x] \in lv2 PROVE nx2[x] \in S
      <4>1. CASE x = e
        BY <4>1
      <4>2. CASE x = c
        BY <1>1, <3>1, <4>2
      <4>3. CASE x \in R /\ x # e
        BY <1>1, <3>1, <4>3
      <4> QED  BY <4>1, <4>2, <4>3
    <3> QED  BY <3>1
  <2> HIDE DEF S, lv2
  <2>3. R2 \subseteq S
    BY <2>1, <2>2, ReachLeast
  <2> QED  BY <2>3 DEF S
<1>4. R \subseteq R \cap R2
  <2> DEFINE S == R \cap R2
  <2>1. head \in S
    BY <1>1, <1>2
  <2>2. \A x \in S \cap lv : nx[x] \in lv => nx[x] \in S
    <3>1. ASSUME NEW x \in S, nx[x] \in lv PROVE nx[x] \in S
      <4>1. CASE x = e
        BY <3>1, <4>1, <2>1
      <4>2. CASE x # e
        BY <1>1, <1>2, <3>1, <4>2
      <4> QED  BY <4>1, <4>2
    <3> QED  BY <3>1
  <2> HIDE DEF S
  <2>3. R \subseteq S
    BY <2>1, <2>2, ReachLeast
  <2> QED  BY <2>3 DEF S
<1>5. c \in R2
  <2>1. e \in R2
    BY <1>4
  <2> QED  BY <1>2, <2>1
<1> QED  BY <1>3, <1>4, <1>5

(* A ring is closed.                                                       *)
LEMMA ReachClose ==
  ASSUME NEW nx, NEW lv \in SUBSET Cells, NEW nx2, NEW head,
         NEW e \in Reach(nx, lv, head), nx[e] \notin lv, nx2[e] = head,
         \A x \in Reach(nx, lv, head) : x # e => nx2[x] = nx[x]
  PROVE  Reach(nx2, lv, head) = Reach(nx, lv, head)
<1> DEFINE R == Reach(nx, lv, head)
           R2 == Reach(nx2, lv, head)
<1>1. /\ R \subseteq lv /\ head \in lv /\ head \in R
      /\ \A x \in R : nx[x] \in lv => nx[x] \in R
  BY ReachFacts
<1>2. /\ R2 \subseteq lv /\ head \in R2
      /\ \A x \in R2 : nx2[x] \in lv => nx2[x] \in R2
  BY <1>1, ReachFacts
<1>3. R2 \subseteq R
  <2>1. \A x \in R \cap lv : nx2[x] \in lv => nx2[x] \in R
    BY <1>1
  <2> HIDE DEF R
  <2> QED  BY <1>1, <2>1, ReachLeast
<1>4. R \subseteq R \cap R2
  <2> DEFINE S == R \cap R2
  <2>1. head \in S
    BY <1>1, <1>2
  <2>2. \A x \in S \cap lv : nx[x] \in lv => nx[x] \in S
    BY <1>1, <1>2
  <2> HIDE DEF S
  <2>3. R \subseteq S
    BY <2>1, <2>2, ReachLeast
  <2> QED  BY <2>3 DEF S
<1> QED  BY <1>3, <1>4

(* A cell by itself.                                                       *)
LEMMA ReachSingle ==
  ASSUME NEW nx, NEW lv \in SUBSET Cells, NEW c \in lv, nx[c] \notin lv
  PROVE  Reach(nx, lv, c) = {c}
<1>1. PICK S : S = {c}
  OBVIOUS
<1>2. Reach(nx, lv, c) \subseteq S
  BY <1>1, ReachLeast
<1> QED  BY <1>1, <1>2, ReachFacts

(* A cell of a row is taken out behind another, p.                         *)
LEMMA ReachUnlink ==
  ASSUME NEW nx, NEW lv \in SUBSET Cells, NEW nx2, NEW head, Null \notin lv,
         NEW b \in Reach(nx, lv, head), nx[b] \in {head, Null},
         NEW p \in Reach(nx, lv, head), NEW c \in lv, nx[p] = c, c # head,
         nx2[p] = nx[c],
         \A x \in Reach(nx, lv, head) : x # p => nx2[x] = nx[x]
  PROVE  Reach(nx2, lv, head) = Reach(nx, lv, head) \ {c}
<1> DEFINE w == Path(nx, lv, head)
           R == Reach(nx, lv, head)
           R2 == Reach(nx2, lv, head)
<1>1. /\ R \subseteq lv /\ head \in lv /\ head \in R /\ c \in R
      /\ \A x \in R : nx[x] \in lv => nx[x] \in R
      /\ \A x \in R : x # head => \E q \in R : nx[q] = x
  BY ReachFacts
<1>2. /\ R2 \subseteq lv /\ head \in R2
      /\ \A x \in R2 : nx2[x] \in lv => nx2[x] \in R2
  BY <1>1, ReachFacts
<1>3. PICK m \in 0 .. Far : Row(nx, lv, head, m)
  BY RowExists
<1>4. /\ \A i \in 0 .. m : w[i] \in lv
      /\ \A i \in 0 .. m - 1 : w[i + 1] = nx[w[i]]
      /\ nx[w[m]] \in {head, Null}
      /\ \A i, j \in 0 .. m : w[i] = w[j] => i = j
      /\ R = {w[i] : i \in 0 .. m}
      /\ w[0] = head
  BY <1>3, PathStep DEF Row
<1> HIDE DEF w, R, R2
<1>5. ASSUME NEW x \in R, NEW y \in R, nx[x] = nx[y], nx[x] \in lv PROVE x = y
  <2>1. PICK i \in 0 .. m : x = w[i]
    BY <1>4
  <2>2. PICK j \in 0 .. m : y = w[j]
    BY <1>4
  <2>3. CASE i < m /\ j < m
    <3>1. i \in 0 .. m - 1 /\ j \in 0 .. m - 1 /\ i + 1 \in 0 .. m /\ j + 1 \in 0 .. m
      BY <1>3, <2>3, FarType
    <3>2. w[i + 1] = w[j + 1]
      BY <1>4, <1>5, <2>1, <2>2, <3>1
    <3> QED  BY <1>4, <2>1, <2>2, <3>1, <3>2
  <2>4. CASE i < m /\ j = m
    <3>1. i \in 0 .. m - 1 /\ i + 1 \in 0 .. m /\ 0 \in 0 .. m /\ i + 1 # 0
      BY <1>3, <2>4, FarType
    <3>2. w[i + 1] \in {head, Null} /\ w[i + 1] \in lv
      BY <1>4, <1>5, <2>1, <2>2, <2>4, <3>1
    <3> QED  BY <1>4, <3>1, <3>2
  <2>5. CASE i = m /\ j < m
    <3>1. j \in 0 .. m - 1 /\ j + 1 \in 0 .. m /\ 0 \in 0 .. m /\ j + 1 # 0
      BY <1>3, <2>5, FarType
    <3>2. w[j + 1] \in {head, Null} /\ w[j + 1] \in lv
      BY <1>4, <1>5, <2>1, <2>2, <2>5, <3>1
    <3> QED  BY <1>4, <3>1, <3>2
  <2>6. (i = m /\ j = m) \/ (i < m /\ j < m) \/ (i < m /\ j = m) \/ (i = m /\ j < m)
    BY <1>3, FarType
  <2> QED  BY <2>1, <2>2, <2>3, <2>4, <2>5, <2>6
<1>6. \A x \in R : nx[x] = c => x = p
  BY <1>5 DEF R
<1>7. nx[c] # c
  <2> SUFFICES ASSUME nx[c] = c PROVE FALSE
    OBVIOUS
  <2>1. PICK i \in 0 .. m : c = w[i]
    BY <1>1, <1>4
  <2>2. CASE i < m
    <3>1. i \in 0 .. m - 1 /\ i + 1 \in 0 .. m /\ i + 1 # i
      BY <1>3, <2>2, FarType
    <3> QED  BY <1>4, <2>1, <3>1
  <2>3. CASE i = m
    BY <1>1, <1>4, <2>1, <2>3
  <2> QED  BY <1>3, <2>2, <2>3, FarType
<1>8. R2 \subseteq R \ {c}
  <2> DEFINE S == R \ {c}
  <2>1. head \in S
    BY <1>1
  <2>2. \A x \in S \cap lv : nx2[x] \in lv => nx2[x] \in S
    <3>1. ASSUME NEW x \in S, nx2[x] \in lv PROVE nx2[x] \in S
      <4>1. CASE x = p
        BY <1>1, <1>7, <3>1, <4>1
      <4>2. CASE x # p
        BY <1>1, <1>6, <3>1, <4>2 DEF R
      <4> QED  BY <4>1, <4>2
    <3> QED  BY <3>1
  <2> HIDE DEF S
  <2>3. R2 \subseteq S
    BY <2>1, <2>2, ReachLeast DEF R2
  <2> QED  BY <2>3 DEF S
<1>9. R \subseteq R2 \cup {c}
  <2> DEFINE S == (R \cap R2) \cup {x \in {c} : p \in R2}
  <2>1. head \in lv => head \in S
    BY <1>1, <1>2
  <2>2. \A x \in S \cap lv : nx[x] \in lv => nx[x] \in S
    <3>1. ASSUME NEW x \in S, nx[x] \in lv PROVE nx[x] \in S
      <4>1. CASE x = p
        BY <3>1, <4>1
      <4>2. CASE x = c
        <5>1. p \in R2
          BY <1>8, <3>1, <4>2
        <5>2. nx[c] \in R2 /\ nx[c] \in R
          BY <1>1, <1>2, <3>1, <4>2, <5>1
        <5> QED  BY <4>2, <5>2
      <4>3. CASE x # p /\ x # c
        <5>1. x \in R /\ x \in R2
          BY <3>1, <4>3
        <5>2. nx[x] \in R /\ nx[x] \in R2
          BY <1>1, <1>2, <3>1, <4>3, <5>1 DEF R
        <5> QED  BY <5>2
      <4> QED  BY <4>1, <4>2, <4>3
    <3> QED  BY <3>1
  <2> HIDE DEF S
  <2>3. R \subseteq S
    BY <2>1, <2>2, ReachLeast DEF R
  <2> QED  BY <2>3 DEF S
<1> QED  BY <1>8, <1>9 DEF R, R2

-----------------------------------------------------------------------------
(* Where loops end.                                                        *)

LEMMA StepsReach ==
  ASSUME NEW nx, NEW lv \in SUBSET Cells, NEW head, NEW T, NEW k, k = StepsTo(nx, lv, head, T)
  PROVE  /\ k \in 0 .. Far => Path(nx, lv, head)[k] \in Reach(nx, lv, head) \cap T
         /\ (\E c \in Reach(nx, lv, head) : c \in T) => k \in 0 .. Far
         /\ k < 0 <=> k \notin 0 .. Far
         /\ k < 0 <=> k \in {-1, -2}
<1> DEFINE w == Path(nx, lv, head)
<1>1. /\ k \in 0 .. Far \/ k = -1 \/ k = -2
      /\ k < 0 <=> k \notin 0 .. Far
      /\ k \in 0 .. Far => w[k] \in lv \cap T
      /\ k = -1 => \E n \in 0 .. Far : w[n] \notin lv /\ \A i \in 0 .. n - 1 : w[i] \in lv \ T
      /\ k = -2 => \A n \in 0 .. Far : w[n] \in lv \ T
  BY StepsFacts
<1>2. k \in 0 .. Far => w[k] \in Reach(nx, lv, head) \cap T
  BY <1>1, ReachIs
<1>3. ASSUME NEW c \in Reach(nx, lv, head), c \in T PROVE k \in 0 .. Far
  <2>1. PICK n \in 0 .. Far : w[n] = c /\ c \in lv
    BY ReachIs
  <2>2. k # -2
    BY <1>1, <1>3, <2>1
  <2>3. k # -1
    <3> SUFFICES ASSUME k = -1 PROVE FALSE
      OBVIOUS
    <3>1. PICK b \in 0 .. Far : w[b] \notin lv /\ \A i \in 0 .. b - 1 : w[i] \in lv \ T
      BY <1>1
    <3>2. b \notin 0 .. n
      BY <2>1, <3>1, PathLive
    <3>3. n \in 0 .. b - 1
      BY <2>1, <3>1, <3>2, FarType
    <3> QED  BY <1>3, <2>1, <3>1, <3>3
  <2> QED  BY <1>1, <2>2, <2>3
<1> QED  BY <1>1, <1>2, <1>3, FarType

(* A loop that ends where the walk does has seen all cells.                *)
LEMMA Scanned ==
  ASSUME NEW nx, NEW lv \in SUBSET Cells, NEW head, NEW T, NEW k \in 0 .. Far,
         k = StepsTo(nx, lv, head, T),
         LET e == Path(nx, lv, head)[k] IN nx[e] \in {head, e} \/ nx[e] \notin lv
  PROVE  \A c \in Reach(nx, lv, head) : c # Path(nx, lv, head)[k] => c \notin T
<1> DEFINE w == Path(nx, lv, head)
           S == {w[i] : i \in 0 .. k}
<1>1. w[k] \in lv /\ \A i \in 0 .. k - 1 : w[i] \in lv \ T
  BY StepsFacts
<1>2. head \in S
  <2>1. 0 \in 0 .. k /\ w[0] = head
    BY PathStep, FarType
  <2> QED  BY <2>1
<1>3. \A x \in S \cap lv : nx[x] \in lv => nx[x] \in S
  <2>1. ASSUME NEW i \in 0 .. k, nx[w[i]] \in lv PROVE nx[w[i]] \in S
    <3>1. CASE i = k
      BY <1>2, <2>1, <3>1
    <3>2. CASE i # k
      <4>1. i < k /\ i \in 0 .. k /\ i + 1 \in 0 .. k
        BY <3>2, FarType
      <4>2. w[i + 1] = nx[w[i]]
        BY <1>1, <4>1, PathLive
      <4>3. w[i + 1] \in S
        BY <4>1
      <4> QED  BY <4>2, <4>3
    <3> QED  BY <3>1, <3>2
  <2> QED  BY <2>1
<1>4. Reach(nx, lv, head) \subseteq S
  <2> HIDE DEF S
  <2> QED  BY <1>2, <1>3, ReachLeast
<1>5. ASSUME NEW c \in Reach(nx, lv, head), c # w[k] PROVE c \notin T
  <2>1. PICK i \in 0 .. k : c = w[i]
    BY <1>4
  <2>2. i \in 0 .. k - 1
    BY <1>5, <2>1, FarType
  <2> QED  BY <1>1, <2>1, <2>2
<1> QED  BY <1>5

(* A loop that comes to a cell not in use has left its last cell.          *)
LEMMA RanOut ==
  ASSUME NEW nx, NEW lv \in SUBSET Cells, NEW head \in lv, NEW T,
         StepsTo(nx, lv, head, T) = -1
  PROVE  \E b \in Reach(nx, lv, head) : b \notin T /\ nx[b] \notin lv
<1> DEFINE w == Path(nx, lv, head)
           Dead == {n \in 0 .. Far : w[n] \notin lv}
<1>1. PICK b \in 0 .. Far : w[b] \notin lv /\ \A i \in 0 .. b - 1 : w[i] \in lv \ T
  BY StepsFacts
<1>2. b # 0
  BY <1>1, PathStep
<1>3. b - 1 \in 0 .. b - 1 /\ b - 1 \in 0 .. Far - 1 /\ b - 1 \in 0 .. Far /\ (b - 1) + 1 = b
  BY <1>1, <1>2, FarType
<1>4. w[b - 1] \in lv \ T
  BY <1>1, <1>3
<1>5. w[b] = nx[w[b - 1]]
  <2>1. w[(b - 1) + 1] = Onward(nx, lv, w[b - 1])
    BY <1>3, PathStep
  <2> QED  BY <1>3, <1>4, <2>1 DEF Onward
<1>6. w[b - 1] \in Reach(nx, lv, head)
  BY <1>3, <1>4, ReachIs
<1> QED  BY <1>1, <1>4, <1>5, <1>6

-----------------------------------------------------------------------------
(* What the calls of NodeList do.                                          *)

Still == UNCHANGED <<live, next, data>>

LEMMA FailsStill ==
  ASSUME NEW steps, Fails(steps)
  PROVE  Still /\ outcome' # "running"
BY DEF Fails, Ends, Still

LEMMA AddIs ==
  ASSUME NEW head, NEW node, list_add(head, node), live \subseteq Cells
  PROVE  \/ Still
         \/ \E e \in Chain(head) :
              next[e] = Null /\ next' = [next EXCEPT ![e] = node] /\ UNCHANGED <<live, data>>
<1> DEFINE v == Walk(head)
           w == Path(next, live, head)
           T == {c \in live : next[c] = Null}
           bad == {n \in DOMAIN v : v[n] \notin live}
           good == {n \in 0 .. Far : w[n] \in live /\ w[n] \in T}
           good2 == {n \in DOMAIN v : v[n] \in live /\ next[v[n]] = Null}
           steps == IF good2 # {} /\ \A n \in bad : Earliest(good2) < n THEN Earliest(good2)
                    ELSE IF bad # {} THEN -1 ELSE -2
<1>1. v = w /\ DOMAIN v = 0 .. Far /\ Chain(head) = Reach(next, live, head)
  BY WalkIsPath, PathStep
<1>2. IF steps < 0 THEN Fails(steps)
      ELSE /\ next' = [next EXCEPT ![v[steps]] = node]
           /\ Returns(0)
           /\ UNCHANGED <<live, data>>
  BY DEF list_add, LoopSteps, Earliest, Last
<1> HIDE DEF v
<1>3. good = good2 /\ bad = {n \in 0 .. Far : w[n] \notin live}
  BY <1>1
<1>4. steps = StepsTo(next, live, head, T)
  <2> HIDE DEF good, good2, bad
  <2> QED BY <1>3 DEF StepsTo, good
<1> HIDE DEF steps, w
<1>5. /\ steps \in 0 .. Far => w[steps] \in Reach(next, live, head) \cap T
      /\ steps < 0 <=> steps \notin 0 .. Far
  <2> HIDE DEF T
  <2> QED  BY <1>4, StepsReach DEF w
<1>6. CASE steps < 0
  BY <1>2, <1>6, FailsStill
<1>7. CASE ~(steps < 0)
  BY <1>1, <1>2, <1>5, <1>7
<1> QED  BY <1>6, <1>7

DelBy(head, node, steps) ==
  LET stop == Walk(head)[steps]
  IN IF steps < 0 THEN Fails(steps)
     ELSE IF next[stop] = Null
     THEN Returns(-ERR_LIST_NODE_MISSING) /\ UNCHANGED <<live, next, data>>
     ELSE IF next[stop] # node THEN Returns(0) /\ UNCHANGED <<live, next, data>>
     ELSE IF node \notin live THEN Ends("crashed")
     ELSE /\ next' = [next EXCEPT ![stop] = next[node]]
          /\ Returns(0)
          /\ UNCHANGED <<live, data>>

DelHalts(head, node) == {c \in live : next[c] \in {Null, node, c, head}}

LEMMA DelIs ==
  ASSUME NEW head, NEW node, list_del(head, node)
  PROVE  DelBy(head, node, StepsTo(next, live, head, DelHalts(head, node)))
<1> DEFINE v == Walk(head)
           w == Path(next, live, head)
           T == DelHalts(head, node)
           bad == {n \in DOMAIN v : v[n] \notin live}
           good == {n \in 0 .. Far : w[n] \in live /\ w[n] \in T}
           good2 == {n \in DOMAIN v : v[n] \in live /\ next[v[n]] \in {Null, node, v[n], head}}
           steps == IF good2 # {} /\ \A n \in bad : Earliest(good2) < n THEN Earliest(good2)
                    ELSE IF bad # {} THEN -1 ELSE -2
<1>1. v = w /\ DOMAIN v = 0 .. Far
  BY WalkIsPath, PathStep
<1>2. DelBy(head, node, steps)
  BY DEF list_del, LoopSteps, Earliest, DelBy, DelStops
<1> HIDE DEF v
<1>3. good = good2 /\ bad = {n \in 0 .. Far : w[n] \notin live}
  BY <1>1 DEF DelHalts
<1>4. steps = StepsTo(next, live, head, T)
  <2> HIDE DEF good, good2, bad
  <2> QED BY <1>3 DEF StepsTo, good
<1> HIDE DEF steps, T
<1> QED  BY <1>2, <1>4 DEF T

(* What list_del comes to, without its steps.                              *)
LEMMA DelDoes ==
  ASSUME NEW head, NEW node, list_del(head, node), live \subseteq Cells, node \in live
  PROVE  \/ /\ Still /\ outcome' = "crashed"
            /\ StepsTo(next, live, head, DelHalts(head, node)) = -1
         \/ /\ Still /\ outcome' = "spinning"
            /\ Chain(head) \cap DelHalts(head, node) = {}
         \/ /\ outcome' = "running"
            /\ \E e \in Chain(head) :
                 /\ e \in DelHalts(head, node)
                 /\ next[e] = Null => Still /\ rt' = -ERR_LIST_NODE_MISSING
                 /\ next[e] \notin {Null, node} => Still /\ rt' = 0
                 /\ next[e] = node => /\ next' = [next EXCEPT ![e] = next[node]]
                                      /\ rt' = 0 /\ UNCHANGED <<live, data>>
                 /\ next[e] # node =>
                      \A c \in Chain(head) : c # e => c \notin DelHalts(head, node)
<1> DEFINE k == StepsTo(next, live, head, DelHalts(head, node))
           w == Path(next, live, head)
<1>1. DelBy(head, node, k) /\ Walk(head) = w /\ Chain(head) = Reach(next, live, head)
  BY DelIs, WalkIsPath
<1>2. /\ k \in 0 .. Far => w[k] \in Chain(head) /\ w[k] \in DelHalts(head, node)
      /\ (\E c \in Chain(head) : c \in DelHalts(head, node)) => k \in 0 .. Far
      /\ k < 0 <=> k \notin 0 .. Far
      /\ k < 0 <=> k \in {-1, -2}
  BY <1>1, StepsReach
<1>3. CASE k < 0
  <2>1. k = -1 \/ k = -2
    BY <1>2, <1>3
  <2>2. Still /\ outcome' = IF k = -1 THEN "crashed" ELSE "spinning"
    BY <1>1, <1>3 DEF DelBy, Fails, Ends, Still
  <2>3. Chain(head) \cap DelHalts(head, node) = {}
    BY <1>2, <1>3
  <2> HIDE DEF k
  <2> QED  BY <2>1, <2>2, <2>3 DEF k
<1>4. CASE k \in 0 .. Far
  <2> HIDE DEF k, w
  <2> DEFINE e == w[k]
  <2>1. e \in Chain(head) /\ e \in DelHalts(head, node) /\ ~(k < 0)
    BY <1>2, <1>4
  <2>2. outcome' = "running"
    BY <1>1, <2>1 DEF DelBy, Returns
  <2>3. next[e] = Null => Still /\ rt' = -ERR_LIST_NODE_MISSING
    BY <1>1, <2>1 DEF DelBy, Returns, Still
  <2>4. next[e] \notin {Null, node} => Still /\ rt' = 0
    BY <1>1, <2>1 DEF DelBy, Returns, Still
  <2>5. next[e] = node => /\ next' = [next EXCEPT ![e] = next[node]]
                          /\ rt' = 0 /\ UNCHANGED <<live, data>>
    <3>1. node # Null
      BY ListAssumption
    <3> QED  BY <1>1, <2>1, <3>1 DEF DelBy, Returns
  <2>6. next[e] # node => \A c \in Chain(head) : c # e => c \notin DelHalts(head, node)
    <3> SUFFICES ASSUME next[e] # node
                 PROVE  \A c \in Chain(head) : c # e => c \notin DelHalts(head, node)
      OBVIOUS
    <3>1. next[e] \in {head, e} \/ next[e] \notin live
      BY <2>1, ListAssumption DEF DelHalts
    <3> QED  BY <1>1, <1>4, <3>1, Scanned DEF k, w
  <2> HIDE DEF e
  <2> QED  BY <2>1, <2>2, <2>3, <2>4, <2>5, <2>6
<1> QED  BY <1>2, <1>3, <1>4

-----------------------------------------------------------------------------
(* Types, and whose cells are whose: a cell's next is a cell of the same   *)
(* owner, or no cell.                                                      *)

Typed ==
  /\ live \subseteq Cells
  /\ next \in [Cells -> Cells \cup {Null, Junk}]
  /\ data \in [Cells -> Values \cup GNodes \cup Items \cup {Null}]
  /\ up \subseteq GNodes /\ edges \in [GNodes -> Cells \cup {Null}]
  /\ menu_choices \in Cells \cup {Null} /\ menu_count \in Nat /\ added \in Seq(Items)

(* What a new cell holds is not a pointer to another.                      *)
NoStalePointers == Fresh \cap Cells = {}

EdgeCells == {c \in live : data[c] \in GNodes}
ItemCells == {c \in live : data[c] \in Items}

Keeps(X) == \A c \in X : next[c] \in X \cup {Null, Junk}

Owned ==
  /\ live \subseteq Mine \cup EdgeCells \cup ItemCells
  /\ Keeps(Mine) /\ Keeps(EdgeCells) /\ Keeps(ItemCells)

LEMMA ChainWithin ==
  ASSUME Typed, NEW X \in SUBSET live, Keeps(X), NEW h \in X
  PROVE  Chain(h) \subseteq X
<1>1. h \in live => h \in X
  OBVIOUS
<1>2. \A c \in X \cap live : next[c] \in live => next[c] \in X
  BY ListAssumption DEF Keeps, Typed
<1>3. Reach(next, live, h) \subseteq X
  BY <1>1, <1>2, ReachLeast
<1> QED  BY <1>3, WalkIsPath

LEMMA ChainFacts ==
  ASSUME live \subseteq Cells, NEW h
  PROVE  /\ Chain(h) \subseteq live
         /\ h \in live => h \in Chain(h)
         /\ h \notin live => Chain(h) = {}
         /\ \A x \in Chain(h) : next[x] \in live => next[x] \in Chain(h)
         /\ \A x \in Chain(h) : x # h => \E q \in Chain(h) : next[q] = x
<1>1. live \in SUBSET Cells /\ Chain(h) = Reach(next, live, h)
  BY WalkIsPath
<1>2. /\ Reach(next, live, h) \subseteq live
      /\ h \in live => h \in Reach(next, live, h)
      /\ h \notin live => Reach(next, live, h) = {}
      /\ \A x \in Reach(next, live, h) : next[x] \in live => next[x] \in Reach(next, live, h)
      /\ \A x \in Reach(next, live, h) : x # h => \E q \in Reach(next, live, h) : next[q] = x
  BY <1>1, ReachFacts
<1> QED  BY <1>1, <1>2

LEMMA ChainNext ==
  ASSUME NEW h
  PROVE  Chain(h)' = Reach(next', live', h)
BY DEF Chain, Walk, Reach, Path, Onward, Far

LEMMA MineLive == Mine \subseteq live /\ EdgeCells \subseteq live /\ ItemCells \subseteq live
BY DEF Mine, EdgeCells, ItemCells

(* list_del takes out the node it was asked to.                            *)
DelAsAsked(h, c) ==
  CASE outcome' = "spinning" -> ~Ring(h) /\ ~Ends0(h)
    [] outcome' = "crashed"  -> \E b \in Chain(h) : next[b] \notin live \cup {Null}
    [] OTHER ->
         /\ h # c /\ (Ring(h) \/ Ends0(h)) => Chain(h)' = Chain(h) \ {c}
         /\ Ends0(h) => (rt' = 0 <=> c \in Chain(h) \ {h})

(* That live cells are cells, and every cell has a next.                   *)
LiveCells == live \subseteq Cells /\ next = [c \in Cells |-> next[c]]

(* A list that ends does not come back to its first node.                  *)
LEMMA RingOrEnd ==
  ASSUME live \subseteq Cells, NEW h \in live, Ends0(h), NEW e \in Chain(h)
  PROVE  next[e] # h
<1> DEFINE w == Path(next, live, h)
<1>1. Chain(h) = Reach(next, live, h) /\ w[0] = h
  BY WalkIsPath, PathStep
<1>2. PICK b \in Chain(h) : next[b] = Null
  BY DEF Ends0
<1>3. PICK m \in 0 .. Far : Row(next, live, h, m)
  BY <1>1, <1>2, RowExists
<1>4. /\ \A i \in 0 .. m : w[i] \in live
      /\ \A i \in 0 .. m - 1 : w[i + 1] = next[w[i]]
      /\ next[w[m]] \in {h, Null}
      /\ \A i, j \in 0 .. m : w[i] = w[j] => i = j
      /\ Chain(h) = {w[i] : i \in 0 .. m}
  BY <1>1, <1>3 DEF Row
<1> HIDE DEF w
<1>5. ASSUME NEW i \in 0 .. m, i # m PROVE next[w[i]] \notin {h, Null}
  <2>1. i \in 0 .. m - 1 /\ i + 1 \in 0 .. m /\ 0 \in 0 .. m /\ i + 1 # 0
    BY <1>5, FarType
  <2>2. next[w[i]] = w[i + 1] /\ w[i + 1] # w[0] /\ w[i + 1] \in live
    BY <1>4, <2>1
  <2> QED  BY <1>1, <2>2, ListAssumption
<1>6. b = w[m]
  BY <1>2, <1>4, <1>5
<1>7. h # Null
  BY ListAssumption
<1> QED  BY <1>2, <1>4, <1>5, <1>6, <1>7

LEMMA DelRight ==
  ASSUME LiveCells, NEW h \in live, NEW c \in live, list_del(h, c)
  PROVE  DelAsAsked(h, c)
<1>1. live \subseteq Cells /\ h \in live /\ c \in live /\ Null \notin live
  BY ListAssumption DEF LiveCells
<1>2. /\ Chain(h) = Reach(next, live, h) /\ Chain(h)' = Reach(next', live', h)
      /\ Chain(h) \subseteq live
      /\ \A x \in Chain(h) : next[x] \in live => next[x] \in Chain(h)
      /\ \A x \in Chain(h) : x # h => \E q \in Chain(h) : next[q] = x
  <2>1. Chain(h) = Reach(next, live, h)
    BY WalkIsPath
  <2>2. Chain(h)' = Reach(next', live', h)
    BY ChainNext
  <2> QED  BY <1>1, <2>1, <2>2, ChainFacts
<1>3. CASE Still /\ outcome' = "crashed" /\ StepsTo(next, live, h, DelHalts(h, c)) = -1
  <2>1. PICK b \in Chain(h) : b \notin DelHalts(h, c) /\ next[b] \notin live
    BY <1>1, <1>2, <1>3, RanOut
  <2>2. next[b] # Null
    BY <1>1, <1>2, <2>1 DEF DelHalts
  <2> QED  BY <1>3, <2>1, <2>2 DEF DelAsAsked
<1>4. CASE Still /\ outcome' = "spinning" /\ Chain(h) \cap DelHalts(h, c) = {}
  <2>1. ~Ring(h) /\ ~Ends0(h)
    BY <1>2, <1>4 DEF Ring, Ends0, DelHalts
  <2> QED  BY <1>4, <2>1 DEF DelAsAsked
<1>5. CASE /\ outcome' = "running"
           /\ \E e \in Chain(h) :
                 /\ e \in DelHalts(h, c)
                 /\ next[e] = Null => Still /\ rt' = -ERR_LIST_NODE_MISSING
                 /\ next[e] \notin {Null, c} => Still /\ rt' = 0
                 /\ next[e] = c => /\ next' = [next EXCEPT ![e] = next[c]]
                                   /\ rt' = 0 /\ UNCHANGED <<live, data>>
                 /\ next[e] # c =>
                      \A x \in Chain(h) : x # e => x \notin DelHalts(h, c)
  <2>1. PICK e \in Chain(h) :
                 /\ e \in DelHalts(h, c)
                 /\ next[e] = Null => Still /\ rt' = -ERR_LIST_NODE_MISSING
                 /\ next[e] \notin {Null, c} => Still /\ rt' = 0
                 /\ next[e] = c => /\ next' = [next EXCEPT ![e] = next[c]]
                                   /\ rt' = 0 /\ UNCHANGED <<live, data>>
                 /\ next[e] # c =>
                      \A x \in Chain(h) : x # e => x \notin DelHalts(h, c)
    BY <1>5
  <2>2. ASSUME h # c, Ring(h) \/ Ends0(h) PROVE Chain(h)' = Chain(h) \ {c}
    <3>1. CASE next[e] = c
      <4>1. PICK b \in Chain(h) : next[b] \in {h, Null}
        BY <2>2 DEF Ring, Ends0
      <4>2. next'[e] = next[c] /\ \A x \in Chain(h) : x # e => next'[x] = next[x]
        BY <1>1, <1>2, <2>1, <3>1 DEF LiveCells
      <4>3. live' = live
        BY <2>1, <3>1
      <4> QED  BY <1>1, <1>2, <2>2, <3>1, <4>1, <4>2, <4>3, ReachUnlink
    <3>2. CASE next[e] # c
      <4>1. Still
        BY <2>1, <3>2
      <4>2. c \notin Chain(h)
        <5> SUFFICES ASSUME c \in Chain(h) PROVE FALSE
          OBVIOUS
        <5>1. PICK q \in Chain(h) : next[q] = c
          BY <1>2, <2>2
        <5>2. q \in DelHalts(h, c)
          BY <1>2, <5>1 DEF DelHalts
        <5> QED  BY <2>1, <3>2, <5>1, <5>2
      <4> QED  BY <1>2, <4>1, <4>2 DEF Still
    <3> QED  BY <3>1, <3>2
  <2>3. ASSUME Ends0(h) PROVE rt' = 0 <=> c \in Chain(h) \ {h}
    <3>1. PICK b \in Chain(h) : next[b] = Null
      BY <2>3 DEF Ends0
    <3>2. b \in DelHalts(h, c)
      BY <1>2, <3>1 DEF DelHalts
    <3>3. CASE next[e] = c
      <4>1. c \in Chain(h)
        BY <1>1, <1>2, <3>3
      <4>2. c # h
        BY <1>1, <1>2, <2>3, <3>3, RingOrEnd
      <4> QED  BY <2>1, <3>3, <4>1, <4>2
    <3>4. CASE next[e] # c
      <4>1. e = b /\ next[e] = Null
        BY <2>1, <3>1, <3>2, <3>4
      <4>2. rt' = -204
        BY <2>1, <4>1 DEF ERR_LIST_NODE_MISSING
      <4>3. c \notin Chain(h) \ {h}
        <5> SUFFICES ASSUME c \in Chain(h), c # h PROVE FALSE
          OBVIOUS
        <5>1. PICK q \in Chain(h) : next[q] = c
          BY <1>2
        <5>2. q \in DelHalts(h, c)
          BY <1>2, <5>1 DEF DelHalts
        <5>3. q = e
          BY <2>1, <3>4, <5>2
        <5> QED  BY <3>4, <5>1, <5>3
      <4> QED  BY <4>2, <4>3
    <3> QED  BY <3>3, <3>4
  <2>4. outcome' # "spinning" /\ outcome' # "crashed"
    BY <1>5
  <2> QED  BY <2>2, <2>3, <2>4 DEF DelAsAsked
<1> QED  BY <1>1, <1>3, <1>4, <1>5, DelDoes

-----------------------------------------------------------------------------
(* The lists of edges, of nodes U, in lists s.                             *)

IsLists(s) ==
  /\ s = [live |-> s.live, next |-> s.next, data |-> s.data, edges |-> s.edges, short |-> s.short]
  /\ s.short \in BOOLEAN

EdgesIn(s) == {c \in s.live : s.data[c] \in GNodes}
Out(s, u) == Reach(s.next, s.live, s.edges[u])

(* Each node has a list of its own, of edges to nodes in use.              *)
Base(s, U) ==
  /\ s.live \subseteq Cells
  /\ s.next \in [Cells -> Cells \cup {Null, Junk}]
  /\ s.data \in [Cells -> Values \cup GNodes \cup Items \cup {Null}]
  /\ U \subseteq GNodes /\ s.edges \in [GNodes -> Cells \cup {Null}]
  /\ \A c \in EdgesIn(s) : s.next[c] \in EdgesIn(s) \cup {Null, Junk}
  /\ \A u \in U : s.edges[u] \in EdgesIn(s) \cup {Null}
  /\ \A u \in U : \A c \in Out(s, u) : s.data[c] \in U
  /\ \A u, v \in U : u # v => Out(s, u) \cap Out(s, v) = {}

LEMMA OutFacts ==
  ASSUME NEW s, NEW U, Base(s, U), NEW u \in U
  PROVE  /\ Out(s, u) \subseteq EdgesIn(s)
         /\ s.edges[u] # Null => s.edges[u] \in Out(s, u)
         /\ s.edges[u] = Null => Out(s, u) = {}
<1>1. PICK nx, lv, hd, X : nx = s.next /\ lv = s.live /\ hd = s.edges[u] /\ X = EdgesIn(s)
  OBVIOUS
<1>2. lv \in SUBSET Cells /\ Null \notin lv /\ Junk \notin lv /\ hd \in X \cup {Null} /\ X \subseteq lv
  BY <1>1, ListAssumption DEF Base, EdgesIn
<1>3. Out(s, u) = Reach(nx, lv, hd)
  BY <1>1 DEF Out
<1>4. Reach(nx, lv, hd) \subseteq X
  <2>1. \A c \in X \cap lv : nx[c] \in lv => nx[c] \in X
    BY <1>1, <1>2 DEF Base
  <2>2. hd \in lv => hd \in X
    BY <1>2
  <2> QED  BY <2>1, <2>2, ReachLeast
<1>5. /\ hd \in lv => hd \in Reach(nx, lv, hd)
      /\ hd \notin lv => Reach(nx, lv, hd) = {}
  BY <1>2, ReachFacts
<1> QED  BY <1>1, <1>2, <1>3, <1>4, <1>5

(* An edge from u to v: the only one, or behind the last.                  *)
Added(s, t, U, u, v) ==
  \E c \in Cells \ s.live :
    /\ t.live = s.live \cup {c}
    /\ t.data[c] = v /\ \A x \in s.live : t.data[x] = s.data[x]
    /\ t.edges = IF s.edges[u] = Null THEN [s.edges EXCEPT ![u] = c] ELSE s.edges
    /\ Out(t, u) = Out(s, u) \cup {c}
    /\ \A x \in U : x # u => Out(t, x) = Out(s, x)
    /\ \A x \in s.live \ Out(s, u) : t.next[x] = s.next[x]

(* The lists, with a new cell c that points to n, and e to it.             *)
LEMMA GrowBase ==
  ASSUME NEW s, NEW t, NEW U, Base(s, U), NEW u \in U, NEW v \in U, NEW n, NEW c \in Cells \ s.live,
         n \in {Null, Junk} \cup ({s.edges[u]} \ {Null}),
         t.live = s.live \cup {c}, t.data = [s.data EXCEPT ![c] = v],
         \/ /\ s.edges[u] = Null /\ t.edges = [s.edges EXCEPT ![u] = c]
            /\ t.next = [s.next EXCEPT ![c] = n]
         \/ /\ s.edges[u] # Null /\ t.edges = s.edges
            /\ \E e \in Out(s, u) : /\ s.next[e] \in {Null, s.edges[u]}
                                    /\ t.next = [[s.next EXCEPT ![c] = n] EXCEPT ![e] = c]
  PROVE  Base(t, U) /\ Added(s, t, U, u, v)
<1>1. /\ s.live \subseteq Cells /\ Null \notin Cells /\ Junk \notin Cells /\ Null # Junk
      /\ s.next \in [Cells -> Cells \cup {Null, Junk}]
      /\ s.data \in [Cells -> Values \cup GNodes \cup Items \cup {Null}]
      /\ U \subseteq GNodes /\ s.edges \in [GNodes -> Cells \cup {Null}]
      /\ \A x \in EdgesIn(s) : s.next[x] \in EdgesIn(s) \cup {Null, Junk}
      /\ \A x \in U : s.edges[x] \in EdgesIn(s) \cup {Null}
  BY ListAssumption DEF Base
<1>2. \A x \in U : /\ Out(s, x) \subseteq EdgesIn(s)
                   /\ s.edges[x] # Null => s.edges[x] \in Out(s, x)
                   /\ s.edges[x] = Null => Out(s, x) = {}
  BY OutFacts
<1>3. EdgesIn(s) \subseteq s.live /\ c \notin s.live /\ s.live \in SUBSET Cells /\ t.live \in SUBSET Cells
  BY <1>1 DEF EdgesIn
<1>4. t.data[c] = v /\ (\A x \in s.live : t.data[x] = s.data[x]) /\ EdgesIn(t) = EdgesIn(s) \cup {c}
  <2>1. t.data[c] = v /\ \A x \in s.live : t.data[x] = s.data[x]
    BY <1>1, <1>3
  <2> QED  BY <1>1, <2>1 DEF EdgesIn
<1>5. PICK E \in SUBSET Out(s, u) :
        /\ \A x \in s.live : x \notin E => t.next[x] = s.next[x]
        /\ \A x \in E : t.next[x] = c /\ s.next[x] \in {Null, s.edges[u]}
        /\ t.next[c] = n
        /\ t.next \in [Cells -> Cells \cup {Null, Junk}]
        /\ s.edges[u] = Null => E = {}
        /\ s.edges[u] # Null => \E e : E = {e}
  <2>0. n \in Cells \cup {Null, Junk}
    BY <1>1
  <2>1. CASE s.edges[u] = Null /\ t.next = [s.next EXCEPT ![c] = n]
    <3>1. \A x \in s.live : t.next[x] = s.next[x]
      BY <1>1, <1>3, <2>1
    <3>2. t.next[c] = n /\ t.next \in [Cells -> Cells \cup {Null, Junk}]
      BY <1>1, <2>0, <2>1
    <3> WITNESS {} \in SUBSET Out(s, u)
    <3> QED  BY <2>1, <3>1, <3>2
  <2>2. ASSUME s.edges[u] # Null, NEW e \in Out(s, u), s.next[e] \in {Null, s.edges[u]},
               t.next = [[s.next EXCEPT ![c] = n] EXCEPT ![e] = c]
        PROVE  \E E \in SUBSET Out(s, u) :
                 /\ \A x \in s.live : x \notin E => t.next[x] = s.next[x]
                 /\ \A x \in E : t.next[x] = c /\ s.next[x] \in {Null, s.edges[u]}
                 /\ t.next[c] = n
                 /\ t.next \in [Cells -> Cells \cup {Null, Junk}]
                 /\ s.edges[u] = Null => E = {}
                 /\ s.edges[u] # Null => \E y : E = {y}
    <3>1. e \in Cells /\ e # c
      BY <1>1, <1>2, <1>3, <2>2
    <3>2. \A x \in s.live : x # e => t.next[x] = s.next[x]
      BY <1>1, <1>3, <2>2
    <3>3. t.next[e] = c /\ t.next[c] = n /\ t.next \in [Cells -> Cells \cup {Null, Junk}]
      BY <1>1, <2>0, <2>2, <3>1
    <3> WITNESS {e} \in SUBSET Out(s, u)
    <3> QED  BY <2>2, <3>2, <3>3
  <2> QED  BY <2>1, <2>2
<1>6. t.edges \in [GNodes -> Cells \cup {Null}]
      /\ (\A x \in U : x # u => t.edges[x] = s.edges[x])
      /\ t.edges[u] = IF s.edges[u] = Null THEN c ELSE s.edges[u]
  BY <1>1
<1>7. ASSUME NEW x \in U, x # u PROVE Out(t, x) = Out(s, x)
  <2>1. Out(s, x) \cap Out(s, u) = {}
    BY <1>7 DEF Base
  <2>2. \A y \in Out(s, x) : t.next[y] = s.next[y] /\ (s.next[y] \in t.live => s.next[y] \in s.live)
    BY <1>1, <1>2, <1>3, <1>5, <2>1
  <2>3. t.edges[x] = s.edges[x] /\ (t.edges[x] \in t.live => s.edges[x] \in s.live)
    BY <1>1, <1>3, <1>6, <1>7
  <2>4. s.live \subseteq t.live
    OBVIOUS
  <2> QED  BY <1>3, <2>2, <2>3, <2>4, ReachFrame DEF Out
<1>8. Out(t, u) = Out(s, u) \cup {c}
  <2>1. CASE s.edges[u] = Null
    <3>1. n \notin t.live /\ t.next[c] = n /\ t.edges[u] = c /\ c \in t.live
      BY <1>1, <1>3, <1>5, <1>6, <2>1
    <3>2. Reach(t.next, t.live, c) = {c}
      BY <1>3, <3>1, ReachSingle
    <3> QED  BY <1>2, <2>1, <3>1, <3>2 DEF Out
  <2>2. CASE s.edges[u] # Null
    <3>1. PICK e \in Out(s, u) : E = {e}
      BY <1>5, <2>2
    <3>2. s.edges[u] = t.edges[u] /\ s.edges[u] \in s.live
      BY <1>2, <1>3, <1>6, <2>2
    <3>3. s.next[e] = s.edges[u] \/ s.next[e] \notin s.live \cup {c}
      BY <1>1, <1>3, <1>5, <3>1
    <3>4. t.next[e] = c /\ (t.next[c] = s.edges[u] \/ t.next[c] \notin s.live \cup {c})
      BY <1>1, <1>3, <1>5, <3>1
    <3>5. \A x \in Out(s, u) : x # e => t.next[x] = s.next[x] /\ s.next[x] # c
      BY <1>1, <1>2, <1>3, <1>5, <3>1
    <3>6. Reach(t.next, s.live \cup {c}, s.edges[u]) = Reach(s.next, s.live, s.edges[u]) \cup {c}
      BY <1>3, <3>1, <3>3, <3>4, <3>5, ReachExtend DEF Out
    <3> QED  BY <3>2, <3>6 DEF Out
  <2> QED  BY <2>1, <2>2
<1>9. Added(s, t, U, u, v)
  <2>1. \A x \in s.live \ Out(s, u) : t.next[x] = s.next[x]
    BY <1>5
  <2>2. t.edges = IF s.edges[u] = Null THEN [s.edges EXCEPT ![u] = c] ELSE s.edges
    OBVIOUS
  <2> QED  BY <1>4, <1>7, <1>8, <2>1, <2>2 DEF Added
<1>10. Base(t, U)
  <2>1. t.data \in [Cells -> Values \cup GNodes \cup Items \cup {Null}]
    BY <1>1
  <2>2. \A x \in EdgesIn(t) : t.next[x] \in EdgesIn(t) \cup {Null, Junk}
    <3>1. ASSUME NEW x \in EdgesIn(t) PROVE t.next[x] \in EdgesIn(t) \cup {Null, Junk}
      <4>1. CASE x = c
        BY <1>1, <1>4, <1>5, <4>1
      <4>2. CASE x \in E
        BY <1>4, <1>5, <4>2
      <4>3. CASE x # c /\ x \notin E
        BY <1>1, <1>3, <1>4, <1>5, <4>3
      <4> QED  BY <4>1, <4>2, <4>3
    <3> QED  BY <3>1
  <2>3. \A x \in U : t.edges[x] \in EdgesIn(t) \cup {Null}
    BY <1>1, <1>4, <1>6
  <2>4. ASSUME NEW x \in U, NEW y \in Out(t, x) PROVE t.data[y] \in U
    <3>1. \A z \in Out(s, x) : t.data[z] \in U
      BY <1>2, <1>3, <1>4 DEF Base
    <3> QED  BY <1>4, <1>7, <1>8, <2>4, <3>1
  <2>5. \A x, y \in U : x # y => Out(t, x) \cap Out(t, y) = {}
    <3>1. \A x, y \in U : x # y => Out(s, x) \cap Out(s, y) = {}
      BY DEF Base
    <3>2. \A x \in U : c \notin Out(s, x)
      BY <1>2, <1>3
    <3> QED  BY <1>7, <1>8, <3>1, <3>2
  <2> QED  BY <1>1, <1>3, <1>5, <1>6, <2>1, <2>2, <2>3, <2>4, <2>5 DEF Base
<1> QED  BY <1>9, <1>10

-----------------------------------------------------------------------------
(* Where nodes lead to, and what the calls of EdgeGraph keep of it.        *)

Leads(s, u, v) == \E c \in Out(s, u) : s.data[c] = v
First(s, u, v) == s.edges[u] # Null /\ s.data[s.edges[u]] = v
Twice(s, u, v) == \E c, d \in Out(s, u) : c # d /\ s.data[c] = v /\ s.data[d] = v

Answered(s, U) == \A u, v \in U : u # v /\ Leads(s, v, u) => Leads(s, u, v) \/ First(s, v, u)
TwiceOnly(s, U) == \A u, v \in U : Twice(s, u, v) => ~First(s, u, v) /\ u # v /\ First(s, v, u)

Fair(s, U) == Base(s, U) /\ Answered(s, U) /\ TwiceOnly(s, U)

LEMMA AddedLeads ==
  ASSUME NEW s, NEW t, NEW U, Base(s, U), NEW u \in U, NEW v \in U, Added(s, t, U, u, v)
  PROVE  \A x, y \in U :
           /\ Leads(t, x, y) <=> Leads(s, x, y) \/ (x = u /\ y = v)
           /\ First(t, x, y) <=> First(s, x, y) \/ (x = u /\ y = v /\ s.edges[u] = Null)
           /\ Twice(t, x, y) <=> Twice(s, x, y) \/ (x = u /\ y = v /\ Leads(s, u, v))
<1>1. PICK c \in Cells \ s.live :
        /\ t.live = s.live \cup {c}
        /\ t.data[c] = v /\ \A x \in s.live : t.data[x] = s.data[x]
        /\ t.edges = IF s.edges[u] = Null THEN [s.edges EXCEPT ![u] = c] ELSE s.edges
        /\ Out(t, u) = Out(s, u) \cup {c}
        /\ \A x \in U : x # u => Out(t, x) = Out(s, x)
  BY DEF Added
<1>2. \A x \in U : /\ Out(s, x) \subseteq s.live /\ c \notin Out(s, x)
                   /\ s.edges[x] # Null => s.edges[x] \in Out(s, x)
  <2>1. EdgesIn(s) \subseteq s.live
    BY DEF EdgesIn
  <2> QED  BY <1>1, <2>1, OutFacts
<1>3. \A x \in U : \A y \in Out(s, x) : t.data[y] = s.data[y]
  BY <1>1, <1>2
<1>4. \A x \in U : t.edges[x] = IF x = u /\ s.edges[u] = Null THEN c ELSE s.edges[x]
  BY <1>1 DEF Base
<1>5. c # Null
  BY ListAssumption
<1>6. ASSUME NEW x \in U, NEW y \in U
      PROVE  /\ Leads(t, x, y) <=> Leads(s, x, y) \/ (x = u /\ y = v)
             /\ Twice(t, x, y) <=> Twice(s, x, y) \/ (x = u /\ y = v /\ Leads(s, u, v))
  <2>1. CASE x # u
    <3>1. Out(t, x) = Out(s, x) /\ \A z \in Out(s, x) : t.data[z] = s.data[z]
      BY <1>1, <1>3, <2>1
    <3> QED  BY <2>1, <3>1 DEF Leads, Twice
  <2>2. CASE x = u
    <3>1. Out(t, u) = Out(s, u) \cup {c} /\ t.data[c] = v /\ c \notin Out(s, u)
      BY <1>1, <1>2
    <3>2. \A z \in Out(s, u) : t.data[z] = s.data[z]
      BY <1>3
    <3>3. Leads(t, u, y) <=> Leads(s, u, y) \/ y = v
      BY <3>1, <3>2 DEF Leads
    <3>4. Twice(t, u, y) => Twice(s, u, y) \/ (y = v /\ Leads(s, u, v))
      BY <3>1, <3>2 DEF Leads, Twice
    <3>5. Twice(s, u, y) \/ (y = v /\ Leads(s, u, v)) => Twice(t, u, y)
      BY <3>1, <3>2 DEF Leads, Twice
    <3> QED  BY <2>2, <3>3, <3>4, <3>5
  <2> QED  BY <2>1, <2>2
<1>7. ASSUME NEW x \in U, NEW y \in U
      PROVE  First(t, x, y) <=> First(s, x, y) \/ (x = u /\ y = v /\ s.edges[u] = Null)
  BY <1>1, <1>2, <1>3, <1>4, <1>5 DEF First
<1> QED  BY <1>6, <1>7

LEMMA FirstLeads ==
  ASSUME NEW s, NEW U, Base(s, U), NEW u \in U, NEW v
  PROVE  First(s, u, v) => Leads(s, u, v)
BY OutFacts DEF First, Leads

(* No memory for an edge.                                                  *)
Short(s) == s.short /\ s.live = Cells /\ IsLists(s)

Ready(s, U) == Base(s, U) /\ IsLists(s) /\ ~s.short

NewIn(s, t, v, n) ==
  /\ IsLists(t) /\ ~t.short
  /\ \E c \in Cells \ s.live :
       /\ c = CellFor(s)
       /\ t.live = s.live \cup {c} /\ t.data = [s.data EXCEPT ![c] = v]
       /\ t.next = [s.next EXCEPT ![c] = n] /\ t.edges = s.edges

LEMMA NewEdgeIs ==
  ASSUME NEW s, NEW U, Ready(s, U), NEW v, NEW n, NEW t, t = NewEdge(s, v, n)
  PROVE  Short(t) \/ NewIn(s, t, v, n)
<1>1. PICK l, x, d, e, h : s = [live |-> l, next |-> x, data |-> d, edges |-> e, short |-> h]
  BY DEF Ready, IsLists
<1>2. CASE s.live = Cells
  BY <1>1, <1>2 DEF NewEdge, Short, IsLists
<1>3. CASE s.live # Cells
  <2>1. CellFor(s) \in Cells \ s.live
    BY <1>3 DEF CellFor, Ready, Base
  <2>2. ~h /\ h = s.short
    BY <1>1 DEF Ready
  <2> DEFINE c == CellFor(s)
  <2>3. t = [s EXCEPT !.live = @ \cup {c}, !.next[c] = n, !.data[c] = v]
    BY <1>3 DEF NewEdge
  <2> HIDE DEF c
  <2>4. t = [live |-> l \cup {c}, next |-> [x EXCEPT ![c] = n], data |-> [d EXCEPT ![c] = v],
             edges |-> e, short |-> h]
    BY <1>1, <2>3
  <2>5. IsLists(t)
    BY <1>1, <2>2, <2>4 DEF IsLists, Ready
  <2>6. /\ t.live = l \cup {c} /\ t.next = [x EXCEPT ![c] = n] /\ t.data = [d EXCEPT ![c] = v]
        /\ t.edges = e /\ t.short = h
    BY <2>4
  <2>7. s.live = l /\ s.next = x /\ s.data = d /\ s.edges = e
    BY <1>1
  <2> QED  BY <2>1, <2>2, <2>5, <2>6, <2>7 DEF c, NewIn
<1> QED  BY <1>2, <1>3

LEMMA StartIs ==
  ASSUME NEW s, NEW U, Ready(s, U), NEW u \in U, NEW v \in U, s.edges[u] = Null,
         NEW n \in {Null, Junk}, NEW t, t = StartList(s, u, v, n)
  PROVE  Short(t) \/ (Ready(t, U) /\ Added(s, t, U, u, v))
<1>1. PICK r : r = NewEdge(s, v, n)
  OBVIOUS
<1>2. t = IF r.short THEN r ELSE [r EXCEPT !.edges[u] = CellFor(s)]
  BY <1>1 DEF StartList
<1>3. CASE Short(r)
  BY <1>2, <1>3 DEF Short
<1>4. CASE NewIn(s, r, v, n)
  <2>0. IsLists(r) /\ ~r.short
    BY <1>4 DEF NewIn
  <2>1. PICK c \in Cells \ s.live :
                /\ c = CellFor(s)
                /\ r.live = s.live \cup {c} /\ r.data = [s.data EXCEPT ![c] = v]
                /\ r.next = [s.next EXCEPT ![c] = n] /\ r.edges = s.edges
    BY <1>4 DEF NewIn
  <2>2. t = [r EXCEPT !.edges[u] = c]
    BY <1>2, <2>0, <2>1
  <2>3. PICK l, x, d, e, h : r = [live |-> l, next |-> x, data |-> d, edges |-> e, short |-> h]
    BY <2>0 DEF IsLists
  <2>4. t = [live |-> l, next |-> x, data |-> d, edges |-> [e EXCEPT ![u] = c], short |-> h]
    BY <2>2, <2>3
  <2>5. IsLists(t) /\ ~t.short
    BY <2>0, <2>3, <2>4 DEF IsLists
  <2>6. /\ t.live = s.live \cup {c} /\ t.data = [s.data EXCEPT ![c] = v]
        /\ t.next = [s.next EXCEPT ![c] = n] /\ t.edges = [s.edges EXCEPT ![u] = c]
    <3>1. /\ t.live = l /\ t.data = d /\ t.next = x /\ t.edges = [e EXCEPT ![u] = c]
      BY <2>4
    <3>2. l = r.live /\ d = r.data /\ x = r.next /\ e = r.edges
      BY <2>3
    <3> QED  BY <2>1, <3>1, <3>2
  <2>7. Base(s, U) /\ n \in {Null, Junk} \cup ({s.edges[u]} \ {Null})
    BY DEF Ready
  <2>8. Base(t, U) /\ Added(s, t, U, u, v)
    BY <2>6, <2>7, GrowBase
  <2> QED  BY <2>5, <2>8 DEF Ready
<1>5. Short(r) \/ NewIn(s, r, v, n)
  BY <1>1, NewEdgeIs
<1> QED  BY <1>3, <1>4, <1>5

LEMMA AppendIs ==
  ASSUME NEW s, NEW U, Ready(s, U), NEW u \in U, NEW v \in U, s.edges[u] # Null,
         NEW e \in Out(s, u), s.next[e] \in {Null, s.edges[u]},
         NEW n \in {Null, Junk, s.edges[u]}, NEW t, t = AppendEdge(s, e, v, n)
  PROVE  Short(t) \/ (Ready(t, U) /\ Added(s, t, U, u, v))
<1>1. PICK r : r = NewEdge(s, v, n)
  OBVIOUS
<1>2. t = IF r.short THEN r ELSE [r EXCEPT !.next[e] = CellFor(s)]
  BY <1>1 DEF AppendEdge
<1>3. CASE Short(r)
  BY <1>2, <1>3 DEF Short
<1>4. CASE NewIn(s, r, v, n)
  <2>0. IsLists(r) /\ ~r.short
    BY <1>4 DEF NewIn
  <2>1. PICK c \in Cells \ s.live :
                /\ c = CellFor(s)
                /\ r.live = s.live \cup {c} /\ r.data = [s.data EXCEPT ![c] = v]
                /\ r.next = [s.next EXCEPT ![c] = n] /\ r.edges = s.edges
    BY <1>4 DEF NewIn
  <2>2. t = [r EXCEPT !.next[e] = c]
    BY <1>2, <2>0, <2>1
  <2>3. PICK l, x, d, g, h : r = [live |-> l, next |-> x, data |-> d, edges |-> g, short |-> h]
    BY <2>0 DEF IsLists
  <2>4. t = [live |-> l, next |-> [x EXCEPT ![e] = c], data |-> d, edges |-> g, short |-> h]
    BY <2>2, <2>3
  <2>5. IsLists(t) /\ ~t.short
    BY <2>0, <2>3, <2>4 DEF IsLists
  <2>6. /\ t.live = s.live \cup {c} /\ t.data = [s.data EXCEPT ![c] = v]
        /\ t.next = [[s.next EXCEPT ![c] = n] EXCEPT ![e] = c] /\ t.edges = s.edges
    <3>1. /\ t.live = l /\ t.data = d /\ t.next = [x EXCEPT ![e] = c] /\ t.edges = g
      BY <2>4
    <3>2. l = r.live /\ d = r.data /\ x = r.next /\ g = r.edges
      BY <2>3
    <3> QED  BY <2>1, <3>1, <3>2
  <2>7. Base(s, U) /\ n \in {Null, Junk} \cup ({s.edges[u]} \ {Null})
    BY DEF Ready
  <2>8. Base(t, U) /\ Added(s, t, U, u, v)
    BY <2>6, <2>7, GrowBase
  <2> QED  BY <2>5, <2>8 DEF Ready
<1>5. Short(r) \/ NewIn(s, r, v, n)
  BY <1>1, NewEdgeIs
<1> QED  BY <1>3, <1>4, <1>5

-----------------------------------------------------------------------------
(* The loops of EdgeGraph.                                                 *)

LEMMA ListsIs == IsLists(Lists) /\ ~Lists.short
BY DEF Lists, IsLists

LEMMA OutChain ==
  ASSUME NEW u
  PROVE  Out(Lists, u) = Chain(edges[u])
<1>1. Chain(edges[u]) = Reach(next, live, edges[u])
  BY WalkIsPath
<1> QED  BY <1>1 DEF Out, Lists

EndsAt(u) == {c \in live : next[c] \in {Null, edges[u]}}

LEMMA ToLastIs ==
  ASSUME NEW u
  PROVE  ToLast(u) = StepsTo(next, live, edges[u], EndsAt(u))
<1> DEFINE v == Walk(edges[u])
           w == Path(next, live, edges[u])
           bad == {n \in DOMAIN v : v[n] \notin live}
           good == {n \in 0 .. Far : w[n] \in live /\ w[n] \in EndsAt(u)}
           good2 == {n \in DOMAIN v : v[n] \in live /\ next[v[n]] \in {Null, edges[u]}}
           steps == IF good2 # {} /\ \A n \in bad : Earliest(good2) < n THEN Earliest(good2)
                    ELSE IF bad # {} THEN -1 ELSE -2
<1>1. v = w /\ DOMAIN v = 0 .. Far
  BY WalkIsPath, PathStep
<1>2. ToLast(u) = steps
  BY DEF ToLast, LoopSteps, Earliest
<1> HIDE DEF v
<1>3. good = good2 /\ bad = {n \in 0 .. Far : w[n] \notin live}
  BY <1>1 DEF EndsAt
<1>4. steps = StepsTo(next, live, edges[u], EndsAt(u))
  <2> HIDE DEF good, good2, bad
  <2> QED BY <1>3 DEF StepsTo, good
<1> HIDE DEF steps
<1> QED  BY <1>2, <1>4

LEMMA LastEdgeIs ==
  ASSUME live \subseteq Cells, NEW u, ~(ToLast(u) < 0)
  PROVE  LastEdge(u) \in Out(Lists, u) /\ next[LastEdge(u)] \in {Null, edges[u]}
<1> DEFINE k == ToLast(u)
<1>1. k = StepsTo(next, live, edges[u], EndsAt(u))
  BY ToLastIs
<1>2. k \in 0 .. Far /\ Path(next, live, edges[u])[k] \in Reach(next, live, edges[u]) \cap EndsAt(u)
  <2> HIDE DEF k
  <2> QED  BY <1>1, StepsReach DEF k
<1>3. Walk(edges[u]) = Path(next, live, edges[u]) /\ Chain(edges[u]) = Reach(next, live, edges[u])
  BY WalkIsPath
<1> QED  BY <1>2, <1>3, OutChain DEF LastEdge, EndsAt

LastThere(u) ==
  \E c \in Out(Lists, u) : next[c] \in {Null, edges[u]}

LEMMA ToLastEnds ==
  ASSUME live \subseteq Cells, NEW u, LastThere(u)
  PROVE  ~(ToLast(u) < 0)
<1> DEFINE k == ToLast(u)
<1>1. k = StepsTo(next, live, edges[u], EndsAt(u))
  BY ToLastIs
<1>2. Out(Lists, u) = Reach(next, live, edges[u]) /\ Out(Lists, u) \subseteq live
  BY OutChain, WalkIsPath DEF Chain
<1>3. \E c \in Reach(next, live, edges[u]) : c \in EndsAt(u)
  BY <1>2 DEF LastThere, EndsAt
<1> QED  BY <1>1, <1>3, StepsReach

(* Connected looks for data v; so does the loop of node_self_connect.      *)
LooksFor(u, v) == {c \in live : data[c] = v \/ next[c] \in {Null, edges[u]}}
Look(u, v) == StepsTo(next, live, edges[u], LooksFor(u, v))

ConnectedBy(u, v, steps) ==
  LET stop == Walk(edges[u])[steps]
  IN IF steps < 0 THEN steps
     ELSE IF data[stop] = v THEN 1
     ELSE IF next[stop] = Null THEN 2
     ELSE -3

LEMMA ConnectedIs ==
  ASSUME NEW u, NEW x
  PROVE  Connected(u, x) = ConnectedBy(u, x, Look(u, x))
<1> DEFINE v == Walk(edges[u])
           w == Path(next, live, edges[u])
           T == LooksFor(u, x)
           bad == {n \in DOMAIN v : v[n] \notin live}
           good == {n \in 0 .. Far : w[n] \in live /\ w[n] \in T}
           good2 == {n \in DOMAIN v : v[n] \in live /\ (data[v[n]] = x \/ next[v[n]] \in {Null, edges[u]})}
           steps == IF good2 # {} /\ \A n \in bad : Earliest(good2) < n THEN Earliest(good2)
                    ELSE IF bad # {} THEN -1 ELSE -2
<1>1. v = w /\ DOMAIN v = 0 .. Far
  BY WalkIsPath, PathStep
<1>2. Connected(u, x) = ConnectedBy(u, x, steps)
  BY DEF Connected, LoopSteps, Earliest, ConnectedBy
<1> HIDE DEF v
<1>3. good = good2 /\ bad = {n \in 0 .. Far : w[n] \notin live}
  BY <1>1 DEF LooksFor
<1>4. steps = StepsTo(next, live, edges[u], T)
  <2> HIDE DEF good, good2, bad
  <2> QED BY <1>3 DEF StepsTo, good
<1> HIDE DEF steps, T
<1> QED  BY <1>2, <1>4 DEF T, Look

(* A loop that found none has seen all edges.                              *)
LEMMA LookIs ==
  ASSUME live \subseteq Cells, NEW u, NEW v, NEW k, k = Look(u, v)
  PROVE  /\ k < 0 <=> k \in {-1, -2}
         /\ k < 0 \/ (/\ k \in 0 .. Far
                      /\ Walk(edges[u])[k] \in Out(Lists, u)
                      /\ Walk(edges[u])[k] \in LooksFor(u, v)
                      /\ data[Walk(edges[u])[k]] # v => ~Leads(Lists, u, v))
<1> DEFINE w == Path(next, live, edges[u])
<1>1. /\ k \in 0 .. Far => w[k] \in Reach(next, live, edges[u]) \cap LooksFor(u, v)
      /\ k < 0 <=> k \notin 0 .. Far
      /\ k < 0 <=> k \in {-1, -2}
  BY StepsReach DEF Look
<1>2. Walk(edges[u]) = w /\ Out(Lists, u) = Reach(next, live, edges[u])
  BY WalkIsPath, OutChain
<1>3. ASSUME k \in 0 .. Far, data[w[k]] # v PROVE ~Leads(Lists, u, v)
  <2>1. next[w[k]] = edges[u] \/ next[w[k]] \notin live
    BY <1>1, <1>3, ListAssumption DEF LooksFor
  <2>2. \A c \in Reach(next, live, edges[u]) : c # w[k] => c \notin LooksFor(u, v)
    BY <1>3, <2>1, Scanned DEF Look
  <2>3. Out(Lists, u) \subseteq live /\ Lists.data = data
    BY <1>2 DEF Reach, Lists
  <2> QED  BY <1>2, <1>3, <2>2, <2>3 DEF Leads, LooksFor
<1> HIDE DEF w
<1> QED  BY <1>1, <1>2, <1>3

LEMMA ConnectedSays ==
  ASSUME live \subseteq Cells, NEW u, NEW v
  PROVE  \/ Connected(u, v) \in {-1, -2}
         \/ Connected(u, v) = 1 /\ Leads(Lists, u, v)
         \/ Connected(u, v) = 2 /\ ~Leads(Lists, u, v) /\ Ends0(edges[u])
         \/ Connected(u, v) = -3 /\ ~Leads(Lists, u, v) /\ LastThere(u)
<1> DEFINE stop == Walk(edges[u])[Look(u, v)]
<1>1. PICK k : k = Look(u, v)
  OBVIOUS
<1>2. CASE k < 0
  <2>1. Connected(u, v) = k /\ k \in {-1, -2}
    BY <1>1, <1>2, ConnectedIs, LookIs DEF ConnectedBy
  <2> QED  BY <2>1
<1>3. CASE ~(k < 0)
  <2>1. stop \in Out(Lists, u) /\ stop \in LooksFor(u, v) /\ (data[stop] # v => ~Leads(Lists, u, v))
    BY <1>1, <1>3, LookIs
  <2>2. Connected(u, v) = IF data[stop] = v THEN 1 ELSE IF next[stop] = Null THEN 2 ELSE -3
    BY <1>1, <1>3, ConnectedIs DEF ConnectedBy
  <2> HIDE DEF stop
  <2>3. CASE data[stop] = v
    <3>1. Leads(Lists, u, v)
      BY <2>1, <2>3 DEF Leads, Lists
    <3> QED  BY <2>2, <2>3, <3>1
  <2>4. CASE data[stop] # v /\ next[stop] = Null
    <3>1. Ends0(edges[u])
      BY <2>1, <2>4, OutChain DEF Ends0
    <3> QED  BY <2>1, <2>2, <2>4, <3>1
  <2>5. CASE data[stop] # v /\ next[stop] # Null
    <3>1. next[stop] = edges[u]
      BY <2>1, <2>5 DEF LooksFor
    <3> QED  BY <2>1, <2>2, <2>5, <3>1 DEF LastThere
  <2> QED  BY <2>3, <2>4, <2>5
<1> QED  BY <1>2, <1>3

-----------------------------------------------------------------------------
(* What an edge between two nodes, or of a node to itself, leaves.         *)

(* Only edges between u and v differ.                                      *)
Others(s, t, U, u, v) ==
  \A x, y \in U :
    \/ x = u /\ y = v
    \/ x = v /\ y = u
    \/ /\ Leads(t, x, y) <=> Leads(s, x, y)
       /\ First(t, x, y) <=> First(s, x, y)
       /\ Twice(t, x, y) <=> Twice(s, x, y)

FairPair(s, u, v) ==
  /\ (Leads(s, v, u) => Leads(s, u, v) \/ First(s, v, u))
  /\ (Leads(s, u, v) => Leads(s, v, u) \/ First(s, u, v))
  /\ (Twice(s, u, v) => ~First(s, u, v) /\ First(s, v, u))
  /\ (Twice(s, v, u) => ~First(s, v, u) /\ First(s, u, v))

LEMMA FairThen ==
  ASSUME NEW s, NEW t, NEW U, Fair(s, U), Base(t, U), NEW u \in U, NEW v \in U, u # v,
         Others(s, t, U, u, v), FairPair(t, u, v)
  PROVE  Fair(t, U)
<1>1. ASSUME NEW x \in U, NEW y \in U
      PROVE  /\ x # y /\ Leads(t, y, x) => Leads(t, x, y) \/ First(t, y, x)
             /\ Twice(t, x, y) => ~First(t, x, y) /\ x # y /\ First(t, y, x)
  <2>1. CASE x = u /\ y = v
    BY <2>1 DEF FairPair
  <2>2. CASE x = v /\ y = u
    BY <2>2 DEF FairPair
  <2>3. CASE ~(x = u /\ y = v) /\ ~(x = v /\ y = u)
    <3>1. /\ Leads(t, x, y) <=> Leads(s, x, y)
          /\ First(t, x, y) <=> First(s, x, y)
          /\ Twice(t, x, y) <=> Twice(s, x, y)
          /\ Leads(t, y, x) <=> Leads(s, y, x)
          /\ First(t, y, x) <=> First(s, y, x)
      BY <2>3 DEF Others
    <3>2. /\ x # y /\ Leads(s, y, x) => Leads(s, x, y) \/ First(s, y, x)
          /\ Twice(s, x, y) => ~First(s, x, y) /\ x # y /\ First(s, y, x)
      BY DEF Fair, Answered, TwiceOnly
    <3> QED  BY <3>1, <3>2
  <2> QED  BY <2>1, <2>2, <2>3
<1> QED  BY <1>1 DEF Fair, Answered, TwiceOnly

LEMMA PairOf ==
  ASSUME NEW s, NEW U, Fair(s, U), NEW u \in U, NEW v \in U, u # v
  PROVE  FairPair(s, u, v)
BY DEF Fair, Answered, TwiceOnly, FairPair

LEMMA AddedPair ==
  ASSUME NEW s, NEW t, NEW U, Base(s, U), NEW u \in U, NEW v \in U, u # v, Added(s, t, U, u, v)
  PROVE  /\ Leads(t, u, v)
         /\ Leads(t, v, u) <=> Leads(s, v, u)
         /\ First(t, u, v) <=> First(s, u, v) \/ s.edges[u] = Null
         /\ First(t, v, u) <=> First(s, v, u)
         /\ Twice(t, u, v) <=> Twice(s, u, v) \/ Leads(s, u, v)
         /\ Twice(t, v, u) <=> Twice(s, v, u)
         /\ Others(s, t, U, u, v) /\ Others(s, t, U, v, u)
<1>1. \A x, y \in U :
           /\ Leads(t, x, y) <=> Leads(s, x, y) \/ (x = u /\ y = v)
           /\ First(t, x, y) <=> First(s, x, y) \/ (x = u /\ y = v /\ s.edges[u] = Null)
           /\ Twice(t, x, y) <=> Twice(s, x, y) \/ (x = u /\ y = v /\ Leads(s, u, v))
  BY AddedLeads
<1>2. Others(s, t, U, u, v) /\ Others(s, t, U, v, u)
  BY <1>1 DEF Others
<1> QED  BY <1>1, <1>2

LEMMA OthersThen ==
  ASSUME NEW s, NEW t, NEW r, NEW U, NEW u \in U, NEW v \in U,
         Others(s, t, U, u, v), Others(t, r, U, u, v)
  PROVE  Others(s, r, U, u, v)
BY DEF Others

LEMMA OthersSame ==
  ASSUME NEW s, NEW U, NEW u, NEW v
  PROVE  Others(s, s, U, u, v)
BY DEF Others

(* A list that is empty leads nowhere.                                     *)
LEMMA NoneLeads ==
  ASSUME NEW s, NEW U, Base(s, U), NEW u \in U, s.edges[u] = Null, NEW v
  PROVE  ~Leads(s, u, v) /\ ~First(s, u, v) /\ ~Twice(s, u, v)
BY OutFacts DEF Leads, First, Twice

LEMMA FairSelf ==
  ASSUME NEW s, NEW t, NEW U, Fair(s, U), Base(t, U), NEW u \in U, Added(s, t, U, u, u),
         ~Leads(s, u, u)
  PROVE  Fair(t, U)
<1>1. \A x, y \in U :
           /\ Leads(t, x, y) <=> Leads(s, x, y) \/ (x = u /\ y = u)
           /\ First(t, x, y) <=> First(s, x, y) \/ (x = u /\ y = u /\ s.edges[u] = Null)
           /\ Twice(t, x, y) <=> Twice(s, x, y) \/ (x = u /\ y = u /\ Leads(s, u, u))
  BY AddedLeads DEF Fair
<1>2. ASSUME NEW x \in U, NEW y \in U
      PROVE  /\ x # y /\ Leads(t, y, x) => Leads(t, x, y) \/ First(t, y, x)
             /\ Twice(t, x, y) => ~First(t, x, y) /\ x # y /\ First(t, y, x)
  <2>1. /\ Leads(t, x, y) <=> Leads(s, x, y) \/ (x = u /\ y = u)
        /\ First(t, x, y) <=> First(s, x, y) \/ (x = u /\ y = u /\ s.edges[u] = Null)
        /\ Twice(t, x, y) <=> Twice(s, x, y)
        /\ Leads(t, y, x) <=> Leads(s, y, x) \/ (x = u /\ y = u)
        /\ First(t, y, x) <=> First(s, y, x) \/ (x = u /\ y = u /\ s.edges[u] = Null)
    BY <1>1
  <2>2. /\ x # y /\ Leads(s, y, x) => Leads(s, x, y) \/ First(s, y, x)
        /\ Twice(s, x, y) => ~First(s, x, y) /\ x # y /\ First(s, y, x)
    BY DEF Fair, Answered, TwiceOnly
  <2> QED  BY <2>1, <2>2
<1> QED  BY <1>2 DEF Fair, Answered, TwiceOnly

(* Other cells stay as they are.                                           *)
Kept(s, t) ==
  /\ s.live \subseteq t.live
  /\ \A x \in s.live : t.data[x] = s.data[x]
  /\ \A x \in t.live \ s.live : t.data[x] \in GNodes
  /\ \A x \in s.live \ EdgesIn(s) : t.next[x] = s.next[x]

LEMMA AddedKept ==
  ASSUME NEW s, NEW t, NEW U, Base(s, U), NEW u \in U, NEW v \in U, Added(s, t, U, u, v)
  PROVE  Kept(s, t)
<1>1. v \in GNodes /\ Out(s, u) \subseteq EdgesIn(s)
  BY OutFacts DEF Base
<1> QED  BY <1>1 DEF Added, Kept

LEMMA KeptThen ==
  ASSUME NEW s, NEW t, NEW r, Kept(s, t), Kept(t, r)
  PROVE  Kept(s, r)
<1>1. \A x \in s.live \ EdgesIn(s) : x \in t.live \ EdgesIn(t)
  BY DEF Kept, EdgesIn
<1> QED  BY <1>1 DEF Kept

LEMMA KeptSame == ASSUME NEW s PROVE Kept(s, s)
BY DEF Kept

-----------------------------------------------------------------------------
(* What the calls of EdgeGraph that make edges do.                         *)

Failed == Still /\ UNCHANGED graphVars /\ outcome' # "running"

Became(s, value) ==
  ~s.short /\ Lists' = s /\ UNCHANGED <<compare, up>> /\ rt' = value /\ outcome' = "running"

LEMMA FaultsIs == ASSUME NEW steps, Faults(steps) PROVE Failed
BY FailsStill DEF Faults, Failed

LEMMA BecomesIs ==
  ASSUME NEW s, IsLists(s), NEW value, Becomes(s, value)
  PROVE  Failed \/ Became(s, value)
<1>1. CASE Faults(-1)
  BY <1>1, FaultsIs
<1>2. CASE /\ ~s.short
           /\ live' = s.live /\ next' = s.next /\ data' = s.data /\ edges' = s.edges
           /\ Returns(value)
           /\ UNCHANGED <<compare, up>>
  <2>1. Lists' = [live |-> live', next |-> next', data |-> data', edges |-> edges', short |-> FALSE]
    BY DEF Lists
  <2>2. PICK l, x, d, e, h : s = [live |-> l, next |-> x, data |-> d, edges |-> e, short |-> h]
    BY DEF IsLists
  <2>3. l = live' /\ x = next' /\ d = data' /\ e = edges'
    BY <1>2, <2>2
  <2>4. s.short = FALSE
    <3>1. s.short \in BOOLEAN
      BY DEF IsLists
    <3> QED  BY <1>2, <3>1
  <2> QED  BY <1>2, <2>1, <2>2, <2>3, <2>4 DEF Became, Returns
<1> QED  BY <1>1, <1>2 DEF Becomes

LEMMA ReadyNow == ASSUME Base(Lists, up) PROVE Ready(Lists, up)
BY ListsIs DEF Ready

(* s has what the program has for v.                                       *)
SameAt(s, v) ==
  /\ s.edges[v] = edges[v] /\ Out(s, v) = Out(Lists, v)
  /\ \A x \in Out(s, v) : s.next[x] = next[x]

LEMMA AppendLast ==
  ASSUME live \subseteq Cells, NEW s, Ready(s, up), NEW u \in up, NEW v \in up, s.edges[u] # Null,
         SameAt(s, u), ~(ToLast(u) < 0),
         NEW n \in {Null, Junk, s.edges[u]}, NEW t, t = AppendEdge(s, LastEdge(u), v, n)
  PROVE  Short(t) \/ (Ready(t, up) /\ Added(s, t, up, u, v))
<1>1. PICK e : e = LastEdge(u)
  OBVIOUS
<1>2. e \in Out(Lists, u) /\ next[e] \in {Null, edges[u]}
  BY <1>1, LastEdgeIs
<1>3. e \in Out(s, u) /\ s.next[e] \in {Null, s.edges[u]}
  BY <1>2 DEF SameAt
<1> QED  BY <1>1, <1>3, AppendIs

LEMMA AddedSame ==
  ASSUME live \subseteq Cells, Base(Lists, up), NEW s, NEW u \in up, NEW v \in up, NEW w \in up,
         v # u, Added(Lists, s, up, u, w)
  PROVE  SameAt(s, v)
<1>1. Out(Lists, v) \subseteq EdgesIn(Lists) /\ Out(Lists, u) \cap Out(Lists, v) = {}
  BY OutFacts DEF Base
<1>2. Lists.live = live /\ Lists.next = next /\ Lists.edges = edges /\ EdgesIn(Lists) \subseteq live
  BY DEF Lists, EdgesIn
<1>3. \A x \in live \ Out(Lists, u) : s.next[x] = next[x]
  BY <1>2 DEF Added
<1>4. Out(s, v) = Out(Lists, v) /\ \A x \in Out(s, v) : s.next[x] = next[x]
  <2>1. Out(s, v) = Out(Lists, v)
    BY DEF Added
  <2> QED  BY <1>1, <1>2, <1>3, <2>1
<1>5. s.edges[v] = edges[v]
  BY <1>2 DEF Added
<1> QED  BY <1>4, <1>5 DEF SameAt

LEMMA SameNow == ASSUME NEW v PROVE SameAt(Lists, v)
BY DEF SameAt, Lists

LEMMA ShortFails ==
  ASSUME NEW s, Short(s), NEW value, Becomes(s, value)
  PROVE  Failed
BY FaultsIs DEF Short, Becomes

LEMMA ShortAppend ==
  ASSUME NEW s, Short(s), NEW e, NEW v, NEW n
  PROVE  Short(AppendEdge(s, e, v, n))
<1>1. PICK l, x, d, g, h : s = [live |-> l, next |-> x, data |-> d, edges |-> g, short |-> h]
  BY DEF Short, IsLists
<1>2. NewEdge(s, v, n) = [s EXCEPT !.short = TRUE] /\ s.live = Cells
  BY DEF NewEdge, Short
<1>3. NewEdge(s, v, n) = [live |-> l, next |-> x, data |-> d, edges |-> g, short |-> TRUE]
  BY <1>1, <1>2
<1>4. AppendEdge(s, e, v, n) = NewEdge(s, v, n)
  BY <1>3 DEF AppendEdge
<1>5. l = Cells
  BY <1>1, <1>2
<1> HIDE DEF NewEdge
<1>6. PICK t : t = [live |-> Cells, next |-> x, data |-> d, edges |-> g, short |-> TRUE]
  OBVIOUS
<1>7. t.short /\ t.live = Cells /\ IsLists(t)
  BY <1>6 DEF IsLists
<1> QED  BY <1>3, <1>4, <1>5, <1>6, <1>7 DEF Short

LEMMA BetaShort ==
  ASSUME NEW s, Short(s), NEW u, NEW v, NEW n, NEW value, ConnectBeta(s, u, v, n, value)
  PROVE  Failed
<1>1. \/ Becomes(s, value)
      \/ Faults(ToLast(v))
      \/ Becomes(AppendEdge(s, LastEdge(v), u, n), value + 4)
      \/ Becomes(AppendEdge(s, LastEdge(v), u, edges[v]), value + 8)
  BY DEF ConnectBeta
<1> QED  BY <1>1, FaultsIs, ShortFails, ShortAppend

BetaDone(s, u, v) ==
  \E r, k : /\ Ready(r, up) /\ k \in Nat /\ Became(r, k)
            /\ \/ First(s, v, u) /\ r = s
               \/ ~First(s, v, u) /\ Added(s, r, up, v, u)

LEMMA BetaIs ==
  ASSUME live \subseteq Cells, NEW s, Ready(s, up), NEW u \in up, NEW v \in up,
         s.edges[v] # Null, First(s, v, u) \/ SameAt(s, v),
         NEW n \in {Null, Junk}, NEW value \in Nat, ConnectBeta(s, u, v, n, value)
  PROVE  Failed \/ BetaDone(s, u, v)
<1>1. CASE s.data[s.edges[v]] = u
  <2>1. Becomes(s, value) /\ First(s, v, u) /\ IsLists(s)
    BY <1>1 DEF ConnectBeta, First, Ready
  <2>2. Failed \/ Became(s, value)
    BY <2>1, BecomesIs
  <2> QED  BY <2>1, <2>2 DEF BetaDone
<1>2. CASE s.data[s.edges[v]] # u
  <2>1. ~First(s, v, u) /\ SameAt(s, v)
    BY <1>2 DEF First
  <2>2. CASE ToLast(v) < 0
    <3>1. Faults(ToLast(v))
      BY <1>2, <2>2 DEF ConnectBeta
    <3> QED  BY <3>1, FaultsIs
  <2>3. CASE ~(ToLast(v) < 0)
    <3>1. \E m \in {Null, Junk, s.edges[v]} : \E k \in Nat :
            Becomes(AppendEdge(s, LastEdge(v), u, m), k)
      <4>1. \/ Becomes(AppendEdge(s, LastEdge(v), u, n), value + 4)
            \/ Becomes(AppendEdge(s, LastEdge(v), u, s.edges[v]), value + 8)
        BY <1>2, <2>1, <2>3 DEF ConnectBeta, SameAt
      <4>2. value + 4 \in Nat /\ value + 8 \in Nat
        OBVIOUS
      <4> QED  BY <4>1, <4>2
    <3>2. PICK m \in {Null, Junk, s.edges[v]}, k \in Nat :
            Becomes(AppendEdge(s, LastEdge(v), u, m), k)
      BY <3>1
    <3>3. PICK t : t = AppendEdge(s, LastEdge(v), u, m)
      OBVIOUS
    <3>4. Short(t) \/ (Ready(t, up) /\ Added(s, t, up, v, u))
      BY <2>1, <2>3, <3>3, AppendLast
    <3>5. Becomes(t, k)
      BY <3>2, <3>3
    <3>6. CASE Short(t)
      BY <3>5, <3>6, ShortFails
    <3>7. CASE Ready(t, up) /\ Added(s, t, up, v, u)
      <4>1. Failed \/ Became(t, k)
        BY <3>5, <3>7, BecomesIs DEF Ready
      <4> QED  BY <2>1, <3>7, <4>1 DEF BetaDone
    <3> QED  BY <3>4, <3>6, <3>7
  <2> QED  BY <2>2, <2>3
<1> QED  BY <1>1, <1>2

-----------------------------------------------------------------------------
(* node_connect.                                                           *)

None(s, u) == s.edges[u] = Null

LEMMA AddedEdges ==
  ASSUME NEW s, NEW t, NEW U, Base(s, U), NEW u \in U, NEW v \in U, Added(s, t, U, u, v)
  PROVE  \A x \in U : None(t, x) <=> None(s, x) /\ x # u
<1>1. PICK c \in Cells : t.edges = IF s.edges[u] = Null THEN [s.edges EXCEPT ![u] = c] ELSE s.edges
  BY DEF Added
<1>2. c # Null /\ s.edges \in [GNodes -> Cells \cup {Null}] /\ U \subseteq GNodes
  BY ListAssumption DEF Base
<1> QED  BY <1>1, <1>2 DEF None

(* The two are joined both ways, or a list of u that ends does not lead    *)
(* to v.                                                                   *)
JoinedIn(s, u, v) ==
  \/ Leads(s, u, v) /\ Leads(s, v, u)
  \/ ~Leads(Lists, u, v) /\ edges[u] # Null /\ Ends0(edges[u])

Settled(s, u, v) ==
  Ready(s, up) /\ Fair(s, up) /\ Kept(Lists, s) /\ JoinedIn(s, u, v)

Settles(u, v) == \E r, k : Settled(r, u, v) /\ k \in Nat /\ Became(r, k)

(* There is an edge from u to v; one from v to u may be missing.           *)
Halfway(s, u, v) ==
  /\ Ready(s, up) /\ Kept(Lists, s) /\ Others(Lists, s, up, u, v)
  /\ s.edges[v] # Null
  /\ First(s, v, u) \/ SameAt(s, v)
  /\ Leads(s, u, v)
  /\ (Twice(s, u, v) => ~First(s, u, v) /\ First(s, v, u))
  /\ (Twice(s, v, u) => ~First(s, v, u) /\ First(s, u, v))
  /\ (Leads(s, v, u) => First(s, v, u) \/ First(s, u, v))

LEMMA BetaSettles ==
  ASSUME live \subseteq Cells, Fair(Lists, up), NEW s, NEW u \in up, NEW v \in up, u # v,
         Halfway(s, u, v), NEW n \in {Null, Junk}, NEW value \in Nat, ConnectBeta(s, u, v, n, value)
  PROVE  Failed \/ Settles(u, v)
<1>1. /\ Ready(s, up) /\ Kept(Lists, s) /\ Others(Lists, s, up, u, v)
      /\ s.edges[v] # Null
      /\ First(s, v, u) \/ SameAt(s, v)
      /\ Leads(s, u, v)
      /\ (Twice(s, u, v) => ~First(s, u, v) /\ First(s, v, u))
      /\ (Twice(s, v, u) => ~First(s, v, u) /\ First(s, u, v))
      /\ (Leads(s, v, u) => First(s, v, u) \/ First(s, u, v))
  BY DEF Halfway
<1>2. Failed \/ BetaDone(s, u, v)
  BY <1>1, BetaIs
<1>3. ASSUME NEW r, NEW k, Ready(r, up), k \in Nat, Became(r, k), First(s, v, u), r = s
      PROVE  Settles(u, v)
  <2>1. Leads(s, v, u)
    BY <1>1, <1>3, FirstLeads DEF Ready
  <2>2. FairPair(s, u, v)
    BY <1>1, <1>3, <2>1 DEF FairPair
  <2>3. Fair(s, up)
    BY <1>1, <2>2, FairThen DEF Ready
  <2>4. Settled(r, u, v)
    BY <1>1, <1>3, <2>1, <2>3 DEF Settled, JoinedIn
  <2> QED  BY <1>3, <2>4 DEF Settles
<1>4. ASSUME NEW r, NEW k, Ready(r, up), k \in Nat, Became(r, k), ~First(s, v, u),
             Added(s, r, up, v, u)
      PROVE  Settles(u, v)
  <2>1. /\ Leads(r, v, u)
        /\ Leads(r, u, v) <=> Leads(s, u, v)
        /\ First(r, v, u) <=> First(s, v, u) \/ s.edges[v] = Null
        /\ First(r, u, v) <=> First(s, u, v)
        /\ Twice(r, v, u) <=> Twice(s, v, u) \/ Leads(s, v, u)
        /\ Twice(r, u, v) <=> Twice(s, u, v)
        /\ Others(s, r, up, u, v)
    BY <1>1, <1>4, AddedPair DEF Ready
  <2>2. FairPair(r, u, v)
    BY <1>1, <1>4, <2>1 DEF FairPair
  <2>3. Others(Lists, r, up, u, v)
    BY <1>1, <2>1, OthersThen
  <2>4. Fair(r, up)
    BY <1>4, <2>2, <2>3, FairThen DEF Ready
  <2>5. Kept(Lists, r)
    <3>1. Kept(s, r)
      BY <1>1, <1>4, AddedKept DEF Ready
    <3> QED  BY <1>1, <3>1, KeptThen
  <2>6. Settled(r, u, v)
    BY <1>1, <1>4, <2>1, <2>4, <2>5 DEF Settled, JoinedIn
  <2> QED  BY <1>4, <2>6 DEF Settles
<1>5. BetaDone(s, u, v) => Settles(u, v)
  BY <1>3, <1>4 DEF BetaDone
<1> QED  BY <1>2, <1>5

(* The first of them has no edges.                                         *)
LEMMA ConnectFromNone ==
  ASSUME live \subseteq Cells, Fair(Lists, up), NEW u \in up, NEW v \in up, u # v,
         NEW n \in {Null, Junk}, NEW m \in {Null, Junk},
         ConnectDistinct(u, v, n, m), edges[u] = Null
  PROVE  Failed \/ Settles(u, v)
<1>1. PICK s : s = StartList(Lists, u, v, n)
  OBVIOUS
<1>2. IF edges[v] = Null THEN Becomes(StartList(s, v, u, m), 0) ELSE ConnectBeta(s, u, v, m, 0)
  BY <1>1 DEF ConnectDistinct
<1>3. Base(Lists, up) /\ Ready(Lists, up) /\ Lists.edges = edges
  BY ReadyNow DEF Fair, Lists
<1>4. Short(s) \/ (Ready(s, up) /\ Added(Lists, s, up, u, v))
  BY <1>1, <1>3, StartIs
<1>5. CASE Short(s)
  <2>1. CASE edges[v] = Null
    <3>1. NewEdge(s, u, m) = [s EXCEPT !.short = TRUE]
      BY <1>5 DEF NewEdge, Short
    <3>2. PICK l, x, d, e, h : s = [live |-> l, next |-> x, data |-> d, edges |-> e, short |-> h]
      BY <1>5 DEF Short, IsLists
    <3>3. NewEdge(s, u, m) = [live |-> l, next |-> x, data |-> d, edges |-> e, short |-> TRUE]
      BY <3>1, <3>2
    <3>4. StartList(s, v, u, m) = NewEdge(s, u, m)
      BY <3>3 DEF StartList
    <3>5. PICK t : t = [live |-> Cells, next |-> x, data |-> d, edges |-> e, short |-> TRUE]
      OBVIOUS
    <3>6. Short(t)
      BY <3>5 DEF Short, IsLists
    <3>7. l = Cells
      BY <1>5, <3>2 DEF Short
    <3>8. Becomes(t, 0)
      BY <1>2, <2>1, <3>3, <3>4, <3>5, <3>7
    <3> QED  BY <3>6, <3>8, ShortFails
  <2>2. CASE edges[v] # Null
    BY <1>2, <1>5, <2>2, BetaShort
  <2> QED  BY <2>1, <2>2
<1>6. CASE Ready(s, up) /\ Added(Lists, s, up, u, v)
  <2>1. ~Leads(Lists, u, v) /\ ~First(Lists, u, v) /\ ~Twice(Lists, u, v)
    BY <1>3, NoneLeads
  <2>2. FairPair(Lists, u, v)
    BY PairOf
  <2>3. /\ Leads(s, u, v)
        /\ Leads(s, v, u) <=> Leads(Lists, v, u)
        /\ First(s, u, v)
        /\ First(s, v, u) <=> First(Lists, v, u)
        /\ Twice(s, u, v) <=> Twice(Lists, u, v) \/ Leads(Lists, u, v)
        /\ Twice(s, v, u) <=> Twice(Lists, v, u)
        /\ Others(Lists, s, up, u, v)
    BY <1>3, <1>6, AddedPair
  <2>4. Kept(Lists, s)
    BY <1>3, <1>6, AddedKept
  <2>5. s.edges[v] # Null <=> edges[v] # Null
    <3>1. None(s, v) <=> None(Lists, v) /\ v # u
      BY <1>3, <1>6, AddedEdges
    <3> QED  BY <1>3, <3>1 DEF None
  <2>6. CASE edges[v] = Null
    <3>1. PICK r : r = StartList(s, v, u, m)
      OBVIOUS
    <3>2. Short(r) \/ (Ready(r, up) /\ Added(s, r, up, v, u))
      BY <1>6, <2>5, <2>6, <3>1, StartIs
    <3>3. Becomes(r, 0)
      BY <1>2, <2>6, <3>1
    <3>4. CASE Short(r)
      BY <3>3, <3>4, ShortFails
    <3>5. CASE Ready(r, up) /\ Added(s, r, up, v, u)
      <4>1. ~Leads(s, v, u) /\ ~First(s, v, u) /\ ~Twice(s, v, u)
        BY <1>6, <2>5, <2>6, NoneLeads DEF Ready
      <4>2. /\ Leads(r, v, u)
            /\ Leads(r, u, v) <=> Leads(s, u, v)
            /\ First(r, v, u)
            /\ First(r, u, v) <=> First(s, u, v)
            /\ Twice(r, v, u) <=> Twice(s, v, u) \/ Leads(s, v, u)
            /\ Twice(r, u, v) <=> Twice(s, u, v)
            /\ Others(s, r, up, u, v)
        BY <1>6, <2>5, <2>6, <3>5, AddedPair DEF Ready
      <4>3. FairPair(r, u, v)
        BY <2>1, <2>3, <4>1, <4>2 DEF FairPair
      <4>4. Fair(r, up)
        <5>1. Others(Lists, r, up, u, v)
          BY <2>3, <4>2, OthersThen
        <5> QED  BY <3>5, <4>3, <5>1, FairThen DEF Ready
      <4>5. Kept(Lists, r)
        <5>1. Kept(s, r)
          BY <1>6, <3>5, AddedKept DEF Ready
        <5> QED  BY <2>4, <5>1, KeptThen
      <4>6. Settled(r, u, v)
        BY <2>3, <3>5, <4>2, <4>4, <4>5 DEF Settled, JoinedIn
      <4>7. Failed \/ Became(r, 0)
        BY <3>3, <3>5, BecomesIs DEF Ready
      <4>8. 0 \in Nat
        OBVIOUS
      <4> QED  BY <4>6, <4>7, <4>8 DEF Settles
    <3> QED  BY <3>2, <3>4, <3>5
  <2>7. CASE edges[v] # Null
    <3>1. SameAt(s, v)
      BY <1>3, <1>6, AddedSame
    <3>2. Halfway(s, u, v)
      BY <1>6, <2>1, <2>2, <2>3, <2>4, <2>5, <2>7, <3>1 DEF Halfway, FairPair
    <3>3. 0 \in Nat
      OBVIOUS
    <3> QED  BY <1>2, <2>7, <3>2, <3>3, BetaSettles
  <2> QED  BY <2>6, <2>7
<1> QED  BY <1>4, <1>5, <1>6

(* The first of them has edges; s has what the second was given.           *)
LEMMA ListedSettles ==
  ASSUME live \subseteq Cells, Fair(Lists, up), NEW u \in up, NEW v \in up, u # v,
         edges[u] # Null, ~First(Lists, u, v), NEW s, Ready(s, up),
         \/ s = Lists /\ edges[v] # Null
         \/ edges[v] = Null /\ Added(Lists, s, up, v, u),
         NEW m \in {Null, Junk}, ConnectListed(s, u, v, m)
  PROVE  Failed \/ Settles(u, v)
<1>1. Base(Lists, up) /\ Ready(Lists, up) /\ Lists.edges = edges
  BY ReadyNow DEF Fair, Lists
<1>2. FairPair(Lists, u, v)
  BY PairOf
<1>3. /\ Leads(s, u, v) <=> Leads(Lists, u, v)
      /\ First(s, u, v) <=> First(Lists, u, v)
      /\ Twice(s, u, v) <=> Twice(Lists, u, v)
      /\ Others(Lists, s, up, u, v) /\ Kept(Lists, s) /\ SameAt(s, u)
      /\ s.edges[u] # Null /\ s.edges[v] # Null
  <2>1. CASE s = Lists /\ edges[v] # Null
    BY <1>1, <2>1, OthersSame, KeptSame, SameNow
  <2>2. CASE edges[v] = Null /\ Added(Lists, s, up, v, u)
    <3>1. Others(Lists, s, up, u, v) /\ Kept(Lists, s) /\ SameAt(s, u)
      BY <1>1, <2>2, AddedPair, AddedKept, AddedSame
    <3>2. None(s, u) <=> None(Lists, u) /\ u # v
      BY <1>1, <2>2, AddedEdges
    <3>3. None(s, v) <=> None(Lists, v) /\ v # v
      BY <1>1, <2>2, AddedEdges
    <3>4. /\ Leads(s, u, v) <=> Leads(Lists, u, v)
          /\ First(s, u, v) <=> First(Lists, u, v)
          /\ Twice(s, u, v) <=> Twice(Lists, u, v)
      BY <1>1, <2>2, AddedPair
    <3> QED  BY <1>1, <3>1, <3>2, <3>3, <3>4 DEF None
  <2> QED  BY <2>1, <2>2
<1>4. \/ /\ s = Lists
      \/ /\ edges[v] = Null /\ ~Leads(Lists, v, u) /\ ~First(Lists, v, u) /\ ~Twice(Lists, v, u)
         /\ Added(Lists, s, up, v, u)
         /\ Leads(s, v, u) /\ First(s, v, u) /\ ~Twice(s, v, u)
  <2>1. CASE s = Lists
    BY <2>1
  <2>2. CASE edges[v] = Null /\ Added(Lists, s, up, v, u)
    <3>1. ~Leads(Lists, v, u) /\ ~First(Lists, v, u) /\ ~Twice(Lists, v, u)
      BY <1>1, <2>2, NoneLeads
    <3>2. /\ Leads(s, v, u)
          /\ First(s, v, u) <=> First(Lists, v, u) \/ Lists.edges[v] = Null
          /\ Twice(s, v, u) <=> Twice(Lists, v, u) \/ Leads(Lists, v, u)
      BY <1>1, <2>2, AddedPair
    <3> QED  BY <1>1, <2>2, <3>1, <3>2
  <2> QED  BY <2>1, <2>2
<1>5. CASE Connected(u, v) \in {-1, -2}
  <2>1. PICK k : k = Connected(u, v)
    OBVIOUS
  <2>2. Faults(k)
    <3>1. (CASE k \in {-1, -2} -> Faults(k)
             [] k \in {1, 2}   -> Becomes(s, 0)
             [] k = -3 -> ConnectBeta(AppendEdge(s, LastEdge(u), v, edges[u]), u, v, m, 0))
      BY <2>1 DEF ConnectListed
    <3>2. k \in {-1, -2} /\ k \notin {1, 2} /\ k # -3
      BY <1>5, <2>1
    <3> HIDE DEF Faults, Becomes, ConnectBeta, AppendEdge, LastEdge
    <3> QED  BY <3>1, <3>2
  <2> QED  BY <2>2, FaultsIs
<1>6. CASE \/ Connected(u, v) = 1 /\ Leads(Lists, u, v)
           \/ Connected(u, v) = 2 /\ ~Leads(Lists, u, v) /\ Ends0(edges[u])
  <2>1. Becomes(s, 0)
    <3>1. PICK k : k = Connected(u, v)
      OBVIOUS
    <3>2. (CASE k \in {-1, -2} -> Faults(k)
             [] k \in {1, 2}   -> Becomes(s, 0)
             [] k = -3 -> ConnectBeta(AppendEdge(s, LastEdge(u), v, edges[u]), u, v, m, 0))
      BY <3>1 DEF ConnectListed
    <3>3. k \notin {-1, -2} /\ k \in {1, 2} /\ k # -3
      BY <1>6, <3>1
    <3> QED  BY <3>2, <3>3
  <2>2. FairPair(s, u, v)
    BY <1>2, <1>3, <1>4 DEF FairPair
  <2>3. Fair(s, up)
    BY <1>3, <2>2, FairThen DEF Ready
  <2>4. JoinedIn(s, u, v)
    BY <1>2, <1>3, <1>4, <1>6 DEF JoinedIn, FairPair
  <2>5. Settled(s, u, v)
    BY <1>3, <2>3, <2>4 DEF Settled
  <2>6. Failed \/ Became(s, 0)
    BY <2>1, BecomesIs DEF Ready
  <2>7. 0 \in Nat
    OBVIOUS
  <2> QED  BY <2>5, <2>6, <2>7 DEF Settles
<1>7. CASE Connected(u, v) = -3 /\ ~Leads(Lists, u, v) /\ LastThere(u)
  <2>1. PICK t : t = AppendEdge(s, LastEdge(u), v, edges[u])
    OBVIOUS
  <2>2. ConnectBeta(t, u, v, m, 0)
    BY <1>7, <2>1 DEF ConnectListed
  <2>3. ~(ToLast(u) < 0) /\ edges[u] = s.edges[u]
    BY <1>3, <1>7, ToLastEnds DEF SameAt
  <2>4. Short(t) \/ (Ready(t, up) /\ Added(s, t, up, u, v))
    BY <1>3, <2>1, <2>3, AppendLast
  <2>5. CASE Short(t)
    BY <2>2, <2>5, BetaShort
  <2>6. CASE Ready(t, up) /\ Added(s, t, up, u, v)
    <3>1. /\ Leads(t, u, v)
          /\ Leads(t, v, u) <=> Leads(s, v, u)
          /\ First(t, u, v) <=> First(s, u, v) \/ s.edges[u] = Null
          /\ First(t, v, u) <=> First(s, v, u)
          /\ Twice(t, u, v) <=> Twice(s, u, v) \/ Leads(s, u, v)
          /\ Twice(t, v, u) <=> Twice(s, v, u)
          /\ Others(s, t, up, u, v)
      BY <2>6, AddedPair DEF Ready
    <3>2. ~Twice(Lists, u, v)
      BY <1>7 DEF Twice, Leads
    <3>3. Others(Lists, t, up, u, v) /\ Kept(Lists, t)
      <4>1. Kept(s, t)
        BY <2>6, AddedKept DEF Ready
      <4> QED  BY <1>3, <3>1, <4>1, KeptThen, OthersThen
    <3>4. t.edges[v] # Null
      <4>1. None(t, v) <=> None(s, v) /\ v # u
        BY <2>6, AddedEdges DEF Ready
      <4> QED  BY <1>3, <4>1 DEF None
    <3>5. First(t, v, u) \/ SameAt(t, v)
      <4>1. s = Lists => SameAt(t, v)
        BY <1>1, <2>6, AddedSame
      <4> QED  BY <1>4, <3>1, <4>1
    <3>6. ~Twice(t, u, v) /\ (Twice(t, v, u) => ~First(t, v, u) /\ First(t, u, v))
      BY <1>2, <1>3, <1>4, <1>7, <3>1, <3>2 DEF FairPair
    <3>7. Leads(t, v, u) => First(t, v, u) \/ First(t, u, v)
      BY <1>2, <1>3, <1>4, <1>7, <3>1 DEF FairPair
    <3>8. Halfway(t, u, v)
      BY <2>6, <3>1, <3>3, <3>4, <3>5, <3>6, <3>7 DEF Halfway
    <3>9. 0 \in Nat
      OBVIOUS
    <3> QED  BY <2>2, <3>8, <3>9, BetaSettles
  <2> QED  BY <2>4, <2>5, <2>6
<1> QED  BY <1>5, <1>6, <1>7, ConnectedSays

LEMMA ConnectFromSome ==
  ASSUME live \subseteq Cells, Fair(Lists, up), NEW u \in up, NEW v \in up, u # v,
         NEW n \in {Null, Junk}, NEW m \in {Null, Junk},
         ConnectDistinct(u, v, n, m), edges[u] # Null
  PROVE  Failed \/ Settles(u, v)
<1>1. PICK s : s = IF edges[v] = Null THEN StartList(Lists, v, u, n) ELSE Lists
  OBVIOUS
<1>2. IF s.short THEN Becomes(s, 0)
      ELSE IF data[edges[u]] = v THEN ConnectBeta(s, u, v, m, 0)
      ELSE ConnectListed(s, u, v, m)
  BY <1>1 DEF ConnectDistinct
<1>3. Base(Lists, up) /\ Ready(Lists, up) /\ Lists.edges = edges /\ Lists.data = data
  BY ReadyNow DEF Fair, Lists
<1>4. \/ Short(s)
      \/ Ready(s, up) /\ s = Lists /\ edges[v] # Null
      \/ Ready(s, up) /\ edges[v] = Null /\ Added(Lists, s, up, v, u)
  <2>1. CASE edges[v] # Null
    BY <1>1, <1>3, <2>1
  <2>2. CASE edges[v] = Null
    <3>1. Short(s) \/ (Ready(s, up) /\ Added(Lists, s, up, v, u))
      BY <1>1, <1>3, <2>2, StartIs
    <3> QED  BY <2>2, <3>1
  <2> QED  BY <2>1, <2>2
<1>5. CASE Short(s)
  <2>1. Becomes(s, 0)
    BY <1>2, <1>5 DEF Short
  <2> QED  BY <1>5, <2>1, ShortFails
<1>6. CASE /\ Ready(s, up)
           /\ \/ s = Lists /\ edges[v] # Null
              \/ edges[v] = Null /\ Added(Lists, s, up, v, u)
  <2>1. CASE data[edges[u]] # v
    <3>1. ConnectListed(s, u, v, m) /\ ~First(Lists, u, v)
      BY <1>2, <1>3, <1>6, <2>1 DEF Ready, First
    <3> QED  BY <1>6, <3>1, ListedSettles
  <2>2. CASE data[edges[u]] = v
    <3>1. ConnectBeta(s, u, v, m, 0) /\ First(Lists, u, v) /\ FairPair(Lists, u, v)
      BY <1>2, <1>3, <1>6, <2>2, PairOf DEF Ready, First
    <3>2. Leads(Lists, u, v)
      BY <1>3, <3>1, FirstLeads
    <3>3. Halfway(s, u, v)
      <4>1. CASE s = Lists /\ edges[v] # Null
        <5>1. Others(Lists, s, up, u, v) /\ Kept(Lists, s) /\ SameAt(s, v)
          BY <4>1, OthersSame, KeptSame, SameNow
        <5> QED  BY <1>3, <3>1, <3>2, <4>1, <5>1 DEF Halfway, FairPair
      <4>2. CASE edges[v] = Null /\ Added(Lists, s, up, v, u)
        <5>1. ~Leads(Lists, v, u) /\ ~First(Lists, v, u) /\ ~Twice(Lists, v, u)
          BY <1>3, <4>2, NoneLeads
        <5>2. /\ Leads(s, v, u)
              /\ Leads(s, u, v) <=> Leads(Lists, u, v)
              /\ First(s, v, u) <=> First(Lists, v, u) \/ Lists.edges[v] = Null
              /\ First(s, u, v) <=> First(Lists, u, v)
              /\ Twice(s, v, u) <=> Twice(Lists, v, u) \/ Leads(Lists, v, u)
              /\ Twice(s, u, v) <=> Twice(Lists, u, v)
              /\ Others(Lists, s, up, u, v)
          BY <1>3, <4>2, AddedPair
        <5>3. First(s, v, u) /\ s.edges[v] # Null
          BY <1>3, <4>2, <5>2 DEF First
        <5>4. Kept(Lists, s)
          BY <1>3, <4>2, AddedKept
        <5> QED  BY <1>6, <3>1, <3>2, <5>1, <5>2, <5>3, <5>4 DEF Halfway, FairPair
      <4> QED  BY <1>6, <4>1, <4>2
    <3>4. 0 \in Nat
      OBVIOUS
    <3> QED  BY <3>1, <3>3, <3>4, BetaSettles
  <2> QED  BY <2>1, <2>2
<1> QED  BY <1>4, <1>5, <1>6

-----------------------------------------------------------------------------
(* Every step of the graph.                                                *)

LEMMA FairAlike ==
  ASSUME NEW s, NEW t, NEW U, NEW W, Fair(s, U), Base(t, W), W \subseteq U,
         \A x \in W : /\ t.edges[x] = s.edges[x] /\ Out(t, x) = Out(s, x)
                      /\ \A c \in Out(s, x) : t.data[c] = s.data[c]
  PROVE  Fair(t, W)
<1>1. ASSUME NEW x \in W, NEW y \in W
      PROVE  /\ Leads(t, x, y) <=> Leads(s, x, y)
             /\ First(t, x, y) <=> First(s, x, y)
             /\ Twice(t, x, y) <=> Twice(s, x, y)
  <2>1. /\ t.edges[x] = s.edges[x] /\ Out(t, x) = Out(s, x)
        /\ \A c \in Out(s, x) : t.data[c] = s.data[c]
    OBVIOUS
  <2>2. s.edges[x] # Null => s.edges[x] \in Out(s, x)
    BY OutFacts DEF Fair
  <2> QED  BY <2>1, <2>2 DEF Leads, First, Twice
<1>2. \A x, y \in W :
        /\ x # y /\ Leads(s, y, x) => Leads(s, x, y) \/ First(s, y, x)
        /\ Twice(s, x, y) => ~First(s, x, y) /\ x # y /\ First(s, y, x)
  BY DEF Fair, Answered, TwiceOnly
<1> QED  BY <1>1, <1>2 DEF Fair, Answered, TwiceOnly

LEMMA ListsNext ==
  /\ Lists' = [live |-> live', next |-> next', data |-> data', edges |-> edges', short |-> FALSE]
  /\ Lists = [live |-> live, next |-> next, data |-> data, edges |-> edges, short |-> FALSE]
BY DEF Lists

(* What a step of the graph leaves.                                        *)
GraphKept == Fair(Lists', up') /\ Kept(Lists, Lists')

LEMMA StillKept ==
  ASSUME Fair(Lists, up), Still, UNCHANGED <<edges, up>>
  PROVE  GraphKept
<1>1. Lists' = Lists
  BY ListsNext DEF Still
<1> QED  BY <1>1, KeptSame DEF GraphKept

LEMMA InitKept ==
  ASSUME Fair(Lists, up), NEW u \in GNodes, u \notin up, up' = up \cup {u},
         edges' = [edges EXCEPT ![u] = Null], Still
  PROVE  GraphKept
<1>1. PICK s, t : s = Lists /\ t = Lists'
  OBVIOUS
<1>2. /\ t.live = s.live /\ t.next = s.next /\ t.data = s.data
      /\ t.edges = [s.edges EXCEPT ![u] = Null]
  BY <1>1, ListsNext DEF Still
<1>3. Fair(s, up) /\ Base(s, up)
  BY <1>1 DEF Fair
<1>4. \A x \in up : t.edges[x] = s.edges[x] /\ Out(t, x) = Out(s, x)
  BY <1>2, <1>3 DEF Base, Out
<1>5. t.edges[u] = Null /\ Out(t, u) = {}
  <2>1. t.edges[u] = Null
    BY <1>2, <1>3 DEF Base
  <2>2. Null \notin s.live /\ s.live \in SUBSET Cells
    BY <1>3, ListAssumption DEF Base
  <2>3. Reach(s.next, s.live, Null) = {}
    BY <2>2, ReachFacts
  <2> QED  BY <1>2, <2>1, <2>3 DEF Out
<1>6. EdgesIn(t) = EdgesIn(s)
  BY <1>2 DEF EdgesIn
<1>7. Base(t, up \cup {u})
  <2>1. t.edges \in [GNodes -> Cells \cup {Null}]
    BY <1>2, <1>3 DEF Base
  <2> QED  BY <1>2, <1>3, <1>4, <1>5, <1>6, <2>1 DEF Base
<1>8. \A x \in up : ~Leads(s, x, u)
  BY <1>3 DEF Base, Leads
<1>9. \A x \in up : \A y :
        /\ Leads(t, x, y) <=> Leads(s, x, y)
        /\ First(t, x, y) <=> First(s, x, y)
        /\ Twice(t, x, y) <=> Twice(s, x, y)
  BY <1>2, <1>4 DEF Leads, First, Twice
<1>10. \A y : ~Leads(t, u, y) /\ ~First(t, u, y) /\ ~Twice(t, u, y)
  BY <1>5 DEF Leads, First, Twice
<1>11. \A x \in up : ~Leads(t, x, u) /\ ~First(t, x, u) /\ ~Twice(t, x, u)
  <2>1. ASSUME NEW x \in up PROVE ~Leads(s, x, u) /\ ~First(s, x, u) /\ ~Twice(s, x, u)
    <3>1. First(s, x, u) => Leads(s, x, u)
      BY <1>3, FirstLeads
    <3>2. Twice(s, x, u) => Leads(s, x, u)
      BY DEF Twice, Leads
    <3> QED  BY <1>8, <3>1, <3>2
  <2> QED  BY <1>9, <2>1
<1>12. Fair(t, up \cup {u})
  <2>1. ASSUME NEW x \in up \cup {u}, NEW y \in up \cup {u}
        PROVE  /\ x # y /\ Leads(t, y, x) => Leads(t, x, y) \/ First(t, y, x)
               /\ Twice(t, x, y) => ~First(t, x, y) /\ x # y /\ First(t, y, x)
    <3>1. CASE x = u \/ y = u
      BY <1>10, <1>11, <3>1
    <3>2. CASE x \in up /\ y \in up
      <4>1. /\ x # y /\ Leads(s, y, x) => Leads(s, x, y) \/ First(s, y, x)
            /\ Twice(s, x, y) => ~First(s, x, y) /\ x # y /\ First(s, y, x)
        BY <1>3, <3>2 DEF Fair, Answered, TwiceOnly
      <4> QED  BY <1>9, <3>2, <4>1
    <3> QED  BY <3>1, <3>2
  <2> QED  BY <1>7, <2>1 DEF Fair, Answered, TwiceOnly
<1>13. Kept(s, t)
  BY <1>2 DEF Kept
<1> QED  BY <1>1, <1>12, <1>13 DEF GraphKept

LEMMA FreeKept ==
  ASSUME Fair(Lists, up), NEW u \in up, up' = up \ {u}, UNCHANGED edges, Still,
         \A v \in up \ {u} : \A c \in Chain(edges[v]) : data[c] # u
  PROVE  GraphKept
<1>1. PICK s : s = Lists
  OBVIOUS
<1>2. Lists' = s
  BY <1>1, ListsNext DEF Still
<1>3. Base(s, up) /\ Fair(s, up)
  BY <1>1 DEF Fair
<1>4. \A v \in up \ {u} : \A c \in Out(s, v) : s.data[c] # u
  BY <1>1, OutChain, ListsNext
<1>5. Base(s, up \ {u})
  BY <1>3, <1>4 DEF Base
<1>6. Fair(s, up \ {u})
  BY <1>3, <1>5, FairAlike
<1> QED  BY <1>1, <1>2, <1>6, KeptSame DEF GraphKept

LEMMA CloseKept ==
  ASSUME Fair(Lists, up), NEW u \in up, edges[u] # Null,
         list_add(edges[u], edges[u]), UNCHANGED <<edges, up>>
  PROVE  GraphKept
<1>1. PICK s, t : s = Lists /\ t = Lists'
  OBVIOUS
<1>2. Base(s, up) /\ Fair(s, up) /\ live \subseteq Cells /\ s.edges = edges
  BY <1>1, ListsNext DEF Fair, Base
<1>3. CASE Still
  BY <1>3, StillKept
<1>4. ASSUME NEW e \in Chain(edges[u]), next[e] = Null,
             next' = [next EXCEPT ![e] = edges[u]], UNCHANGED <<live, data>>
      PROVE  GraphKept
  <2>1. e \in Out(s, u) /\ s.next[e] = Null /\ t.next = [s.next EXCEPT ![e] = s.edges[u]]
        /\ t.live = s.live /\ t.data = s.data /\ t.edges = s.edges
    BY <1>1, <1>4, OutChain, ListsNext
  <2>2. \A x \in up : /\ Out(s, x) \subseteq EdgesIn(s)
                      /\ s.edges[x] # Null => s.edges[x] \in Out(s, x)
    BY <1>2, OutFacts
  <2>3. EdgesIn(t) = EdgesIn(s) /\ EdgesIn(s) \subseteq s.live /\ s.live \in SUBSET Cells
    BY <1>2, <2>1 DEF EdgesIn, Base
  <2>4. s.edges[u] \in EdgesIn(s) /\ s.edges[u] # Null
    BY <1>2, <2>2
  <2>5. t.next[e] = s.edges[u] /\ \A x \in Cells : x # e => t.next[x] = s.next[x]
    BY <1>2, <2>1, <2>2, <2>3 DEF Base
  <2>6. Out(t, u) = Out(s, u)
    <3>1. s.next[e] \notin s.live /\ e \in Reach(s.next, s.live, s.edges[u])
      BY <2>1, <2>3, ListAssumption DEF Out
    <3>2. \A x \in Reach(s.next, s.live, s.edges[u]) : x # e => t.next[x] = s.next[x]
      BY <2>2, <2>3, <2>5 DEF Out
    <3>3. Reach(t.next, s.live, s.edges[u]) = Reach(s.next, s.live, s.edges[u])
      BY <2>3, <2>5, <3>1, <3>2, ReachClose
    <3> QED  BY <2>1, <3>3 DEF Out
  <2>7. ASSUME NEW x \in up, x # u PROVE Out(t, x) = Out(s, x)
    <3>1. e \notin Out(s, x)
      BY <1>2, <2>1, <2>7 DEF Base
    <3>2. \A c \in Reach(s.next, s.live, s.edges[x]) : t.next[c] = s.next[c]
      BY <2>2, <2>3, <2>5, <3>1 DEF Out
    <3>3. Reach(t.next, s.live, s.edges[x]) = Reach(s.next, s.live, s.edges[x])
      BY <2>3, <3>2, ReachFrame
    <3> QED  BY <2>1, <3>3 DEF Out
  <2>8. Base(t, up)
    <3>1. t.next \in [Cells -> Cells \cup {Null, Junk}]
      BY <1>2, <2>1, <2>3, <2>4 DEF Base
    <3>2. \A c \in EdgesIn(t) : t.next[c] \in EdgesIn(t) \cup {Null, Junk}
      BY <1>2, <2>3, <2>4, <2>5 DEF Base
    <3>3. \A x \in up : Out(t, x) = Out(s, x)
      BY <2>6, <2>7
    <3> QED  BY <1>2, <2>1, <2>3, <3>1, <3>2, <3>3 DEF Base
  <2>9. Fair(t, up)
    BY <1>2, <2>1, <2>6, <2>7, <2>8, FairAlike
  <2>10. Kept(s, t)
    <3>1. e \in EdgesIn(s)
      BY <2>1, <2>2
    <3> QED  BY <2>1, <2>3, <2>5, <3>1 DEF Kept
  <2> QED  BY <1>1, <2>9, <2>10 DEF GraphKept
<1> QED  BY <1>2, <1>3, <1>4, AddIs

SelfBy(u, n, steps) ==
  LET stop == Walk(edges[u])[steps]
  IN IF steps < 0 THEN Faults(steps)
     ELSE IF data[stop] = u THEN Refuses(BERR_INVALID + BERR_NORMAL)
     ELSE IF next[stop] = Null THEN Becomes(AppendEdge(Lists, stop, u, Null), 2)
     ELSE Becomes(AppendEdge(Lists, stop, u, edges[u]), 4)

LEMMA SelfIs ==
  ASSUME NEW u, node_self_connect(u)
  PROVE  \E n \in Fresh :
           IF edges[u] = Null THEN Becomes(StartList(Lists, u, u, n), 0)
           ELSE SelfBy(u, n, Look(u, u))
<1> DEFINE v == Walk(edges[u])
           w == Path(next, live, edges[u])
           T == LooksFor(u, u)
           bad == {n \in DOMAIN v : v[n] \notin live}
           good == {n \in 0 .. Far : w[n] \in live /\ w[n] \in T}
           good2 == {n \in DOMAIN v : v[n] \in live /\ (data[v[n]] = u \/ next[v[n]] \in {Null, edges[u]})}
           steps == IF good2 # {} /\ \A n \in bad : Earliest(good2) < n THEN Earliest(good2)
                    ELSE IF bad # {} THEN -1 ELSE -2
<1>1. v = w /\ DOMAIN v = 0 .. Far
  BY WalkIsPath, PathStep
<1>2. \E n \in Fresh :
        IF edges[u] = Null THEN Becomes(StartList(Lists, u, u, n), 0)
        ELSE SelfBy(u, n, steps)
  BY DEF node_self_connect, LoopSteps, Earliest, SelfThere, SelfBy
<1> HIDE DEF v
<1>3. good = good2 /\ bad = {n \in 0 .. Far : w[n] \notin live}
  BY <1>1 DEF LooksFor
<1>4. steps = StepsTo(next, live, edges[u], T)
  <2> HIDE DEF good, good2, bad
  <2> QED BY <1>3 DEF StepsTo, good
<1> HIDE DEF steps, T
<1> QED  BY <1>2, <1>4 DEF T, Look

LEMMA RefusesStill ==
  ASSUME NEW code, Refuses(code)
  PROVE  Still /\ UNCHANGED graphVars
BY DEF Refuses, Still

LEMMA BecameKept ==
  ASSUME NEW s, NEW k, Fair(s, up), Kept(Lists, s), Became(s, k)
  PROVE  GraphKept
BY DEF Became, GraphKept

LEMMA FailedKept ==
  ASSUME Fair(Lists, up), Failed
  PROVE  GraphKept
BY StillKept DEF Failed, graphVars

LEMMA SelfKept ==
  ASSUME live \subseteq Cells, NoStalePointers, Fair(Lists, up), NEW u \in GNodes, node_self_connect(u)
  PROVE  GraphKept
<1>1. u \in up /\ Base(Lists, up) /\ Ready(Lists, up) /\ Lists.edges = edges /\ Lists.next = next
  BY ReadyNow, ListsNext DEF node_self_connect, Fair
<1>2. PICK n \in Fresh :
           IF edges[u] = Null THEN Becomes(StartList(Lists, u, u, n), 0)
           ELSE SelfBy(u, n, Look(u, u))
  BY SelfIs
<1>3. ASSUME NEW t, NEW k, Becomes(t, k), ~Leads(Lists, u, u),
             Short(t) \/ (Ready(t, up) /\ Added(Lists, t, up, u, u))
      PROVE  GraphKept
  <2>1. CASE Short(t)
    BY <1>3, <2>1, ShortFails, FailedKept
  <2>2. CASE Ready(t, up) /\ Added(Lists, t, up, u, u)
    <3>1. Fair(t, up)
      BY <1>1, <1>3, <2>2, FairSelf DEF Ready
    <3>2. Kept(Lists, t)
      BY <1>1, <2>2, AddedKept
    <3>3. Failed \/ Became(t, k)
      BY <1>3, <2>2, BecomesIs DEF Ready
    <3> QED  BY <3>1, <3>2, <3>3, FailedKept, BecameKept
  <2> QED  BY <1>3, <2>1, <2>2
<1>4. CASE edges[u] = Null
  <2>1. PICK t : t = StartList(Lists, u, u, n)
    OBVIOUS
  <2>2. n \in {Null, Junk}
    BY ListAssumption DEF NoStalePointers
  <2>3. Short(t) \/ (Ready(t, up) /\ Added(Lists, t, up, u, u))
    BY <1>1, <1>4, <2>1, <2>2, StartIs
  <2>4. ~Leads(Lists, u, u)
    BY <1>1, <1>4, NoneLeads
  <2> QED  BY <1>2, <1>3, <1>4, <2>1, <2>3, <2>4
<1>5. CASE edges[u] # Null
  <2>1. PICK k : k = Look(u, u)
    OBVIOUS
  <2>2. PICK e : e = Walk(edges[u])[k]
    OBVIOUS
  <2>3. IF k < 0 THEN Faults(k)
        ELSE IF data[e] = u THEN Refuses(BERR_INVALID + BERR_NORMAL)
        ELSE IF next[e] = Null THEN Becomes(AppendEdge(Lists, e, u, Null), 2)
        ELSE Becomes(AppendEdge(Lists, e, u, edges[u]), 4)
    BY <1>2, <1>5, <2>1, <2>2 DEF SelfBy
  <2>4. CASE k < 0
    BY <2>3, <2>4, FaultsIs, FailedKept
  <2>5. CASE ~(k < 0) /\ data[e] = u
    <3>1. Still /\ UNCHANGED graphVars
      BY <2>3, <2>5, RefusesStill
    <3> QED  BY <3>1, StillKept DEF graphVars
  <2>6. CASE ~(k < 0) /\ data[e] # u
    <3>1. e \in Out(Lists, u) /\ next[e] \in {Null, edges[u]} /\ ~Leads(Lists, u, u)
      <4>1. e \in Out(Lists, u) /\ e \in LooksFor(u, u) /\ ~Leads(Lists, u, u)
        BY <2>1, <2>2, <2>6, LookIs
      <4> QED  BY <2>6, <4>1 DEF LooksFor
    <3>2. \E m \in {Null, Junk, edges[u]}, j \in {2, 4} : Becomes(AppendEdge(Lists, e, u, m), j)
      BY <2>3, <2>6
    <3>3. PICK m \in {Null, Junk, edges[u]}, j \in {2, 4} : Becomes(AppendEdge(Lists, e, u, m), j)
      BY <3>2
    <3>4. PICK t : t = AppendEdge(Lists, e, u, m)
      OBVIOUS
    <3>5. Short(t) \/ (Ready(t, up) /\ Added(Lists, t, up, u, u))
      BY <1>1, <1>5, <3>1, <3>4, AppendIs
    <3> QED  BY <1>3, <3>1, <3>3, <3>4, <3>5
  <2> QED  BY <2>4, <2>5, <2>6
<1> QED  BY <1>4, <1>5

(* node_connect, of two nodes.                                             *)
LEMMA ConnectSettles ==
  ASSUME live \subseteq Cells, NoStalePointers, Fair(Lists, up), NEW u \in GNodes, NEW v \in GNodes,
         u # v, node_connect(u, v)
  PROVE  u \in up /\ v \in up /\ (Failed \/ Settles(u, v))
<1>1. u \in up /\ v \in up
  BY DEF node_connect
<1>2. PICK n, m \in Fresh : ConnectDistinct(u, v, n, m)
  BY DEF node_connect
<1>3. n \in {Null, Junk} /\ m \in {Null, Junk}
  BY ListAssumption DEF NoStalePointers
<1> QED  BY <1>1, <1>2, <1>3, ConnectFromNone, ConnectFromSome

LEMMA ConnectKept ==
  ASSUME live \subseteq Cells, NoStalePointers, Fair(Lists, up), NEW u \in GNodes, NEW v \in GNodes,
         node_connect(u, v)
  PROVE  GraphKept
<1>1. CASE u = v
  <2>1. Refuses(BERR_INVALID + BERR_NORMAL)
    BY <1>1 DEF node_connect
  <2>2. Still /\ UNCHANGED graphVars
    BY <2>1, RefusesStill
  <2> QED  BY <2>2, StillKept DEF graphVars
<1>2. CASE u # v
  <2>1. Failed \/ Settles(u, v)
    BY <1>2, ConnectSettles
  <2>2. Settles(u, v) => GraphKept
    BY BecameKept DEF Settles, Settled
  <2> QED  BY <2>1, <2>2, FailedKept
<1> QED  BY <1>1, <1>2

LEMMA GraphStepKept ==
  ASSUME live \subseteq Cells, NoStalePointers, Fair(Lists, up),
         CloseRing \/ Connect \/ SelfConnect \/ GraphStep
  PROVE  GraphKept /\ UNCHANGED menuVars
<1>1. CASE CloseRing
  <2>1. PICK u \in up : edges[u] # Null /\ list_add(edges[u], edges[u]) /\ UNCHANGED <<graphVars, menuVars>>
    BY <1>1 DEF CloseRing, OwnLists
  <2> QED  BY <2>1, CloseKept DEF graphVars
<1>2. CASE Connect
  BY <1>2, ConnectKept DEF Connect
<1>3. ASSUME NEW code, Refuses(code) PROVE GraphKept
  <2>1. Still /\ UNCHANGED graphVars
    BY <1>3, RefusesStill
  <2> QED  BY <2>1, StillKept DEF graphVars
<1>4. ASSUME NEW u, NEW f, Register(u, f) PROVE GraphKept
  <2>1. Still /\ UNCHANGED <<edges, up>>
    BY <1>4 DEF Register, Still
  <2> QED  BY <2>1, StillKept
<1>5. ASSUME NEW steps, Faults(steps) PROVE GraphKept
  BY <1>5, FaultsIs, FailedKept
<1>6. CASE GraphStep
  <2>1. ASSUME NEW u \in GNodes, node_init(u) PROVE GraphKept
    <3>1. CASE u \notin up /\ up' = up \cup {u} /\ edges' = [edges EXCEPT ![u] = Null] /\ Still
      BY <3>1, InitKept
    <3> QED  BY <1>3, <2>1, <3>1 DEF node_init, Still
  <2>2. ASSUME NEW u \in GNodes, node_free(u) PROVE GraphKept
    <3>1. u \in up /\ up' = up \ {u} /\ UNCHANGED edges /\ Still
      BY <2>2 DEF node_free, Still
    <3>2. \A v \in up \ {u} : \A c \in Chain(edges[v]) : data[c] # u
      BY <2>2 DEF node_free, Chain
    <3> QED  BY <3>1, <3>2, FreeKept
  <2>4. ASSUME NEW u, NEW f, node_register(u, f) PROVE GraphKept
    BY <1>3, <1>4, <2>4 DEF node_register
  <2>5. ASSUME NEW u, node_unregister(u) PROVE GraphKept
    BY <1>3, <1>4, <2>5 DEF node_unregister
  <2>6. ASSUME NEW u, NEW v, node_compare(u, v) PROVE GraphKept
    BY <1>3, <1>5, <2>6 DEF node_compare
  <2>7. ASSUME NEW u, NEW v, is_node_connected(u, v) PROVE GraphKept
    BY <1>3, <1>5, <2>7 DEF is_node_connected
  <2>8. UNCHANGED menuVars
    BY <1>6 DEF GraphStep
  <2> QED  BY <1>6, <2>1, <2>2, <2>4, <2>5, <2>6, <2>7, <2>8 DEF GraphStep
<1>7. CASE SelfConnect
  BY <1>7, SelfKept DEF SelfConnect
<1> QED  BY <1>1, <1>2, <1>6, <1>7

-----------------------------------------------------------------------------
(* A step within the cells of one owner, whose data is in D.               *)

Within(D) ==
  /\ live \subseteq live' /\ live' \subseteq Cells
  /\ next' \in [Cells -> Cells \cup {Null, Junk}]
  /\ data' \in [Cells -> Values \cup GNodes \cup Items \cup {Null}]
  /\ \A c \in live : data'[c] = data[c]
  /\ \A c \in live' \ live : data'[c] \in D
  /\ \A c \in live : data[c] \notin D => next'[c] = next[c]
  /\ \A c \in live' : data'[c] \in D =>
       next'[c] \in {x \in live' : data'[x] \in D} \cup {Null, Junk}

CellsOf(D) == {c \in live : data[c] \in D}
KeepsTo(D) == \A c \in CellsOf(D) : next[c] \in CellsOf(D) \cup {Null, Junk}

LEMMA OwnedIs ==
  /\ Mine = CellsOf(Values) /\ EdgeCells = CellsOf(GNodes) /\ ItemCells = CellsOf(Items)
  /\ Owned <=> /\ \A c \in live : data[c] \in Values \cup GNodes \cup Items
               /\ KeepsTo(Values) /\ KeepsTo(GNodes) /\ KeepsTo(Items)
BY DEF Mine, EdgeCells, ItemCells, CellsOf, KeepsTo, Owned, Keeps

Cast == {Values, GNodes, Items}

LEMMA CastApart ==
  ASSUME NEW D \in Cast, NEW E \in Cast, D # E
  PROVE  D \cap E = {}
BY LinksAssumption DEF Cast

LEMMA StillWithin ==
  ASSUME Typed, NEW D, KeepsTo(D), Still
  PROVE  Within(D)
BY DEF Within, Still, Typed, KeepsTo, CellsOf

LEMMA NewWithin ==
  ASSUME Typed, NEW D \in Cast, KeepsTo(D), NEW c \in Unused, NEW d \in D, NEW n \in {Null, Junk},
         Created(c, d, n)
  PROVE  Within(D)
<1>1. c \in Cells /\ c \notin live /\ live \subseteq Cells
  BY DEF Unused, Typed
<1>2. /\ next' \in [Cells -> Cells \cup {Null, Junk}]
      /\ data' \in [Cells -> Values \cup GNodes \cup Items \cup {Null}]
  <2>1. d \in Values \cup GNodes \cup Items \cup {Null}
    BY DEF Cast
  <2> QED  BY <1>1, <2>1 DEF Created, Typed
<1>3. live' = live \cup {c} /\ data'[c] = d /\ next'[c] = n
      /\ \A x \in live : data'[x] = data[x] /\ next'[x] = next[x]
  BY <1>1 DEF Created, Typed
<1>4. \A x \in live : data[x] \in D => next[x] \in CellsOf(D) \cup {Null, Junk}
  BY DEF KeepsTo, CellsOf
<1>5. CellsOf(D) \subseteq {x \in live' : data'[x] \in D}
  BY <1>3 DEF CellsOf
<1> QED  BY <1>1, <1>2, <1>3, <1>4, <1>5 DEF Within

LEMMA PointWithin ==
  ASSUME Typed, NEW D, KeepsTo(D), NEW x \in CellsOf(D), NEW y \in CellsOf(D) \cup {Null, Junk},
         next' = [next EXCEPT ![x] = y], UNCHANGED <<live, data>>
  PROVE  Within(D)
<1>1. x \in Cells /\ y \in Cells \cup {Null, Junk} /\ live \subseteq Cells
  BY DEF CellsOf, Typed
<1>2. next' \in [Cells -> Cells \cup {Null, Junk}]
  BY <1>1 DEF Typed
<1>3. next'[x] = y /\ \A c \in Cells : c # x => next'[c] = next[c]
  BY <1>1 DEF Typed
<1>4. x \in live /\ data[x] \in D
  BY DEF CellsOf
<1>5. \A c \in live : data[c] \in D => next'[c] \in CellsOf(D) \cup {Null, Junk}
  BY <1>1, <1>3 DEF KeepsTo, CellsOf
<1>6. CellsOf(D) = {c \in live' : data'[c] \in D}
  BY DEF CellsOf
<1>7. \A c \in live : data[c] \notin D => next'[c] = next[c]
  BY <1>1, <1>3, <1>4
<1> QED  BY <1>1, <1>2, <1>5, <1>6, <1>7 DEF Within, Typed

LEMMA OwnedWithin ==
  ASSUME Typed, Owned, NEW D \in Cast, Within(D)
  PROVE  Owned'
<1>1. \A c \in live' : data'[c] \in Values \cup GNodes \cup Items
  BY OwnedIs DEF Within, Cast
<1>2. ASSUME NEW E \in Cast PROVE KeepsTo(E)'
  <2>1. KeepsTo(E)' <=> \A c \in live' : data'[c] \in E =>
                          next'[c] \in {x \in live' : data'[x] \in E} \cup {Null, Junk}
    BY DEF KeepsTo, CellsOf
  <2>2. CASE E = D
    BY <2>1, <2>2 DEF Within
  <2>3. CASE E # D
    <3>1. D \cap E = {}
      BY <2>3, CastApart
    <3>2. ASSUME NEW c \in live', data'[c] \in E
          PROVE  next'[c] \in {x \in live' : data'[x] \in E} \cup {Null, Junk}
      <4>1. c \in live /\ data[c] \in E /\ next'[c] = next[c]
        BY <3>1, <3>2 DEF Within
      <4>2. next[c] \in CellsOf(E) \cup {Null, Junk}
        BY <4>1, OwnedIs DEF KeepsTo, CellsOf, Cast
      <4>3. CellsOf(E) \subseteq {x \in live' : data'[x] \in E}
        BY DEF Within, CellsOf
      <4> QED  BY <4>1, <4>2, <4>3
    <3> QED  BY <2>1, <3>2
  <2> QED  BY <2>2, <2>3
<1>3. KeepsTo(Values)' /\ KeepsTo(GNodes)' /\ KeepsTo(Items)'
  BY <1>2 DEF Cast
<1>4. Owned' <=> /\ \A c \in live' : data'[c] \in Values \cup GNodes \cup Items
                 /\ KeepsTo(Values)' /\ KeepsTo(GNodes)' /\ KeepsTo(Items)'
  BY DEF Mine, EdgeCells, ItemCells, CellsOf, KeepsTo, Owned, Keeps
<1> QED  BY <1>1, <1>3, <1>4

(* The graph is not touched by the others.                                 *)
LEMMA FairWithin ==
  ASSUME Fair(Lists, up), NEW D, D \cap GNodes = {}, Within(D), UNCHANGED <<edges, up>>
  PROVE  Fair(Lists', up')
<1>1. PICK s, t : s = Lists /\ t = Lists'
  OBVIOUS
<1>2. Base(s, up) /\ Fair(s, up) /\ D \cap GNodes = {}
  BY <1>1 DEF Fair
<1>3. /\ s.live = live /\ s.next = next /\ s.data = data /\ s.edges = edges
      /\ t.live = live' /\ t.next = next' /\ t.data = data' /\ t.edges = edges
  BY <1>1, ListsNext
<1>4. /\ s.live \subseteq t.live /\ t.live \subseteq Cells /\ EdgesIn(t) = EdgesIn(s)
      /\ EdgesIn(s) \subseteq s.live
      /\ \A c \in EdgesIn(s) : t.next[c] = s.next[c] /\ t.data[c] = s.data[c]
  BY <1>2, <1>3 DEF Within, EdgesIn
<1>5. ASSUME NEW x \in up
      PROVE  Out(t, x) = Out(s, x) /\ Out(s, x) \subseteq EdgesIn(s)
  <2>1. Out(s, x) \subseteq EdgesIn(s) /\ s.edges[x] \in EdgesIn(s) \cup {Null}
    BY <1>2, OutFacts DEF Base
  <2>2. \A c \in Out(s, x) : t.next[c] = s.next[c] /\ (s.next[c] \in t.live => s.next[c] \in s.live)
    BY <1>2, <1>4, <2>1, ListAssumption DEF Base
  <2>3. s.edges[x] \in t.live => s.edges[x] \in s.live
    BY <1>4, <2>1, ListAssumption
  <2>4. s.live \in SUBSET Cells /\ t.live \in SUBSET Cells
    BY <1>4
  <2>5. Reach(t.next, t.live, s.edges[x]) = Reach(s.next, s.live, s.edges[x])
    BY <1>4, <2>2, <2>3, <2>4, ReachFrame DEF Out
  <2> QED  BY <1>3, <2>1, <2>5 DEF Out
<1>6. Base(t, up)
  <2>1. /\ t.next \in [Cells -> Cells \cup {Null, Junk}]
        /\ t.data \in [Cells -> Values \cup GNodes \cup Items \cup {Null}]
    BY <1>3 DEF Within
  <2>2. \A c \in EdgesIn(t) : t.next[c] \in EdgesIn(t) \cup {Null, Junk}
    BY <1>2, <1>4 DEF Base
  <2>3. \A u \in up : \A c \in Out(t, u) : t.data[c] \in up
    BY <1>2, <1>4, <1>5 DEF Base
  <2>4. \A u, v \in up : u # v => Out(t, u) \cap Out(t, v) = {}
    BY <1>2, <1>5 DEF Base
  <2>5. /\ up \subseteq GNodes /\ t.edges \in [GNodes -> Cells \cup {Null}]
        /\ \A u \in up : t.edges[u] \in EdgesIn(t) \cup {Null}
    BY <1>2, <1>3, <1>4 DEF Base
  <2> QED  BY <1>4, <2>1, <2>2, <2>3, <2>4, <2>5 DEF Base
<1>7. Fair(t, up)
  <2>1. \A x \in up : /\ t.edges[x] = s.edges[x] /\ Out(t, x) = Out(s, x)
                      /\ \A c \in Out(s, x) : t.data[c] = s.data[c]
    BY <1>3, <1>4, <1>5
  <2> QED  BY <1>2, <1>6, <2>1, FairAlike
<1> QED  BY <1>1, <1>7

(* And its own steps are within its cells.                                 *)
LEMMA GraphWithin ==
  ASSUME Typed, Owned, GraphKept
  PROVE  Within(GNodes)
<1>1. PICK s, t : s = Lists /\ t = Lists'
  OBVIOUS
<1>2. Base(t, up') /\ Kept(s, t)
  BY <1>1 DEF GraphKept, Fair
<1>3. /\ s.live = live /\ s.next = next /\ s.data = data
      /\ t.live = live' /\ t.next = next' /\ t.data = data'
  BY <1>1, ListsNext
<1>4. EdgesIn(s) = {c \in live : data[c] \in GNodes} /\ EdgesIn(t) = {c \in live' : data'[c] \in GNodes}
  BY <1>3 DEF EdgesIn
<1> QED  BY <1>2, <1>3, <1>4 DEF Within, Base, Kept

-----------------------------------------------------------------------------
(* The client's steps on lists of its own.                                 *)

LEMMA ListWithin ==
  ASSUME NoStalePointers, Typed, Owned, ListStep
  PROVE  Within(Values) /\ UNCHANGED <<graphVars, menuVars>>
<1>1. /\ KeepsTo(Values) /\ Mine = CellsOf(Values) /\ Mine \subseteq live /\ live \subseteq Cells
      /\ Values \in Cast
  BY OwnedIs, MineLive DEF Typed, Cast
<1>2. ASSUME Still PROVE Within(Values)
  BY <1>1, <1>2, StillWithin
<1>3. ASSUME NEW how, Ends(how) PROVE Within(Values)
  BY <1>2, <1>3 DEF Ends, Still
<1>4. ASSUME NEW x \in Mine, NEW y \in Mine \cup {Null, Junk},
             next' = [next EXCEPT ![x] = y], UNCHANGED <<live, data>>
      PROVE  Within(Values)
  BY <1>1, <1>4, PointWithin
<1>5. ASSUME NEW h \in Mine PROVE Chain(h) \subseteq Mine
  BY <1>1, ChainWithin DEF Owned
<1>6. ASSUME NEW h \in Mine, NEW c \in Mine, list_add(h, c) PROVE Within(Values)
  <2>1. Still \/ \E e \in Chain(h) :
          next[e] = Null /\ next' = [next EXCEPT ![e] = c] /\ UNCHANGED <<live, data>>
    BY <1>1, <1>6, AddIs
  <2> QED  BY <1>2, <1>4, <1>5, <2>1
<1>7. ASSUME NEW h \in Mine, NEW c \in Mine, list_del(h, c) PROVE Within(Values)
  <2>1. c \in live /\ next[c] \in Mine \cup {Null, Junk}
    BY <1>1 DEF Owned, Keeps
  <2>2. Still \/ \E e \in Chain(h) : next' = [next EXCEPT ![e] = next[c]] /\ UNCHANGED <<live, data>>
    <3>1. \/ Still
          \/ \E e \in Chain(h) :
                 /\ e \in DelHalts(h, c)
                 /\ next[e] = Null => Still
                 /\ next[e] \notin {Null, c} => Still
                 /\ next[e] = c => next' = [next EXCEPT ![e] = next[c]] /\ UNCHANGED <<live, data>>
      BY <1>1, <1>7, <2>1, DelDoes
    <3> QED  BY <3>1
  <2> QED  BY <1>2, <1>4, <1>5, <2>1, <2>2
<1>8. ASSUME NEW h \in Mine, list_empty(h) PROVE Within(Values)
  <2>1. \/ Ends("crashed")
        \/ Still
        \/ \E metadata \in Fresh : /\ live' = live \ {metadata}
                                   /\ next' = [next EXCEPT ![h] = Null] /\ UNCHANGED data
    BY <1>8 DEF list_empty, Still
  <2>2. ASSUME NEW m \in Fresh PROVE live \ {m} = live
    BY <1>1, <2>2 DEF NoStalePointers
  <2> QED  BY <1>2, <1>3, <1>4, <2>1, <2>2
<1>9. ASSUME NEW h \in Mine, next[h] \in {Null, Junk}, list_clean(h) PROVE Within(Values)
  <2>1. ASSUME NEW m \in Fresh PROVE live \ {next[h], m} = live
    BY <1>1, <1>9, <2>1, ListAssumption DEF NoStalePointers
  <2>2. Ends("crashed") \/ Still
    BY <1>9, <2>1 DEF list_clean, Still
  <2> QED  BY <1>2, <1>3, <2>2
<1>10. ASSUME NEW d \in Values, list_create_node(d) PROVE Within(Values)
  <2>1. CASE Ends("crashed")
    BY <1>3, <2>1
  <2>2. ASSUME Unused # {}, NEW n \in Fresh, Created(NewCell, d, n) PROVE Within(Values)
    <3>1. NewCell \in Unused /\ n \in {Null, Junk}
      BY <2>2, ListAssumption DEF NewCell, NoStalePointers
    <3> QED  BY <1>1, <2>2, <3>1, NewWithin
  <2> QED  BY <1>10, <2>1, <2>2 DEF list_create_node
<1>11. CASE CreateNode
  BY <1>10, <1>11 DEF CreateNode, OwnLists
<1>12. CASE AddNode
  BY <1>6, <1>12 DEF AddNode, OwnLists
<1>13. CASE DelNode
  BY <1>7, <1>13 DEF DelNode, OwnLists
<1>14. CASE EmptyList
  BY <1>8, <1>14 DEF EmptyList, OwnLists
<1>15. CASE CleanNode
  BY <1>9, <1>15 DEF CleanNode, Clean, OwnLists
<1> QED  BY <1>11, <1>12, <1>13, <1>14, <1>15 DEF ListStep

-----------------------------------------------------------------------------
(* The menu.                                                               *)

(* A walk goes as far as one that is known.                                *)
LEMMA PathIs ==
  ASSUME NEW nx, NEW lv, NEW head, NEW m \in 0 .. Far, NEW g, g[0] = head,
         \A i \in 0 .. m - 1 : g[i] \in lv /\ nx[g[i]] = g[i + 1]
  PROVE  \A i \in 0 .. m : Path(nx, lv, head)[i] = g[i]
<1> DEFINE w == Path(nx, lv, head)
           Bad == {k \in 0 .. m : w[k] # g[k]}
<1>1. SUFFICES Bad = {}
  OBVIOUS
<1>2. SUFFICES ASSUME Bad # {} PROVE FALSE
  OBVIOUS
<1>3. PICK k \in Bad : \A l \in Bad : k <= l
  <2>1. Bad \subseteq Nat
    BY FarType
  <2> HIDE DEF Bad
  <2> QED  BY <1>2, <2>1, LeastNumber
<1>4. k \in 0 .. m /\ w[k] # g[k]
  OBVIOUS
<1>5. k # 0
  BY <1>4, PathStep
<1>6. k - 1 \in 0 .. m - 1 /\ k - 1 \in 0 .. m /\ k - 1 \in 0 .. Far - 1 /\ k - 1 < k /\ (k - 1) + 1 = k
  BY <1>4, <1>5, FarType
<1>7. w[k - 1] = g[k - 1]
  BY <1>3, <1>6
<1>8. w[(k - 1) + 1] = Onward(nx, lv, w[k - 1])
  BY <1>6, PathStep
<1>9. g[k - 1] \in lv /\ nx[g[k - 1]] = g[(k - 1) + 1]
  BY <1>6
<1> HIDE DEF w, Bad
<1> QED  BY <1>4, <1>6, <1>7, <1>8, <1>9 DEF Onward

(* Items are added behind each other, and nothing behind the last one is a *)
(* cell.                                                                   *)
RowOf(nx, lv, dt, head, items) ==
  LET w == Path(nx, lv, head)
      m == Len(items)
  IN /\ m \in 0 .. Far
     /\ \A n \in 1 .. m : w[n - 1] \in lv /\ dt[w[n - 1]] = items[n]
     /\ m > 0 => nx[w[m - 1]] \in {Null, Junk}

MenuRow == menu_count = Len(added) /\ RowOf(next, live, data, menu_choices, added)

(* It is a row of different cells.                                         *)
Different(nx, lv, dt, head, items) ==
  /\ \A i \in 0 .. Len(items) - 1 :
       /\ Path(nx, lv, head)[i] \in lv /\ dt[Path(nx, lv, head)[i]] = items[i + 1]
       /\ items[i + 1] \in Items
       /\ i < Len(items) - 1 => nx[Path(nx, lv, head)[i]] = Path(nx, lv, head)[i + 1]
  /\ \A i, j \in 0 .. Len(items) - 1 :
       Path(nx, lv, head)[i] = Path(nx, lv, head)[j] => i = j

LEMMA RowFacts ==
  ASSUME NEW nx, NEW lv \in SUBSET Cells, NEW dt, NEW head, NEW items \in Seq(Items),
         RowOf(nx, lv, dt, head, items)
  PROVE  Different(nx, lv, dt, head, items)
<1> DEFINE w == Path(nx, lv, head)
           m == Len(items)
<1>1. /\ m \in 0 .. Far /\ m \in Nat
      /\ \A n \in 1 .. m : w[n - 1] \in lv /\ dt[w[n - 1]] = items[n]
      /\ m > 0 => nx[w[m - 1]] \in {Null, Junk}
  BY DEF RowOf
<1>2. ASSUME NEW i \in 0 .. m - 1
      PROVE  /\ w[i] \in lv /\ dt[w[i]] = items[i + 1] /\ items[i + 1] \in Items
             /\ i < m - 1 => nx[w[i]] = w[i + 1]
  <2>1. i + 1 \in 1 .. m /\ (i + 1) - 1 = i
    BY <1>1
  <2>2. w[i] \in lv /\ dt[w[i]] = items[i + 1]
    BY <1>1, <2>1
  <2>3. items[i + 1] \in Items
    BY <2>1
  <2>4. i \in 0 .. Far - 1
    BY <1>1, FarType
  <2>5. w[i + 1] = Onward(nx, lv, w[i])
    BY <2>4, PathStep
  <2> HIDE DEF w
  <2> QED  BY <2>2, <2>3, <2>5 DEF Onward
<1>3. ASSUME NEW i \in 0 .. m - 1, NEW j \in 0 .. m - 1, w[i] = w[j], i < j PROVE FALSE
  <2>1. /\ i \in 0 .. Far /\ j \in 0 .. Far /\ m - 1 - j \in 0 .. Far - j
        /\ i + (m - 1 - j) \in 0 .. m - 1 /\ i + (m - 1 - j) < m - 1 /\ j + (m - 1 - j) = m - 1
        /\ (i + (m - 1 - j)) + 1 \in 0 .. m - 1 /\ m > 0
    BY <1>1, <1>3, FarType
  <2>2. w[i + (m - 1 - j)] = w[m - 1]
    BY <1>3, <2>1, PathShift
  <2>3. nx[w[i + (m - 1 - j)]] = w[(i + (m - 1 - j)) + 1] /\ w[(i + (m - 1 - j)) + 1] \in lv
    BY <1>2, <2>1
  <2> HIDE DEF w
  <2> QED  BY <1>1, <2>1, <2>2, <2>3, ListAssumption
<1>4. \A i, j \in 0 .. m - 1 : w[i] = w[j] => i = j
  <2>1. SUFFICES ASSUME NEW i \in 0 .. m - 1, NEW j \in 0 .. m - 1, w[i] = w[j], i # j PROVE FALSE
    OBVIOUS
  <2>2. i < j \/ j < i
    BY <1>1, <2>1
  <2> QED  BY <1>3, <2>1, <2>2
<1> QED  BY <1>2, <1>4 DEF Different

(* Where it is not touched it stays.                                       *)
LEMMA RowStays ==
  ASSUME NEW nx, NEW lv \in SUBSET Cells, NEW dt, NEW head, NEW items \in Seq(Items),
         RowOf(nx, lv, dt, head, items), NEW nx2, NEW lv2, NEW dt2, lv \subseteq lv2,
         \A c \in lv : dt2[c] = dt[c] /\ (dt[c] \in Items => nx2[c] = nx[c])
  PROVE  RowOf(nx2, lv2, dt2, head, items)
<1> DEFINE w == Path(nx, lv, head)
           w2 == Path(nx2, lv2, head)
           m == Len(items)
<1>1. /\ \A i \in 0 .. m - 1 :
           /\ w[i] \in lv /\ dt[w[i]] = items[i + 1] /\ items[i + 1] \in Items
           /\ i < m - 1 => nx[w[i]] = w[i + 1]
      /\ m \in 0 .. Far /\ m \in Nat /\ w[0] = head
      /\ m > 0 => nx[w[m - 1]] \in {Null, Junk}
  <2>1. m \in 0 .. Far /\ m \in Nat /\ w[0] = head /\ (m > 0 => nx[w[m - 1]] \in {Null, Junk})
    BY PathStep DEF RowOf
  <2>2. \A i \in 0 .. m - 1 :
           /\ w[i] \in lv /\ dt[w[i]] = items[i + 1] /\ items[i + 1] \in Items
           /\ i < m - 1 => nx[w[i]] = w[i + 1]
    <3>1. Different(nx, lv, dt, head, items)
      BY RowFacts
    <3> QED  BY <3>1 DEF Different
  <2> HIDE DEF w, m
  <2> QED  BY <2>1, <2>2
<1> HIDE DEF w, w2, m
<1>2. CASE m = 0
  BY <1>1, <1>2 DEF RowOf, m
<1>3. CASE m # 0
  <2>1. m - 1 \in 0 .. Far /\ m - 1 \in 0 .. m - 1 /\ m > 0
    BY <1>1, <1>3, FarType
  <2>2. \A i \in 0 .. (m - 1) - 1 : w[i] \in lv2 /\ nx2[w[i]] = w[i + 1]
    BY <1>1, <2>1
  <2>3. \A i \in 0 .. m - 1 : w2[i] = w[i]
    BY <1>1, <2>1, <2>2, PathIs DEF w2
  <2>4. ASSUME NEW n \in 1 .. m PROVE w2[n - 1] \in lv2 /\ dt2[w2[n - 1]] = items[n]
    <3>1. n - 1 \in 0 .. m - 1 /\ (n - 1) + 1 = n
      BY <1>1
    <3> QED  BY <1>1, <2>3, <3>1
  <2>5. nx2[w2[m - 1]] \in {Null, Junk}
    BY <1>1, <2>1, <2>3
  <2> QED  BY <1>1, <2>4, <2>5 DEF RowOf, m, w2
<1> QED  BY <1>2, <1>3

(* One more item, in a new cell.                                           *)
LEMMA RowGrows ==
  ASSUME NEW nx, NEW lv \in SUBSET Cells, NEW dt, NEW head, NEW items \in Seq(Items),
         RowOf(nx, lv, dt, head, items), NEW item \in Items, NEW c \in Cells \ lv,
         NEW nx2, NEW dt2, NEW head2, dt2[c] = item, nx2[c] \in {Null, Junk},
         \A x \in lv : dt2[x] = dt[x],
         IF Len(items) = 0 THEN head2 = c
         ELSE /\ head2 = head /\ nx2[Path(nx, lv, head)[Len(items) - 1]] = c
              /\ \A x \in lv : x # Path(nx, lv, head)[Len(items) - 1] => nx2[x] = nx[x]
  PROVE  RowOf(nx2, lv \cup {c}, dt2, head2, Append(items, item))
<1> DEFINE w == Path(nx, lv, head)
           lv2 == lv \cup {c}
           w2 == Path(nx2, lv2, head2)
           m == Len(items)
           items2 == Append(items, item)
<1>1. /\ \A i \in 0 .. m - 1 :
           /\ w[i] \in lv /\ dt[w[i]] = items[i + 1] /\ items[i + 1] \in Items
           /\ i < m - 1 => nx[w[i]] = w[i + 1]
      /\ \A i, j \in 0 .. m - 1 : w[i] = w[j] => i = j
      /\ m \in 0 .. Far /\ m \in Nat /\ w[0] = head
      /\ m > 0 => nx[w[m - 1]] \in {Null, Junk}
  <2>1. m \in 0 .. Far /\ m \in Nat /\ w[0] = head /\ (m > 0 => nx[w[m - 1]] \in {Null, Junk})
    BY PathStep DEF RowOf
  <2>2. /\ \A i \in 0 .. m - 1 :
             /\ w[i] \in lv /\ dt[w[i]] = items[i + 1] /\ items[i + 1] \in Items
             /\ i < m - 1 => nx[w[i]] = w[i + 1]
        /\ \A i, j \in 0 .. m - 1 : w[i] = w[j] => i = j
    <3>1. Different(nx, lv, dt, head, items)
      BY RowFacts
    <3> QED  BY <3>1 DEF Different
  <2> HIDE DEF w, m
  <2> QED  BY <2>1, <2>2
<1>2. Len(items2) = m + 1 /\ items2[m + 1] = item /\ \A n \in 1 .. m : items2[n] = items[n]
  OBVIOUS
<1>3. m + 1 \in 0 .. Far
  <2> DEFINE g == [i \in 0 .. m |-> IF i = m THEN c ELSE w[i]]
  <2>1. g \in [0 .. m -> Cells]
    <3>1. ASSUME NEW i \in 0 .. m PROVE g[i] \in Cells
      <4>1. i # m => i \in 0 .. m - 1
        BY <1>1
      <4> QED  BY <1>1, <4>1
    <3> QED  BY <3>1
  <2>2. \A i, j \in 0 .. m : g[i] = g[j] => i = j
    <3>1. SUFFICES ASSUME NEW i \in 0 .. m, NEW j \in 0 .. m, g[i] = g[j] PROVE i = j
      OBVIOUS
    <3>2. (i # m => i \in 0 .. m - 1) /\ (j # m => j \in 0 .. m - 1)
      BY <1>1
    <3>3. i # m => g[i] = w[i] /\ w[i] \in lv
      BY <1>1, <3>2
    <3>4. j # m => g[j] = w[j] /\ w[j] \in lv
      BY <1>1, <3>2
    <3>5. g[m] = c /\ c \notin lv
      BY <1>1
    <3> HIDE DEF g, w
    <3> QED  BY <1>1, <3>1, <3>2, <3>3, <3>4, <3>5
  <2>3. IsFiniteSet(0 .. m) /\ Cardinality(0 .. m) = m + 1
    BY <1>1, FS_Interval
  <2>4. Cardinality(0 .. m) <= Cardinality(Cells)
    <3>1. SUFFICES ASSUME ~(Cardinality(0 .. m) <= Cardinality(Cells)) PROVE FALSE
      OBVIOUS
    <3>2. IsFiniteSet(Cells) /\ Cardinality(Cells) < Cardinality(0 .. m)
      BY <1>1, <2>3, <3>1, ListAssumption, FarType DEF Far
    <3> HIDE DEF g
    <3>3. \E x, y \in 0 .. m : x # y /\ g[x] = g[y]
      BY <2>1, <2>3, <3>2, FS_PigeonHole
    <3> QED  BY <2>2, <3>3
  <2> QED  BY <1>1, <2>3, <2>4, FarType DEF Far
<1> HIDE DEF w, w2, m, items2
<1>4. w2[0] = head2
  BY PathStep DEF w2
<1>5. CASE m = 0
  <2>1. w2[0] = c
    BY <1>4, <1>5 DEF m
  <2>2. \A n \in 1 .. m + 1 : n = 1
    BY <1>5
  <2>3. \A n \in 1 .. m + 1 : w2[n - 1] \in lv2 /\ dt2[w2[n - 1]] = items2[n]
    BY <1>2, <1>5, <2>1, <2>2
  <2>4. Len(items2) = 1 /\ 1 \in 0 .. Far /\ nx2[w2[1 - 1]] \in {Null, Junk}
    BY <1>2, <1>3, <1>5, <2>1
  <2>5. \A n \in 1 .. Len(items2) : w2[n - 1] \in lv2 /\ dt2[w2[n - 1]] = items2[n]
    BY <1>2, <2>3
  <2> HIDE DEF lv2
  <2> QED  BY <2>4, <2>5 DEF RowOf, w2, items2, lv2
<1>6. CASE m # 0
  <2> DEFINE g == [i \in 0 .. m |-> IF i = m THEN c ELSE w[i]]
  <2>1. m - 1 \in 0 .. m - 1 /\ m \in 0 .. Far /\ m > 0 /\ m \in 0 .. m
    BY <1>1, <1>6, FarType
  <2>2. head2 = head /\ nx2[w[m - 1]] = c /\ \A x \in lv : x # w[m - 1] => nx2[x] = nx[x]
    BY <1>6 DEF m, w
  <2>3. ASSUME NEW i \in 0 .. m - 1 PROVE g[i] = w[i] /\ g[i] \in lv2 /\ nx2[g[i]] = g[i + 1]
    <3>1. g[i] = w[i] /\ w[i] \in lv
      BY <1>1
    <3>2. CASE i = m - 1
      <4>1. g[i + 1] = c
        BY <1>1, <3>2
      <4> QED  BY <2>2, <3>1, <3>2, <4>1
    <3>3. CASE i # m - 1
      <4>1. i < m - 1 /\ i + 1 \in 0 .. m - 1 /\ i + 1 \in 0 .. m /\ i + 1 # m
        BY <1>1, <3>3
      <4>2. g[i + 1] = w[i + 1]
        BY <4>1
      <4>3. w[i] # w[m - 1] /\ nx[w[i]] = w[i + 1]
        BY <1>1, <2>1, <3>3, <4>1
      <4> QED  BY <2>2, <3>1, <4>2, <4>3
    <3> QED  BY <3>2, <3>3
  <2>4. g[0] = head2 /\ g[m] = c
    BY <1>1, <1>6, <2>2
  <2> HIDE DEF g, lv2
  <2>5. \A i \in 0 .. m : w2[i] = g[i]
    BY <2>1, <2>3, <2>4, PathIs DEF w2
  <2>6. ASSUME NEW n \in 1 .. m + 1 PROVE w2[n - 1] \in lv2 /\ dt2[w2[n - 1]] = items2[n]
    <3>1. CASE n = m + 1
      <4>1. w2[n - 1] = c
        BY <1>1, <2>1, <2>4, <2>5, <3>1
      <4> QED  BY <1>2, <3>1, <4>1 DEF lv2
    <3>2. CASE n # m + 1
      <4>1. n - 1 \in 0 .. m - 1 /\ n - 1 \in 0 .. m /\ n \in 1 .. m /\ (n - 1) + 1 = n
        BY <1>1, <3>2
      <4>2. w2[n - 1] = w[n - 1] /\ w[n - 1] \in lv /\ dt[w[n - 1]] = items[n]
        BY <1>1, <2>3, <2>5, <4>1
      <4>3. dt2[w[n - 1]] = items[n] /\ items2[n] = items[n]
        BY <1>2, <4>1, <4>2
      <4> QED  BY <4>2, <4>3 DEF lv2
    <3> QED  BY <3>1, <3>2
  <2>7. nx2[w2[(m + 1) - 1]] \in {Null, Junk}
    <3>1. (m + 1) - 1 = m
      BY <1>1
    <3> QED  BY <2>1, <2>4, <2>5, <3>1
  <2> QED  BY <1>2, <1>3, <2>6, <2>7 DEF RowOf, w2, items2, lv2
<1> QED  BY <1>5, <1>6

(* cli_menu_additem, behind an item: the place is the last one.            *)
LEMMA PlaceIs ==
  ASSUME Typed, MenuRow, menu_count # 0, Place.cell \in live
  PROVE  /\ Place.cell = Path(next, live, menu_choices)[menu_count - 1] /\ Place.count = menu_count
         /\ Place.cell \in ItemCells
<1> DEFINE w == Path(next, live, menu_choices)
           m == menu_count
           ends == {n \in 0 .. m - 1 : w[n] \in live /\ next[w[n]] = Null}
           steps == IF ends = {} THEN m ELSE CHOOSE n \in ends : TRUE
<1>1. Place = [cell |-> w[steps], count |-> IF ends = {} THEN m ELSE steps + 1]
  <2>1. Walk(menu_choices) = w
    BY WalkIsPath
  <2> DEFINE v == Walk(menu_choices)
             ends2 == {n \in 0 .. m - 1 : v[n] \in live /\ next[v[n]] = Null}
             steps2 == IF ends2 = {} THEN m ELSE CHOOSE n \in ends2 : TRUE
  <2>2. Place = [cell |-> v[steps2], count |-> IF ends2 = {} THEN m ELSE steps2 + 1]
    BY DEF Place
  <2>3. v = w
    BY <2>1
  <2> HIDE DEF v
  <2>4. ends2 = ends
    BY <2>3
  <2> HIDE DEF ends2
  <2>5. steps2 = steps
    BY <2>4
  <2> QED  BY <2>2, <2>3, <2>4, <2>5
<1>2. Different(next, live, data, menu_choices, added) /\ m = Len(added)
  BY RowFacts DEF MenuRow, Typed
<1>3. /\ m \in 0 .. Far /\ m \in Nat /\ m > 0 /\ m - 1 \in 0 .. m - 1 /\ m - 1 \in 0 .. Far - 1
      /\ next[w[m - 1]] \in {Null, Junk}
  <2>1. m \in 0 .. Far /\ m \in Nat /\ (m > 0 => next[w[m - 1]] \in {Null, Junk})
    BY DEF MenuRow, RowOf, Typed
  <2> HIDE DEF w
  <2> QED  BY <2>1, FarType
<1>4. \A i \in 0 .. m - 1 : /\ w[i] \in live /\ data[w[i]] \in Items
                            /\ i < m - 1 => next[w[i]] = w[i + 1]
  BY <1>2 DEF Different
<1>5. live \subseteq Cells
  BY DEF Typed
<1> HIDE DEF w
<1>6. ends \subseteq {m - 1}
  <2>1. ASSUME NEW i \in 0 .. m - 1, next[w[i]] = Null, i # m - 1 PROVE FALSE
    <3>1. i < m - 1 /\ i + 1 \in 0 .. m - 1
      BY <1>3, <2>1
    <3>2. next[w[i]] \in live
      BY <1>4, <3>1
    <3> QED  BY <1>5, <2>1, <3>2, ListAssumption
  <2> QED  BY <2>1
<1>7. CASE ends = {}
  <2>1. Place.cell = w[m]
    BY <1>1, <1>7
  <2>2. w[(m - 1) + 1] = Onward(next, live, w[m - 1])
    BY <1>3, PathStep DEF w
  <2>3. w[m] = next[w[m - 1]]
    <3>1. (m - 1) + 1 = m
      BY <1>3
    <3> QED  BY <1>3, <1>4, <2>2, <3>1 DEF Onward
  <2> QED  BY <1>3, <1>5, <2>1, <2>3, ListAssumption
<1>8. CASE ends # {}
  <2>1. ends = {m - 1}
    BY <1>6, <1>8
  <2>2. (CHOOSE n \in ends : TRUE) = m - 1
    BY <2>1
  <2>3. steps = m - 1
    BY <1>8, <2>2
  <2>4. Place.cell = w[m - 1] /\ Place.count = (m - 1) + 1
    BY <1>1, <1>8, <2>3
  <2>5. (m - 1) + 1 = m
    BY <1>3
  <2>6. w[m - 1] \in ItemCells
    BY <1>3, <1>4 DEF ItemCells
  <2> QED  BY <2>4, <2>5, <2>6 DEF w
<1> QED  BY <1>7, <1>8

MenuTyped ==
  menu_choices \in Cells \cup {Null} /\ menu_count \in Nat /\ added \in Seq(Items)

MenuKept == Within(Items) /\ MenuTyped' /\ MenuRow'

LEMMA AddKept ==
  ASSUME Typed, Owned, MenuRow, NEW item \in Items, NEW c \in Unused, NEW n \in {Null, Junk},
         AddTo(c, item, n), added' = Append(added, item)
  PROVE  MenuKept
<1> DEFINE e == Path(next, live, menu_choices)[menu_count - 1]
<1>1. /\ KeepsTo(Items) /\ ItemCells = CellsOf(Items) /\ live \subseteq Cells /\ Items \in Cast
      /\ c \in Cells /\ c \notin live /\ added \in Seq(Items)
      /\ menu_count = Len(added) /\ RowOf(next, live, data, menu_choices, added)
  BY OwnedIs DEF Typed, Cast, Unused, MenuRow
<1>2. added' \in Seq(Items) /\ Len(added') = Len(added) + 1 /\ Len(added) \in Nat
  BY <1>1
<1>3. CASE menu_count = 0
  <2>1. Created(c, item, n) /\ menu_choices' = c /\ menu_count' = 1
    BY <1>3 DEF AddTo
  <2>2. Within(Items)
    BY <1>1, <2>1, NewWithin
  <2>3. live' = live \cup {c} /\ data'[c] = item /\ next'[c] = n /\ \A x \in live : data'[x] = data[x]
    BY <1>1, <2>1 DEF Created, Typed
  <2>4. RowOf(next', live \cup {c}, data', menu_choices', Append(added, item))
    BY <1>1, <1>3, <2>1, <2>3, RowGrows
  <2> QED  BY <1>1, <1>2, <1>3, <2>1, <2>2, <2>3, <2>4 DEF MenuKept, MenuTyped, MenuRow
<1>4. CASE menu_count # 0
  <2>1. /\ Place.cell \in live
        /\ live' = live \cup {c}
        /\ data' = [data EXCEPT ![c] = item]
        /\ next' = [next EXCEPT ![c] = n, ![Place.cell] = c]
        /\ menu_count' = Place.count + 1
        /\ UNCHANGED menu_choices
    BY <1>4 DEF AddTo
  <2>2. Place.cell = e /\ Place.count = menu_count /\ e \in ItemCells
    BY <1>4, <2>1, PlaceIs
  <2> HIDE DEF e
  <2>3. e \in live /\ data[e] \in Items /\ e \in Cells /\ e # c
    BY <1>1, <2>2 DEF ItemCells
  <2>4. next' = [[next EXCEPT ![c] = n] EXCEPT ![e] = c] /\ next \in [Cells -> Cells \cup {Null, Junk}]
    BY <2>1, <2>2 DEF Typed
  <2>5. /\ next' \in [Cells -> Cells \cup {Null, Junk}]
        /\ next'[c] = n /\ next'[e] = c /\ \A x \in live : x # e => next'[x] = next[x]
    BY <1>1, <2>3, <2>4
  <2>6. /\ data' \in [Cells -> Values \cup GNodes \cup Items \cup {Null}]
        /\ data'[c] = item /\ \A x \in live : data'[x] = data[x]
    BY <1>1, <2>1 DEF Typed
  <2>7. Within(Items)
    <3>1. CellsOf(Items) \subseteq {x \in live' : data'[x] \in Items} /\ c \in {x \in live' : data'[x] \in Items}
      BY <2>1, <2>6 DEF CellsOf
    <3>2. ASSUME NEW x \in live', data'[x] \in Items
          PROVE  next'[x] \in {y \in live' : data'[y] \in Items} \cup {Null, Junk}
      <4>1. CASE x = c
        BY <2>5, <4>1
      <4>2. CASE x = e
        BY <2>5, <3>1, <4>2
      <4>3. CASE x # c /\ x # e
        <5>1. x \in CellsOf(Items) /\ next'[x] = next[x]
          BY <2>1, <2>5, <2>6, <3>2, <4>3 DEF CellsOf
        <5> QED  BY <1>1, <3>1, <5>1 DEF KeepsTo
      <4> QED  BY <4>1, <4>2, <4>3
    <3>3. /\ live \subseteq live' /\ live' \subseteq Cells
          /\ \A x \in live' \ live : data'[x] \in Items
          /\ \A x \in live : data[x] \notin Items => next'[x] = next[x]
      BY <1>1, <2>1, <2>3, <2>5, <2>6
    <3> QED  BY <2>5, <2>6, <3>2, <3>3 DEF Within
  <2>8. RowOf(next', live \cup {c}, data', menu_choices', Append(added, item))
    <3>1. Len(added) # 0 /\ menu_choices' = menu_choices /\ c \in Cells \ live /\ next'[c] \in {Null, Junk}
      BY <1>1, <1>4, <2>1, <2>5
    <3>2. e = Path(next, live, menu_choices)[Len(added) - 1]
      BY <1>1 DEF e
    <3>3. IF Len(added) = 0 THEN menu_choices' = c
          ELSE /\ menu_choices' = menu_choices
               /\ next'[Path(next, live, menu_choices)[Len(added) - 1]] = c
               /\ \A x \in live : x # Path(next, live, menu_choices)[Len(added) - 1] =>
                    next'[x] = next[x]
      BY <2>5, <3>1, <3>2
    <3> QED  BY <1>1, <2>6, <3>1, <3>3, RowGrows
  <2> QED  BY <1>1, <1>2, <2>1, <2>2, <2>7, <2>8 DEF MenuKept, MenuTyped, MenuRow, Typed
<1> QED  BY <1>3, <1>4

LEMMA MenuStill ==
  ASSUME Typed, Owned, MenuRow, Still, UNCHANGED <<menu_choices, menu_count, added>>
  PROVE  MenuKept
<1>1. Within(Items)
  BY OwnedIs, StillWithin
<1> QED  BY <1>1 DEF MenuKept, MenuTyped, MenuRow, Typed, Still

LEMMA MenuStepKept ==
  ASSUME NoStalePointers, Typed, Owned, MenuRow, AddItem \/ MenuStep
  PROVE  MenuKept /\ UNCHANGED graphVars
<1>0. UNCHANGED graphVars
  BY DEF AddItem, MenuStep
<1>1. ASSUME NEW value, Answers(value) PROVE MenuKept
  BY <1>1, MenuStill DEF Answers, Still, menuVars
<1>2. ASSUME NEW how, MenuEnds(how) PROVE MenuKept
  BY <1>2, MenuStill DEF MenuEnds, Ends, Still, menuVars
<1>3. CASE cli_menu_init
  <2>1. CASE menu_choices' = Null /\ menu_count' = 0 /\ added' = <<>> /\ Still
    <3>1. Within(Items)
      BY <2>1, OwnedIs, StillWithin
    <3>2. Len(<<>>) = 0 /\ 0 \in 0 .. Far /\ (1 .. 0) = {} /\ <<>> \in Seq(Items)
      BY FarType
    <3>3. RowOf(next', live', data', menu_choices', added')
      <4>1. Len(added') = 0
        BY <2>1, <3>2
      <4> QED  BY <3>2, <4>1 DEF RowOf
    <3>4. MenuTyped'
      BY <2>1, <3>2 DEF MenuTyped
    <3>5. MenuRow'
      BY <2>1, <3>2, <3>3 DEF MenuRow
    <3> QED  BY <1>0, <3>1, <3>4, <3>5 DEF MenuKept
  <2> QED  BY <1>0, <1>1, <1>2, <1>3, <2>1 DEF cli_menu_init, Still
<1>4. CASE cli_menu_callback
  <2>1. Still /\ UNCHANGED <<menu_choices, menu_count, added>>
    BY <1>4 DEF cli_menu_callback, Still
  <2> QED  BY <1>0, <2>1, MenuStill
<1>5. CASE cli_show_menu
  <2>1. Answers(-2) \/ MenuEnds("crashed") \/ Answers(0)
    BY <1>5 DEF cli_show_menu
  <2> QED  BY <1>0, <1>1, <1>2, <2>1
<1>6. CASE cli_menu_user
  <2>1. Answers(-2) \/ Answers(-1) \/ MenuEnds("crashed") \/ Answers(0) \/ Answers(-4)
    BY <1>6 DEF cli_menu_user
  <2> QED  BY <1>0, <1>1, <1>2, <2>1
<1>7. ASSUME NEW item \in Items, cli_menu_additem(item) PROVE MenuKept
  <2>1. ASSUME NEW n \in Fresh, Unused # {}, AddTo(NewCell, item, n), added' = Append(added, item)
        PROVE  MenuKept
    <3>1. NewCell \in Unused /\ n \in {Null, Junk}
      BY <2>1, ListAssumption DEF NewCell, NoStalePointers
    <3> QED  BY <2>1, <3>1, AddKept
  <2> QED  BY <1>2, <1>7, <2>1 DEF cli_menu_additem
<1> QED  BY <1>0, <1>3, <1>4, <1>5, <1>6, <1>7 DEF AddItem, MenuStep

-----------------------------------------------------------------------------
(* The inductive invariant.                                                *)

IInv == Typed /\ Owned /\ Fair(Lists, up) /\ MenuRow

LEMMA Starting == Init => IInv
<1> SUFFICES ASSUME Init PROVE IInv
  OBVIOUS
<1>1. /\ live = {} /\ next = [c \in Cells |-> Null] /\ data = [c \in Cells |-> Null]
      /\ edges = [u \in GNodes |-> Null] /\ up = {}
      /\ menu_choices = Null /\ menu_count = 0 /\ added = <<>>
  BY DEF Init, ListInit, GraphInit, MenuInit
<1>2. Typed
  BY <1>1 DEF Typed
<1>3. Owned
  BY <1>1 DEF Owned, Keeps, Mine, EdgeCells, ItemCells
<1>4. Fair(Lists, up)
  <2>1. Base(Lists, up)
    BY <1>1, ListsNext DEF Base, EdgesIn
  <2> QED  BY <1>1, <2>1 DEF Fair, Answered, TwiceOnly
<1>5. MenuRow
  BY <1>1, FarType DEF MenuRow, RowOf
<1> QED  BY <1>2, <1>3, <1>4, <1>5 DEF IInv

LEMMA RowWithin ==
  ASSUME Typed, MenuRow, NEW D, D \cap Items = {}, Within(D), UNCHANGED menuVars
  PROVE  MenuRow'
<1>1. D \cap Items = {}
  OBVIOUS
<1>2. /\ live \subseteq live'
      /\ \A c \in live : data'[c] = data[c] /\ (data[c] \in Items => next'[c] = next[c])
  BY <1>1 DEF Within
<1>3. RowOf(next', live', data', menu_choices, added)
  BY <1>2, RowStays DEF MenuRow, Typed
<1> QED  BY <1>3 DEF MenuRow, menuVars

LEMMA Stepping == ASSUME NoStalePointers, IInv, [Next]_vars PROVE IInv'
<1>1. Typed /\ Owned /\ Fair(Lists, up) /\ MenuRow /\ live \subseteq Cells
  BY DEF IInv, Typed
<1>2. ASSUME NEW D \in Cast, Within(D), Fair(Lists', up'), MenuTyped', MenuRow'
      PROVE  IInv'
  <2>1. Owned'
    BY <1>1, <1>2, OwnedWithin
  <2>2. up' \subseteq GNodes /\ edges' \in [GNodes -> Cells \cup {Null}]
    BY <1>2, ListsNext DEF Fair, Base
  <2>3. Typed'
    BY <1>2, <2>2 DEF Typed, Within, MenuTyped
  <2> QED  BY <1>2, <2>1, <2>3 DEF IInv
<1>3. UNCHANGED menuVars => MenuTyped'
  BY <1>1 DEF Typed, MenuTyped, menuVars
<1>4. CASE ListStep
  <2>1. Within(Values) /\ UNCHANGED <<graphVars, menuVars>>
    BY <1>1, <1>4, ListWithin
  <2>2. Values \in Cast /\ Values \cap GNodes = {} /\ Values \cap Items = {}
    BY LinksAssumption DEF Cast
  <2>3. Fair(Lists', up')
    BY <1>1, <2>1, <2>2, FairWithin DEF graphVars
  <2>4. MenuRow'
    BY <1>1, <2>1, <2>2, RowWithin
  <2> QED  BY <1>2, <1>3, <2>1, <2>2, <2>3, <2>4
<1>5. CASE CloseRing \/ Connect \/ SelfConnect \/ GraphStep
  <2>1. GraphKept /\ UNCHANGED menuVars
    BY <1>1, <1>5, GraphStepKept
  <2>2. Within(GNodes)
    BY <1>1, <2>1, GraphWithin
  <2>3. GNodes \in Cast /\ GNodes \cap Items = {}
    BY LinksAssumption DEF Cast
  <2>4. MenuRow'
    BY <1>1, <2>1, <2>2, <2>3, RowWithin
  <2> QED  BY <1>2, <1>3, <2>1, <2>2, <2>3, <2>4 DEF GraphKept
<1>6. CASE AddItem \/ MenuStep
  <2>1. MenuKept /\ UNCHANGED graphVars
    BY <1>1, <1>6, MenuStepKept
  <2>2. Items \in Cast /\ Items \cap GNodes = {}
    BY LinksAssumption DEF Cast
  <2>3. Fair(Lists', up')
    BY <1>1, <2>1, <2>2, FairWithin DEF graphVars, MenuKept
  <2> QED  BY <1>2, <2>1, <2>2, <2>3 DEF MenuKept
<1>7. CASE UNCHANGED vars
  <2>1. UNCHANGED <<live, next, data, edges, up, menu_choices, menu_count, added>>
    BY <1>7 DEF vars, listVars, graphVars, menuVars
  <2>2. GraphKept
    BY <1>1, <2>1, StillKept DEF Still
  <2>3. MenuKept
    BY <1>1, <2>1, MenuStill DEF Still
  <2>4. Items \in Cast
    BY DEF Cast
  <2> QED  BY <1>2, <2>2, <2>3, <2>4 DEF GraphKept, MenuKept
<1> QED  BY <1>4, <1>5, <1>6, <1>7 DEF Next

-----------------------------------------------------------------------------
(* Live cells are cells, whatever a new one holds.                         *)

GoodLists(s) ==
  IsLists(s) /\ s.live \subseteq Cells /\ s.next = [c \in Cells |-> s.next[c]]

LEMMA NewEdgeGood ==
  ASSUME NEW s, GoodLists(s), NEW v, NEW n
  PROVE  GoodLists(NewEdge(s, v, n))
<1>1. PICK l, x, d, e, h :
        s = [live |-> l, next |-> x, data |-> d, edges |-> e, short |-> h] /\ h \in BOOLEAN
  BY DEF GoodLists, IsLists
<1>2. l \subseteq Cells /\ l = s.live
  BY <1>1 DEF GoodLists
<1>3. CASE s.live = Cells
  BY <1>1, <1>2, <1>3 DEF NewEdge, GoodLists, IsLists
<1>4. CASE s.live # Cells
  <2>1. PICK c : c = CellFor(s)
    OBVIOUS
  <2>2. c \in Cells
    BY <1>2, <1>4, <2>1 DEF CellFor
  <2>3. NewEdge(s, v, n) = [s EXCEPT !.live = @ \cup {c}, !.next[c] = n, !.data[c] = v]
    BY <1>4, <2>1 DEF NewEdge
  <2>4. NewEdge(s, v, n) =
          [live |-> l \cup {c}, next |-> [x EXCEPT ![c] = n], data |-> [d EXCEPT ![c] = v],
           edges |-> e, short |-> h]
    BY <1>1, <2>3
  <2>5. PICK t : t = NewEdge(s, v, n)
    OBVIOUS
  <2>6. IsLists(t) /\ t.live = l \cup {c} /\ t.next = [x EXCEPT ![c] = n]
    BY <1>1, <2>4, <2>5 DEF IsLists
  <2>7. [x EXCEPT ![c] = n] = [b \in Cells |-> [x EXCEPT ![c] = n][b]]
    BY <1>1 DEF GoodLists
  <2>8. t.next = [b \in Cells |-> t.next[b]]
    BY <2>6, <2>7
  <2> QED  BY <1>2, <2>2, <2>5, <2>6, <2>8 DEF GoodLists
<1> QED  BY <1>3, <1>4

LEMMA StartGood ==
  ASSUME NEW s, GoodLists(s), NEW u, NEW v, NEW n
  PROVE  GoodLists(StartList(s, u, v, n))
<1>1. PICK t : t = NewEdge(s, v, n)
  OBVIOUS
<1>2. GoodLists(t)
  BY <1>1, NewEdgeGood
<1>3. PICK l, x, d, e, h :
        t = [live |-> l, next |-> x, data |-> d, edges |-> e, short |-> h] /\ h \in BOOLEAN
  BY <1>2 DEF GoodLists, IsLists
<1>4. PICK c : c = CellFor(s)
  OBVIOUS
<1>5. StartList(s, u, v, n) = IF t.short THEN t ELSE [t EXCEPT !.edges[u] = c]
  BY <1>1, <1>4 DEF StartList
<1>6. [t EXCEPT !.edges[u] = c] =
        [live |-> l, next |-> x, data |-> d, edges |-> [e EXCEPT ![u] = c], short |-> h]
  BY <1>3
<1>7. PICK r : r = [live |-> l, next |-> x, data |-> d, edges |-> [e EXCEPT ![u] = c], short |-> h]
  OBVIOUS
<1>8. GoodLists(r)
  BY <1>2, <1>3, <1>7 DEF GoodLists, IsLists
<1> QED  BY <1>2, <1>5, <1>6, <1>7, <1>8

LEMMA AppendGood ==
  ASSUME NEW s, GoodLists(s), NEW k, NEW v, NEW n
  PROVE  GoodLists(AppendEdge(s, k, v, n))
<1>1. PICK t : t = NewEdge(s, v, n)
  OBVIOUS
<1>2. GoodLists(t)
  BY <1>1, NewEdgeGood
<1>3. PICK l, x, d, e, h :
        t = [live |-> l, next |-> x, data |-> d, edges |-> e, short |-> h] /\ h \in BOOLEAN
  BY <1>2 DEF GoodLists, IsLists
<1>4. PICK c : c = CellFor(s)
  OBVIOUS
<1>5. AppendEdge(s, k, v, n) = IF t.short THEN t ELSE [t EXCEPT !.next[k] = c]
  BY <1>1, <1>4 DEF AppendEdge
<1>6. [t EXCEPT !.next[k] = c] =
        [live |-> l, next |-> [x EXCEPT ![k] = c], data |-> d, edges |-> e, short |-> h]
  BY <1>3
<1>7. PICK r : r = [live |-> l, next |-> [x EXCEPT ![k] = c], data |-> d, edges |-> e, short |-> h]
  OBVIOUS
<1>8. GoodLists(r)
  <2>1. IsLists(r) /\ r.live \subseteq Cells /\ r.next = [x EXCEPT ![k] = c]
    BY <1>2, <1>3, <1>7 DEF GoodLists, IsLists
  <2>2. x = [b \in Cells |-> x[b]]
    BY <1>2, <1>3 DEF GoodLists
  <2>3. [x EXCEPT ![k] = c] = [b \in Cells |-> [x EXCEPT ![k] = c][b]]
    BY <2>2
  <2>4. r.next = [b \in Cells |-> r.next[b]]
    BY <2>1, <2>3
  <2> QED  BY <2>1, <2>4 DEF GoodLists
<1> QED  BY <1>2, <1>5, <1>6, <1>7, <1>8

LEMMA BecomesLive ==
  ASSUME LiveCells, NEW s, GoodLists(s), NEW value, Becomes(s, value)
  PROVE  LiveCells'
<1>1. Failed \/ Became(s, value)
  BY BecomesIs DEF GoodLists
<1>2. Failed => live' = live /\ next' = next
  BY DEF Failed, Still
<1>3. Became(s, value) => live' = s.live /\ next' = s.next
  BY ListsNext DEF Became
<1> QED  BY <1>1, <1>2, <1>3 DEF LiveCells, GoodLists

LEMMA BetaLive ==
  ASSUME LiveCells, NEW s, GoodLists(s), NEW u, NEW v, NEW n, NEW value,
         ConnectBeta(s, u, v, n, value)
  PROVE  LiveCells'
<1>1. \/ Becomes(s, value)
      \/ Faults(ToLast(v))
      \/ Becomes(AppendEdge(s, LastEdge(v), u, n), value + 4)
      \/ Becomes(AppendEdge(s, LastEdge(v), u, edges[v]), value + 8)
  BY DEF ConnectBeta
<1>2. Faults(ToLast(v)) => LiveCells'
  BY FaultsIs DEF Failed, Still, LiveCells
<1> QED  BY <1>1, <1>2, BecomesLive, AppendGood

LEMMA ConnectLive ==
  ASSUME LiveCells, NEW u, NEW v, node_connect(u, v)
  PROVE  LiveCells'
<1>1. ASSUME NEW code, Refuses(code) PROVE LiveCells'
  BY <1>1, RefusesStill DEF Still, LiveCells
<1>2. ASSUME NEW steps, Faults(steps) PROVE LiveCells'
  BY <1>2, FaultsIs DEF Failed, Still, LiveCells
<1>3. GoodLists(Lists)
  BY ListsIs, ListsNext DEF GoodLists, LiveCells
<1>4. ASSUME NEW s, GoodLists(s), NEW m, ConnectListed(s, u, v, m) PROVE LiveCells'
  <2>1. \/ Faults(Connected(u, v))
        \/ Becomes(s, 0)
        \/ ConnectBeta(AppendEdge(s, LastEdge(u), v, edges[u]), u, v, m, 0)
    <3>1. PICK k : k = Connected(u, v)
      OBVIOUS
    <3>2. (CASE k \in {-1, -2} -> Faults(k)
             [] k \in {1, 2}   -> Becomes(s, 0)
             [] k = -3 -> ConnectBeta(AppendEdge(s, LastEdge(u), v, edges[u]), u, v, m, 0))
      BY <1>4, <3>1 DEF ConnectListed
    <3>3. k \in {-1, -2} \/ k \in {1, 2} \/ k = -3
      BY <3>1, ConnectedSays DEF LiveCells
    <3>4. CASE k \in {-1, -2}
      <4>1. k \notin {1, 2} /\ k # -3
        BY <3>4
      <4>2. Faults(k)
        BY <3>2, <3>4, <4>1
      <4> QED  BY <3>1, <4>2
    <3>5. CASE k \in {1, 2}
      <4>1. k \notin {-1, -2} /\ k # -3
        BY <3>5
      <4> QED  BY <3>2, <3>5, <4>1
    <3>6. CASE k = -3
      <4>1. k \notin {-1, -2} /\ k \notin {1, 2}
        BY <3>6
      <4> QED  BY <3>2, <3>6, <4>1
    <3> QED  BY <3>3, <3>4, <3>5, <3>6
  <2> QED  BY <1>2, <1>4, <2>1, BecomesLive, AppendGood, BetaLive
<1>5. ASSUME NEW n, NEW m, ConnectDistinct(u, v, n, m) PROVE LiveCells'
  <2>1. CASE edges[u] = Null
    <3>1. PICK s : s = StartList(Lists, u, v, n)
      OBVIOUS
    <3>2. GoodLists(s) /\ GoodLists(StartList(s, v, u, m))
      BY <1>3, <3>1, StartGood
    <3>3. Becomes(StartList(s, v, u, m), 0) \/ ConnectBeta(s, u, v, m, 0)
      BY <1>5, <2>1, <3>1 DEF ConnectDistinct
    <3> QED  BY <3>2, <3>3, BecomesLive, BetaLive
  <2>2. CASE edges[u] # Null
    <3>1. PICK s : s = IF edges[v] = Null THEN StartList(Lists, v, u, n) ELSE Lists
      OBVIOUS
    <3>2. GoodLists(s)
      BY <1>3, <3>1, StartGood
    <3>3. Becomes(s, 0) \/ ConnectBeta(s, u, v, m, 0) \/ ConnectListed(s, u, v, m)
      BY <1>5, <2>2, <3>1 DEF ConnectDistinct
    <3> QED  BY <1>4, <3>2, <3>3, BecomesLive, BetaLive
  <2> QED  BY <2>1, <2>2
<1> QED  BY <1>1, <1>5 DEF node_connect

AnyCall ==
  \/ ListStep \/ (\E h \in Mine : Clean(h))
  \/ CloseRing \/ Connect \/ SelfConnect \/ GraphStep
  \/ AddItem \/ MenuStep

LEMMA LiveStep == ASSUME LiveCells, AnyCall \/ UNCHANGED vars PROVE LiveCells'
<1>0. next = [c \in Cells |-> next[c]] /\ live \subseteq Cells
  BY DEF LiveCells
<1>1. ASSUME live' \subseteq live, NEW x, NEW y, next' = [next EXCEPT ![x] = y] PROVE LiveCells'
  <2>1. [next EXCEPT ![x] = y] = [c \in Cells |-> [next EXCEPT ![x] = y][c]]
    BY <1>0
  <2> QED  BY <1>0, <1>1, <2>1 DEF LiveCells
<1>2. ASSUME live' \subseteq live, next' = next PROVE LiveCells'
  BY <1>0, <1>2 DEF LiveCells
<1>3. ASSUME Unused # {}, live' = live \cup {NewCell}, NEW x, NEW y, NEW x2, NEW y2,
             next' = [next EXCEPT ![x] = y, ![x2] = y2]
      PROVE  LiveCells'
  <2>1. [next EXCEPT ![x] = y, ![x2] = y2] = [c \in Cells |-> [next EXCEPT ![x] = y, ![x2] = y2][c]]
    BY <1>0
  <2>2. NewCell \in Cells
    BY <1>3 DEF NewCell, Unused
  <2> QED  BY <1>0, <1>3, <2>1, <2>2 DEF LiveCells
<1>33. ASSUME Unused # {}, live' = live \cup {NewCell}, NEW x, NEW y, next' = [next EXCEPT ![x] = y]
      PROVE  LiveCells'
  <2>1. [next EXCEPT ![x] = y] = [c \in Cells |-> [next EXCEPT ![x] = y][c]]
    BY <1>0
  <2>2. NewCell \in Cells
    BY <1>33 DEF NewCell, Unused
  <2> QED  BY <1>0, <1>33, <2>1, <2>2 DEF LiveCells
<1>4. CASE ListStep \/ \E h \in Mine : Clean(h)
  <2>1. ASSUME NEW d, list_create_node(d) PROVE LiveCells'
    BY <1>2, <1>33, <2>1 DEF list_create_node, Created, Ends
  <2>2. ASSUME NEW h, NEW c, list_add(h, c) PROVE LiveCells'
    BY <1>0, <1>1, <1>2, <2>2, AddIs DEF Still
  <2>3. ASSUME NEW h, NEW c \in live, list_del(h, c) PROVE LiveCells'
    <3>1. DelBy(h, c, StepsTo(next, live, h, DelHalts(h, c)))
      BY <2>3, DelIs
    <3> QED  BY <1>1, <1>2, <3>1 DEF DelBy, Fails, Ends
  <2>4. ASSUME NEW h, list_empty(h) PROVE LiveCells'
    BY <1>1, <1>2, <2>4 DEF list_empty, Ends
  <2>5. ASSUME NEW h, list_clean(h) PROVE LiveCells'
    BY <1>2, <2>5 DEF list_clean, Ends
  <2> QED  BY <1>4, <2>1, <2>2, <2>3, <2>4, <2>5, MineLive
           DEF ListStep, CreateNode, AddNode, DelNode, EmptyList, CleanNode, Clean, OwnLists
<1>5. CASE CloseRing
  <2>1. PICK u \in up : list_add(edges[u], edges[u])
    BY <1>5 DEF CloseRing, OwnLists
  <2> QED  BY <1>0, <1>1, <1>2, <2>1, AddIs DEF Still
<1>6. CASE Connect
  BY <1>6, ConnectLive DEF Connect
<1>7. CASE SelfConnect \/ GraphStep
  <2>1. ASSUME NEW code, Refuses(code) PROVE LiveCells'
    BY <1>2, <2>1, RefusesStill DEF Still
  <2>2. ASSUME NEW steps, Faults(steps) PROVE LiveCells'
    BY <1>2, <2>2, FaultsIs DEF Failed, Still
  <2>3. ASSUME NEW u, NEW f, Register(u, f) PROVE LiveCells'
    BY <1>2, <2>3 DEF Register
  <2>4. ASSUME NEW u, node_init(u) PROVE LiveCells'
    BY <1>2, <2>1, <2>4 DEF node_init
  <2>5. ASSUME NEW u, node_free(u) PROVE LiveCells'
    BY <1>2, <2>5 DEF node_free
  <2>6. ASSUME NEW u, node_self_connect(u) PROVE LiveCells'
    <3>1. PICK n \in Fresh :
           IF edges[u] = Null THEN Becomes(StartList(Lists, u, u, n), 0)
           ELSE SelfBy(u, n, Look(u, u))
      BY <2>6, SelfIs
    <3>2. GoodLists(Lists)
      BY ListsIs, ListsNext DEF GoodLists, LiveCells
    <3>3. CASE edges[u] = Null
      BY <3>1, <3>2, <3>3, StartGood, BecomesLive
    <3>4. CASE edges[u] # Null
      <4>1. PICK k : k = Look(u, u)
        OBVIOUS
      <4>2. PICK e : e = Walk(edges[u])[k]
        OBVIOUS
      <4>3. \/ Faults(k)
            \/ Refuses(BERR_INVALID + BERR_NORMAL)
            \/ Becomes(AppendEdge(Lists, e, u, Null), 2)
            \/ Becomes(AppendEdge(Lists, e, u, edges[u]), 4)
        BY <3>1, <3>4, <4>1, <4>2 DEF SelfBy
      <4> QED  BY <2>1, <2>2, <3>2, <4>3, AppendGood, BecomesLive
    <3> QED  BY <3>3, <3>4
  <2>7. ASSUME NEW u, NEW f, node_register(u, f) PROVE LiveCells'
    BY <2>1, <2>3, <2>7 DEF node_register
  <2>8. ASSUME NEW u, node_unregister(u) PROVE LiveCells'
    BY <2>1, <2>3, <2>8 DEF node_unregister
  <2>9. ASSUME NEW u, NEW v, node_compare(u, v) PROVE LiveCells'
    BY <2>1, <2>2, <2>9 DEF node_compare
  <2>10. ASSUME NEW u, NEW v, is_node_connected(u, v) PROVE LiveCells'
    BY <2>1, <2>2, <2>10 DEF is_node_connected
  <2> QED  BY <1>7, <2>4, <2>5, <2>6, <2>7, <2>8, <2>9, <2>10 DEF SelfConnect, GraphStep
<1>8. CASE AddItem \/ MenuStep
  <2>1. ASSUME NEW value, Answers(value) PROVE LiveCells'
    BY <1>2, <2>1 DEF Answers
  <2>2. ASSUME NEW how, MenuEnds(how) PROVE LiveCells'
    BY <1>2, <2>2 DEF MenuEnds, Ends
  <2>3. CASE cli_menu_init
    BY <1>2, <2>1, <2>2, <2>3 DEF cli_menu_init
  <2>4. CASE cli_menu_callback
    BY <1>2, <2>4 DEF cli_menu_callback
  <2>5. CASE cli_show_menu
    BY <2>1, <2>2, <2>5 DEF cli_show_menu
  <2>6. CASE cli_menu_user
    BY <2>1, <2>2, <2>6 DEF cli_menu_user
  <2>7. ASSUME NEW item, cli_menu_additem(item) PROVE LiveCells'
    <3>1. ASSUME NEW n, Unused # {}, AddTo(NewCell, item, n) PROVE LiveCells'
      <4>1. PICK e : e = Place.cell
        OBVIOUS
      <4>2. /\ live' = live \cup {NewCell}
            /\ \/ next' = [next EXCEPT ![NewCell] = n]
               \/ next' = [next EXCEPT ![NewCell] = n, ![e] = NewCell]
        BY <3>1, <4>1 DEF AddTo, Created
      <4> QED  BY <1>3, <1>33, <3>1, <4>2
    <3>2. MenuEnds("crashed") \/ \E n \in Fresh : Unused # {} /\ AddTo(NewCell, item, n)
      BY <2>7 DEF cli_menu_additem
    <3> QED  BY <2>2, <3>1, <3>2
  <2> QED  BY <1>8, <2>3, <2>4, <2>5, <2>6, <2>7 DEF AddItem, MenuStep
<1>9. CASE UNCHANGED vars
  BY <1>2, <1>9 DEF vars, listVars
<1> QED  BY <1>4, <1>5, <1>6, <1>7, <1>8, <1>9 DEF AnyCall

-----------------------------------------------------------------------------
(* The properties.                                                         *)

LEMMA FindsThen == LiveCells => FindsFirst
<1> SUFFICES ASSUME LiveCells, NEW h \in Mine, NEW d \in Values, Ring(h) \/ Ends0(h)
             PROVE  LET w == Walk(h)
                        found == list_find(h, d)
                        With == {n \in DOMAIN w : w[n] \in live /\ data[w[n]] = d}
                    IN IF found = Null THEN \A n \in With : next[w[n]] = h
                       ELSE \E n \in With : found = w[n] /\ \A m \in With : n <= m
  BY Zenon DEF FindsFirst
<1>1. h \in live /\ live \subseteq Cells
  BY MineLive DEF LiveCells
<1> DEFINE w == Walk(h)
           last == {c \in Chain(h) : next[c] = h}
           With == {n \in DOMAIN w : w[n] \in live /\ data[w[n]] = d}
           Some == {n \in DOMAIN w : w[n] \in live \ last /\ data[w[n]] = d}
           least == CHOOSE n \in Some : \A m \in Some : n <= m
           Right == IF list_find(h, d) = Null THEN \A n \in With : next[w[n]] = h
                    ELSE \E n \in With : list_find(h, d) = w[n] /\ \A m \in With : n <= m
<1>0. SUFFICES Right
  OBVIOUS
<1>2. list_find(h, d) = IF Some = {} THEN Null ELSE w[least]
  BY <1>1, FindsRight
<1>3. Null \notin live /\ DOMAIN w = 0 .. Far /\ Chain(h) = Reach(next, live, h)
  <2>1. w = Path(next, live, h) /\ Chain(h) = Reach(next, live, h)
    BY WalkIsPath
  <2> QED  BY <1>1, <2>1, PathStep, ListAssumption
<1>4. PICK k \in 0 .. Far :
        /\ \A i, j \in 0 .. k : w[i] = w[j] => i = j
        /\ Chain(h) = {w[i] : i \in 0 .. k}
        /\ \A i \in 0 .. k : i # k => next[w[i]] # h
  <2>1. \E c \in Chain(h) : next[c] \in {h, Null}
    BY DEF Ring, Ends0
  <2>2. w = Path(next, live, h)
    BY WalkIsPath
  <2>3. PICK k \in 0 .. Far : Row(next, live, h, k)
    BY <1>1, <1>3, <2>1, RowExists
  <2> HIDE DEF w
  <2>4. /\ \A i \in 0 .. k : w[i] \in live
        /\ \A i \in 0 .. k - 1 : w[i + 1] = next[w[i]]
        /\ \A i, j \in 0 .. k : w[i] = w[j] => i = j
        /\ Chain(h) = {w[i] : i \in 0 .. k}
    BY <1>3, <2>2, <2>3 DEF Row
  <2>5. w[0] = h
    BY <2>2, PathStep
  <2>6. ASSUME NEW i \in 0 .. k, i # k PROVE next[w[i]] # h
    <3>1. i \in 0 .. k - 1 /\ i + 1 \in 0 .. k /\ 0 \in 0 .. k /\ i + 1 # 0
      BY <2>6, FarType
    <3>2. next[w[i]] = w[i + 1] /\ w[i + 1] # w[0]
      BY <2>4, <3>1
    <3> QED  BY <2>5, <3>2
  <2> QED  BY <2>4, <2>6
<1>5. \A n \in With : w[n] \in Chain(h)
  <2>1. w = Path(next, live, h)
    BY WalkIsPath
  <2>2. \A n \in 0 .. Far : w[n] \in live => w[n] \in Chain(h)
    BY <1>3, <2>1, ReachIs
  <2> QED  BY <1>3, <2>2
<1> HIDE DEF w
<1>6. Some \subseteq Nat /\ With \subseteq 0 .. Far
  BY <1>3, FarType
<1>7. CASE Some = {}
  <2>1. \A n \in With : next[w[n]] = h
    BY <1>5, <1>7
  <2> QED  BY <1>2, <1>7, <2>1
<1>8. CASE Some # {}
  <2>1. least \in Some /\ \A m \in Some : least <= m
    <3> HIDE DEF Some
    <3>1. Earliest(Some) \in Some /\ \A m \in Some : Earliest(Some) <= m
      BY <1>6, <1>8, EarliestIs
    <3> QED  BY <3>1 DEF Earliest
  <2> HIDE DEF least
  <2>2. least \in With /\ w[least] \in live /\ w[least] \notin last /\ data[w[least]] = d
    BY <2>1
  <2>3. list_find(h, d) = w[least] /\ w[least] # Null
    BY <1>2, <1>3, <1>8, <2>2
  <2>4. PICK f \in 0 .. k : w[f] = w[least]
    BY <1>4, <1>5, <2>2
  <2>5. f \in Some
    <3>1. f \in 0 .. Far
      BY FarType
    <3> QED  BY <1>3, <2>2, <2>4, <3>1
  <2>6. least <= f
    BY <2>1, <2>5
  <2>7. ASSUME NEW m \in With PROVE least <= m
    <3>1. CASE w[m] \notin last
      <4>1. m \in Some
        BY <3>1
      <4> QED  BY <2>1, <4>1
    <3>2. CASE w[m] \in last
      <4>1. PICK g \in 0 .. k : w[g] = w[m]
        BY <1>4, <1>5
      <4>2. g = k
        BY <1>4, <3>2, <4>1
      <4>3. m \in 0 .. k => m = k
        BY <1>4, <4>1, <4>2
      <4>4. m \in Nat /\ k \in Nat /\ f \in Nat /\ least \in Nat
        BY <1>6, <2>2, FarType
      <4>5. k <= m
        BY <4>3, <4>4
      <4> QED  BY <2>6, <4>4, <4>5
    <3> QED  BY <3>1, <3>2
  <2> HIDE DEF With
  <2> QED  BY <2>2, <2>3, <2>7
<1> QED  BY <1>7, <1>8
=============================================================================
