---------------------------- MODULE ArenaProofs -----------------------------
(***************************************************************************)
(* Safety of the arenas of Arena.tla, for every number of chunks, pages,   *)
(* regions and threads, from ArenaAssumption; only PurgatoryBalanced needs *)
(* ThreadsAssumption.                                                      *)
(*                                                                         *)
(* None of the properties is inductive, because the arena's lock is let go *)
(* in the middle of most operations: what a thread has yet to do is part   *)
(* of the state.  The invariant says what each thread holds meanwhile, by  *)
(* its list of tasks: the dirty runs it takes back from the trees to       *)
(* purge, the run it has yet to trim, the chunk it unmaps, the run it      *)
(* brings to the bin or drops from it.                                     *)
(*                                                                         *)
(*   World    the objects, the bin's runs and what the threads hold are    *)
(*            apart, and together are the runs the map has as allocated;   *)
(*            the arena is Fine for them, and for the chunks that are      *)
(*            mapped and not being unmapped                                *)
(*   BinInv   a run of the bin with regions to give is the current one, in *)
(*            the tree, or in the hands of one thread                      *)
(*   ListOk   the tasks of a thread come in the order of Rank, so that it  *)
(*            purges, returns or trims at most one run or set of runs      *)
(*   Owed     what a thread has yet to purge of what it committed to       *)
(*                                                                         *)
(* A step is followed in three parts: a thread takes up what it holds      *)
(* (Begun), its operations move runs between its hands, the bin, the       *)
(* objects and the trees, and what is left to do becomes its list (Ended). *)
(***************************************************************************)
EXTENDS ArenaRuns, FiniteSetTheorems, WellFoundedInduction, SequenceTheorems, TLAPS

-----------------------------------------------------------------------------
(* Who holds the runs.  A thread holds those it is to return or to trim.   *)

Rank(x) == IF x[1] = "unmap" THEN 1
           ELSE IF x[1] = "madvise" THEN 2
           ELSE IF x[1] = "return" THEN 3
           ELSE IF x[1] \in {"maybe", "purge"} THEN 4 ELSE 5

Requests ==
  {[for |-> "bin", need |-> RunPages]} \cup [for : {"object"}, need : 1 .. NP]
  \cup {q \in [for : {"align"}, need : 1 .. NP, size : 1 .. NP, align : {2, 4}] :
          q.size + q.align - 1 <= q.need}

TaskOk(x) ==
  /\ x[1] \in {"map", "unmap", "madvise", "return", "maybe", "purge", "run", "bin", "drop", "tail"}
  /\ x[1] = "map" => x[2] \in Requests
  /\ x[1] = "unmap" => x[2] \in Chunks
  /\ x[1] \in {"madvise", "return"} => x[2] \in SUBSET Pages /\ x[2] # {}
  /\ x[1] = "purge" => x[2] \in Nat
  /\ x[1] = "tail" => x[2] \in Pages /\ x[3] \in Nat /\ x[4] \in 1 .. x[3]

(* What one has to madvise one returns then; a run to trim is none of it.  *)
TodoOk(T) ==
  /\ \A x \in T : TaskOk(x)
  /\ \A x \in T : x[1] = "madvise" => \E y \in T : y[1] = "return" /\ y[2] = x[2]
  /\ \A x \in T : \A y \in T : x[1] = "return" /\ y[1] = "tail" => y[2] \notin x[2]

ListOk(w) ==
  /\ w \in Seq(Range(w))
  /\ \A i, j \in DOMAIN w : i < j => Rank(w[i]) < Rank(w[j])
  /\ TodoOk(Range(w))

HandOf(T) == {p \in Pages : \E x \in T : \/ x[1] \in {"madvise", "return"} /\ p \in x[2]
                                         \/ x[1] = "tail" /\ p = x[2]}
Leaving(T) == {c \in Chunks : \E x \in T : x[1] = "unmap" /\ x[2] = c}

IsLarge(a, r) == "large" \in a.map[r].flags

Claims(a, T) ==
  \A x \in T :
    /\ x[1] = "return" => \A r \in x[2] : /\ IsLarge(a, r) /\ Dirty(a.map[r]) = {}
                                          /\ (\E y \in T : y[1] = "madvise") \/ Unused(a, r, 0)
    /\ x[1] = "tail" => IsLarge(a, x[2]) /\ a.map[x[2]].size = x[3] /\ Unused(a, x[2], 0)

(* The threads U, with the work wk.                                        *)
Holding(wk, U) == {p \in Pages : \E u \in U : p \in HandOf(Range(wk[u]))}
Unmapping(wk, U) == {c \in Chunks : \E u \in U : c \in Leaving(Range(wk[u]))}

Others(bn, ob, wk, U) == DOMAIN ob \cup DOMAIN bn.runs \cup Holding(wk, U)
Left(a, C, wk, U) == a.mapped \ (C \cup Unmapping(wk, U))

(* The runs R and the chunks C are in the hands of somebody else.          *)
Parted(a, R, C, bn, ob, wk, U) ==
  /\ R \cap Others(bn, ob, wk, U) = {} /\ DOMAIN ob \cap DOMAIN bn.runs = {}
  /\ Holding(wk, U) \cap (DOMAIN ob \cup DOMAIN bn.runs) = {}
  /\ C \cap Unmapping(wk, U) = {} /\ C \cup Unmapping(wk, U) \subseteq a.mapped
  /\ \A u \in U : \A v \in U : u # v =>
       /\ HandOf(Range(wk[u])) \cap HandOf(Range(wk[v])) = {}
       /\ Leaving(Range(wk[u])) \cap Leaving(Range(wk[v])) = {}

ObjectsOk(a, ob) == \A r \in DOMAIN ob : IsLarge(a, r) /\ a.map[r].size = ob[r]
BinOk(a, bn) == \A r \in DOMAIN bn.runs : /\ ~IsLarge(a, r) /\ bn.runs[r].next \in 0 .. Regs
                                          /\ Unused(a, r, Past(bn.runs[r].next))
ThreadsOk(a, wk, U) == \A u \in U : ListOk(wk[u]) /\ Claims(a, Range(wk[u]))

World(a, R, C, bn, ob, wk, U) ==
  /\ Fine(a, R \cup Others(bn, ob, wk, U), Left(a, C, wk, U)) /\ a.released = Null
  /\ Parted(a, R, C, bn, ob, wk, U)
  /\ ObjectsOk(a, ob) /\ BinOk(a, bn) /\ ThreadsOk(a, wk, U)

(* The pages of the run that the first next regions of it use.             *)
LEMMA PastIs ==
  ASSUME NEW k \in 0 .. Regs
  PROVE  /\ Past(k) \in Nat /\ Past(k) >= 1 /\ Past(k) <= RunPages
         /\ \A j \in 0 .. Regs : j <= k => Past(j) <= Past(k)
<1>1. /\ Regs \in Nat /\ PageSize \in Nat /\ PageSize >= 1 /\ RegSize \in Nat /\ RegSize >= 1
      /\ RunPages \in Nat /\ Reg0 \in Nat /\ Reg0 >= 1 /\ Reg0 + Regs * RegSize = RunPages * PageSize
  BY ArenaAssumption, Numbers
<1> DEFINE X(j) == Reg0 + j * RegSize + PageSize - 1
<1>2. ASSUME NEW j \in 0 .. Regs
      PROVE  /\ X(j) \in Int /\ Past(j) = X(j) \div PageSize /\ Past(j) \in Int
             /\ Past(j) * PageSize <= X(j) /\ X(j) <= Past(j) * PageSize + PageSize - 1
             /\ X(j) >= PageSize
  <2>1. j * RegSize \in Nat
    BY <1>1
  <2>2. PICK x : x = X(j)
    OBVIOUS
  <2>3. x \in Int /\ x >= PageSize
    BY <1>1, <2>1, <2>2
  <2>4. Past(j) = x \div PageSize
    BY <2>2 DEF Past
  <2>5. x \div PageSize \in Int /\ \A q \in Int : x \div PageSize = q <=> q * PageSize <= x /\ x <= q * PageSize + PageSize - 1
    BY <1>1, <2>3, DivIs
  <2> QED  BY <2>2, <2>3, <2>4, <2>5
<1>3. ASSUME NEW p \in Int, NEW q \in Int, p < q PROVE p * PageSize + PageSize <= q * PageSize
  <2>1. q = p + 1 + (q - p - 1) /\ q - p - 1 \in Nat
    BY <1>3
  <2>2. PICK d \in Nat : d = q - p - 1
    BY <2>1
  <2>3. q * PageSize = p * PageSize + PageSize + d * PageSize
    BY <1>1, <2>1, <2>2
  <2>4. d * PageSize \in Nat /\ p * PageSize \in Int
    BY <1>1
  <2> QED  BY <1>1, <2>3, <2>4
<1>4. ASSUME NEW i \in 0 .. Regs, NEW j \in 0 .. Regs, i <= j PROVE Past(i) <= Past(j)
  <2>1. X(i) <= X(j)
    <3>1. PICK d \in Nat : j = i + d
      BY <1>4
    <3>2. j * RegSize = i * RegSize + d * RegSize
      BY <1>1, <3>1
    <3>3. d * RegSize \in Nat /\ i * RegSize \in Int
      BY <1>1
    <3> QED  BY <1>1, <3>2, <3>3
  <2>2. CASE Past(j) < Past(i)
    <3>1. Past(j) * PageSize + PageSize <= Past(i) * PageSize
      BY <1>2, <1>3, <2>2
    <3>2. PICK u \in Int, v \in Int : u = Past(j) * PageSize /\ v = Past(i) * PageSize
      BY <1>1, <1>2
    <3>3. u + PageSize <= v /\ v <= X(i) /\ X(j) <= u + PageSize - 1 /\ X(i) \in Int /\ X(j) \in Int
      BY <1>2, <3>1, <3>2
    <3> HIDE DEF X
    <3> QED  BY <1>1, <2>1, <3>3
  <2> QED  BY <1>2, <2>2
<1>5. Past(k) >= 1
  <2>1. CASE Past(k) < 1
    <3>1. Past(k) * PageSize + PageSize <= 1 * PageSize
      BY <1>2, <1>3, <2>1
    <3>2. PICK u \in Int : u = Past(k) * PageSize
      BY <1>1, <1>2
    <3>3. u + PageSize <= PageSize /\ X(k) <= u + PageSize - 1 /\ X(k) >= PageSize /\ X(k) \in Int
      BY <1>1, <1>2, <3>1, <3>2
    <3> HIDE DEF X
    <3> QED  BY <1>1, <3>3
  <2> QED  BY <1>2, <2>1
<1>6. Past(Regs) = RunPages
  <2>1. X(Regs) = RunPages * PageSize + PageSize - 1 /\ RunPages * PageSize \in Int
    BY <1>1
  <2>2. PICK x \in Int : x = X(Regs)
    BY <1>1, <2>1
  <2>3. \A q \in Int : x \div PageSize = q <=> q * PageSize <= x /\ x <= q * PageSize + PageSize - 1
    BY <1>1, DivIs
  <2>4. RunPages * PageSize <= x /\ x <= RunPages * PageSize + PageSize - 1
    BY <1>1, <2>1, <2>2
  <2>5. x \div PageSize = RunPages
    BY <1>1, <2>3, <2>4
  <2> QED  BY <2>2, <2>5 DEF Past
<1>7. Regs \in 0 .. Regs /\ k <= Regs
  BY <1>1
<1> QED  BY <1>2, <1>4, <1>5, <1>6, <1>7

LEMMA OwnedIs ==
  ASSUME NEW a, NEW A, NEW K, Fine(a, A, K)
  PROVE  /\ A \in SUBSET Pages /\ A \in SUBSET Int /\ K \in SUBSET Chunks
         /\ \A r \in A : Length(a, r) \in Nat /\ Length(a, r) >= 1 /\ r \in Int
         /\ \A r \in A : IsLarge(a, r) => a.map[r].size = Length(a, r)
         /\ \A r \in A : ~IsLarge(a, r) => Length(a, r) = RunPages
<1>1. Good(a, A, K) /\ Laid(a, A, FreeRuns(a), K)
  BY DEF Fine, Good
<1>2. \A r \in A : r \in Pages /\ r \in Int /\ Length(a, r) \in Nat /\ Length(a, r) >= 1
  BY <1>1, LaidEnds
<1>3. \A r \in A : Length(a, r) = RunSize(a, r)
  BY <1>1, AllocLength
<1>4. A \in SUBSET Pages /\ K \in SUBSET Chunks
  BY <1>1, GoodSizes
<1> QED  BY <1>2, <1>3, <1>4 DEF RunSize, IsLarge

(* What threads claim of their runs is so as long as the runs are left     *)
(* alone.                                                                  *)
LEMMA ClaimsKept ==
  ASSUME NEW a, NEW b, NEW A, NEW K, Fine(a, A, K), NEW T, TodoOk(T), Claims(a, T),
         HandOf(T) \subseteq A, \A q \in HandOf(T) : Keeps(a, b, q)
  PROVE  Claims(b, T)
<1>1. \A q \in HandOf(T) : /\ q \in Int /\ Length(a, q) \in Nat /\ b.map[q] = a.map[q]
                           /\ Unused(a, q, 0) => Unused(b, q, 0)
  <2>1. \A q \in HandOf(T) : q \in Int /\ Length(a, q) \in Nat
    BY OwnedIs
  <2> QED  BY <2>1, KeepsUnused DEF Keeps, Same
<1>2. ASSUME NEW x \in T, x[1] = "return", NEW r \in x[2]
      PROVE  /\ IsLarge(b, r) /\ Dirty(b.map[r]) = {}
             /\ (\E y \in T : y[1] = "madvise") \/ Unused(b, r, 0)
  <2>1. r \in HandOf(T)
    BY <1>2 DEF HandOf, TodoOk, TaskOk
  <2>2. /\ IsLarge(a, r) /\ Dirty(a.map[r]) = {}
        /\ (\E y \in T : y[1] = "madvise") \/ Unused(a, r, 0)
    BY <1>2 DEF Claims
  <2> QED  BY <1>1, <2>1, <2>2 DEF IsLarge
<1>3. ASSUME NEW x \in T, x[1] = "tail"
      PROVE  IsLarge(b, x[2]) /\ b.map[x[2]].size = x[3] /\ Unused(b, x[2], 0)
  <2>1. x[2] \in HandOf(T)
    BY <1>3 DEF HandOf, TodoOk, TaskOk
  <2>2. IsLarge(a, x[2]) /\ a.map[x[2]].size = x[3] /\ Unused(a, x[2], 0)
    BY <1>3 DEF Claims
  <2> QED  BY <1>1, <2>1, <2>2 DEF IsLarge
<1> QED  BY <1>2, <1>3 DEF Claims

LEMMA WorldIs ==
  ASSUME NEW a, NEW R, NEW C, NEW bn, NEW ob, NEW wk, NEW U, World(a, R, C, bn, ob, wk, U)
  PROVE  /\ Others(bn, ob, wk, U) \in SUBSET Pages /\ R \in SUBSET Pages
         /\ Left(a, C, wk, U) \in SUBSET Chunks /\ Null \notin Chunks
         /\ \A r \in R \cup Others(bn, ob, wk, U) :
              Length(a, r) \in Nat /\ Length(a, r) >= 1 /\ r \in Int
<1>1. PICK A, K : A = R \cup Others(bn, ob, wk, U) /\ K = Left(a, C, wk, U)
  OBVIOUS
<1>2. Fine(a, A, K)
  BY <1>1 DEF World
<1>3. Null \notin Chunks
  BY ArenaAssumption DEF Chunks
<1> QED  BY <1>1, <1>2, <1>3, OwnedIs

(* The arena changes, but not the runs of the others.                      *)
LEMMA WorldStep ==
  ASSUME NEW a, NEW R, NEW C, NEW bn, NEW ob, NEW wk, NEW U, World(a, R, C, bn, ob, wk, U),
         NEW b, NEW S, NEW D,
         Fine(b, S \cup Others(bn, ob, wk, U), Left(b, D, wk, U)), b.released = Null,
         S \cap Others(bn, ob, wk, U) = {}, D \cap Unmapping(wk, U) = {},
         D \cup Unmapping(wk, U) \subseteq b.mapped,
         \A q \in Others(bn, ob, wk, U) : Keeps(a, b, q)
  PROVE  World(b, S, D, bn, ob, wk, U)
<1>1. PICK A, K, O : A = R \cup O /\ O = Others(bn, ob, wk, U) /\ K = Left(a, C, wk, U)
  OBVIOUS
<1>2. Fine(a, A, K) /\ Parted(a, R, C, bn, ob, wk, U) /\ ObjectsOk(a, ob) /\ BinOk(a, bn) /\ ThreadsOk(a, wk, U)
  BY <1>1 DEF World
<1>3. \A q \in O : q \in Int /\ Length(a, q) \in Nat /\ Keeps(a, b, q) /\ b.map[q] = a.map[q]
  <2>1. \A q \in A : q \in Int /\ Length(a, q) \in Nat
    BY <1>2, OwnedIs
  <2> QED  BY <1>1, <2>1 DEF Keeps, Same
<1>4. Parted(b, S, D, bn, ob, wk, U)
  BY <1>2 DEF Parted
<1>5. ObjectsOk(b, ob)
  BY <1>1, <1>2, <1>3 DEF ObjectsOk, IsLarge, Others
<1>6. BinOk(b, bn)
  <2> SUFFICES ASSUME NEW r \in DOMAIN bn.runs
               PROVE  /\ ~IsLarge(b, r) /\ bn.runs[r].next \in 0 .. Regs
                      /\ Unused(b, r, Past(bn.runs[r].next))
    BY DEF BinOk
  <2>1. r \in O /\ ~IsLarge(a, r) /\ bn.runs[r].next \in 0 .. Regs /\ Unused(a, r, Past(bn.runs[r].next))
    BY <1>1, <1>2 DEF BinOk, Others
  <2>2. PICK k : k = Past(bn.runs[r].next)
    OBVIOUS
  <2>3. k \in Nat
    BY <2>1, <2>2, PastIs
  <2>4. Unused(b, r, k)
    BY <1>3, <2>1, <2>2, <2>3, KeepsUnused
  <2> QED  BY <1>3, <2>1, <2>2, <2>4 DEF IsLarge
<1>7. ThreadsOk(b, wk, U)
  <2> SUFFICES ASSUME NEW u \in U PROVE ListOk(wk[u]) /\ Claims(b, Range(wk[u]))
    BY DEF ThreadsOk
  <2>1. ListOk(wk[u]) /\ Claims(a, Range(wk[u]))
    BY <1>2 DEF ThreadsOk
  <2>2. PICK T : T = Range(wk[u])
    OBVIOUS
  <2>3. TodoOk(T) /\ Claims(a, T)
    BY <2>1, <2>2 DEF ListOk
  <2>4. HandOf(T) \subseteq O
    BY <1>1, <2>2 DEF Others, Holding, HandOf
  <2>5. HandOf(T) \subseteq A /\ \A q \in HandOf(T) : Keeps(a, b, q)
    BY <1>1, <1>3, <2>4
  <2>6. Claims(b, T)
    BY <1>2, <2>3, <2>5, ClaimsKept
  <2> QED  BY <2>1, <2>2, <2>6
<1> QED  BY <1>4, <1>5, <1>6, <1>7 DEF World

Steps(a, b, S, D, bn, ob, wk, U) ==
  /\ Fine(b, S \cup Others(bn, ob, wk, U), Left(b, D, wk, U)) /\ b.released = Null
  /\ S \cap Others(bn, ob, wk, U) = {} /\ D \cap Unmapping(wk, U) = {}
  /\ D \cup Unmapping(wk, U) \subseteq b.mapped
  /\ \A q \in Others(bn, ob, wk, U) : Keeps(a, b, q)

LEMMA WorldSteps ==
  ASSUME NEW a, NEW R, NEW C, NEW bn, NEW ob, NEW wk, NEW U, World(a, R, C, bn, ob, wk, U),
         NEW b, NEW S, NEW D, Steps(a, b, S, D, bn, ob, wk, U)
  PROVE  World(b, S, D, bn, ob, wk, U)
BY WorldStep DEF Steps

(* Runs go from hand to hand, to the client or to the bin.                 *)
LEMMA WorldHand ==
  ASSUME NEW a, NEW R, NEW C, NEW bn, NEW ob, NEW wk, NEW U, World(a, R, C, bn, ob, wk, U),
         NEW S, NEW bm, NEW oc,
         S \cup DOMAIN oc \cup DOMAIN bm.runs = R \cup DOMAIN ob \cup DOMAIN bn.runs,
         S \cap DOMAIN oc = {}, S \cap DOMAIN bm.runs = {}, DOMAIN oc \cap DOMAIN bm.runs = {},
         ObjectsOk(a, oc), BinOk(a, bm)
  PROVE  World(a, S, C, bm, oc, wk, U)
<1>1. S \cup Others(bm, oc, wk, U) = R \cup Others(bn, ob, wk, U)
  BY DEF Others
<1>2. Parted(a, R, C, bn, ob, wk, U)
  BY DEF World
<1>3. Holding(wk, U) \cap (R \cup DOMAIN ob \cup DOMAIN bn.runs) = {}
  BY <1>2 DEF Parted, Others
<1>4. Parted(a, S, C, bm, oc, wk, U)
  <2>1. S \cap Others(bm, oc, wk, U) = {} /\ Holding(wk, U) \cap (DOMAIN oc \cup DOMAIN bm.runs) = {}
    BY <1>3 DEF Others
  <2> QED  BY <1>2, <2>1 DEF Parted
<1> QED  BY <1>1, <1>4 DEF World

(* A thread takes what it holds into its hands.                            *)
LEMMA WorldPart ==
  ASSUME NEW a, NEW bn, NEW ob, NEW wk, NEW U, World(a, {}, {}, bn, ob, wk, U), NEW t \in U,
         NEW T, T = Range(wk[t])
  PROVE  /\ World(a, HandOf(T), Leaving(T), bn, ob, wk, U \ {t})
         /\ ListOk(wk[t]) /\ Claims(a, T)
<1> DEFINE V == U \ {t}
<1>1. /\ Fine(a, {} \cup Others(bn, ob, wk, U), Left(a, {}, wk, U)) /\ a.released = Null
      /\ Parted(a, {}, {}, bn, ob, wk, U)
      /\ ObjectsOk(a, ob) /\ BinOk(a, bn) /\ ThreadsOk(a, wk, U)
  BY DEF World
<1>2. Holding(wk, U) = Holding(wk, V) \cup HandOf(T) /\ Unmapping(wk, U) = Unmapping(wk, V) \cup Leaving(T)
  <2>1. \A p : p \in Holding(wk, U) <=> p \in Holding(wk, V) \cup HandOf(T)
    <3>1. \A p \in HandOf(T) : p \in Pages
      BY DEF HandOf
    <3> QED  BY <3>1 DEF Holding
  <2>2. \A c : c \in Unmapping(wk, U) <=> c \in Unmapping(wk, V) \cup Leaving(T)
    <3>1. \A c \in Leaving(T) : c \in Chunks
      BY DEF Leaving
    <3> QED  BY <3>1 DEF Unmapping
  <2> QED  BY <2>1, <2>2
<1>3. Holding(wk, V) \cap HandOf(T) = {} /\ Unmapping(wk, V) \cap Leaving(T) = {}
  BY <1>1 DEF Parted, Holding, Unmapping
<1>4. {} \cup Others(bn, ob, wk, U) = HandOf(T) \cup Others(bn, ob, wk, V)
  BY <1>2 DEF Others
<1>5. Left(a, {}, wk, U) = Left(a, Leaving(T), wk, V)
  BY <1>2 DEF Left
<1>6. Parted(a, HandOf(T), Leaving(T), bn, ob, wk, V)
  <2>1. HandOf(T) \cap (DOMAIN ob \cup DOMAIN bn.runs) = {} /\ Holding(wk, V) \cap (DOMAIN ob \cup DOMAIN bn.runs) = {}
        /\ Leaving(T) \cup Unmapping(wk, V) \subseteq a.mapped /\ DOMAIN ob \cap DOMAIN bn.runs = {}
    BY <1>1, <1>2 DEF Parted
  <2>2. HandOf(T) \cap Others(bn, ob, wk, V) = {}
    BY <1>3, <2>1 DEF Others
  <2>3. \A u \in V : \A v \in V : u # v =>
          /\ HandOf(Range(wk[u])) \cap HandOf(Range(wk[v])) = {}
          /\ Leaving(Range(wk[u])) \cap Leaving(Range(wk[v])) = {}
    BY <1>1 DEF Parted
  <2> QED  BY <1>3, <2>1, <2>2, <2>3 DEF Parted
<1>7. ThreadsOk(a, wk, V) /\ ListOk(wk[t]) /\ Claims(a, T)
  BY <1>1 DEF ThreadsOk
<1> QED  BY <1>1, <1>4, <1>5, <1>6, <1>7 DEF World

(* And at the end of the step it holds what its tasks say.                 *)
LEMMA WorldJoin ==
  ASSUME NEW a, NEW bn, NEW ob, NEW wk, NEW U, NEW t \in U, NEW T,
         World(a, HandOf(T), Leaving(T), bn, ob, wk, U \ {t}),
         NEW wl, T = Range(wl[t]), \A u \in U \ {t} : wl[u] = wk[u], ListOk(wl[t]), Claims(a, T)
  PROVE  World(a, {}, {}, bn, ob, wl, U)
<1> DEFINE V == U \ {t}
<1>1. /\ Fine(a, HandOf(T) \cup Others(bn, ob, wk, V), Left(a, Leaving(T), wk, V)) /\ a.released = Null
      /\ Parted(a, HandOf(T), Leaving(T), bn, ob, wk, V)
      /\ ObjectsOk(a, ob) /\ BinOk(a, bn) /\ ThreadsOk(a, wk, V)
  BY DEF World
<1>2. Holding(wl, V) = Holding(wk, V) /\ Unmapping(wl, V) = Unmapping(wk, V)
  BY DEF Holding, Unmapping
<1>3. Holding(wl, U) = Holding(wk, V) \cup HandOf(T) /\ Unmapping(wl, U) = Unmapping(wk, V) \cup Leaving(T)
  <2>1. \A p : p \in Holding(wl, U) <=> p \in Holding(wl, V) \cup HandOf(T)
    <3>1. \A p \in HandOf(T) : p \in Pages
      BY DEF HandOf
    <3> QED  BY <3>1 DEF Holding
  <2>2. \A c : c \in Unmapping(wl, U) <=> c \in Unmapping(wl, V) \cup Leaving(T)
    <3>1. \A c \in Leaving(T) : c \in Chunks
      BY DEF Leaving
    <3> QED  BY <3>1 DEF Unmapping
  <2> QED  BY <1>2, <2>1, <2>2
<1>4. {} \cup Others(bn, ob, wl, U) = HandOf(T) \cup Others(bn, ob, wk, V)
  BY <1>3 DEF Others
<1>5. Left(a, {}, wl, U) = Left(a, Leaving(T), wk, V)
  BY <1>3 DEF Left
<1>6. Parted(a, {}, {}, bn, ob, wl, U)
  <2>1. /\ HandOf(T) \cap Others(bn, ob, wk, V) = {} /\ Leaving(T) \cap Unmapping(wk, V) = {}
        /\ Holding(wk, V) \cap (DOMAIN ob \cup DOMAIN bn.runs) = {} /\ DOMAIN ob \cap DOMAIN bn.runs = {}
        /\ Leaving(T) \cup Unmapping(wk, V) \subseteq a.mapped
    BY <1>1 DEF Parted
  <2>2. Holding(wl, U) \cap (DOMAIN ob \cup DOMAIN bn.runs) = {} /\ {} \cup Unmapping(wl, U) \subseteq a.mapped
    BY <1>3, <2>1 DEF Others
  <2>3. \A u \in V : HandOf(Range(wl[u])) \cap HandOf(T) = {} /\ Leaving(Range(wl[u])) \cap Leaving(T) = {}
    <3>1. \A u \in V : HandOf(Range(wl[u])) \subseteq Holding(wk, V) /\ Leaving(Range(wl[u])) \subseteq Unmapping(wk, V)
      BY DEF Holding, Unmapping, HandOf, Leaving
    <3> QED  BY <2>1, <3>1 DEF Others
  <2>4. \A u \in V : \A v \in V : u # v =>
          /\ HandOf(Range(wl[u])) \cap HandOf(Range(wl[v])) = {}
          /\ Leaving(Range(wl[u])) \cap Leaving(Range(wl[v])) = {}
    BY <1>1 DEF Parted
  <2>5. \A u \in U : \A v \in U : u # v =>
          /\ HandOf(Range(wl[u])) \cap HandOf(Range(wl[v])) = {}
          /\ Leaving(Range(wl[u])) \cap Leaving(Range(wl[v])) = {}
    BY <2>3, <2>4
  <2> QED  BY <2>1, <2>2, <2>5 DEF Parted
<1>7. ThreadsOk(a, wl, U)
  BY <1>1 DEF ThreadsOk
<1> QED  BY <1>1, <1>4, <1>5, <1>6, <1>7 DEF World

LEMMA WorldMoves ==
  ASSUME NEW a, NEW R, NEW C, NEW bn, NEW ob, NEW wk, NEW U, World(a, R, C, bn, ob, wk, U),
         NEW b, NEW S, Fine(b, S \cup Others(bn, ob, wk, U), Left(a, C, wk, U)),
         b.mapped = a.mapped, b.released = a.released,
         S \cap Others(bn, ob, wk, U) = {},
         \A q \in Others(bn, ob, wk, U) : Keeps(a, b, q)
  PROVE  World(b, S, C, bn, ob, wk, U)
<1>1. a.released = Null /\ Parted(a, R, C, bn, ob, wk, U)
  BY DEF World
<1>2. Left(b, C, wk, U) = Left(a, C, wk, U)
  BY DEF Left
<1>3. C \cap Unmapping(wk, U) = {} /\ C \cup Unmapping(wk, U) \subseteq b.mapped
  BY <1>1 DEF Parted
<1> QED  BY <1>1, <1>2, <1>3, WorldStep

(* Runs and chunks, as the lemmas of the operations want them.             *)
LEMMA WorldFine ==
  ASSUME NEW a, NEW R, NEW C, NEW bn, NEW ob, NEW wk, NEW U, World(a, R, C, bn, ob, wk, U),
         NEW O, O = Others(bn, ob, wk, U), NEW K, K = Left(a, C, wk, U)
  PROVE  Fine(a, R \cup O, K) /\ a.released = Null /\ R \cap O = {} /\ Typed(a)
BY DEF World, Parted, Fine, Good

Forgotten(b) == [b EXCEPT !.released = Null]

Givable(a, R, r, dirty, bn, ob, wk, U) ==
  World(a, R, {}, bn, ob, wk, U) /\ r \in R /\ dirty \in BOOLEAN /\ (~dirty => Unused(a, r, 0))

Gave(a, b, c, R, r, bn, ob, wk, U) ==
  /\ World(c, R \ {r}, {b.released} \ {Null}, bn, ob, wk, U)
  /\ b.released \in Chunks \cup {Null} /\ c.npurgatory = a.npurgatory
  /\ \A q \in R \ {r} : Keeps(a, c, q)

LEMMA WorldGive ==
  ASSUME NEW a, NEW R, NEW r, NEW dirty, NEW bn, NEW ob, NEW wk, NEW U,
         Givable(a, R, r, dirty, bn, ob, wk, U),
         NEW b, b = RunDalloc(a, r, dirty), NEW c, c = Forgotten(b)
  PROVE  Gave(a, b, c, R, r, bn, ob, wk, U)
<1>14. PICK S, D, N : S = R \ {r} /\ D = {b.released} \ {Null} /\ N = {}
  OBVIOUS
<1>13. /\ World(a, R, N, bn, ob, wk, U) /\ r \in R /\ dirty \in BOOLEAN /\ (~dirty => Unused(a, r, 0))
       /\ c = [b EXCEPT !.released = Null]
  BY <1>14 DEF Givable, Forgotten
<1>1. PICK O, K, A : O = Others(bn, ob, wk, U) /\ K = Left(a, N, wk, U) /\ A = R \cup O
  OBVIOUS
<1>2. Fine(a, A, K) /\ a.released = Null /\ R \cap O = {} /\ r \in A
  BY <1>13, <1>1, WorldFine
<1>3. GiveGives(a, b, c, A, K, r)
  BY <1>13, <1>2, GiveFine
<1>4. /\ Fine(c, A \ {r}, K \ {b.released}) /\ b.released \in K \cup {Null}
      /\ c.released = Null /\ c.mapped = a.mapped /\ c.npurgatory = a.npurgatory
      /\ \A q \in A : q # r => Keeps(a, c, q)
  BY <1>3 DEF GiveGives
<1>5. A \ {r} = S \cup O
  BY <1>14, <1>13, <1>1, <1>2
<1>6. K \in SUBSET Chunks /\ Null \notin Chunks
  BY <1>13, <1>1, WorldIs
<1>7. K \ {b.released} = Left(c, D, wk, U)
  <2>1. K = a.mapped \ (N \cup Unmapping(wk, U))
    BY <1>14, <1>1 DEF Left
  <2>2. Left(c, D, wk, U) = a.mapped \ (D \cup Unmapping(wk, U))
    BY <1>4 DEF Left
  <2>3. Null \notin K
    BY <1>6
  <2> QED  BY <1>14, <2>1, <2>2, <2>3
<1>8. D \cap Unmapping(wk, U) = {} /\ D \cup Unmapping(wk, U) \subseteq c.mapped
  <2>1. D \subseteq K
    BY <1>14, <1>4
  <2>2. Unmapping(wk, U) \subseteq a.mapped
    BY <1>13 DEF World, Parted
  <2> QED  BY <1>14, <1>1, <1>4, <2>1, <2>2 DEF Left
<1>9. \A q \in O : Keeps(a, c, q)
  BY <1>1, <1>2, <1>4, <1>13
<1>10. Fine(c, S \cup O, Left(c, D, wk, U)) /\ S \cap O = {}
  BY <1>2, <1>4, <1>5, <1>7, <1>14
<1>11. World(c, S, D, bn, ob, wk, U)
  <2>3. /\ Fine(c, S \cup Others(bn, ob, wk, U), Left(c, D, wk, U)) /\ c.released = Null
        /\ S \cap Others(bn, ob, wk, U) = {}
    BY <1>1, <1>4, <1>10
  <2>4. \A q \in Others(bn, ob, wk, U) : Keeps(a, c, q)
    BY <1>1, <1>9
  <2>5. Steps(a, c, S, D, bn, ob, wk, U)
    BY <1>8, <2>3, <2>4 DEF Steps
  <2> QED  BY <1>13, <2>5, WorldSteps
<1>12. \A q \in S : Keeps(a, c, q)
  BY <1>14, <1>1, <1>4
<1> QED  BY <1>14, <1>4, <1>6, <1>11, <1>12 DEF Gave

LEMMA WorldSplit ==
  ASSUME NEW a, NEW R, NEW C, NEW bn, NEW ob, NEW wk, NEW U, World(a, R, C, bn, ob, wk, U),
         NEW r \in a.clean \cup a.dirty,
         NEW need \in Nat, need >= 1, need <= a.map[r].size, NEW large \in BOOLEAN,
         large \/ need = RunPages,
         NEW b, b = RunSplit(a, r, need, large), NEW S, S = R \cup {r}
  PROVE  /\ World(b, S, C, bn, ob, wk, U) /\ r \notin R
         /\ SplitOut(a, b, r, need, large) /\ RunSplitFields(a, b, r, need, large)
         /\ Unused(b, r, 0)
         /\ \A q \in R : Keeps(a, b, q)
<1>1. PICK O, K, A : O = Others(bn, ob, wk, U) /\ K = Left(a, C, wk, U) /\ A = R \cup O
  OBVIOUS
<1>2. Fine(a, A, K) /\ R \cap O = {}
  BY <1>1, WorldFine
<1>3. /\ Fine(b, A \cup {r}, K) /\ r \notin A
      /\ SplitOut(a, b, r, need, large) /\ RunSplitFields(a, b, r, need, large)
      /\ Unused(b, r, 0)
      /\ \A q \in A : Same(a, b, q)
  BY <1>2, RunSplitFine
<1>4. b.touched = a.touched /\ b.mapped = a.mapped /\ b.released = a.released
  BY <1>3 DEF RunSplitFields
<1>5. \A q \in A : Keeps(a, b, q)
  BY <1>3, <1>4 DEF Keeps
<1>6. Fine(b, S \cup O, K) /\ S \cap O = {}
  <2>1. S \cup O = A \cup {r}
    BY <1>1
  <2> QED  BY <1>1, <1>2, <1>3, <2>1
<1>7. World(b, S, C, bn, ob, wk, U)
  BY <1>1, <1>4, <1>5, <1>6, WorldMoves
<1> QED  BY <1>1, <1>3, <1>5, <1>7

LEMMA WorldCut ==
  ASSUME NEW a, NEW R, NEW C, NEW bn, NEW ob, NEW wk, NEW U, World(a, R, C, bn, ob, wk, U),
         NEW r \in R, NEW head \in Nat, NEW old,
         old = Length(a, r), head >= 1, head < old, NEW kept \in FreeFlags,
         NEW b, b = Cut(a, r, old, head, kept), NEW s, s = r + head, NEW S, S = R \cup {s}
  PROVE  /\ World(b, S, C, bn, ob, wk, U) /\ s \notin R
         /\ CutOut(a, b, r, old, head, kept)
         /\ (Unused(a, r, 0) => Unused(b, r, 0)) /\ (Unused(a, r, head) => Unused(b, s, 0))
         /\ \A q \in R : q # r => Keeps(a, b, q)
<1>1. PICK O, K, A : O = Others(bn, ob, wk, U) /\ K = Left(a, C, wk, U) /\ A = R \cup O
  OBVIOUS
<1>2. Fine(a, A, K) /\ R \cap O = {} /\ r \in A
  BY <1>1, WorldFine
<1>3. /\ Fine(b, A \cup {r + head}, K) /\ r + head \notin A
      /\ CutOut(a, b, r, old, head, kept)
      /\ (Unused(a, r, 0) => Unused(b, r, 0)) /\ (Unused(a, r, head) => Unused(b, r + head, 0))
      /\ \A q \in A : q # r => Same(a, b, q)
  BY <1>2, CutFine
<1>4. b.touched = a.touched /\ b.mapped = a.mapped /\ b.released = a.released
  BY <1>3 DEF CutOut, MapOnly
<1>5. \A q \in A : q # r => Keeps(a, b, q)
  BY <1>3, <1>4 DEF Keeps
<1>6. Fine(b, S \cup O, K) /\ S \cap O = {}
  <2>1. S \cup O = A \cup {r + head}
    BY <1>1
  <2> QED  BY <1>1, <1>2, <1>3, <2>1
<1>7. \A q \in O : Keeps(a, b, q)
  BY <1>1, <1>2, <1>5
<1>8. World(b, S, C, bn, ob, wk, U)
  BY <1>1, <1>4, <1>6, <1>7, WorldMoves
<1> QED  BY <1>1, <1>3, <1>5, <1>8

Within(a, r, P) == P \subseteq r .. r + Length(a, r) - 1

Wrote(a, b, R, r, P) ==
  /\ b.touched = a.touched \cup P /\ b.npurgatory = a.npurgatory /\ Alike(a, b)
  /\ \A q : Same(a, b, q)
  /\ \A q \in R : q # r => Keeps(a, b, q)

LEMMA WorldTouch ==
  ASSUME NEW a, NEW R, NEW C, NEW bn, NEW ob, NEW wk, NEW U, World(a, R, C, bn, ob, wk, U),
         NEW r \in R, NEW P, Within(a, r, P), NEW b, b = Touch(a, P)
  PROVE  World(b, R, C, bn, ob, wk, U) /\ Wrote(a, b, R, r, P)
<1>1. PICK O, K, A : O = Others(bn, ob, wk, U) /\ K = Left(a, C, wk, U) /\ A = R \cup O
  OBVIOUS
<1>2. Fine(a, A, K) /\ R \cap O = {} /\ r \in A
  BY <1>1, WorldFine
<1>3. TouchGives(a, b, A, K, r, P)
  BY <1>2, TouchFine DEF Within
<1>4. /\ Fine(b, A, K) /\ b.touched = a.touched \cup P /\ Alike(a, b)
      /\ b.released = a.released /\ b.npurgatory = a.npurgatory /\ b.mapped = a.mapped
      /\ (\A q : Same(a, b, q))
      /\ \A q \in A : q # r => Keeps(a, b, q)
  BY <1>3 DEF TouchGives, Alike
<1>5. \A q \in O : Keeps(a, b, q)
  BY <1>1, <1>2, <1>4
<1>6. World(b, R, C, bn, ob, wk, U)
  BY <1>1, <1>2, <1>4, <1>5, WorldMoves
<1> QED  BY <1>1, <1>4, <1>6 DEF Wrote

LEMMA WorldReuse ==
  ASSUME NEW a, NEW R, NEW C, NEW bn, NEW ob, NEW wk, NEW U, World(a, R, C, bn, ob, wk, U),
         a.spare # Null, NEW b, b = ReuseSpare(a)
  PROVE  /\ World(b, R, C, bn, ob, wk, U) /\ ReuseFields(a, b)
         /\ First(a.spare) \in b.clean \cup b.dirty /\ b.map[First(a.spare)].size = NP
         /\ \A q : Keeps(a, b, q)
<1>1. PICK O, K, A : O = Others(bn, ob, wk, U) /\ K = Left(a, C, wk, U) /\ A = R \cup O
  OBVIOUS
<1>2. Fine(a, A, K) /\ R \cap O = {}
  BY <1>1, WorldFine
<1>3. /\ Fine(b, A, K) /\ ReuseFields(a, b)
      /\ First(a.spare) \in b.clean \cup b.dirty /\ b.map[First(a.spare)].size = NP
      /\ \A q : Keeps(a, b, q)
  BY <1>2, ReuseFine
<1>4. b.mapped = a.mapped /\ b.released = a.released
  BY <1>3 DEF ReuseFields
<1>5. World(b, R, C, bn, ob, wk, U)
  BY <1>1, <1>2, <1>3, <1>4, WorldMoves
<1> QED  BY <1>3, <1>5

LEMMA WorldShort ==
  ASSUME NEW a, NEW R, NEW C, NEW bn, NEW ob, NEW wk, NEW U, World(a, R, C, bn, ob, wk, U),
         NEW b, b = Shortened(a)
  PROVE  /\ World(b, R, C, bn, ob, wk, U) /\ ShortFields(a, b)
         /\ b.chunks_dirty # <<>> =>
              /\ Head(b.chunks_dirty) \in Left(b, C, wk, U) \cap b.dirtied
              /\ b.cdirty[Head(b.chunks_dirty)] # 0
         /\ \A q : Keeps(a, b, q)
<1>1. PICK O, K, A : O = Others(bn, ob, wk, U) /\ K = Left(a, C, wk, U) /\ A = R \cup O
  OBVIOUS
<1>2. Fine(a, A, K) /\ R \cap O = {}
  BY <1>1, WorldFine
<1>3. /\ Fine(b, A, K) /\ ShortFields(a, b)
      /\ b.chunks_dirty # <<>> =>
           /\ Head(b.chunks_dirty) \in K \cap b.dirtied
           /\ a.cdirty[Head(b.chunks_dirty)] # 0
      /\ \A q : Keeps(a, b, q)
  BY <1>2, ShortFine
<1>4. b.mapped = a.mapped /\ b.released = a.released /\ b.cdirty = a.cdirty
  BY <1>3 DEF ShortFields
<1>5. World(b, R, C, bn, ob, wk, U)
  BY <1>1, <1>2, <1>3, <1>4, WorldMoves
<1>6. Left(b, C, wk, U) = K
  BY <1>1, <1>4 DEF Left
<1> QED  BY <1>3, <1>4, <1>5, <1>6

LEMMA WorldCommitted ==
  ASSUME NEW a, NEW R, NEW C, NEW bn, NEW ob, NEW wk, NEW U, World(a, R, C, bn, ob, wk, U),
         NEW n \in Int, NEW b, b = Committed(a, n)
  PROVE  /\ World(b, R, C, bn, ob, wk, U) /\ Alike(a, b)
         /\ b.npurgatory = (a.npurgatory + n) % SizeMod
         /\ \A q : Keeps(a, b, q)
<1>1. PICK O, K, A : O = Others(bn, ob, wk, U) /\ K = Left(a, C, wk, U) /\ A = R \cup O
  OBVIOUS
<1>2. Fine(a, A, K) /\ R \cap O = {}
  BY <1>1, WorldFine
<1>3. /\ Fine(b, A, K) /\ Alike(a, b) /\ b.released = a.released
      /\ b.npurgatory = (a.npurgatory + n) % SizeMod
      /\ \A q : Keeps(a, b, q)
  BY <1>2, CommittedFine
<1>4. b.mapped = a.mapped
  BY <1>3 DEF Alike
<1>5. World(b, R, C, bn, ob, wk, U)
  BY <1>1, <1>2, <1>3, <1>4, WorldMoves
<1> QED  BY <1>3, <1>5

LEMMA WorldZeroed ==
  ASSUME NEW a, NEW R, NEW C, NEW bn, NEW ob, NEW wk, NEW U, World(a, R, C, bn, ob, wk, U),
         NEW P, NEW b, b = [a EXCEPT !.touched = @ \ P]
  PROVE  /\ World(b, R, C, bn, ob, wk, U) /\ Alike(a, b) /\ b.touched = a.touched \ P
         /\ b.npurgatory = a.npurgatory
         /\ \A q : Keeps(a, b, q)
<1>1. PICK O, K, A : O = Others(bn, ob, wk, U) /\ K = Left(a, C, wk, U) /\ A = R \cup O
  OBVIOUS
<1>2. Fine(a, A, K) /\ R \cap O = {}
  BY <1>1, WorldFine
<1>3. /\ Fine(b, A, K) /\ Alike(a, b) /\ b.released = a.released
      /\ b.npurgatory = a.npurgatory /\ b.touched = a.touched \ P
      /\ \A q : Keeps(a, b, q)
  BY <1>2, ZeroedFine
<1>4. b.mapped = a.mapped
  BY <1>3 DEF Alike
<1>5. World(b, R, C, bn, ob, wk, U)
  BY <1>1, <1>2, <1>3, <1>4, WorldMoves
<1> QED  BY <1>3, <1>5

LEMMA WorldNew ==
  ASSUME NEW a, NEW R, NEW C, NEW bn, NEW ob, NEW wk, NEW U, World(a, R, C, bn, ob, wk, U),
         NEW c \in Chunks, c \notin a.mapped, NEW b, b = NewChunk(a, c)
  PROVE  /\ World(b, R, C, bn, ob, wk, U) /\ NewFields(a, b, c)
         /\ First(c) \in b.clean /\ b.map[First(c)] = Elem(NP, {})
         /\ \A q \in R : Keeps(a, b, q)
<1>1. PICK O, K, A : O = Others(bn, ob, wk, U) /\ K = Left(a, C, wk, U) /\ A = R \cup O
  OBVIOUS
<1>2. Fine(a, A, K) /\ R \cap O = {}
  BY <1>1, WorldFine
<1>3. /\ Fine(b, A, K \cup {c}) /\ NewFields(a, b, c)
      /\ First(c) \in b.clean /\ b.map[First(c)] = Elem(NP, {})
      /\ \A q \in A : Keeps(a, b, q)
  BY <1>2, NewFine
<1>4. b.mapped = a.mapped \cup {c} /\ b.released = a.released
  BY <1>3 DEF NewFields
<1>5. a.released = Null /\ Parted(a, R, C, bn, ob, wk, U)
  BY DEF World
<1>6. C \cap Unmapping(wk, U) = {} /\ C \cup Unmapping(wk, U) \subseteq a.mapped
  BY <1>5 DEF Parted
<1>7. K \cup {c} = Left(b, C, wk, U)
  BY <1>1, <1>4, <1>6 DEF Left
<1>8. Steps(a, b, R, C, bn, ob, wk, U)
  BY <1>1, <1>2, <1>3, <1>4, <1>5, <1>6, <1>7 DEF Steps
<1>9. World(b, R, C, bn, ob, wk, U)
  BY <1>8, WorldSteps
<1> QED  BY <1>1, <1>3, <1>9

LEMMA WorldUnmap ==
  ASSUME NEW a, NEW R, NEW C, NEW bn, NEW ob, NEW wk, NEW U, World(a, R, C, bn, ob, wk, U),
         NEW c \in C, NEW b, b = Unmapped(a, c), NEW D, D = C \ {c}
  PROVE  World(b, R, D, bn, ob, wk, U) /\ UnmapFields(a, b, c) /\ \A q \in R : Keeps(a, b, q)
<1>1. PICK O, K, A : O = Others(bn, ob, wk, U) /\ K = Left(a, C, wk, U) /\ A = R \cup O
  OBVIOUS
<1>2. Fine(a, A, K) /\ R \cap O = {} /\ Typed(a)
  BY <1>1, WorldFine
<1>3. a.released = Null /\ Parted(a, R, C, bn, ob, wk, U)
  BY DEF World
<1>4. C \cap Unmapping(wk, U) = {} /\ C \cup Unmapping(wk, U) \subseteq a.mapped
  BY <1>3 DEF Parted
<1>5. c \in Chunks /\ c \notin K
  <2>1. a.mapped \in SUBSET Chunks
    BY <1>2, TypedIs DEF FieldsTyped
  <2> QED  BY <1>1, <1>4, <2>1 DEF Left
<1>6. /\ Fine(b, A, K) /\ UnmapFields(a, b, c) /\ \A q \in A : Keeps(a, b, q)
  BY <1>2, <1>5, UnmapFine
<1>7. b.mapped = a.mapped \ {c} /\ b.released = a.released
  BY <1>6 DEF UnmapFields
<1>8. K = Left(b, D, wk, U)
  BY <1>1, <1>4, <1>7 DEF Left
<1>9. Steps(a, b, R, D, bn, ob, wk, U)
  BY <1>1, <1>2, <1>3, <1>4, <1>6, <1>7, <1>8 DEF Steps
<1>10. World(b, R, D, bn, ob, wk, U)
  BY <1>9, WorldSteps
<1> QED  BY <1>1, <1>6, <1>10

LEMMA WorldPurged ==
  ASSUME NEW a, NEW R, NEW C, NEW bn, NEW ob, NEW wk, NEW U, World(a, R, C, bn, ob, wk, U),
         NEW c \in Left(a, C, wk, U), c \in a.dirtied, c # a.spare,
         NEW runs, runs = Soiled(a, c), NEW b, b = Purged(a, c, runs), NEW S, S = R \cup runs
  PROVE  /\ World(b, S, C, bn, ob, wk, U) /\ PurgedFields(a, b, c, runs)
         /\ \A d \in runs : b.map[d].flags = Taken
         /\ runs \in SUBSET Pages /\ runs \cap R = {}
         /\ \A q \in R : Keeps(a, b, q)
<1>1. PICK O, K, A : O = Others(bn, ob, wk, U) /\ K = Left(a, C, wk, U) /\ A = R \cup O
  OBVIOUS
<1>2. Fine(a, A, K) /\ R \cap O = {} /\ Typed(a) /\ c \in K
  BY <1>1, WorldFine
<1>3. /\ Fine(b, A \cup runs, K) /\ PurgedFields(a, b, c, runs) /\ runs \cap A = {}
      /\ (\A d \in runs : b.map[d].flags = Taken)
      /\ runs \in SUBSET Pages
      /\ \A q \in A : Keeps(a, b, q)
  BY <1>2, PurgedFine
<1>4. b.mapped = a.mapped /\ b.released = a.released
  BY <1>3 DEF PurgedFields
<1>5. Fine(b, S \cup O, K) /\ S \cap O = {}
  <2>1. S \cup O = A \cup runs
    BY <1>1
  <2> QED  BY <1>1, <1>2, <1>3, <2>1
<1>6. World(b, S, C, bn, ob, wk, U)
  BY <1>1, <1>3, <1>4, <1>5, WorldMoves
<1> QED  BY <1>1, <1>3, <1>6

LEMMA WorldGrown ==
  ASSUME NEW b, NEW R, NEW C, NEW bn, NEW ob, NEW wk, NEW U, World(b, R, C, bn, ob, wk, U),
         NEW r \in R, NEW s \in R, s = r + Length(b, r),
         Base(s) = Base(r), NEW n, n = Length(b, r) + Length(b, s),
         NEW e, e = s + Length(b, s) - 1, NEW fd \in FreeFlags,
         NEW g, g = Grown(b, r, e, n, fd), NEW S, S = R \ {s}
  PROVE  /\ World(g, S, C, bn, ob, wk, U) /\ MapOnly(b, g)
         /\ g.map[r] = Elem(n, Taken \cup fd) /\ Length(g, r) = n /\ r \in S
<1>1. PICK O, K, A : O = Others(bn, ob, wk, U) /\ K = Left(b, C, wk, U) /\ A = R \cup O
  OBVIOUS
<1>2. Fine(b, A, K) /\ R \cap O = {} /\ r \in A /\ s \in A
  BY <1>1, WorldFine
<1>3. /\ Fine(g, A \ {s}, K) /\ MapOnly(b, g) /\ g.touched = b.touched
      /\ g.map[r] = Elem(n, Taken \cup fd) /\ Length(g, r) = n /\ r # s
      /\ \A q \in A \ {r, s} : Keeps(b, g, q)
  <2>1. GrownTo(b, g, A, K, r, s, n, fd)
    BY <1>2, GrownFine
  <2> QED  BY <2>1 DEF GrownTo
<1>4. g.mapped = b.mapped /\ g.released = b.released
  BY <1>3 DEF MapOnly
<1>5. Fine(g, S \cup O, K) /\ S \cap O = {}
  <2>1. S \cup O = A \ {s}
    BY <1>1, <1>2
  <2> QED  BY <1>2, <1>3, <2>1
<1>6. \A q \in O : Keeps(b, g, q)
  BY <1>1, <1>2, <1>3
<1>7. World(g, S, C, bn, ob, wk, U)
  BY <1>1, <1>4, <1>5, <1>6, WorldMoves
<1> QED  BY <1>3, <1>7

-----------------------------------------------------------------------------
(* What a thread has left to do.                                           *)

LEMMA ConcatOne ==
  ASSUME NEW x, NEW S, NEW v \in Seq(S), NEW w, w = <<x>> \o v
  PROVE  /\ w \in Seq(S \cup {x}) /\ Len(w) = Len(v) + 1 /\ w[1] = x /\ w # <<>>
         /\ \A i \in DOMAIN v : w[i + 1] = v[i]
         /\ DOMAIN w = 1 .. Len(v) + 1 /\ DOMAIN v = 1 .. Len(v) /\ Len(v) \in Nat
<1>1. v \in Seq(S \cup {x}) /\ <<x>> \in Seq(S \cup {x})
  OBVIOUS
<1>2. w \in Seq(S \cup {x}) /\ Len(w) = Len(v) + 1
  BY <1>1
<1>3. DOMAIN w = 1 .. Len(v) + 1 /\ DOMAIN v = 1 .. Len(v) /\ Len(v) \in Nat
  BY <1>2
<1>4. w[1] = x /\ \A i \in DOMAIN v : w[i + 1] = v[i]
  BY <1>1, <1>3
<1> QED  BY <1>2, <1>3, <1>4

LEMMA ConcatNone ==
  ASSUME NEW S, NEW v \in Seq(S)
  PROVE  <<>> \o v = v /\ v \o <<>> = v
OBVIOUS

LEMMA ListNone == ListOk(<<>>) /\ Range(<<>>) = {} /\ HandOf({}) = {} /\ Leaving({}) = {}
<1>1. Range(<<>>) = {} /\ <<>> \in Seq({})
  BY DEF Range
<1> QED  BY <1>1 DEF ListOk, TodoOk, HandOf, Leaving

FirstOf(w, x, v) == w # <<>> /\ x = w[1] /\ v = Tail(w)

Popped(w, x, v, T) ==
  /\ ListOk(v) /\ Range(w) = T \cup {x} /\ TaskOk(x)
  /\ \A y \in T : Rank(x) < Rank(y)

LEMMA ListPop ==
  ASSUME NEW w, ListOk(w), NEW x, NEW v, FirstOf(w, x, v), NEW T, T = Range(v)
  PROVE  Popped(w, x, v, T)
<1>13. w # <<>> /\ x = w[1] /\ v = Tail(w)
  BY DEF FirstOf
<1>1. PICK S : S = Range(w)
  OBVIOUS
<1>2. w \in Seq(S) /\ (\A i, j \in DOMAIN w : i < j => Rank(w[i]) < Rank(w[j])) /\ TodoOk(S)
  BY <1>13, <1>1 DEF ListOk
<1>3. PICK n : n = Len(w)
  OBVIOUS
<1>4. n \in Nat /\ n >= 1 /\ DOMAIN w = 1 .. n
  BY <1>13, <1>2, <1>3
<1>5. v \in Seq(S) /\ Len(v) = n - 1 /\ DOMAIN v = 1 .. n - 1 /\ \A i \in 1 .. n - 1 : v[i] = w[i + 1]
  BY <1>13, <1>2, <1>3, <1>4
<1>6. ASSUME NEW y \in T PROVE \E i \in 1 .. n - 1 : v[i] = y
  BY <1>5 DEF Range
<1>7. v \in Seq(T)
  <2>1. \A i \in 1 .. n - 1 : v[i] \in T
    BY <1>5 DEF Range
  <2>2. PICK m : m = n - 1
    OBVIOUS
  <2>3. m \in Nat /\ m = Len(v)
    BY <1>4, <1>5, <2>2
  <2>4. v \in [1 .. m -> S]
    BY <1>5, <2>3, LenProperties
  <2>5. v \in [1 .. m -> T]
    BY <2>1, <2>2, <2>4
  <2>6. [1 .. m -> T] \subseteq Seq(T)
    BY <2>3, SeqDef
  <2> QED  BY <2>5, <2>6
<1>8. x \in S /\ T \subseteq S
  <2>1. 1 \in DOMAIN w
    BY <1>4
  <2>2. x \in S
    BY <1>13, <1>1, <2>1 DEF Range
  <2>3. \A i \in 1 .. n - 1 : v[i] \in S
    BY <1>5
  <2> QED  BY <1>6, <2>2, <2>3
<1>9. ASSUME NEW y \in S PROVE y \in T \cup {x}
  <2>1. PICK i \in 1 .. n : w[i] = y
    BY <1>1, <1>4 DEF Range
  <2>2. CASE i = 1
    BY <1>13, <2>1, <2>2
  <2>3. CASE i # 1
    <3>1. i - 1 \in 1 .. n - 1 /\ v[i - 1] = y
      BY <1>4, <1>5, <2>1, <2>3
    <3> QED  BY <1>5, <3>1 DEF Range
  <2> QED  BY <2>2, <2>3
<1>10. ASSUME NEW y \in T PROVE Rank(x) < Rank(y)
  <2>1. PICK i \in 1 .. n - 1 : v[i] = y
    BY <1>6
  <2>2. 1 \in DOMAIN w /\ i + 1 \in DOMAIN w /\ 1 < i + 1 /\ w[i + 1] = y
    BY <1>4, <1>5, <2>1
  <2> QED  BY <1>13, <1>2, <2>2
<1>11. \A i, j \in DOMAIN v : i < j => Rank(v[i]) < Rank(v[j])
  <2> SUFFICES ASSUME NEW i \in 1 .. n - 1, NEW j \in 1 .. n - 1, i < j PROVE Rank(v[i]) < Rank(v[j])
    BY <1>5
  <2>1. i + 1 \in DOMAIN w /\ j + 1 \in DOMAIN w /\ i + 1 < j + 1
    BY <1>4
  <2>2. Rank(w[i + 1]) < Rank(w[j + 1])
    BY <1>2, <2>1
  <2> QED  BY <1>5, <2>2
<1>12. TodoOk(T)
  <2>1. ASSUME NEW y \in T, y[1] = "madvise" PROVE \E z \in T : z[1] = "return" /\ z[2] = y[2]
    <3>1. PICK z \in S : z[1] = "return" /\ z[2] = y[2]
      BY <1>2, <1>8, <2>1 DEF TodoOk
    <3>2. z # x
      BY <1>10, <2>1, <3>1 DEF Rank
    <3> QED  BY <1>9, <3>1, <3>2
  <2> QED  BY <1>2, <1>8, <2>1 DEF TodoOk
<1> QED  BY <1>1, <1>2, <1>7, <1>8, <1>9, <1>10, <1>11, <1>12 DEF ListOk, TodoOk, Popped

(* What can come in front of the tasks T.                                  *)
InFront(x, T) ==
  /\ TaskOk(x) /\ \A y \in T : Rank(x) < Rank(y)
  /\ x[1] = "madvise" => \E y \in T : y[1] = "return" /\ y[2] = x[2]
  /\ x[1] = "return" => \A y \in T : y[1] = "tail" => y[2] \notin x[2]

Before(x, v) == <<x>> \o v
Listing(w, T, x) == ListOk(w) /\ Range(w) = T \cup {x} /\ w # <<>> /\ w[1] = x

LEMMA ListPush ==
  ASSUME NEW v, ListOk(v), NEW T, T = Range(v), NEW x, InFront(x, T), NEW w, w = Before(x, v)
  PROVE  Listing(w, T, x)
<1>1. v \in Seq(T) /\ (\A i, j \in DOMAIN v : i < j => Rank(v[i]) < Rank(v[j])) /\ TodoOk(T)
  BY DEF ListOk
<1>2. PICK n : n = Len(v)
  OBVIOUS
<1>3. /\ w \in Seq(T \cup {x}) /\ w[1] = x /\ w # <<>> /\ (\A i \in DOMAIN v : w[i + 1] = v[i])
      /\ DOMAIN w = 1 .. n + 1 /\ DOMAIN v = 1 .. n /\ n \in Nat
  BY <1>1, <1>2, ConcatOne DEF Before
<1>4. ASSUME NEW i \in 2 .. n + 1 PROVE i - 1 \in DOMAIN v /\ w[i] = v[i - 1] /\ w[i] \in T
  <2>1. i - 1 \in 1 .. n /\ i - 1 + 1 = i
    BY <1>3
  <2>2. w[i] = v[i - 1]
    BY <1>3, <2>1
  <2> QED  BY <1>1, <1>3, <2>1, <2>2
<1>5. Range(w) = T \cup {x}
  <2>1. ASSUME NEW y \in T PROVE y \in Range(w)
    <3>1. PICK i \in DOMAIN v : v[i] = y
      BY DEF Range
    <3>2. i + 1 \in DOMAIN w /\ w[i + 1] = y
      BY <1>3, <3>1
    <3> QED  BY <3>2 DEF Range
  <2>2. x \in Range(w)
    <3>1. 1 \in DOMAIN w
      BY <1>3
    <3> QED  BY <1>3, <3>1 DEF Range
  <2>3. Range(w) \subseteq T \cup {x}
    BY <1>3 DEF Range
  <2> QED  BY <2>1, <2>2, <2>3
<1>9. TaskOk(x) /\ \A y \in T : Rank(x) < Rank(y)
  BY DEF InFront
<1>6. ASSUME NEW i \in DOMAIN w, NEW j \in DOMAIN w, i < j PROVE Rank(w[i]) < Rank(w[j])
  <2>1. j \in 2 .. n + 1
    BY <1>3, <1>6
  <2>2. CASE i = 1
    BY <1>3, <1>4, <1>9, <2>1, <2>2
  <2>3. CASE i # 1
    <3>1. i \in 2 .. n + 1 /\ i - 1 < j - 1
      BY <1>3, <1>6, <2>3
    <3> QED  BY <1>1, <1>4, <2>1, <3>1
  <2> QED  BY <2>2, <2>3
<1>7. TodoOk(T \cup {x})
  <2>1. \A y \in T : x[1] = "tail" => y[1] # "return"
    BY <1>9 DEF Rank
  <2>2. x[1] = "return" => x[1] # "tail"
    OBVIOUS
  <2> QED  BY <1>1, <1>9, <2>1, <2>2 DEF TodoOk, InFront
<1>8. w \in Seq(Range(w))
  BY <1>3, <1>5
<1> QED  BY <1>3, <1>5, <1>6, <1>7, <1>8 DEF ListOk, Listing

LEMMA ListOne ==
  ASSUME NEW x, TaskOk(x), x[1] # "madvise"
  PROVE  ListOk(<<x>>) /\ Range(<<x>>) = {x} /\ <<x>> # <<>> /\ <<x>>[1] = x
<1>1. PICK v : v = <<>>
  OBVIOUS
<1>2. <<x>> \o v = <<x>>
  BY <1>1
<1>3. ListOk(v) /\ Range(v) = {}
  BY <1>1, ListNone
<1>4. PICK T : T = {}
  OBVIOUS
<1>5. PICK w : w = Before(x, v)
  OBVIOUS
<1>7. T = Range(v) /\ InFront(x, T)
  BY <1>3, <1>4 DEF InFront
<1>6. Listing(w, T, x)
  BY <1>3, <1>5, <1>7, ListPush
<1> QED  BY <1>2, <1>4, <1>5, <1>6 DEF Listing, Before

-----------------------------------------------------------------------------
(* A step of a thread: it begins with what its tasks say that it holds.    *)

Workers(w) == w = [u \in Threads |-> w[u]]

But(t) == Threads \ {t}

ArenaOk == World(arena, {}, {}, bin, objects, work, Threads) /\ Workers(work)

Begun(t, T) ==
  /\ World(arena, HandOf(T), Leaving(T), bin, objects, work, But(t))
  /\ ListOk(work[t]) /\ Claims(arena, T)

LEMMA Begin ==
  ASSUME ArenaOk, NEW t \in Threads, NEW T, T = Range(work[t])
  PROVE  Begun(t, T)
<1>1. World(arena, {}, {}, bin, objects, work, Threads)
  BY DEF ArenaOk
<1> QED  BY <1>1, WorldPart DEF Begun, But

LEMMA BeginIdle ==
  ASSUME ArenaOk, NEW t \in Threads, Idle(t)
  PROVE  World(arena, {}, {}, bin, objects, work, But(t))
<1>1. PICK T : T = Range(work[t])
  OBVIOUS
<1>2. T = {} /\ HandOf({}) = {} /\ Leaving({}) = {}
  BY <1>1, ListNone DEF Idle
<1>3. Begun(t, T)
  BY <1>1, Begin
<1> QED  BY <1>2, <1>3 DEF Begun

(* It ends so, with other tasks.                                           *)
Ended(a, bn, ob, w, t, T) ==
  /\ World(a, HandOf(T), Leaving(T), bn, ob, work, But(t))
  /\ ListOk(w) /\ T = Range(w) /\ Claims(a, T)

LEMMA End ==
  ASSUME ArenaOk, NEW t \in Threads, NEW a, NEW bn, NEW ob, NEW w, NEW T, Ended(a, bn, ob, w, t, T),
         NEW wl, wl = [work EXCEPT ![t] = w]
  PROVE  World(a, {}, {}, bn, ob, wl, Threads) /\ Workers(wl)
<1>1. wl[t] = w /\ (\A u \in Threads \ {t} : wl[u] = work[u]) /\ Workers(wl)
  BY DEF ArenaOk, Workers
<1>2. World(a, HandOf(T), Leaving(T), bn, ob, work, Threads \ {t}) /\ ListOk(wl[t]) /\ T = Range(wl[t]) /\ Claims(a, T)
  BY <1>1 DEF Ended, But
<1> QED  BY <1>1, <1>2, WorldJoin

(* A task more.                                                            *)
LEMMA MoreWork ==
  ASSUME NEW T, NEW x, x[1] \notin {"madvise", "return", "tail"}, NEW U, U = T \cup {x}
  PROVE  HandOf(U) = HandOf(T)
BY DEF HandOf

LEMMA MoreStays ==
  ASSUME NEW T, NEW x, x[1] # "unmap", NEW U, U = T \cup {x}
  PROVE  Leaving(U) = Leaving(T)
BY DEF Leaving

LEMMA MoreLeaves ==
  ASSUME NEW T, NEW x, x[1] = "unmap", NEW c \in Chunks, x[2] = c, NEW U, U = T \cup {x}
  PROVE  Leaving(U) = Leaving(T) \cup {c}
<1>1. \A d : d \in Leaving(U) <=> d \in Leaving(T) \cup {c}
  BY DEF Leaving
<1> QED  BY <1>1

LEMMA MoreHeld ==
  ASSUME NEW T, NEW x, x[1] \in {"madvise", "return"}, NEW runs \in SUBSET Pages, x[2] = runs,
         NEW U, U = T \cup {x}
  PROVE  HandOf(U) = HandOf(T) \cup runs
<1>1. \A p : p \in HandOf(U) <=> p \in HandOf(T) \cup runs
  BY DEF HandOf
<1> QED  BY <1>1

LEMMA MoreTail ==
  ASSUME NEW T, NEW x, x[1] = "tail", NEW r \in Pages, x[2] = r, NEW U, U = T \cup {x}
  PROVE  HandOf(U) = HandOf(T) \cup {r}
<1>1. \A p : p \in HandOf(U) <=> p \in HandOf(T) \cup {r}
  BY DEF HandOf
<1> QED  BY <1>1

LEMMA ClaimsMore ==
  ASSUME NEW a, NEW T, Claims(a, T), NEW x, x[1] \notin {"return", "tail"}, NEW U, U = T \cup {x}
  PROVE  Claims(a, U)
BY DEF Claims

LEMMA NoneLeaving ==
  ASSUME NEW T, \A y \in T : Rank(y) > 1
  PROVE  Leaving(T) = {}
BY DEF Leaving, Rank

LEMMA NoHand ==
  ASSUME NEW T, \A y \in T : y[1] \notin {"madvise", "return", "tail"}
  PROVE  HandOf(T) = {} /\ \A a : Claims(a, T)
BY DEF HandOf, Claims

(* Tasks made of one, of two, and of those that follow.                    *)
LEMMA ConcatTwo ==
  ASSUME NEW S, NEW x \in S, NEW y \in S, NEW v \in Seq(S)
  PROVE  (<<x>> \o <<y>>) \o v = <<x>> \o (<<y>> \o v)
OBVIOUS

(* What is done with the runs R, and the tasks w of thread t, before run r *)
(* of them is given back.                                                  *)
Gives(a, R, r, dirty, bn, ob, w, t, T) ==
  /\ World(a, R, {}, bn, ob, work, But(t)) /\ r \in R /\ dirty \in BOOLEAN
  /\ ~dirty => Unused(a, r, 0)
  /\ ListOk(w) /\ T = Range(w) /\ HandOf(T) = R \ {r} /\ Claims(a, T)
  /\ \A y \in T : Rank(y) >= 3
  /\ DallocFlags(a, r, dirty) # {} => \A y \in T : Rank(y) > 4

TasksGiven(v, U, T, released) ==
  /\ ListOk(v) /\ U = Range(v) /\ HandOf(U) = HandOf(T)
  /\ Leaving(U) = {released} \ {Null}
  /\ \A c : Claims(c, T) => Claims(c, U)

GiveWork(w, released, maybe) ==
  (IF released = Null THEN <<>> ELSE <<<<"unmap", released>>>>)
  \o (IF maybe THEN <<<<"maybe">>>> ELSE <<>>) \o w

LEMMA GiveWorkIs ==
  ASSUME NEW W, NEW w \in Seq(W), NEW released, NEW maybe \in BOOLEAN,
         NEW x, x = <<"unmap", released>>, NEW y, y = <<"maybe">>,
         NEW p, p = IF maybe THEN Before(y, w) ELSE w,
         NEW q, q = IF released = Null THEN p ELSE Before(x, p),
         NEW v, v = GiveWork(w, released, maybe)
  PROVE  v = q
<1>1. PICK S : S = W \cup {x, y}
  OBVIOUS
<1>2. w \in Seq(S) /\ x \in S /\ y \in S
  BY <1>1
<1>3. v = (IF released = Null THEN <<>> ELSE <<x>>) \o (IF maybe THEN <<y>> ELSE <<>>) \o w
  BY DEF GiveWork
<1>4. CASE released # Null /\ maybe
  <2>1. v = (<<x>> \o <<y>>) \o w
    BY <1>3, <1>4
  <2>2. v = <<x>> \o (<<y>> \o w)
    BY <1>2, <2>1, ConcatTwo
  <2>3. q = <<x>> \o p /\ p = <<y>> \o w
    BY <1>4 DEF Before
  <2> QED  BY <2>2, <2>3
<1>5. CASE released # Null /\ ~maybe
  <2>1. v = (<<x>> \o <<>>) \o w
    BY <1>3, <1>5
  <2>2. <<x>> \o <<>> = <<x>>
    BY <1>2
  <2> QED  BY <1>5, <2>1, <2>2 DEF Before
<1>6. CASE released = Null /\ maybe
  <2>1. v = (<<>> \o <<y>>) \o w
    BY <1>3, <1>6
  <2>2. <<>> \o <<y>> = <<y>>
    BY <1>2
  <2> QED  BY <1>6, <2>1, <2>2 DEF Before
<1>7. CASE released = Null /\ ~maybe
  <2>1. v = (<<>> \o <<>>) \o w
    BY <1>3, <1>7
  <2>2. (<<>> \o <<>>) \o w = w
    BY <1>2
  <2> QED  BY <1>7, <2>1, <2>2
<1> QED  BY <1>4, <1>5, <1>6, <1>7

(* The tasks that giving a run back brings come first.                     *)
LEMMA GiveTasks ==
  ASSUME NEW w, ListOk(w), NEW T, T = Range(w), \A y \in T : Rank(y) >= 3,
         NEW released \in Chunks \cup {Null}, NEW maybe \in BOOLEAN,
         maybe => \A y \in T : Rank(y) > 4,
         NEW v, v = GiveWork(w, released, maybe)
  PROVE  \E U : TasksGiven(v, U, T, released)
<1>1. PICK x, y : x = <<"unmap", released>> /\ y = <<"maybe">>
  OBVIOUS
<1>2. x[1] = "unmap" /\ x[2] = released /\ y[1] = "maybe" /\ Rank(x) = 1 /\ Rank(y) = 4
  BY <1>1 DEF Rank
<1>3. PICK p : p = IF maybe THEN Before(y, w) ELSE w
  OBVIOUS
<1>4. PICK P : P = IF maybe THEN T \cup {y} ELSE T
  OBVIOUS
<1>5. ListOk(p) /\ P = Range(p) /\ (\A z \in P : Rank(z) >= 3) /\ HandOf(P) = HandOf(T) /\ Leaving(P) = {}
      /\ \A c : Claims(c, T) => Claims(c, P)
  <2>1. CASE maybe
    <3>1. p = Before(y, w) /\ P = T \cup {y}
      BY <1>3, <1>4, <2>1
    <3>2. InFront(y, T)
      BY <1>2, <2>1 DEF InFront, TaskOk
    <3>3. Listing(p, T, y)
      BY <3>1, <3>2, ListPush
    <3>4. HandOf(P) = HandOf(T) /\ \A c : Claims(c, T) => Claims(c, P)
      BY <1>2, <3>1, MoreWork, ClaimsMore
    <3>5. \A z \in P : Rank(z) >= 3
      BY <1>2, <3>1
    <3>6. Leaving(P) = {}
      <4>1. \A z \in P : Rank(z) > 1
        BY <3>5 DEF Rank
      <4> QED  BY <4>1, NoneLeaving
    <3> QED  BY <3>1, <3>3, <3>4, <3>5, <3>6 DEF Listing
  <2>2. CASE ~maybe
    <3>1. p = w /\ P = T
      BY <1>3, <1>4, <2>2
    <3>2. Leaving(P) = {}
      <4>1. \A z \in P : Rank(z) > 1
        BY <3>1 DEF Rank
      <4> QED  BY <4>1, NoneLeaving
    <3> QED  BY <3>1, <3>2
  <2> QED  BY <2>1, <2>2
<1>6. PICK q : q = IF released = Null THEN p ELSE Before(x, p)
  OBVIOUS
<1>7. PICK Q : Q = IF released = Null THEN P ELSE P \cup {x}
  OBVIOUS
<1>8. ListOk(q) /\ Q = Range(q) /\ HandOf(Q) = HandOf(T) /\ Leaving(Q) = {released} \ {Null}
      /\ \A c : Claims(c, T) => Claims(c, Q)
  <2>1. CASE released # Null
    <3>1. q = Before(x, p) /\ Q = P \cup {x} /\ released \in Chunks
      BY <1>6, <1>7, <2>1
    <3>2. InFront(x, P)
      <4>1. \A z \in P : Rank(x) < Rank(z)
        BY <1>2, <1>5 DEF Rank
      <4> QED  BY <1>2, <3>1, <4>1 DEF InFront, TaskOk
    <3>3. Listing(q, P, x)
      BY <1>5, <3>1, <3>2, ListPush
    <3>4. HandOf(Q) = HandOf(P)
      BY <1>2, <3>1, MoreWork
    <3>6. Leaving(Q) = Leaving(P) \cup {released}
      BY <1>2, <3>1, MoreLeaves
    <3>7. \A c : Claims(c, P) => Claims(c, Q)
      BY <1>2, <3>1, ClaimsMore
    <3> QED  BY <1>2, <1>5, <2>1, <3>1, <3>3, <3>4, <3>6, <3>7 DEF Listing
  <2>2. CASE released = Null
    BY <1>5, <1>6, <1>7, <2>2
  <2> QED  BY <2>1, <2>2
<1>9. v = q
  <2>1. w \in Seq(T)
    BY DEF ListOk
  <2> QED  BY <1>1, <1>3, <1>6, <2>1, GiveWorkIs
<1> QED  BY <1>8, <1>9 DEF TasksGiven

GiveEnded(bn, ob, n) ==
  /\ World(arena', {}, {}, bn, ob, work', Threads) /\ Workers(work')
  /\ arena'.npurgatory = n

LEMMA GiveEnds ==
  ASSUME ArenaOk, NEW t \in Threads, NEW a, NEW R, NEW r, NEW dirty, NEW bn, NEW ob, NEW w, NEW T,
         Gives(a, R, r, dirty, bn, ob, w, t, T), GiveRun(t, a, r, dirty, w)
  PROVE  GiveEnded(bn, ob, a.npurgatory)
<1>1. /\ World(a, R, {}, bn, ob, work, But(t)) /\ r \in R /\ dirty \in BOOLEAN
      /\ (~dirty => Unused(a, r, 0))
      /\ ListOk(w) /\ T = Range(w) /\ HandOf(T) = R \ {r} /\ Claims(a, T)
      /\ (\A y \in T : Rank(y) >= 3)
      /\ DallocFlags(a, r, dirty) # {} => \A y \in T : Rank(y) > 4
  BY DEF Gives
<1>2. PICK b : b = RunDalloc(a, r, dirty)
  OBVIOUS
<1>3. PICK c : c = [b EXCEPT !.released = Null]
  OBVIOUS
<1>4. PICK soiled \in BOOLEAN : soiled = (DallocFlags(a, r, dirty) # {})
  OBVIOUS
<1>5. PICK maybe \in BOOLEAN : maybe = (soiled /\ (b.released # Null \/ MustPurge(b)))
  OBVIOUS
<1>6. PICK v : v = GiveWork(w, b.released, maybe)
  OBVIOUS
<1>7. arena' = c /\ Does(t, v)
  BY <1>2, <1>3, <1>4, <1>5, <1>6 DEF GiveRun, GiveWork
<1>8. PICK S, D : S = R \ {r} /\ D = {b.released} \ {Null}
  OBVIOUS
<1>9. /\ World(c, S, D, bn, ob, work, But(t)) /\ b.released \in Chunks \cup {Null}
      /\ c.npurgatory = a.npurgatory /\ \A q \in S : Keeps(a, c, q)
  <2>1. PICK wk, V : wk = work /\ V = But(t)
    OBVIOUS
  <2>2. Givable(a, R, r, dirty, bn, ob, wk, V)
    BY <1>1, <2>1 DEF Givable
  <2>3. c = Forgotten(b)
    BY <1>3 DEF Forgotten
  <2>4. Gave(a, b, c, R, r, bn, ob, wk, V)
    BY <1>2, <2>2, <2>3, WorldGive
  <2> QED  BY <1>8, <2>1, <2>4 DEF Gave
<1>10. Claims(c, T)
  <2>1. PICK O, A, K : O = Others(bn, ob, work, But(t)) /\ A = R \cup O /\ K = Left(a, {}, work, But(t))
    OBVIOUS
  <2>2. Fine(a, A, K)
    BY <1>1, <2>1, WorldFine
  <2>3. TodoOk(T) /\ HandOf(T) \subseteq A /\ \A q \in HandOf(T) : Keeps(a, c, q)
    BY <1>1, <1>8, <1>9, <2>1 DEF ListOk
  <2> QED  BY <1>1, <2>2, <2>3, ClaimsKept
<1>11. PICK released \in Chunks \cup {Null} : released = b.released
  BY <1>8, <1>9
<1>12. \E U : TasksGiven(v, U, T, released)
  <2>1. v = GiveWork(w, released, maybe)
    BY <1>6, <1>11
  <2>2. maybe => \A y \in T : Rank(y) > 4
    BY <1>1, <1>4, <1>5
  <2> QED  BY <1>1, <2>1, <2>2, GiveTasks
<1>13. PICK U : TasksGiven(v, U, T, released)
  BY <1>12
<1>14. Ended(c, bn, ob, v, t, U)
  BY <1>1, <1>8, <1>9, <1>10, <1>11, <1>13 DEF Ended, TasksGiven
<1>15. PICK wl : wl = work'
  OBVIOUS
<1>16. wl = [work EXCEPT ![t] = v]
  BY <1>7, <1>15 DEF Does
<1>17. World(c, {}, {}, bn, ob, wl, Threads) /\ Workers(wl)
  BY <1>14, <1>16, End
<1> QED  BY <1>7, <1>9, <1>15, <1>17 DEF GiveEnded

(* The pages from k on of a clean run are unused: so are those from j on,  *)
(* and they stay so when pages before them are written.                    *)
LEMMA UnusedLater ==
  ASSUME NEW a, NEW r \in Int, NEW k \in Nat, NEW j \in Nat, k <= j, Unused(a, r, k), Length(a, r) \in Nat
  PROVE  Unused(a, r, j)
BY DEF Unused

LEMMA UnusedTouched ==
  ASSUME NEW a, NEW r \in Int, NEW k \in Nat, Length(a, r) \in Nat, Unused(a, r, k), NEW b, Same(a, b, r),
         NEW P, b.touched = a.touched \cup P, NEW j \in Nat, k <= j, P = Span(r, j)
  PROVE  Unused(b, r, j)
<1>1. ASSUME Dirty(b.map[r]) = {}, NEW p \in r + j .. r + Length(b, r) - 1 PROVE p \notin b.touched
  <2>1. Dirty(a.map[r]) = {} /\ Length(b, r) = Length(a, r)
    BY <1>1 DEF Same
  <2>2. p \in r + k .. r + Length(a, r) - 1
    BY <1>1, <2>1
  <2>3. p \notin P
    BY <1>1, <2>1 DEF Span
  <2> QED  BY <2>1, <2>2, <2>3 DEF Unused
<1> QED  BY <1>1 DEF Unused

(* A run becomes the client's.                                             *)
With(ob, r, n) == [p \in DOMAIN ob \cup {r} |-> IF p = r THEN n ELSE ob[p]]

LEMMA ObjectGets ==
  ASSUME NEW a, NEW R, NEW C, NEW bn, NEW ob, NEW wk, NEW U, World(a, R, C, bn, ob, wk, U),
         NEW r \in R, IsLarge(a, r), NEW n, a.map[r].size = n, NEW oc, oc = With(ob, r, n),
         NEW S, S = R \ {r}
  PROVE  World(a, S, C, bn, oc, wk, U)
<1>1. DOMAIN oc = DOMAIN ob \cup {r} /\ oc[r] = n /\ \A p \in DOMAIN ob : p # r => oc[p] = ob[p]
  BY DEF With
<1>2. ObjectsOk(a, ob) /\ BinOk(a, bn) /\ Parted(a, R, C, bn, ob, wk, U)
  BY DEF World
<1>3. R \cap Others(bn, ob, wk, U) = {} /\ DOMAIN ob \cap DOMAIN bn.runs = {}
  BY <1>2 DEF Parted
<1>4. R \cap DOMAIN ob = {} /\ R \cap DOMAIN bn.runs = {}
  BY <1>3 DEF Others
<1>5. ObjectsOk(a, oc)
  BY <1>1, <1>2 DEF ObjectsOk
<1>6. /\ S \cup DOMAIN oc \cup DOMAIN bn.runs = R \cup DOMAIN ob \cup DOMAIN bn.runs
      /\ S \cap DOMAIN oc = {} /\ S \cap DOMAIN bn.runs = {} /\ DOMAIN oc \cap DOMAIN bn.runs = {}
  BY <1>1, <1>3, <1>4
<1> QED  BY <1>2, <1>5, <1>6, WorldHand

(* A step that ends with nothing, or with one task that holds nothing.     *)
StepEnded(bn, ob) ==
  World(arena', {}, {}, bn, ob, work', Threads) /\ Workers(work')

LEMMA EndNone ==
  ASSUME ArenaOk, NEW t \in Threads, NEW a, arena' = a, NEW bn, NEW ob, NEW R, R = {},
         World(a, R, R, bn, ob, work, But(t)), work' = [work EXCEPT ![t] = <<>>]
  PROVE  StepEnded(bn, ob)
<1>1. PICK wl, w : wl = work' /\ w = <<>>
  OBVIOUS
<1>2. ListOk(w) /\ Range(w) = {} /\ HandOf({}) = {} /\ Leaving({}) = {}
  BY <1>1, ListNone
<1>3. Claims(a, {})
  BY DEF Claims
<1>4. PICK T : T = {}
  OBVIOUS
<1>5. Ended(a, bn, ob, w, t, T)
  BY <1>2, <1>3, <1>4 DEF Ended
<1>6. wl = [work EXCEPT ![t] = w]
  BY <1>1
<1>7. World(a, {}, {}, bn, ob, wl, Threads) /\ Workers(wl)
  BY <1>5, <1>6, End
<1> QED  BY <1>1, <1>7 DEF StepEnded

Plain == {"map", "maybe", "purge", "run", "bin", "drop"}

LEMMA EndOne ==
  ASSUME ArenaOk, NEW t \in Threads, NEW a, arena' = a, NEW bn, NEW ob, NEW R, R = {},
         World(a, R, R, bn, ob, work, But(t)), NEW x, TaskOk(x), x[1] \in Plain,
         work' = [work EXCEPT ![t] = <<x>>]
  PROVE  StepEnded(bn, ob)
<1>1. PICK wl, w : wl = work' /\ w = <<x>>
  OBVIOUS
<1>2. PICK T : T = {x}
  OBVIOUS
<1>3. x[1] \notin {"madvise", "return", "tail"} /\ x[1] # "unmap"
  BY DEF Plain
<1>4. ListOk(w) /\ Range(w) = T
  BY <1>1, <1>2, <1>3, ListOne
<1>5. HandOf(T) = {} /\ Claims(a, T)
  BY <1>2, <1>3, NoHand
<1>6. Leaving(T) = {}
  BY <1>2, <1>3 DEF Leaving
<1>7. Ended(a, bn, ob, w, t, T)
  BY <1>4, <1>5, <1>6 DEF Ended
<1>8. wl = [work EXCEPT ![t] = w]
  BY <1>1
<1>9. World(a, {}, {}, bn, ob, wl, Threads) /\ Workers(wl)
  BY <1>7, <1>8, End
<1> QED  BY <1>1, <1>9 DEF StepEnded

(* A free run that was just cut out of the arena, for a large object.      *)
Fresh(a, R, r, n, t) ==
  /\ World(a, R, {}, bin, objects, work, But(t)) /\ R = {r}
  /\ Length(a, r) = n /\ Unused(a, r, 0)

FreshLarge(a, R, r, n, t) == Fresh(a, R, r, n, t) /\ IsLarge(a, r)

LEMMA FreshIs ==
  ASSUME NEW a, NEW R, NEW r, NEW n, NEW t, Fresh(a, R, r, n, t)
  PROVE  /\ r \in Pages /\ r \in Int /\ n \in Nat /\ n >= 1
         /\ (IsLarge(a, r) => a.map[r].size = n)
<1>1. World(a, R, {}, bin, objects, work, But(t)) /\ R = {r} /\ Length(a, r) = n
  BY DEF Fresh
<1>2. PICK A, K : A = R \cup Others(bin, objects, work, But(t)) /\ K = Left(a, {}, work, But(t))
  OBVIOUS
<1>3. Fine(a, A, K)
  BY <1>1, <1>2, WorldFine
<1>4. r \in A
  BY <1>1, <1>2
<1> QED  BY <1>1, <1>3, <1>4, OwnedIs

StepKeeps(bn, ob, n) == StepEnded(bn, ob) /\ arena'.npurgatory = n

LEMMA TrimTailOk ==
  ASSUME ArenaOk, NEW t \in Threads, NEW a, NEW R, NEW r, NEW old, NEW new,
         FreshLarge(a, R, r, old, t), new \in 1 .. old, TrimTail(t, a, r, old, new)
  PROVE  StepKeeps(bin', objects', a.npurgatory)
<1>1. World(a, R, {}, bin, objects, work, But(t)) /\ R = {r} /\ Length(a, r) = old
      /\ Unused(a, r, 0) /\ IsLarge(a, r) /\ Fresh(a, R, r, old, t)
  BY DEF FreshLarge, Fresh
<1>2. r \in Int /\ old \in Nat /\ a.map[r].size = old /\ new \in Nat /\ new >= 1 /\ r \in R
  BY <1>1, FreshIs
<1>3. PICK oc : oc = With(objects, r, new)
  OBVIOUS
<1>4. objects' = oc /\ bin' = bin
  BY <1>3 DEF TrimTail, Owns, With
<1>5. PICK N, V, bn : N = {} /\ V = But(t) /\ bn = bin
  OBVIOUS
<1>6. PICK wk, ob, P : wk = work /\ ob = objects /\ P = Span(r, new)
  OBVIOUS
<1>7. CASE old = new
  <2>1. PICK b : b = Touch(a, P)
    OBVIOUS
  <2>2. arena' = b /\ Does(t, <<>>)
    BY <1>6, <1>7, <2>1 DEF TrimTail
  <2>3. Within(a, r, P)
    BY <1>1, <1>2, <1>5, <1>6, <1>7 DEF Span, Within
  <2>10. World(a, R, N, bn, ob, wk, V) /\ r \in R
    BY <1>1, <1>5, <1>6
  <2>11. World(b, R, N, bn, ob, wk, V) /\ Wrote(a, b, R, r, P)
    BY <2>1, <2>3, <2>10, WorldTouch
  <2>4. World(b, R, N, bn, ob, wk, V) /\ b.npurgatory = a.npurgatory /\ Same(a, b, r)
    BY <2>11 DEF Wrote
  <2>5. IsLarge(b, r) /\ b.map[r].size = new
    BY <1>1, <1>2, <1>7, <2>4 DEF Same, IsLarge
  <2>6. PICK S : S = R \ {r}
    OBVIOUS
  <2>7. oc = With(ob, r, new) /\ S = {}
    BY <1>1, <1>3, <1>6, <2>6
  <2>8. World(b, S, N, bn, oc, wk, V)
    BY <1>2, <2>4, <2>5, <2>6, <2>7, ObjectGets
  <2>9. StepEnded(bn, oc)
    BY <1>5, <1>6, <2>2, <2>7, <2>8, EndNone DEF Does
  <2> QED  BY <1>4, <1>5, <2>2, <2>4, <2>9 DEF StepKeeps
<1>8. CASE old # new
  <2>1. PICK b : b = Cut(a, r, old, new, {})
    OBVIOUS
  <2>2. PICK c : c = Touch(b, P)
    OBVIOUS
  <2>3. PICK s : s = r + new
    OBVIOUS
  <2>4. GiveRun(t, c, s, FALSE, <<>>)
    BY <1>6, <1>8, <2>1, <2>2, <2>3 DEF TrimTail, CutTail
  <2>5. PICK S, Q : S = R \cup {s} /\ Q = {s}
    OBVIOUS
  <2>6. PICK kept \in FreeFlags : kept = {}
    BY DEF FreeFlags
  <2>7. new < old /\ World(a, R, N, bn, ob, wk, V) /\ b = Cut(a, r, old, new, kept)
    BY <1>1, <1>2, <1>5, <1>6, <1>8, <2>1, <2>6
  <2>8. /\ World(b, S, N, bn, ob, wk, V) /\ s \notin R /\ CutOut(a, b, r, old, new, kept)
        /\ (Unused(a, r, new) => Unused(b, s, 0))
    BY <1>1, <1>2, <2>3, <2>5, <2>7, WorldCut
  <2>9. Unused(b, s, 0)
    BY <1>1, <1>2, <2>8, UnusedLater
  <2>10. /\ IsLarge(b, r) /\ b.map[r].size = new /\ Length(b, r) = new /\ b.npurgatory = a.npurgatory
         /\ Length(b, s) = old - new
    BY <2>3, <2>8 DEF CutOut, IsLarge, Elem, Taken, MapOnly
  <2>11. r \in S /\ s \in S /\ s # r /\ Within(b, r, P)
    BY <1>2, <1>6, <2>3, <2>5, <2>10 DEF Span, Within
  <2>12. /\ World(c, S, N, bn, ob, wk, V) /\ c.npurgatory = b.npurgatory /\ Same(b, c, r) /\ Keeps(b, c, s)
    <3>1. World(c, S, N, bn, ob, wk, V) /\ Wrote(b, c, S, r, P)
      BY <2>2, <2>8, <2>11, WorldTouch
    <3> QED  BY <2>11, <3>1 DEF Wrote
  <2>13. Unused(c, s, 0)
    BY <1>2, <2>3, <2>9, <2>10, <2>12, KeepsUnused
  <2>14. IsLarge(c, r) /\ c.map[r].size = new
    BY <2>10, <2>12 DEF Same, IsLarge
  <2>15. oc = With(ob, r, new) /\ Q = S \ {r}
    BY <1>1, <1>3, <1>6, <2>5, <2>11
  <2>16. World(c, Q, N, bn, oc, wk, V)
    BY <2>11, <2>12, <2>14, <2>15, ObjectGets
  <2>17. PICK w, T : w = <<>> /\ T = {}
    OBVIOUS
  <2>18. Gives(c, Q, s, FALSE, bn, oc, w, t, T)
    <3>1. ListOk(w) /\ T = Range(w) /\ HandOf(T) = {} /\ Q \ {s} = {} /\ Claims(c, T)
      BY <2>5, <2>17, ListNone DEF Claims
    <3>2. World(c, Q, {}, bn, oc, work, But(t)) /\ s \in Q
      BY <1>5, <1>6, <2>5, <2>16
    <3>3. \A y : y \notin T
      BY <2>17
    <3> QED  BY <2>13, <3>1, <3>2, <3>3 DEF Gives
  <2>19. GiveRun(t, c, s, FALSE, w)
    BY <2>4, <2>17
  <2>20. PICK dirty : dirty = FALSE
    OBVIOUS
  <2>21. GiveEnded(bn, oc, c.npurgatory)
    BY <2>18, <2>19, <2>20, GiveEnds
  <2> QED  BY <1>4, <1>5, <2>10, <2>12, <2>21 DEF GiveEnded, StepKeeps, StepEnded
<1> QED  BY <1>7, <1>8

(* arena_palloc, behind the run it got.                                    *)
AlignOk(req) ==
  /\ req.need \in Nat /\ req.size \in Nat /\ req.size >= 1
  /\ req.align \in Nat /\ req.align >= 1 /\ req.size + req.align - 1 <= req.need

LEMMA RequestAlign ==
  ASSUME NEW req \in Requests, req.for = "align"
  PROVE  AlignOk(req)
BY DEF Requests, AlignOk

LEMMA AlignedOk ==
  ASSUME ArenaOk, NEW t \in Threads, NEW a, NEW R, NEW r, NEW req, AlignOk(req),
         FreshLarge(a, R, r, req.need, t), Aligned(t, a, r, req)
  PROVE  StepKeeps(bin', objects', a.npurgatory)
<1>1. PICK need, size, align : need = req.need /\ size = req.size /\ align = req.align
  OBVIOUS
<1>2. /\ need \in Nat /\ size \in Nat /\ size >= 1 /\ align \in Nat /\ align >= 1
      /\ size + align - 1 <= need
  BY <1>1 DEF AlignOk
<1>3. FreshLarge(a, R, r, need, t) /\ Fresh(a, R, r, need, t) /\ IsLarge(a, r)
  BY <1>1 DEF FreshLarge
<1>4. r \in Pages /\ r \in Int /\ a.map[r].size = need /\ Length(a, r) = need /\ Unused(a, r, 0)
      /\ R = {r} /\ World(a, R, {}, bin, objects, work, But(t))
  BY <1>3, FreshIs DEF Fresh
<1>5. PICK offset : offset = Address(r) % align
  OBVIOUS
<1>6. offset \in Int /\ 0 <= offset /\ offset < align
  <2>1. Base(r) \in Int /\ First(Base(r)) \in Int /\ MapBias \in Int /\ NP \in Int
    BY <1>4, BaseIs, Numbers
  <2>2. ChunkPages \in Int
    BY <2>1 DEF ChunkPages
  <2>3. Address(r) \in Int
    BY <1>4, <2>1, <2>2 DEF Address
  <2> QED  BY <1>2, <1>5, <2>3
<1>7. CASE offset = 0
  <2>1. TrimTail(t, a, r, need, size)
    BY <1>1, <1>5, <1>7 DEF Aligned
  <2>2. size \in 1 .. need
    BY <1>2
  <2> QED  BY <1>3, <2>1, <2>2, TrimTailOk
<1>8. CASE offset # 0
  <2>1. PICK lead : lead = align - offset
    OBVIOUS
  <2>2. lead \in Nat /\ lead >= 1 /\ lead < need /\ size \in 1 .. need - lead /\ need - lead \in Nat
    BY <1>2, <1>6, <1>8, <2>1
  <2>3. PICK s : s = r + lead
    OBVIOUS
  <2>4. PICK x : x = <<"tail", s, need - lead, size>>
    OBVIOUS
  <2>5. PICK kept : kept = Dirty(a.map[r + lead])
    OBVIOUS
  <2>6. kept \in FreeFlags
    BY <2>5 DEF Dirty, FreeFlags
  <2>7. PICK b : b = Cut(a, r, need, lead, kept)
    OBVIOUS
  <2>8. GiveRun(t, b, r, FALSE, <<x>>) /\ bin' = bin /\ objects' = objects
    BY <1>1, <1>5, <1>8, <2>1, <2>3, <2>4, <2>5, <2>7 DEF Aligned, CutHead
  <2>9. PICK N, V, bn : N = {} /\ V = But(t) /\ bn = bin
    OBVIOUS
  <2>10. PICK wk, ob, S : wk = work /\ ob = objects /\ S = R \cup {s}
    OBVIOUS
  <2>11. World(a, R, N, bn, ob, wk, V) /\ r \in R
    BY <1>4, <2>9, <2>10
  <2>12. /\ World(b, S, N, bn, ob, wk, V) /\ s \notin R /\ CutOut(a, b, r, need, lead, kept)
         /\ (Unused(a, r, 0) => Unused(b, r, 0)) /\ (Unused(a, r, lead) => Unused(b, s, 0))
    BY <1>4, <2>2, <2>3, <2>6, <2>7, <2>10, <2>11, WorldCut
  <2>13. Unused(b, r, 0) /\ Unused(b, s, 0)
    BY <1>2, <1>4, <2>2, <2>12, UnusedLater
  <2>14. IsLarge(b, s) /\ b.map[s].size = need - lead /\ b.npurgatory = a.npurgatory
    BY <2>3, <2>12 DEF CutOut, IsLarge, Elem, Taken, MapOnly
  <2>15. s \in Pages
    <3>1. S \in SUBSET Pages
      BY <2>12, WorldIs
    <3> QED  BY <2>10, <3>1
  <2>16. x[1] = "tail" /\ x[2] = s /\ x[3] = need - lead /\ x[4] = size
    BY <2>4
  <2>17. TaskOk(x) /\ Rank(x) = 5 /\ x[1] # "madvise"
    BY <2>2, <2>15, <2>16 DEF TaskOk, Rank
  <2>18. PICK w, T : w = <<x>> /\ T = {x}
    OBVIOUS
  <2>19. ListOk(w) /\ Range(w) = T
    BY <2>17, <2>18, ListOne
  <2>20. HandOf(T) = {s}
    <3>1. HandOf({}) = {} /\ T = {} \cup {x}
      BY <2>18, ListNone
    <3>2. HandOf(T) = HandOf({}) \cup {s}
      BY <2>15, <2>16, <3>1, MoreTail
    <3> QED  BY <3>1, <3>2
  <2>21. Claims(b, T)
    BY <2>13, <2>14, <2>16, <2>18 DEF Claims
  <2>22. PICK dirty : dirty = FALSE
    OBVIOUS
  <2>23. Gives(b, S, r, dirty, bn, ob, w, t, T)
    <3>1. World(b, S, {}, bn, ob, work, But(t)) /\ r \in S /\ HandOf(T) = S \ {r}
      BY <1>4, <2>9, <2>10, <2>12, <2>20
    <3>2. (\A y \in T : Rank(y) >= 3) /\ \A y \in T : Rank(y) > 4
      BY <2>17, <2>18
    <3> QED  BY <2>13, <2>19, <2>21, <2>22, <3>1, <3>2 DEF Gives
  <2>24. GiveRun(t, b, r, dirty, w)
    BY <2>8, <2>18, <2>22
  <2>25. GiveEnded(bn, ob, b.npurgatory)
    BY <2>23, <2>24, GiveEnds
  <2> QED  BY <2>8, <2>9, <2>10, <2>14, <2>25 DEF GiveEnded, StepKeeps, StepEnded
<1> QED  BY <1>7, <1>8

(* The run is the bin's.                                                   *)
NewBin(bn, r) ==
  [bn EXCEPT !.runs = [p \in DOMAIN @ \cup {r} |->
     IF p = r THEN [next |-> 0, avail |-> <<>>] ELSE @[p]]]

IsBin(bn) == bn = [cur |-> bn.cur, tree |-> bn.tree, runs |-> bn.runs]

LEMMA NewBinIs ==
  ASSUME NEW bn, IsBin(bn), NEW r, NEW bm, bm = NewBin(bn, r)
  PROVE  /\ IsBin(bm) /\ bm.cur = bn.cur /\ bm.tree = bn.tree
         /\ DOMAIN bm.runs = DOMAIN bn.runs \cup {r}
         /\ bm.runs[r] = [next |-> 0, avail |-> <<>>]
         /\ \A p \in DOMAIN bn.runs : p # r => bm.runs[p] = bn.runs[p]
<1>1. PICK c, e, s : c = bn.cur /\ e = bn.tree /\ s = bn.runs
  OBVIOUS
<1>2. bn = [cur |-> c, tree |-> e, runs |-> s]
  BY <1>1 DEF IsBin
<1>3. PICK u : u = [p \in DOMAIN s \cup {r} |-> IF p = r THEN [next |-> 0, avail |-> <<>>] ELSE s[p]]
  OBVIOUS
<1>4. bm = [cur |-> c, tree |-> e, runs |-> u]
  BY <1>2, <1>3 DEF NewBin
<1>5. DOMAIN u = DOMAIN s \cup {r} /\ u[r] = [next |-> 0, avail |-> <<>>] /\ \A p \in DOMAIN s : p # r => u[p] = s[p]
  BY <1>3
<1> QED  BY <1>1, <1>4, <1>5 DEF IsBin

LEMMA BinGets ==
  ASSUME NEW a, NEW R, NEW C, NEW bn, NEW ob, NEW wk, NEW U, World(a, R, C, bn, ob, wk, U), IsBin(bn),
         NEW r \in R, ~IsLarge(a, r), Unused(a, r, Past(0)), NEW bm, bm = NewBin(bn, r),
         NEW S, S = R \ {r}
  PROVE  World(a, S, C, bm, ob, wk, U)
<1>1. /\ DOMAIN bm.runs = DOMAIN bn.runs \cup {r} /\ bm.runs[r] = [next |-> 0, avail |-> <<>>]
      /\ \A p \in DOMAIN bn.runs : p # r => bm.runs[p] = bn.runs[p]
  BY NewBinIs
<1>2. ObjectsOk(a, ob) /\ BinOk(a, bn) /\ Parted(a, R, C, bn, ob, wk, U)
  BY DEF World
<1>3. R \cap Others(bn, ob, wk, U) = {} /\ DOMAIN ob \cap DOMAIN bn.runs = {}
  BY <1>2 DEF Parted
<1>4. R \cap DOMAIN ob = {} /\ R \cap DOMAIN bn.runs = {}
  BY <1>3 DEF Others
<1>5. BinOk(a, bm)
  <2>1. bm.runs[r].next = 0 /\ 0 \in 0 .. Regs
    BY <1>1, Numbers
  <2> QED  BY <1>1, <1>2, <2>1 DEF BinOk
<1>6. /\ S \cup DOMAIN ob \cup DOMAIN bm.runs = R \cup DOMAIN ob \cup DOMAIN bn.runs
      /\ S \cap DOMAIN ob = {} /\ S \cap DOMAIN bm.runs = {} /\ DOMAIN ob \cap DOMAIN bm.runs = {}
  BY <1>1, <1>3, <1>4
<1> QED  BY <1>2, <1>5, <1>6, WorldHand

LEMMA NewRunOk ==
  ASSUME ArenaOk, NEW t \in Threads, NEW a, NEW R, NEW r, IsBin(bin),
         Fresh(a, R, r, RunPages, t), ~IsLarge(a, r), NewRun(t, a, r)
  PROVE  StepKeeps(bin', objects', a.npurgatory)
<1>1. World(a, R, {}, bin, objects, work, But(t)) /\ R = {r} /\ Length(a, r) = RunPages /\ Unused(a, r, 0)
  BY DEF Fresh
<1>2. r \in Pages /\ r \in Int /\ RunPages \in Nat /\ RunPages >= 1
  BY FreshIs
<1>3. PICK N, V, bn : N = {} /\ V = But(t) /\ bn = bin
  OBVIOUS
<1>4. PICK wk, ob, S : wk = work /\ ob = objects /\ S = R \ {r}
  OBVIOUS
<1>5. PICK k : k = Past(0)
  OBVIOUS
<1>6. k \in Nat /\ k >= 1 /\ k <= RunPages
  <2>1. 0 \in 0 .. Regs
    BY Numbers
  <2> QED  BY <1>5, <2>1, PastIs
<1>7. PICK P : P = Span(r, k)
  OBVIOUS
<1>8. PICK b, bm : b = Touch(a, P) /\ bm = NewBin(bn, r)
  OBVIOUS
<1>9. arena' = b /\ bin' = bm /\ objects' = ob /\ Does(t, <<<<"bin", r>>>>)
  BY <1>3, <1>4, <1>5, <1>7, <1>8 DEF NewRun, NewBin
<1>10. Within(a, r, P)
  BY <1>1, <1>2, <1>6, <1>7 DEF Within, Span
<1>11. World(a, R, N, bn, ob, wk, V) /\ r \in R
  BY <1>1, <1>3, <1>4
<1>12. World(b, R, N, bn, ob, wk, V) /\ Wrote(a, b, R, r, P)
  BY <1>8, <1>10, <1>11, WorldTouch
<1>13. Same(a, b, r) /\ b.touched = a.touched \cup P /\ b.npurgatory = a.npurgatory
  BY <1>12 DEF Wrote
<1>14. Unused(b, r, k)
  BY <1>1, <1>2, <1>6, <1>7, <1>13, UnusedTouched
<1>15. ~IsLarge(b, r) /\ Unused(b, r, Past(0)) /\ IsBin(bn)
  BY <1>3, <1>5, <1>13, <1>14 DEF IsLarge, Same
<1>16. World(b, S, N, bm, ob, wk, V)
  BY <1>4, <1>8, <1>11, <1>12, <1>15, BinGets
<1>17. PICK x : x = <<"bin", r>>
  OBVIOUS
<1>18. x[1] = "bin"
  BY <1>17
<1>19. TaskOk(x) /\ x[1] \in Plain
  BY <1>18 DEF TaskOk, Plain
<1>20. S = {} /\ N = {}
  BY <1>1, <1>3, <1>4
<1>21. work' = [work EXCEPT ![t] = <<x>>]
  BY <1>9, <1>17 DEF Does
<1>22. World(b, S, S, bm, ob, work, But(t))
  BY <1>3, <1>4, <1>16, <1>20
<1>23. StepEnded(bm, ob)
  BY <1>9, <1>19, <1>20, <1>21, <1>22, EndOne
<1> QED  BY <1>9, <1>13, <1>23 DEF StepKeeps

-----------------------------------------------------------------------------
(* A run is found, and cut.                                                *)

LEMMA BestFitIs ==
  ASSUME NEW a, NEW tree \in SUBSET Nat, NEW need, \A r \in tree : a.map[r].size \in Nat,
         Fits(a, tree, need) # {}
  PROVE  BestFit(a, tree, need) \in Fits(a, tree, need)
<1>1. PICK S : S = Fits(a, tree, need)
  OBVIOUS
<1>2. S \in SUBSET Nat /\ S # {} /\ \A r \in S : a.map[r].size \in Nat
  BY <1>1 DEF Fits
<1>3. PICK B : B = {a.map[r].size : r \in S}
  OBVIOUS
<1>4. B \in SUBSET Nat /\ B # {}
  BY <1>2, <1>3
<1>5. PICK n \in B : \A m \in B : n <= m
  BY <1>4, LeastNumber
<1>6. PICK C : C = {r \in S : a.map[r].size = n}
  OBVIOUS
<1>7. C \in SUBSET Nat /\ C # {}
  BY <1>2, <1>3, <1>5, <1>6
<1>8. PICK r \in C : \A q \in C : r <= q
  BY <1>7, LeastNumber
<1>9. ASSUME NEW q \in S
      PROVE  a.map[r].size < a.map[q].size \/ (a.map[r].size = a.map[q].size /\ r <= q)
  <2>1. a.map[q].size \in B /\ a.map[r].size = n /\ a.map[q].size \in Nat /\ n \in Nat
    BY <1>2, <1>3, <1>4, <1>5, <1>6, <1>8
  <2>2. n <= a.map[q].size
    BY <1>5, <2>1
  <2>3. CASE a.map[q].size = n
    BY <1>6, <1>8, <2>1, <2>3
  <2>4. CASE a.map[q].size # n
    BY <2>1, <2>2, <2>4
  <2> QED  BY <2>3, <2>4
<1>10. r \in S
  BY <1>6, <1>8
<1>11. \E x \in S : \A q \in S : a.map[x].size < a.map[q].size \/ (a.map[x].size = a.map[q].size /\ x <= q)
  BY <1>9, <1>10
<1>12. BestFit(a, tree, need)
         = CHOOSE x \in S : \A q \in S : a.map[x].size < a.map[q].size \/ (a.map[x].size = a.map[q].size /\ x <= q)
  BY <1>1 DEF BestFit
<1> QED  BY <1>1, <1>11, <1>12

LEMMA TreeRuns ==
  ASSUME NEW a, NEW A, NEW K, Fine(a, A, K), NEW r \in a.clean \cup a.dirty
  PROVE  r \in Nat /\ r \in Pages /\ a.map[r].size \in Nat /\ a.map[r].flags \in FreeFlags
<1>1. PICK F : F = FreeRuns(a)
  OBVIOUS
<1>2. Good(a, A, K) /\ Typed(a) /\ Laid(a, A, F, K) /\ r \in F
  BY <1>1 DEF Fine, Good, FreeRuns
<1>3. r \in A \cup F
  BY <1>2
<1>4. /\ Length(a, r) = a.map[r].size /\ a.map[r].flags \in FreeFlags /\ r \in Pages
  BY <1>2, FreeLength
<1>5. r \in Int /\ r >= 0 /\ Length(a, r) \in Nat
  BY <1>2, <1>3, LaidEnds
<1> QED  BY <1>4, <1>5

LEMMA FindRunIs ==
  ASSUME NEW a, NEW A, NEW K, Fine(a, A, K), NEW need, NEW r, r = FindRun(a, need), r # Null
  PROVE  r \in a.clean \cup a.dirty /\ a.map[r].size >= need
<1>1. PICK D, C : D = a.dirty /\ C = a.clean
  OBVIOUS
<1>2. \A q \in D \cup C : q \in Nat /\ a.map[q].size \in Nat
  BY <1>1, TreeRuns
<1>3. D \in SUBSET Nat /\ C \in SUBSET Nat
  BY <1>2
<1>4. CASE Fits(a, D, need) # {}
  <2>1. r = BestFit(a, D, need)
    BY <1>1, <1>4 DEF FindRun
  <2>2. r \in Fits(a, D, need)
    BY <1>2, <1>3, <1>4, <2>1, BestFitIs
  <2> QED  BY <1>1, <2>2 DEF Fits
<1>5. CASE ~(Fits(a, D, need) # {}) /\ Fits(a, C, need) # {}
  <2>1. r = BestFit(a, C, need)
    BY <1>1, <1>5 DEF FindRun
  <2>2. r \in Fits(a, C, need)
    BY <1>2, <1>3, <1>5, <2>1, BestFitIs
  <2> QED  BY <1>1, <2>2 DEF Fits
<1>6. CASE ~(Fits(a, D, need) # {}) /\ ~(Fits(a, C, need) # {})
  BY <1>1, <1>6 DEF FindRun
<1> QED  BY <1>4, <1>5, <1>6

LEMMA RequestIs ==
  ASSUME NEW req \in Requests
  PROVE  /\ req.need \in Nat /\ req.need >= 1 /\ req.need <= NP
         /\ req.for \in {"bin", "object", "align"}
         /\ req.for = "bin" => req.need = RunPages
<1>1. NP \in Nat /\ RunPages \in 1 .. NP
  BY Numbers
<1> QED  BY <1>1 DEF Requests

-----------------------------------------------------------------------------
(* The steps, one by one.  Each leaves the arena in order.                 *)

TaskFacts(t, x, v, T, name) ==
  /\ x[1] = name /\ TaskOk(x) /\ ListOk(v) /\ T = Range(v)
  /\ World(arena, HandOf(T \cup {x}), Leaving(T \cup {x}), bin, objects, work, But(t))
  /\ Claims(arena, T \cup {x}) /\ TodoOk(T \cup {x})
  /\ \A y \in T : Rank(x) < Rank(y)

LEMMA TaskIs ==
  ASSUME ArenaOk, NEW t \in Threads, NEW name, Task(t, name),
         NEW x, x = work[t][1], NEW v, v = Rest(t), NEW T, T = Range(v)
  PROVE  TaskFacts(t, x, v, T, name)
<1>1. PICK w, S : w = work[t] /\ S = Range(w)
  OBVIOUS
<1>2. Begun(t, S)
  BY <1>1, Begin
<1>3. ListOk(w) /\ World(arena, HandOf(S), Leaving(S), bin, objects, work, But(t)) /\ Claims(arena, S)
  BY <1>1, <1>2 DEF Begun
<1>4. FirstOf(w, x, v) /\ x[1] = name
  BY <1>1 DEF Task, Idle, Rest, FirstOf
<1>7. Popped(w, x, v, T)
  BY <1>3, <1>4, ListPop
<1>5. ListOk(v) /\ S = T \cup {x} /\ TaskOk(x) /\ \A y \in T : Rank(x) < Rank(y)
  BY <1>1, <1>7 DEF Popped
<1>6. TodoOk(S)
  BY <1>1, <1>3 DEF ListOk
<1> QED  BY <1>3, <1>4, <1>5, <1>6 DEF TaskFacts

(* A task after which none comes.                                          *)
LEMMA LastTask ==
  ASSUME ArenaOk, NEW t \in Threads, NEW name, Task(t, name), name \in {"map", "run", "bin", "drop", "tail"},
         NEW x, x = work[t][1]
  PROVE  /\ x[1] = name /\ TaskOk(x) /\ Claims(arena, {x})
         /\ World(arena, HandOf({x}), Leaving({x}), bin, objects, work, But(t))
<1>1. PICK v, T, w : v = Rest(t) /\ T = Range(v) /\ w = work[t]
  OBVIOUS
<1>2. TaskFacts(t, x, v, T, name)
  BY <1>1, TaskIs
<1>3. T = {}
  <2>1. Rank(x) = 5 /\ \A y \in T : Rank(x) < Rank(y)
    BY <1>2 DEF TaskFacts, Rank
  <2>2. \A y \in T : FALSE
    BY <2>1 DEF Rank
  <2> QED  BY <2>2
<1>4. T \cup {x} = {x}
  BY <1>3
<1> QED  BY <1>2, <1>4 DEF TaskFacts

LEMMA LastPlain ==
  ASSUME ArenaOk, NEW t \in Threads, NEW name, Task(t, name), name \in {"map", "run", "bin", "drop"},
         NEW x, x = work[t][1]
  PROVE  x[1] = name /\ TaskOk(x) /\ World(arena, {}, {}, bin, objects, work, But(t))
<1>1. x[1] = name /\ TaskOk(x) /\ World(arena, HandOf({x}), Leaving({x}), bin, objects, work, But(t))
  BY LastTask
<1>2. HandOf({x}) = {}
  BY <1>1 DEF HandOf
<1>3. Leaving({x}) = {}
  BY <1>1 DEF Leaving
<1> QED  BY <1>1, <1>2, <1>3

LEMMA StepTrimTail ==
  ASSUME ArenaOk, NEW t \in Threads, TrimTailOf(t)
  PROVE  StepKeeps(bin', objects', arena.npurgatory)
<1>1. PICK x, name : x = work[t][1] /\ name = "tail"
  OBVIOUS
<1>2. Task(t, name) /\ TrimTail(t, arena, x[2], x[3], x[4])
  BY <1>1 DEF TrimTailOf
<1>3. /\ x[1] = "tail" /\ TaskOk(x) /\ Claims(arena, {x})
      /\ World(arena, HandOf({x}), Leaving({x}), bin, objects, work, But(t))
  BY <1>1, <1>2, LastTask
<1>4. PICK r, old, new : r = x[2] /\ old = x[3] /\ new = x[4]
  OBVIOUS
<1>5. r \in Pages /\ old \in Nat /\ new \in 1 .. old
  BY <1>3, <1>4 DEF TaskOk
<1>6. HandOf({x}) = {r}
  <2>1. HandOf({}) = {} /\ {x} = {} \cup {x}
    BY ListNone
  <2>2. PICK T, E : T = {x} /\ E = {}
    OBVIOUS
  <2>3. HandOf(T) = HandOf(E) \cup {r}
    BY <1>3, <1>4, <1>5, <2>2, MoreTail
  <2> QED  BY <2>1, <2>2, <2>3
<1>7. Leaving({x}) = {}
  BY <1>3 DEF Leaving
<1>8. IsLarge(arena, r) /\ arena.map[r].size = old /\ Unused(arena, r, 0)
  BY <1>3, <1>4 DEF Claims
<1>9. PICK R, a, A, K : /\ R = {r} /\ a = arena /\ A = R \cup Others(bin, objects, work, But(t))
                        /\ K = Left(arena, {}, work, But(t))
  OBVIOUS
<1>10. World(a, R, {}, bin, objects, work, But(t))
  BY <1>3, <1>6, <1>7, <1>9
<1>11. Fine(a, A, K) /\ r \in A
  BY <1>9, <1>10, WorldFine
<1>12. Length(a, r) = old
  BY <1>8, <1>9, <1>11, OwnedIs
<1>13. FreshLarge(a, R, r, old, t)
  BY <1>8, <1>9, <1>10, <1>12 DEF FreshLarge, Fresh
<1> QED  BY <1>2, <1>4, <1>5, <1>9, <1>13, TrimTailOk

LEMMA EndWith ==
  ASSUME ArenaOk, NEW t \in Threads, NEW a, arena' = a, NEW bn, NEW ob, NEW w, NEW T,
         Ended(a, bn, ob, w, t, T), work' = [work EXCEPT ![t] = w]
  PROVE  StepEnded(bn, ob)
<1>1. PICK wl : wl = work'
  OBVIOUS
<1>2. World(a, {}, {}, bn, ob, wl, Threads) /\ Workers(wl)
  BY <1>1, End
<1> QED  BY <1>1, <1>2 DEF StepEnded

(* What a thread knows of its runs, when the arena changes elsewhere.      *)
LEMMA ClaimsMoved ==
  ASSUME NEW a, NEW R, NEW C, NEW bn, NEW ob, NEW wk, NEW U, World(a, R, C, bn, ob, wk, U),
         NEW T, Claims(a, T), TodoOk(T), HandOf(T) \subseteq R, NEW b, \A q \in R : Keeps(a, b, q)
  PROVE  Claims(b, T)
<1>1. PICK O, K, A : O = Others(bn, ob, wk, U) /\ K = Left(a, C, wk, U) /\ A = R \cup O
  OBVIOUS
<1>2. Fine(a, A, K)
  BY <1>1, WorldFine
<1>3. HandOf(T) \subseteq A /\ \A q \in HandOf(T) : Keeps(a, b, q)
  BY <1>1
<1> QED  BY <1>2, <1>3, ClaimsKept

LEMMA ClaimsLess ==
  ASSUME NEW a, NEW T, NEW x, x[1] # "madvise", NEW U, U = T \cup {x}, Claims(a, U)
  PROVE  Claims(a, T)
BY DEF Claims

LEMMA RankOne ==
  ASSUME NEW v, ListOk(v), NEW T, T = Range(v), NEW x \in T, NEW y \in T, Rank(x) = Rank(y)
  PROVE  x = y
<1>1. PICK i \in DOMAIN v : v[i] = x
  BY DEF Range
<1>2. PICK j \in DOMAIN v : v[j] = y
  BY DEF Range
<1>3. (\A k, l \in DOMAIN v : k < l => Rank(v[k]) < Rank(v[l])) /\ v \in Seq(T)
  BY DEF ListOk
<1>4. i \in Int /\ j \in Int
  BY <1>3
<1>5. ~(Rank(x) < Rank(x)) /\ ~(Rank(y) < Rank(x)) /\ ~(Rank(x) < Rank(y))
  BY DEF Rank
<1>6. ~(i < j) /\ ~(j < i)
  BY <1>1, <1>2, <1>3, <1>5
<1>7. i = j
  BY <1>4, <1>6
<1> QED  BY <1>1, <1>2, <1>7

LEMMA StepUnmap ==
  ASSUME ArenaOk, NEW t \in Threads, UnmapChunk(t)
  PROVE  StepKeeps(bin', objects', arena.npurgatory)
<1>1. PICK x, name, v, T : x = work[t][1] /\ name = "unmap" /\ v = Rest(t) /\ T = Range(v)
  OBVIOUS
<1>2. PICK c, U : c = Arg(t) /\ U = T \cup {x}
  OBVIOUS
<1>3. PICK a : a = arena
  OBVIOUS
<1>4. PICK b : b = Unmapped(a, c)
  OBVIOUS
<1>5. /\ Task(t, name) /\ arena' = b /\ work' = [work EXCEPT ![t] = v]
      /\ bin' = bin /\ objects' = objects
  BY <1>1, <1>2, <1>3, <1>4 DEF UnmapChunk, Unmapped
<1>6. TaskFacts(t, x, v, T, name)
  BY <1>1, <1>5, TaskIs
<1>7. /\ x[1] = "unmap" /\ x[2] = c /\ c \in Chunks /\ ListOk(v) /\ T = Range(v)
      /\ Claims(a, U) /\ TodoOk(T) /\ \A y \in T : Rank(y) > 1
  BY <1>1, <1>2, <1>3, <1>6 DEF TaskFacts, TaskOk, Arg, Rank, ListOk
<1>8. PICK R, C, N : R = HandOf(T) /\ C = {c} /\ N = {}
  OBVIOUS
<1>9. HandOf(U) = R /\ Leaving(U) = C /\ Leaving(T) = N
  <2>1. HandOf(U) = HandOf(T)
    BY <1>2, <1>7, MoreWork
  <2>2. Leaving(U) = Leaving(T) \cup {c}
    BY <1>2, <1>7, MoreLeaves
  <2>3. Leaving(T) = {}
    BY <1>7, NoneLeaving
  <2> QED  BY <1>8, <2>1, <2>2, <2>3
<1>10. PICK V, bn, ob : V = But(t) /\ bn = bin /\ ob = objects
  OBVIOUS
<1>11. PICK wk : wk = work
  OBVIOUS
<1>12. World(a, R, C, bn, ob, wk, V)
  BY <1>2, <1>3, <1>6, <1>9, <1>10, <1>11 DEF TaskFacts
<1>13. World(b, R, N, bn, ob, wk, V) /\ UnmapFields(a, b, c) /\ \A q \in R : Keeps(a, b, q)
  <2>1. c \in C /\ N = C \ {c}
    BY <1>8
  <2> QED  BY <1>4, <1>12, <2>1, WorldUnmap
<1>14. Claims(b, T)
  <2>1. Claims(a, T)
    BY <1>2, <1>7, ClaimsLess
  <2> QED  BY <1>7, <1>8, <1>12, <1>13, <2>1, ClaimsMoved
<1>15. Ended(b, bn, ob, v, t, T)
  BY <1>7, <1>8, <1>9, <1>10, <1>11, <1>13, <1>14 DEF Ended
<1>16. StepEnded(bn, ob)
  BY <1>5, <1>15, EndWith
<1>17. b.npurgatory = a.npurgatory
  BY <1>13 DEF UnmapFields
<1> QED  BY <1>3, <1>5, <1>10, <1>16, <1>17 DEF StepKeeps

LEMMA CommitmentIs ==
  ASSUME NEW a, Typed(a), NEW all \in BOOLEAN
  PROVE  Commitment(a, all) \in Nat /\ Commitment(a, all) < SizeMod
<1>1. a.ndirty \in Int /\ a.npurgatory \in Int /\ a.nactive \in Int
  BY TypedIs DEF FieldsTyped
<1>2. PICK u : u = a.nactive \div DirtyMult
  OBVIOUS
<1>3. u \in Int
  BY <1>1, <1>2, DivIs, Numbers
<1>4. PICK w : w = a.ndirty - a.npurgatory - (IF all THEN 0 ELSE u)
  OBVIOUS
<1>5. w \in Int
  BY <1>1, <1>3, <1>4
<1>6. Commitment(a, all) = w % SizeMod
  BY <1>2, <1>4 DEF Commitment
<1> QED  BY <1>5, <1>6, SizeModIs

LEMMA StepPurgeAll ==
  ASSUME ArenaOk, NEW t \in Threads, arena_purge_all(t)
  PROVE  StepEnded(bin', objects')
<1>1. PICK n : n = Commitment(arena, TRUE)
  OBVIOUS
<1>2. PICK a, b, x : a = arena /\ b = Committed(arena, n) /\ x = <<"purge", n>>
  OBVIOUS
<1>3. /\ Idle(t) /\ arena' = b /\ work' = [work EXCEPT ![t] = <<x>>]
      /\ bin' = bin /\ objects' = objects
  BY <1>1, <1>2 DEF arena_purge_all, Does
<1>4. PICK N, V, bn : N = {} /\ V = But(t) /\ bn = bin
  OBVIOUS
<1>5. PICK wk, ob : wk = work /\ ob = objects
  OBVIOUS
<1>6. World(a, N, N, bn, ob, wk, V)
  BY <1>2, <1>3, <1>4, <1>5, BeginIdle
<1>7. n \in Nat
  <2>1. Typed(a)
    BY <1>6, WorldFine
  <2> QED  BY <1>1, <1>2, <2>1, CommitmentIs
<1>8. World(b, N, N, bn, ob, wk, V)
  BY <1>2, <1>6, <1>7, WorldCommitted
<1>9. x[1] = "purge" /\ x[2] = n
  BY <1>2
<1>10. TaskOk(x) /\ x[1] \in Plain
  BY <1>7, <1>9 DEF TaskOk, Plain
<1>11. World(b, N, N, bn, ob, work, But(t))
  BY <1>4, <1>5, <1>8
<1>12. StepEnded(bn, ob)
  BY <1>3, <1>4, <1>10, <1>11, EndOne
<1> QED  BY <1>3, <1>4, <1>5, <1>12

(* The task to purge n pages, before others.                               *)
LEMMA PurgeFirst ==
  ASSUME NEW v, ListOk(v), NEW T, T = Range(v), \A y \in T : Rank(y) > 4, NEW n \in Nat,
         NEW x, x = <<"purge", n>>, NEW w, w = Before(x, v), NEW U, U = T \cup {x}
  PROVE  /\ ListOk(w) /\ U = Range(w) /\ HandOf(U) = HandOf(T) /\ Leaving(U) = Leaving(T)
         /\ \A a : Claims(a, T) => Claims(a, U)
         /\ \A y \in U : Rank(y) >= 4
<1>1. x[1] = "purge" /\ x[2] = n /\ Rank(x) = 4
  BY DEF Rank
<1>2. InFront(x, T)
  BY <1>1 DEF InFront, TaskOk
<1>3. Listing(w, T, x)
  BY <1>2, ListPush
<1>4. HandOf(U) = HandOf(T) /\ Leaving(U) = Leaving(T)
  BY <1>1, MoreWork, MoreStays
<1>5. \A a : Claims(a, T) => Claims(a, U)
  BY <1>1, ClaimsMore
<1>6. \A y \in U : Rank(y) >= 4
  <2>1. \A y \in T : Rank(y) >= 4
    BY DEF Rank
  <2> QED  BY <1>1, <2>1
<1> QED  BY <1>3, <1>4, <1>5, <1>6 DEF Listing

LEMMA StepMaybe ==
  ASSUME ArenaOk, NEW t \in Threads, MaybePurge(t)
  PROVE  StepEnded(bin', objects')
<1>1. PICK x, name, v, T : x = work[t][1] /\ name = "maybe" /\ v = Rest(t) /\ T = Range(v)
  OBVIOUS
<1>2. PICK U, n : U = T \cup {x} /\ n = Commitment(arena, FALSE)
  OBVIOUS
<1>3. PICK a, b, y, w : a = arena /\ b = Committed(a, n) /\ y = <<"purge", n>> /\ w = Before(y, v)
  OBVIOUS
<1>4. /\ Task(t, name) /\ bin' = bin /\ objects' = objects
      /\ \/ arena' = b /\ work' = [work EXCEPT ![t] = w]
         \/ arena' = a /\ work' = [work EXCEPT ![t] = v]
  BY <1>1, <1>2, <1>3 DEF MaybePurge, Does, Before
<1>5. TaskFacts(t, x, v, T, name)
  BY <1>1, <1>4, TaskIs
<1>6. /\ x[1] = "maybe" /\ ListOk(v) /\ T = Range(v) /\ Rank(x) = 4
      /\ Claims(a, U) /\ TodoOk(T) /\ \A z \in T : Rank(x) < Rank(z)
  BY <1>1, <1>2, <1>3, <1>5 DEF TaskFacts, Rank, ListOk
<1>7. PICK R, N : R = HandOf(T) /\ N = {}
  OBVIOUS
<1>8. HandOf(U) = R /\ Leaving(U) = N /\ Leaving(T) = N
  <2>1. HandOf(U) = HandOf(T) /\ Leaving(U) = Leaving(T)
    BY <1>2, <1>6, MoreWork, MoreStays
  <2>2. \A z \in T : Rank(z) > 1
    BY <1>6 DEF Rank
  <2>3. Leaving(T) = {}
    BY <2>2, NoneLeaving
  <2> QED  BY <1>7, <2>1, <2>3
<1>9. PICK V, bn, ob : V = But(t) /\ bn = bin /\ ob = objects
  OBVIOUS
<1>10. PICK wk : wk = work
  OBVIOUS
<1>11. World(a, R, N, bn, ob, wk, V)
  BY <1>2, <1>3, <1>5, <1>8, <1>9, <1>10 DEF TaskFacts
<1>12. Claims(a, T)
  BY <1>2, <1>6, ClaimsLess
<1>13. CASE arena' = a /\ work' = [work EXCEPT ![t] = v]
  <2>1. Ended(a, bn, ob, v, t, T)
    BY <1>6, <1>7, <1>8, <1>9, <1>10, <1>11, <1>12 DEF Ended
  <2>2. StepEnded(bn, ob)
    BY <1>13, <2>1, EndWith
  <2> QED  BY <1>4, <1>9, <2>2
<1>14. CASE arena' = b /\ work' = [work EXCEPT ![t] = w]
  <2>1. n \in Nat
    <3>1. Typed(a)
      BY <1>11, WorldFine
    <3> QED  BY <1>2, <1>3, <3>1, CommitmentIs
  <2>2. World(b, R, N, bn, ob, wk, V) /\ \A q \in R : Keeps(a, b, q)
    BY <1>3, <1>11, <2>1, WorldCommitted
  <2>3. Claims(b, T)
    BY <1>6, <1>7, <1>11, <1>12, <2>2, ClaimsMoved
  <2>4. PICK W : W = T \cup {y}
    OBVIOUS
  <2>5. \A z \in T : Rank(z) > 4
    BY <1>6 DEF Rank
  <2>6. ListOk(w) /\ W = Range(w) /\ HandOf(W) = R /\ Leaving(W) = N /\ Claims(b, W)
    BY <1>3, <1>6, <1>7, <1>8, <2>1, <2>3, <2>4, <2>5, PurgeFirst
  <2>7. Ended(b, bn, ob, w, t, W)
    BY <1>9, <1>10, <2>2, <2>6 DEF Ended
  <2>8. StepEnded(bn, ob)
    BY <1>14, <2>7, EndWith
  <2> QED  BY <1>4, <1>9, <2>8
<1> QED  BY <1>4, <1>13, <1>14

LEMMA ZeroedUnused ==
  ASSUME NEW b, NEW r \in Int, NEW n \in Nat, Length(b, r) = n, NEW P, Span(r, n) \subseteq P,
         b.touched \cap P = {}
  PROVE  Unused(b, r, 0)
<1>1. (r + 0 .. r + Length(b, r) - 1) = Span(r, n)
  BY DEF Span
<1>2. (r + 0 .. r + Length(b, r) - 1) \cap b.touched = {}
  BY <1>1
<1> QED  BY <1>2 DEF Unused

LEMMA StepMadvise ==
  ASSUME ArenaOk, NEW t \in Threads, Madvise(t)
  PROVE  StepKeeps(bin', objects', arena.npurgatory)
<1>1. PICK x, name, v, T : x = work[t][1] /\ name = "madvise" /\ v = Rest(t) /\ T = Range(v)
  OBVIOUS
<1>2. PICK U, S, a : U = T \cup {x} /\ S = Arg(t) /\ a = arena
  OBVIOUS
<1>3. PICK P : P = UNION {Span(r, a.map[r].size) : r \in S}
  OBVIOUS
<1>4. PICK b : b = [a EXCEPT !.touched = @ \ P]
  OBVIOUS
<1>5. /\ Task(t, name) /\ bin' = bin /\ objects' = objects
      /\ arena' = b /\ work' = [work EXCEPT ![t] = v]
  BY <1>1, <1>2, <1>3, <1>4 DEF Madvise
<1>6. TaskFacts(t, x, v, T, name)
  BY <1>1, <1>5, TaskIs
<1>7. /\ x[1] = "madvise" /\ x[2] = S /\ S \in SUBSET Pages /\ ListOk(v) /\ T = Range(v)
      /\ Rank(x) = 2 /\ Claims(a, U) /\ TodoOk(U) /\ TodoOk(T) /\ \A z \in T : Rank(x) < Rank(z)
  <2>1. x[1] = "madvise" /\ x[2] = S /\ TaskOk(x) /\ ListOk(v) /\ Claims(a, U) /\ TodoOk(U)
        /\ \A z \in T : Rank(x) < Rank(z)
    BY <1>1, <1>2, <1>6 DEF TaskFacts, Arg
  <2>2. S \in SUBSET Pages
    BY <2>1 DEF TaskOk
  <2>3. Rank(x) = 2
    BY <2>1 DEF Rank
  <2>4. TodoOk(T)
    BY <1>1, <2>1 DEF ListOk
  <2> QED  BY <1>1, <2>1, <2>2, <2>3, <2>4
<1>8. PICK y \in T : y[1] = "return" /\ y[2] = S
  <2>1. \E y \in U : y[1] = "return" /\ y[2] = S
    BY <1>2, <1>7 DEF TodoOk
  <2> QED  BY <1>2, <1>7, <2>1
<1>9. PICK R, N : R = HandOf(T) /\ N = {}
  OBVIOUS
<1>10. HandOf(U) = R /\ Leaving(U) = N /\ Leaving(T) = N /\ S \subseteq R
  <2>1. HandOf(U) = HandOf(T) \cup S
    BY <1>2, <1>7, MoreHeld
  <2>2. S \subseteq HandOf(T)
    BY <1>7, <1>8 DEF HandOf
  <2>3. Leaving(U) = Leaving(T)
    BY <1>2, <1>7, MoreStays
  <2>4. \A z \in T : Rank(z) > 1
    BY <1>7 DEF Rank
  <2>5. Leaving(T) = {}
    BY <2>4, NoneLeaving
  <2> QED  BY <1>9, <2>1, <2>2, <2>3, <2>5
<1>11. PICK V, bn, ob : V = But(t) /\ bn = bin /\ ob = objects
  OBVIOUS
<1>12. PICK wk : wk = work
  OBVIOUS
<1>13. World(a, R, N, bn, ob, wk, V)
  BY <1>2, <1>6, <1>10, <1>11, <1>12 DEF TaskFacts
<1>14. /\ World(b, R, N, bn, ob, wk, V) /\ Alike(a, b) /\ b.touched = a.touched \ P
       /\ b.npurgatory = a.npurgatory /\ \A q \in R : Keeps(a, b, q)
  BY <1>4, <1>13, WorldZeroed
<1>15. b.map = a.map
  BY <1>14 DEF Alike
<1>16. \A q \in R : q \in Int /\ Length(a, q) \in Nat /\ Length(b, q) = Length(a, q)
                    /\ (IsLarge(a, q) => a.map[q].size = Length(a, q))
  <2>1. PICK O, K, A : O = Others(bn, ob, wk, V) /\ K = Left(a, N, wk, V) /\ A = R \cup O
    OBVIOUS
  <2>2. Fine(a, A, K)
    BY <1>13, <2>1, WorldFine
  <2>3. \A q \in A : Length(a, q) \in Nat /\ q \in Int /\ (IsLarge(a, q) => a.map[q].size = Length(a, q))
    BY <2>2, OwnedIs
  <2> QED  BY <1>14, <2>1, <2>3 DEF Keeps, Same
<1>17. ASSUME NEW r \in S
       PROVE  IsLarge(b, r) /\ Dirty(b.map[r]) = {} /\ Unused(b, r, 0)
  <2>1. IsLarge(a, r) /\ Dirty(a.map[r]) = {}
    BY <1>2, <1>7, <1>8, <1>17 DEF Claims
  <2>2. PICK n : n = a.map[r].size
    OBVIOUS
  <2>3. n \in Nat /\ Length(b, r) = n /\ r \in Int
    BY <1>10, <1>16, <2>1, <2>2
  <2>4. Span(r, n) \subseteq P
    BY <1>3, <2>2
  <2>5. Unused(b, r, 0)
    BY <1>14, <2>3, <2>4, ZeroedUnused
  <2> QED  BY <1>15, <2>1, <2>5 DEF IsLarge
<1>18. ASSUME NEW z \in T, z[1] = "return", NEW r \in z[2]
       PROVE  IsLarge(b, r) /\ Dirty(b.map[r]) = {} /\ Unused(b, r, 0)
  <2>1. Rank(z) = Rank(y)
    BY <1>8, <1>18 DEF Rank
  <2>2. z = y
    BY <1>7, <1>8, <2>1, RankOne
  <2>3. r \in S
    BY <1>8, <1>18, <2>2
  <2> QED  BY <1>17, <2>3
<1>19. ASSUME NEW z \in T, z[1] = "tail"
       PROVE  IsLarge(b, z[2]) /\ b.map[z[2]].size = z[3] /\ Unused(b, z[2], 0)
  <2>1. PICK q : q = z[2]
    OBVIOUS
  <2>2. IsLarge(a, q) /\ a.map[q].size = z[3] /\ Unused(a, q, 0)
    BY <1>2, <1>7, <1>19, <2>1 DEF Claims
  <2>3. q \in R
    BY <1>7, <1>9, <1>19, <2>1 DEF HandOf, TodoOk, TaskOk
  <2>4. Unused(b, q, 0)
    BY <1>14, <1>16, <2>2, <2>3, KeepsUnused
  <2> QED  BY <1>15, <2>1, <2>2, <2>4 DEF IsLarge
<1>20. Claims(b, T)
  BY <1>18, <1>19 DEF Claims
<1>21. Ended(b, bn, ob, v, t, T)
  BY <1>7, <1>9, <1>10, <1>11, <1>12, <1>14, <1>20 DEF Ended
<1>22. StepEnded(bn, ob)
  BY <1>5, <1>21, EndWith
<1> QED  BY <1>2, <1>5, <1>11, <1>14, <1>22 DEF StepKeeps

(* The runs that a thread still is to return, when it has returned one.    *)
ReturnsMore(w, W, T, more, a) ==
  /\ ListOk(w) /\ W = Range(w) /\ HandOf(W) = HandOf(T) \cup more
  /\ Claims(a, W) /\ \A z \in W : Rank(z) >= 3

LEMMA ReturnRest ==
  ASSUME NEW v, ListOk(v), NEW T, T = Range(v), NEW a, Claims(a, T), \A z \in T : Rank(z) > 3,
         NEW more \in SUBSET Pages, \A z \in T : z[1] = "tail" => z[2] \notin more,
         \A r \in more : IsLarge(a, r) /\ Dirty(a.map[r]) = {} /\ Unused(a, r, 0),
         NEW y, y = <<"return", more>>, NEW w, w = (IF more = {} THEN v ELSE Before(y, v))
  PROVE  \E W : ReturnsMore(w, W, T, more, a)
<1>1. \A z \in T : Rank(z) >= 3
  BY DEF Rank
<1>2. CASE more = {}
  <2>1. ReturnsMore(w, T, T, more, a)
    BY <1>1, <1>2 DEF ReturnsMore
  <2> QED  BY <2>1
<1>3. CASE more # {}
  <2>1. y[1] = "return" /\ y[2] = more
    OBVIOUS
  <2>2. PICK W : W = T \cup {y}
    OBVIOUS
  <2>3. Rank(y) = 3
    BY <2>1 DEF Rank
  <2>4. InFront(y, T)
    <3>1. TaskOk(y)
      BY <1>3, <2>1 DEF TaskOk
    <3>2. \A z \in T : Rank(y) < Rank(z)
      BY <2>3
    <3>3. y[1] = "return" => \A z \in T : z[1] = "tail" => z[2] \notin y[2]
      BY <2>1
    <3> QED  BY <2>1, <3>1, <3>2, <3>3 DEF InFront
  <2>5. Listing(w, T, y)
    BY <1>3, <2>4, ListPush
  <2>6. HandOf(W) = HandOf(T) \cup more
    BY <2>1, <2>2, MoreHeld
  <2>7. Claims(a, W)
    <3>1. ASSUME NEW z \in W, z[1] = "return", NEW r \in z[2]
          PROVE  IsLarge(a, r) /\ Dirty(a.map[r]) = {} /\ ((\E u \in W : u[1] = "madvise") \/ Unused(a, r, 0))
      <4>1. CASE z = y
        BY <2>1, <3>1, <4>1
      <4>2. CASE z \in T
        BY <2>2, <3>1, <4>2 DEF Claims
      <4> QED  BY <2>2, <4>1, <4>2
    <3>2. ASSUME NEW z \in W, z[1] = "tail"
          PROVE  IsLarge(a, z[2]) /\ a.map[z[2]].size = z[3] /\ Unused(a, z[2], 0)
      BY <2>1, <2>2, <3>2 DEF Claims
    <3> QED  BY <3>1, <3>2 DEF Claims
  <2>8. \A z \in W : Rank(z) >= 3
    BY <1>1, <2>2, <2>3
  <2>9. ReturnsMore(w, W, T, more, a)
    BY <2>2, <2>5, <2>6, <2>7, <2>8 DEF ReturnsMore, Listing
  <2> QED  BY <2>9
<1> QED  BY <1>2, <1>3

LEMMA StepReturn ==
  ASSUME ArenaOk, NEW t \in Threads, ReturnRun(t)
  PROVE  StepKeeps(bin', objects', arena.npurgatory)
<1>1. PICK x, name, v, T : x = work[t][1] /\ name = "return" /\ v = Rest(t) /\ T = Range(v)
  OBVIOUS
<1>2. PICK U, S, a : U = T \cup {x} /\ S = Arg(t) /\ a = arena
  OBVIOUS
<1>3. PICK r, more, y : r = Min(S) /\ more = S \ {r} /\ y = <<"return", more>>
  OBVIOUS
<1>4. PICK w : w = IF more = {} THEN v ELSE Before(y, v)
  OBVIOUS
<1>5. /\ Task(t, name) /\ bin' = bin /\ objects' = objects /\ GiveRun(t, a, r, FALSE, w)
  BY <1>1, <1>2, <1>3, <1>4 DEF ReturnRun, Before
<1>6. TaskFacts(t, x, v, T, name)
  BY <1>1, <1>5, TaskIs
<1>7. /\ x[1] = "return" /\ x[2] = S /\ S \in SUBSET Pages /\ S # {} /\ ListOk(v) /\ T = Range(v)
      /\ Rank(x) = 3 /\ Claims(a, U) /\ TodoOk(U) /\ \A z \in T : Rank(x) < Rank(z)
  <2>1. x[1] = "return" /\ x[2] = S /\ TaskOk(x) /\ ListOk(v) /\ Claims(a, U) /\ TodoOk(U)
        /\ \A z \in T : Rank(x) < Rank(z)
    BY <1>1, <1>2, <1>6 DEF TaskFacts, Arg
  <2>2. S \in SUBSET Pages /\ S # {}
    BY <2>1 DEF TaskOk
  <2>3. Rank(x) = 3
    BY <2>1 DEF Rank
  <2> QED  BY <1>1, <2>1, <2>2, <2>3
<1>8. r \in S
  <2>1. S \in SUBSET Nat
    BY <1>7, Numbers DEF Pages
  <2> QED  BY <1>3, <1>7, <2>1, MinIs
<1>9. \A z \in T : z[1] = "tail" => z[2] \notin S
  BY <1>2, <1>7 DEF TodoOk
<1>10. \A z \in U : z[1] # "madvise"
  BY <1>2, <1>7 DEF Rank
<1>11. \A q \in S : IsLarge(a, q) /\ Dirty(a.map[q]) = {} /\ Unused(a, q, 0)
  BY <1>2, <1>7, <1>10 DEF Claims
<1>12. Claims(a, T)
  BY <1>2, <1>7, ClaimsLess
<1>13. \E W : ReturnsMore(w, W, T, more, a)
  <2>1. more \in SUBSET Pages /\ (\A z \in T : z[1] = "tail" => z[2] \notin more)
        /\ \A q \in more : IsLarge(a, q) /\ Dirty(a.map[q]) = {} /\ Unused(a, q, 0)
    BY <1>3, <1>7, <1>9, <1>11
  <2>2. \A z \in T : Rank(z) > 3
    BY <1>7
  <2> QED  BY <1>3, <1>4, <1>7, <1>12, <2>1, <2>2, ReturnRest
<1>14. PICK W : ReturnsMore(w, W, T, more, a)
  BY <1>13
<1>15. PICK R, N : R = HandOf(U) /\ N = {}
  OBVIOUS
<1>16. R = HandOf(T) \cup S /\ Leaving(U) = N /\ HandOf(T) \cap S = {}
  <2>1. HandOf(U) = HandOf(T) \cup S
    BY <1>2, <1>7, MoreHeld
  <2>2. Leaving(U) = Leaving(T)
    BY <1>2, <1>7, MoreStays
  <2>3. \A z \in T : Rank(z) > 1
    BY <1>7 DEF Rank
  <2>4. Leaving(T) = {}
    BY <2>3, NoneLeaving
  <2>5. \A p \in HandOf(T) : \E z \in T : z[1] = "tail" /\ p = z[2]
    <3>1. \A z \in T : z[1] \notin {"madvise", "return"}
      BY <1>7 DEF Rank
    <3> QED  BY <3>1 DEF HandOf
  <2> QED  BY <1>9, <1>15, <2>1, <2>2, <2>4, <2>5
<1>17. PICK V, bn, ob : V = But(t) /\ bn = bin /\ ob = objects
  OBVIOUS
<1>18. World(a, R, N, bn, ob, work, But(t))
  BY <1>2, <1>6, <1>15, <1>16, <1>17 DEF TaskFacts
<1>19. HandOf(W) = R \ {r} /\ ListOk(w) /\ W = Range(w) /\ Claims(a, W) /\ \A z \in W : Rank(z) >= 3
  <2>1. HandOf(W) = HandOf(T) \cup more /\ ListOk(w) /\ W = Range(w) /\ Claims(a, W)
        /\ \A z \in W : Rank(z) >= 3
    BY <1>14 DEF ReturnsMore
  <2> QED  BY <1>3, <1>8, <1>16, <2>1
<1>20. PICK dirty \in BOOLEAN : dirty = FALSE
  OBVIOUS
<1>21. Unused(a, r, 0) /\ DallocFlags(a, r, dirty) = {} /\ r \in R
  BY <1>8, <1>11, <1>16, <1>20 DEF DallocFlags
<1>22. Gives(a, R, r, dirty, bn, ob, w, t, W)
  BY <1>15, <1>18, <1>19, <1>20, <1>21 DEF Gives
<1>23. GiveEnded(bn, ob, a.npurgatory)
  BY <1>5, <1>20, <1>22, GiveEnds
<1> QED  BY <1>2, <1>5, <1>17, <1>23 DEF GiveEnded, StepKeeps, StepEnded

(* Before it is purged, a chunk that is the spare goes back to its tree.   *)
UnsparedTo(a, b, c) ==
  /\ b.map = a.map /\ b.dirtied = a.dirtied /\ b.cdirty = a.cdirty /\ b.mapped = a.mapped
  /\ b.npurgatory = a.npurgatory /\ FreeRuns(b) = FreeRuns(a) /\ b.spare # c
  /\ \A q : Keeps(a, b, q)

LEMMA WorldUnspared ==
  ASSUME NEW a, NEW R, NEW C, NEW bn, NEW ob, NEW wk, NEW U, World(a, R, C, bn, ob, wk, U),
         NEW c \in Chunks, NEW b, b = Unspared(a, c)
  PROVE  World(b, R, C, bn, ob, wk, U) /\ UnsparedTo(a, b, c)
<1>1. CASE c # a.spare
  <2>1. b = a
    BY <1>1 DEF Unspared
  <2>2. \A q : Keeps(a, b, q)
    BY <2>1 DEF Keeps, Same
  <2> QED  BY <1>1, <2>1, <2>2 DEF UnsparedTo
<1>2. CASE c = a.spare
  <2>1. b = ReuseSpare(a) /\ a.spare # Null /\ Null # c
    BY <1>2, ArenaAssumption DEF Unspared, Chunks
  <2>2. World(b, R, C, bn, ob, wk, U) /\ ReuseFields(a, b) /\ \A q : Keeps(a, b, q)
    BY <2>1, WorldReuse
  <2>3. PICK O, K, A : O = Others(bn, ob, wk, U) /\ K = Left(a, C, wk, U) /\ A = R \cup O
    OBVIOUS
  <2>4. Good(a, A, K)
    BY <2>3, WorldFine DEF Fine
  <2>5. FreeRuns(b) = FreeRuns(a)
    BY <2>1, <2>4, ReuseGood
  <2> QED  BY <2>1, <2>2, <2>5 DEF ReuseFields, UnsparedTo
<1> QED  BY <1>1, <1>2

LEMMA ChunkPurgeIs ==
  ASSUME NEW a, NEW c, NEW b, b = Unspared(a, c), NEW runs, runs = DirtyRuns(b, c)
  PROVE  ChunkPurge(a, c) = Purged(b, c, runs)
BY DEF ChunkPurge, Purged, PurgedMap

LEMMA WorldDirtyRuns ==
  ASSUME NEW a, NEW R, NEW C, NEW bn, NEW ob, NEW wk, NEW U, World(a, R, C, bn, ob, wk, U),
         NEW c \in Left(a, C, wk, U), NEW b, b = Unspared(a, c)
  PROVE  DirtyRuns(b, c) = Soiled(a, c) /\ Soiled(b, c) = Soiled(a, c) /\ c \in Chunks
<1>1. c \in Chunks
  BY WorldIs
<1>2. World(b, R, C, bn, ob, wk, U) /\ UnsparedTo(a, b, c)
  BY <1>1, WorldUnspared
<1>3. PICK O, K, A : O = Others(bn, ob, wk, U) /\ K = Left(b, C, wk, U) /\ A = R \cup O
  OBVIOUS
<1>4. Good(b, A, K)
  BY <1>2, <1>3, WorldFine DEF Fine
<1>5. c \in K
  BY <1>2, <1>3 DEF Left, UnsparedTo
<1>6. DirtyRuns(b, c) = Soiled(b, c)
  BY <1>4, <1>5, DirtyRunsAre
<1>7. Soiled(b, c) = Soiled(a, c)
  BY <1>2 DEF UnsparedTo, Soiled
<1> QED  BY <1>1, <1>6, <1>7

ChunkPurged(a, b, R, runs) ==
  /\ runs # {} /\ runs \in SUBSET Pages /\ runs \cap R = {} /\ b.npurgatory = a.npurgatory
  /\ \A d \in runs : b.map[d].flags = Taken
  /\ \A q \in R : Keeps(a, b, q)

LEMMA WorldChunkPurge ==
  ASSUME NEW a, NEW R, NEW C, NEW bn, NEW ob, NEW wk, NEW U, World(a, R, C, bn, ob, wk, U),
         NEW c \in Left(a, C, wk, U), c \in a.dirtied, a.cdirty[c] # 0,
         NEW runs, runs = Soiled(a, c), NEW b, b = ChunkPurge(a, c), NEW S, S = R \cup runs
  PROVE  World(b, S, C, bn, ob, wk, U) /\ ChunkPurged(a, b, R, runs)
<1>1. PICK e : e = Unspared(a, c)
  OBVIOUS
<1>2. DirtyRuns(e, c) = runs /\ Soiled(e, c) = runs /\ c \in Chunks
  BY <1>1, WorldDirtyRuns
<1>3. World(e, R, C, bn, ob, wk, U) /\ UnsparedTo(a, e, c)
  BY <1>1, <1>2, WorldUnspared
<1>4. b = Purged(e, c, runs)
  BY <1>1, <1>2, ChunkPurgeIs
<1>5. c \in Left(e, C, wk, U) /\ c \in e.dirtied /\ c # e.spare /\ e.npurgatory = a.npurgatory
      /\ \A q : Keeps(a, e, q)
  BY <1>3 DEF Left, UnsparedTo
<1>6. /\ World(b, S, C, bn, ob, wk, U) /\ PurgedFields(e, b, c, runs)
      /\ \A d \in runs : b.map[d].flags = Taken
      /\ runs \in SUBSET Pages /\ runs \cap R = {}
      /\ \A q \in R : Keeps(e, b, q)
  BY <1>2, <1>3, <1>4, <1>5, WorldPurged
<1>7. \A q \in R : Keeps(a, b, q)
  BY <1>5, <1>6, KeepsTrans
<1>8. runs # {}
  <2>1. PICK O, K, A : O = Others(bn, ob, wk, U) /\ K = Left(a, C, wk, U) /\ A = R \cup O
    OBVIOUS
  <2>2. Fine(a, A, K)
    BY <2>1, WorldFine
  <2> QED  BY <2>1, <2>2, SoiledSome
<1>9. b.npurgatory = a.npurgatory
  BY <1>5, <1>6 DEF PurgedFields
<1> QED  BY <1>6, <1>7, <1>8, <1>9 DEF ChunkPurged

LEMMA ConcatThree ==
  ASSUME NEW S, NEW x \in S, NEW y \in S, NEW z \in S, NEW v \in Seq(S)
  PROVE  <<x, y, z>> \o v = Before(x, Before(y, Before(z, v)))
<1>1. PICK e, f : e = <<x, y, z>> \o v /\ f = <<x>> \o (<<y>> \o (<<z>> \o v))
  OBVIOUS
<1>2. e \in Seq(S) /\ Len(e) = Len(v) + 3
  BY <1>1
<1>3. PICK g, h : g = <<z>> \o v /\ h = <<y>> \o g
  OBVIOUS
<1>4. /\ g \in Seq(S) /\ Len(g) = Len(v) + 1 /\ g[1] = z
      /\ \A i \in 1 .. Len(v) : g[i + 1] = v[i]
  BY <1>3
<1>5. /\ h \in Seq(S) /\ Len(h) = Len(g) + 1 /\ h[1] = y
      /\ \A i \in 1 .. Len(g) : h[i + 1] = g[i]
  BY <1>3, <1>4
<1>6. /\ f \in Seq(S) /\ Len(f) = Len(h) + 1 /\ f[1] = x
      /\ \A i \in 1 .. Len(h) : f[i + 1] = h[i]
  BY <1>1, <1>3, <1>5
<1>7. e[1] = x /\ e[2] = y /\ e[3] = z /\ \A i \in 1 .. Len(v) : e[i + 3] = v[i]
  BY <1>1
<1>8. f[2] = y
  <2>1. f[1 + 1] = h[1]
    BY <1>4, <1>5, <1>6
  <2> QED  BY <1>5, <2>1
<1>9. f[3] = z
  <2>1. h[1 + 1] = g[1]
    BY <1>4, <1>5
  <2>2. f[2 + 1] = h[2]
    BY <1>4, <1>5, <1>6
  <2> QED  BY <1>4, <2>1, <2>2
<1>10. \A i \in 1 .. Len(v) : f[i + 3] = v[i]
  <2>1. ASSUME NEW i \in 1 .. Len(v) PROVE f[i + 3] = v[i]
    <3>1. g[i + 1] = v[i]
      BY <1>4
    <3>5. i + 1 \in 1 .. Len(g)
      BY <1>4
    <3>2. h[(i + 1) + 1] = g[i + 1]
      BY <1>5, <3>5
    <3>3. f[(i + 2) + 1] = h[i + 2]
      BY <1>4, <1>5, <1>6
    <3>4. (i + 1) + 1 = i + 2 /\ (i + 2) + 1 = i + 3
      OBVIOUS
    <3> QED  BY <3>1, <3>2, <3>3, <3>4
  <2> QED  BY <2>1
<1>11. \A i \in 1 .. Len(v) + 3 : e[i] = f[i]
  <2>1. ASSUME NEW i \in 1 .. Len(v) + 3, i > 3 PROVE e[i] = f[i]
    <3>1. i - 3 \in 1 .. Len(v) /\ (i - 3) + 3 = i
      BY <2>1
    <3> QED  BY <1>7, <1>10, <3>1
  <2>2. \A i \in 1 .. Len(v) + 3 : i = 1 \/ i = 2 \/ i = 3 \/ i > 3
    OBVIOUS
  <2> QED  BY <1>6, <1>7, <1>8, <1>9, <2>1, <2>2
<1>12. e = f
  <2>1. Len(e) = Len(f) /\ Len(e) = Len(v) + 3
    BY <1>2, <1>4, <1>5, <1>6
  <2> QED  BY <1>2, <1>6, <1>11, <2>1
<1> QED  BY <1>1, <1>12 DEF Before

LEMMA MaxIs ==
  ASSUME NEW n \in Int, NEW d \in Int
  PROVE  Max({n, d}) \in {n, d}
<1>1. \E x \in {n, d} : \A y \in {n, d} : x >= y
  OBVIOUS
<1> QED  BY <1>1 DEF Max

(* What is left to do with the runs of a chunk that is purged.             *)
PurgeList(v, runs, k) ==
  Before(<<"madvise", runs>>, Before(<<"return", runs>>, Before(<<"purge", k>>, v)))

PurgeTodo(w, W, T, runs, b) ==
  /\ ListOk(w) /\ W = Range(w) /\ HandOf(W) = HandOf(T) \cup runs /\ Leaving(W) = Leaving(T)
  /\ Claims(b, W)

LEMMA PurgeTasks ==
  ASSUME NEW v, ListOk(v), NEW T, T = Range(v), \A z \in T : Rank(z) > 4,
         NEW runs \in SUBSET Pages, runs # {}, runs \cap HandOf(T) = {}, NEW b, Claims(b, T),
         \A d \in runs : b.map[d].flags = Taken,
         NEW k \in Nat, NEW w, w = PurgeList(v, runs, k)
  PROVE  \E W : PurgeTodo(w, W, T, runs, b)
<1>1. PICK x, y, z : x = <<"madvise", runs>> /\ y = <<"return", runs>> /\ z = <<"purge", k>>
  OBVIOUS
<1>2. x[1] = "madvise" /\ x[2] = runs /\ y[1] = "return" /\ y[2] = runs /\ z[1] = "purge"
  BY <1>1
<1>3. Rank(x) = 2 /\ Rank(y) = 3
  BY <1>2 DEF Rank
<1>4. PICK p, q : p = Before(z, v) /\ q = Before(y, p)
  OBVIOUS
<1>5. w = Before(x, q)
  BY <1>1, <1>4 DEF PurgeList
<1>6. PICK P, Q, W : P = T \cup {z} /\ Q = P \cup {y} /\ W = Q \cup {x}
  OBVIOUS
<1>7. /\ ListOk(p) /\ P = Range(p) /\ HandOf(P) = HandOf(T) /\ Leaving(P) = Leaving(T)
      /\ Claims(b, P) /\ \A u \in P : Rank(u) >= 4
  BY <1>1, <1>4, <1>6, PurgeFirst
<1>8. TaskOk(x) /\ TaskOk(y)
  BY <1>2 DEF TaskOk
<1>9. \A u \in P : u[1] = "tail" => u[2] \notin runs
  <2>1. ASSUME NEW u \in P, u[1] = "tail" PROVE u[2] \notin runs
    <3>1. u \in T
      BY <1>2, <1>6, <2>1
    <3>2. u[2] \in Pages
      BY <2>1, <3>1 DEF ListOk, TodoOk, TaskOk
    <3>3. u[2] \in HandOf(T)
      BY <2>1, <3>1, <3>2 DEF HandOf
    <3> QED  BY <3>3
  <2> QED  BY <2>1
<1>10. InFront(y, P)
  <2>1. \A u \in P : Rank(y) < Rank(u)
    <3>1. \A u \in P : 3 < Rank(u)
      BY <1>7 DEF Rank
    <3> QED  BY <1>3, <3>1
  <2> QED  BY <1>2, <1>8, <1>9, <2>1 DEF InFront
<1>11. ListOk(q) /\ Q = Range(q)
  <2>1. Listing(q, P, y)
    BY <1>4, <1>7, <1>10, ListPush
  <2> QED  BY <1>6, <2>1 DEF Listing
<1>12. InFront(x, Q)
  <2>1. \A u \in Q : Rank(x) < Rank(u)
    <3>1. \A u \in P : 2 < Rank(u)
      BY <1>7 DEF Rank
    <3> QED  BY <1>3, <1>6, <3>1
  <2>2. \E u \in Q : u[1] = "return" /\ u[2] = x[2]
    BY <1>2, <1>6
  <2> QED  BY <1>2, <1>8, <2>1, <2>2 DEF InFront
<1>13. ListOk(w) /\ W = Range(w)
  <2>1. Listing(w, Q, x)
    BY <1>5, <1>11, <1>12, ListPush
  <2> QED  BY <1>6, <2>1 DEF Listing
<1>14. HandOf(W) = HandOf(T) \cup runs
  <2>1. HandOf(Q) = HandOf(P) \cup runs
    BY <1>2, <1>6, MoreHeld
  <2>2. HandOf(W) = HandOf(Q) \cup runs
    BY <1>2, <1>6, MoreHeld
  <2> QED  BY <1>7, <2>1, <2>2
<1>15. Leaving(W) = Leaving(T)
  <2>1. Leaving(Q) = Leaving(P)
    BY <1>2, <1>6, MoreStays
  <2>2. Leaving(W) = Leaving(Q)
    BY <1>2, <1>6, MoreStays
  <2> QED  BY <1>7, <2>1, <2>2
<1>16. Claims(b, W)
  <2>1. ASSUME NEW u \in W, u[1] = "return", NEW r \in u[2]
        PROVE  IsLarge(b, r) /\ Dirty(b.map[r]) = {} /\ \E h \in W : h[1] = "madvise"
    <3>1. \A h \in P : h[1] # "return"
      BY <1>7 DEF Rank
    <3>2. u = y
      BY <1>2, <1>6, <2>1, <3>1
    <3>3. b.map[r].flags = Taken
      BY <1>2, <2>1, <3>2
    <3> QED  BY <1>2, <1>6, <3>3 DEF IsLarge, Dirty, Taken
  <2>2. ASSUME NEW u \in W, u[1] = "tail"
        PROVE  IsLarge(b, u[2]) /\ b.map[u[2]].size = u[3] /\ Unused(b, u[2], 0)
    BY <1>2, <1>6, <1>7, <2>2 DEF Claims
  <2> QED  BY <2>1, <2>2 DEF Claims
<1>17. PurgeTodo(w, W, T, runs, b)
  BY <1>13, <1>14, <1>15, <1>16 DEF PurgeTodo
<1> QED  BY <1>17

(* Remainders of a division by n.                                          *)
LEMMA ModIn ==
  ASSUME NEW n \in Nat \ {0}, NEW x \in Int
  PROVE  x % n \in 0 .. n - 1
OBVIOUS

LEMMA ModIs ==
  ASSUME NEW n \in Nat \ {0}, NEW x \in Int
  PROVE  \E k \in Int, r \in 0 .. n - 1 : x = k * n + r /\ r = x % n
<1>1. PICK r \in 0 .. n - 1 : r = x % n
  BY ModIn
<1>2. PICK k \in Int : k = x \div n
  OBVIOUS
<1>3. x = (x \div n) * n + (x % n)
  OBVIOUS
<1>4. x = k * n + r
  BY <1>1, <1>2, <1>3
<1> QED  BY <1>1, <1>4

LEMMA ModOnly ==
  ASSUME NEW n \in Nat \ {0}, NEW x \in Int, NEW k \in Int, NEW r \in 0 .. n - 1, x = k * n + r
  PROVE  x % n = r
OBVIOUS

LEMMA ModSame ==
  ASSUME NEW n \in Nat \ {0}, NEW x \in Int, NEW y \in Int, NEW k \in Int, x = y + k * n
  PROVE  x % n = y % n
<1>1. PICK l \in Int, r \in 0 .. n - 1 : y = l * n + r /\ r = y % n
  BY ModIs
<1>2. PICK j \in Int : j = l + k
  OBVIOUS
<1>3. PICK p \in Int, q \in Int, z \in Int : p = j * n /\ q = l * n /\ z = k * n
  OBVIOUS
<1>4. p = q + z
  BY <1>2, <1>3
<1>5. x = p + r
  <2>1. x = y + z /\ y = q + r
    BY <1>1, <1>3
  <2> QED  BY <1>4, <2>1
<1>6. x = j * n + r
  BY <1>3, <1>5
<1>7. x % n = r
  BY <1>6, ModOnly
<1> QED  BY <1>1, <1>7

LEMMA ModAdd ==
  ASSUME NEW n \in Nat \ {0}, NEW x \in Int, NEW y \in Int
  PROVE  ((x % n) + y) % n = (x + y) % n
<1>1. PICK k \in Int, r \in 0 .. n - 1 : x = k * n + r /\ r = x % n
  BY ModIs
<1>2. r + y \in Int /\ x + y \in Int /\ x + y = (r + y) + k * n
  BY <1>1
<1>3. (x + y) % n = (r + y) % n
  BY <1>2, ModSame
<1> QED  BY <1>1, <1>3

(* How a thread that purges begins: it holds what comes after.             *)
PurgeFrom(a, R, v, T, x, n, t) ==
  /\ World(a, R, {}, bin, objects, work, But(t)) /\ R = HandOf(T) /\ Leaving(T) = {}
  /\ x[1] = "purge" /\ n = x[2] /\ n \in Nat
  /\ ListOk(v) /\ T = Range(v) /\ Claims(a, T) /\ TodoOk(T)
  /\ \A z \in T : Rank(z) > 4

LEMMA PurgeBegins ==
  ASSUME ArenaOk, NEW t \in Threads, Task(t, "purge"), NEW a, a = arena,
         NEW x, x = work[t][1], NEW n, n = Arg(t), NEW v, v = Rest(t), NEW T, T = Range(v),
         NEW R, R = HandOf(T)
  PROVE  PurgeFrom(a, R, v, T, x, n, t)
<1>1. PICK name, U : name = "purge" /\ U = T \cup {x}
  OBVIOUS
<1>2. TaskFacts(t, x, v, T, name)
  BY <1>1, TaskIs
<1>3. /\ x[1] = "purge" /\ x[2] = n /\ TaskOk(x) /\ ListOk(v) /\ Claims(a, U)
      /\ \A z \in T : Rank(x) < Rank(z)
  BY <1>1, <1>2 DEF TaskFacts, Arg
<1>4. n \in Nat
  BY <1>3 DEF TaskOk
<1>5. \A z \in T : Rank(z) > 4
  <2>1. Rank(x) = 4
    BY <1>3 DEF Rank
  <2>2. \A z \in T : Rank(z) \in Int
    BY DEF Rank
  <2> QED  BY <1>3, <2>1, <2>2
<1>6. TodoOk(T)
  BY <1>3 DEF ListOk
<1>7. HandOf(U) = R /\ Leaving(U) = {} /\ Leaving(T) = {}
  <2>1. HandOf(U) = HandOf(T) /\ Leaving(U) = Leaving(T)
    BY <1>1, <1>3, MoreWork, MoreStays
  <2>2. \A z \in T : Rank(z) > 1
    BY <1>5 DEF Rank
  <2>3. Leaving(T) = {}
    BY <2>2, NoneLeaving
  <2> QED  BY <2>1, <2>3
<1>8. World(a, R, {}, bin, objects, work, But(t))
  BY <1>1, <1>2, <1>7 DEF TaskFacts
<1>9. Claims(a, T)
  BY <1>1, <1>3, ClaimsLess
<1> QED  BY <1>3, <1>4, <1>5, <1>6, <1>7, <1>8, <1>9 DEF PurgeFrom

(* The thread purges no more.                                              *)
LEMMA PurgeStops ==
  ASSUME ArenaOk, NEW t \in Threads, NEW a, NEW R, NEW v, NEW T, NEW x, NEW n,
         PurgeFrom(a, R, v, T, x, n, t), NEW b, arena' = b,
         World(b, R, {}, bin, objects, work, But(t)), \A q \in R : Keeps(a, b, q),
         work' = [work EXCEPT ![t] = v]
  PROVE  StepEnded(bin, objects)
<1>1. PICK V, N, wk : V = But(t) /\ N = {} /\ wk = work
  OBVIOUS
<1>2. PICK bn, ob : bn = bin /\ ob = objects
  OBVIOUS
<1>3. /\ World(a, R, N, bn, ob, wk, V) /\ R = HandOf(T) /\ Leaving(T) = N /\ ListOk(v)
      /\ T = Range(v) /\ Claims(a, T) /\ TodoOk(T)
  BY <1>1, <1>2 DEF PurgeFrom
<1>4. Claims(b, T)
  BY <1>3, ClaimsMoved
<1>5. World(b, HandOf(T), Leaving(T), bn, ob, work, But(t))
  BY <1>1, <1>2, <1>3
<1>6. Ended(b, bn, ob, v, t, T)
  BY <1>3, <1>4, <1>5 DEF Ended
<1>7. StepEnded(bn, ob)
  BY <1>6, EndWith
<1> QED  BY <1>2, <1>7

(* The thread has the dirty runs of chunk c, and goes on.                  *)
LEMMA PurgeGoes ==
  ASSUME ArenaOk, NEW t \in Threads, NEW a, NEW R, NEW v, NEW T, NEW x, NEW n,
         PurgeFrom(a, R, v, T, x, n, t), NEW b,
         World(b, R, {}, bin, objects, work, But(t)), \A q \in R : Keeps(a, b, q),
         NEW c \in Left(b, {}, work, But(t)), c \in b.dirtied, b.cdirty[c] # 0,
         NEW runs, runs = Soiled(b, c), NEW k \in Nat, NEW e, e = ChunkPurge(b, c), arena' = e,
         NEW w, w = PurgeList(v, runs, k), work' = [work EXCEPT ![t] = w]
  PROVE  StepKeeps(bin, objects, b.npurgatory)
<1>1. PICK V, N, wk : V = But(t) /\ N = {} /\ wk = work
  OBVIOUS
<1>2. PICK bn, ob, S : bn = bin /\ ob = objects /\ S = R \cup runs
  OBVIOUS
<1>3. /\ World(a, R, N, bn, ob, wk, V) /\ R = HandOf(T) /\ Leaving(T) = N /\ ListOk(v)
      /\ T = Range(v) /\ Claims(a, T) /\ TodoOk(T) /\ \A z \in T : Rank(z) > 4
  BY <1>1, <1>2 DEF PurgeFrom
<1>4. World(b, R, N, bn, ob, wk, V) /\ c \in Left(b, N, wk, V)
  BY <1>1, <1>2
<1>5. World(e, S, N, bn, ob, wk, V) /\ ChunkPurged(b, e, R, runs)
  BY <1>2, <1>4, WorldChunkPurge
<1>6. /\ runs # {} /\ runs \in SUBSET Pages /\ runs \cap R = {} /\ e.npurgatory = b.npurgatory
      /\ (\A d \in runs : e.map[d].flags = Taken) /\ \A q \in R : Keeps(b, e, q)
  BY <1>5 DEF ChunkPurged
<1>7. Claims(e, T)
  <2>1. \A q \in R : Keeps(a, e, q)
    BY <1>6, KeepsTrans
  <2> QED  BY <1>3, <2>1, ClaimsMoved
<1>8. \E W : PurgeTodo(w, W, T, runs, e)
  BY <1>3, <1>6, <1>7, PurgeTasks
<1>9. PICK W : PurgeTodo(w, W, T, runs, e)
  BY <1>8
<1>10. ListOk(w) /\ W = Range(w) /\ HandOf(W) = S /\ Leaving(W) = N /\ Claims(e, W)
  BY <1>2, <1>3, <1>9 DEF PurgeTodo
<1>11. Ended(e, bn, ob, w, t, W)
  <2>1. World(e, HandOf(W), Leaving(W), bn, ob, work, But(t))
    BY <1>1, <1>5, <1>10
  <2> QED  BY <1>10, <2>1 DEF Ended
<1>12. StepEnded(bn, ob)
  BY <1>11, EndWith
<1> QED  BY <1>2, <1>6, <1>12 DEF StepKeeps

(* What becomes of npurgatory and of the list, when n pages were left.     *)
Spent(t, n, v, np) ==
  \/ np = arena.npurgatory /\ n = 0 /\ work' = [work EXCEPT ![t] = v]
  \/ np = (arena.npurgatory + -n) % SizeMod /\ work' = [work EXCEPT ![t] = v]
  \/ \E k \in Nat : \E runs : /\ np = (arena.npurgatory + (k - n)) % SizeMod
                             /\ work' = [work EXCEPT ![t] = PurgeList(v, runs, k)]

(* First raised from n to m, then lowered by d, of which k are left.       *)
RaisedBy(p, n, m, q) == q = (p + (m - n)) % SizeMod
KeptBack(m, d, k) == k = (m - d) % SizeMod
SpentFrom(p, n, d, k, q) == (q + -d) % SizeMod = (p + (k - n)) % SizeMod

LEMMA SpentIs ==
  ASSUME NEW p \in Int, NEW n \in Int, NEW m \in Int, NEW d \in Int, NEW k, KeptBack(m, d, k),
         NEW q, RaisedBy(p, n, m, q)
  PROVE  SpentFrom(p, n, d, k, q)
<1>1. SizeMod \in Nat \ {0}
  BY ArenaAssumption
<1>2. PICK i, j, u, w : i = p + (m - n) /\ j = -d /\ u = m - d /\ w = p - n
  OBVIOUS
<1>3. i \in Int /\ j \in Int /\ u \in Int /\ w \in Int /\ i + j = u + w
  BY <1>2
<1>4. q = i % SizeMod /\ k = u % SizeMod
  BY <1>2 DEF RaisedBy, KeptBack
<1>5. (q + j) % SizeMod = (i + j) % SizeMod
  <2>1. ((i % SizeMod) + j) % SizeMod = (i + j) % SizeMod
    BY <1>1, <1>3, ModAdd
  <2> QED  BY <1>4, <2>1
<1>6. (k + w) % SizeMod = (u + w) % SizeMod
  <2>1. ((u % SizeMod) + w) % SizeMod = (u + w) % SizeMod
    BY <1>1, <1>3, ModAdd
  <2> QED  BY <1>4, <2>1
<1>7. k \in Int
  BY <1>1, <1>3, <1>4, ModIn
<1>8. k + w = p + (k - n)
  BY <1>2, <1>7
<1> QED  BY <1>2, <1>3, <1>5, <1>6, <1>8 DEF SpentFrom

LEMMA StepPurge ==
  ASSUME ArenaOk, NEW t \in Threads, PurgeChunk(t)
  PROVE  StepEnded(bin', objects') /\ Spent(t, Arg(t), Rest(t), arena'.npurgatory)
<1>1. PICK x, n, v, T : x = work[t][1] /\ n = Arg(t) /\ v = Rest(t) /\ T = Range(v)
  OBVIOUS
<1>2. PICK a0, R : a0 = arena /\ R = HandOf(T)
  OBVIOUS
<1>3. PICK a : a = Shortened(a0)
  OBVIOUS
<1>4. PICK c : c = Head(a.chunks_dirty)
  OBVIOUS
<1>5. PICK d : d = a.cdirty[c]
  OBVIOUS
<1>6. PICK m, runs : m = Max({n, d}) /\ runs = DirtyRuns(Unspared(a, c), c)
  OBVIOUS
<1>7. PICK k : k = (m - d) % SizeMod
  OBVIOUS
<1>8. /\ Task(t, "purge") /\ bin' = bin /\ objects' = objects
      /\ \/ n = 0 /\ arena' = a0 /\ work' = [work EXCEPT ![t] = v]
         \/ a.chunks_dirty = <<>> /\ arena' = Committed(a, -n) /\ work' = [work EXCEPT ![t] = v]
         \/ /\ a.chunks_dirty # <<>>
            /\ arena' = ChunkPurge(Committed(Raised(a, n, m), -d), c)
            /\ work' = [work EXCEPT ![t] =
                 <<<<"madvise", runs>>, <<"return", runs>>, <<"purge", k>>>> \o v]
  BY <1>1, <1>2, <1>3, <1>4, <1>5, <1>6, <1>7 DEF PurgeChunk, Does
<1>9. PurgeFrom(a0, R, v, T, x, n, t)
  BY <1>1, <1>2, <1>8, PurgeBegins
<1>10. PICK V, N, wk : V = But(t) /\ N = {} /\ wk = work
  OBVIOUS
<1>11. PICK bn, ob : bn = bin /\ ob = objects
  OBVIOUS
<1>12. World(a0, R, N, bn, ob, wk, V) /\ n \in Nat /\ ListOk(v)
  BY <1>9, <1>10, <1>11 DEF PurgeFrom
<1>13. CASE n = 0 /\ arena' = a0 /\ work' = [work EXCEPT ![t] = v]
  <2>1. \A q \in R : Keeps(a0, a0, q)
    BY DEF Keeps, Same
  <2>2. World(a0, R, {}, bin, objects, work, But(t))
    BY <1>10, <1>11, <1>12
  <2>3. StepEnded(bin, objects)
    BY <1>9, <1>13, <2>1, <2>2, PurgeStops
  <2>4. Spent(t, n, v, arena'.npurgatory)
    BY <1>2, <1>13 DEF Spent
  <2> QED  BY <1>1, <1>8, <2>3, <2>4
<1>14. /\ World(a, R, N, bn, ob, wk, V) /\ ShortFields(a0, a)
       /\ a.chunks_dirty # <<>> => c \in Left(a, N, wk, V) \cap a.dirtied /\ a.cdirty[c] # 0
       /\ \A q : Keeps(a0, a, q)
  BY <1>3, <1>4, <1>12, WorldShort
<1>15. CASE a.chunks_dirty = <<>> /\ arena' = Committed(a, -n) /\ work' = [work EXCEPT ![t] = v]
  <2>1. PICK b, j : b = Committed(a, j) /\ j = -n
    OBVIOUS
  <2>2. World(b, R, N, bn, ob, wk, V) /\ \A q : Keeps(a, b, q)
    <3>1. j \in Int
      BY <1>12, <2>1
    <3> QED  BY <1>14, <2>1, <3>1, WorldCommitted
  <2>3. \A q \in R : Keeps(a0, b, q)
    BY <1>14, <2>2, KeepsTrans
  <2>4. World(b, R, {}, bin, objects, work, But(t))
    BY <1>10, <1>11, <2>2
  <2>5. StepEnded(bin, objects)
    BY <1>9, <1>15, <2>1, <2>3, <2>4, PurgeStops
  <2>6. b.npurgatory = (a.npurgatory + j) % SizeMod
    <3>1. j \in Int
      BY <1>12, <2>1
    <3> QED  BY <1>14, <2>1, <3>1, WorldCommitted
  <2>7. a.npurgatory = a0.npurgatory
    BY <1>14 DEF ShortFields
  <2>8. PICK np : np = arena'.npurgatory
    OBVIOUS
  <2>9. np = (arena.npurgatory + -n) % SizeMod
    BY <1>2, <1>15, <2>1, <2>6, <2>7, <2>8
  <2>10. Spent(t, n, v, np)
    BY <1>15, <2>9 DEF Spent
  <2> QED  BY <1>1, <1>8, <2>5, <2>8, <2>10
<1>16. CASE /\ a.chunks_dirty # <<>>
            /\ arena' = ChunkPurge(Committed(Raised(a, n, m), -d), c)
            /\ work' = [work EXCEPT ![t] =
                 <<<<"madvise", runs>>, <<"return", runs>>, <<"purge", k>>>> \o v]
  <2>1. c \in Left(a, N, wk, V) /\ c \in a.dirtied /\ a.cdirty[c] # 0
    BY <1>14, <1>16
  <2>2. runs = Soiled(a, c) /\ c \in Chunks
    <3>1. PICK u : u = Unspared(a, c)
      OBVIOUS
    <3> QED  BY <1>6, <1>14, <2>1, <3>1, WorldDirtyRuns
  <2>3. d \in Int /\ m \in Int /\ k \in Nat
    <3>1. Typed(a)
      BY <1>14, WorldFine
    <3>2. d \in Int
      BY <1>5, <2>2, <3>1, TypedIs DEF FieldsTyped
    <3>3. m \in Int
      BY <1>6, <1>12, <3>2, MaxIs
    <3> QED  BY <1>7, <3>2, <3>3, SizeModIs
  <2>4. PICK i, j : i = m - n /\ j = -d
    OBVIOUS
  <2>5. PICK f, b : f = Committed(a, i) /\ b = Committed(f, j)
    OBVIOUS
  <2>6. i \in Int /\ j \in Int
    BY <1>12, <2>3, <2>4
  <2>7. World(f, R, N, bn, ob, wk, V) /\ Alike(a, f) /\ \A q : Keeps(a, f, q)
    BY <1>14, <2>5, <2>6, WorldCommitted
  <2>8. World(b, R, N, bn, ob, wk, V) /\ Alike(f, b) /\ \A q : Keeps(f, b, q)
    BY <2>5, <2>6, <2>7, WorldCommitted
  <2>9. \A q \in R : Keeps(a0, b, q)
    <3>1. \A q : Keeps(a0, f, q)
      BY <1>14, <2>7, KeepsTrans
    <3> QED  BY <2>8, <3>1, KeepsTrans
  <2>10. /\ b.map = a.map /\ b.clean = a.clean /\ b.dirty = a.dirty /\ b.spare = a.spare
         /\ b.dirtied = a.dirtied /\ b.cdirty = a.cdirty /\ b.mapped = a.mapped
    BY <2>7, <2>8 DEF Alike
  <2>11. Soiled(b, c) = runs
    BY <2>2, <2>10 DEF Soiled, FreeRuns, SpareRuns
  <2>12. c \in Left(b, {}, work, But(t)) /\ c \in b.dirtied /\ b.cdirty[c] # 0
    BY <1>10, <2>1, <2>10 DEF Left
  <2>13. PICK e : e = ChunkPurge(b, c)
    OBVIOUS
  <2>14. arena' = e
    BY <1>16, <2>4, <2>5, <2>13 DEF Raised
  <2>15. PICK w : w = PurgeList(v, runs, k)
    OBVIOUS
  <2>16. work' = [work EXCEPT ![t] = w]
    <3>1. PICK y1, y2, y3 : y1 = <<"madvise", runs>> /\ y2 = <<"return", runs>> /\ y3 = <<"purge", k>>
      OBVIOUS
    <3>2. PICK A : A = Range(v) \cup {y1, y2, y3}
      OBVIOUS
    <3>3. v \in Seq(A)
      <4>1. v \in Seq(Range(v))
        BY <1>12 DEF ListOk
      <4> QED  BY <3>2, <4>1
    <3>6. y1 \in A /\ y2 \in A /\ y3 \in A
      BY <3>2
    <3>4. <<y1, y2, y3>> \o v = Before(y1, Before(y2, Before(y3, v)))
      BY <3>3, <3>6, ConcatThree
    <3>5. w = Before(y1, Before(y2, Before(y3, v)))
      BY <2>15, <3>1 DEF PurgeList
    <3> QED  BY <1>16, <3>1, <3>4, <3>5
  <2>17. World(b, R, {}, bin, objects, work, But(t))
    BY <1>10, <1>11, <2>8
  <2>18. StepKeeps(bin, objects, b.npurgatory)
    BY <1>9, <2>3, <2>9, <2>11, <2>12, <2>13, <2>14, <2>15, <2>16, <2>17, PurgeGoes
  <2>19. f.npurgatory = (a.npurgatory + i) % SizeMod /\ b.npurgatory = (f.npurgatory + j) % SizeMod
    <3>1. f.npurgatory = (a.npurgatory + i) % SizeMod
      BY <1>14, <2>5, <2>6, WorldCommitted
    <3>2. b.npurgatory = (f.npurgatory + j) % SizeMod
      BY <2>5, <2>6, <2>7, WorldCommitted
    <3> QED  BY <3>1, <3>2
  <2>20. PICK p, q : p = arena.npurgatory /\ q = f.npurgatory
    OBVIOUS
  <2>21. p \in Int /\ a.npurgatory = p
    <3>1. Typed(a)
      BY <1>14, WorldFine
    <3>2. a.npurgatory \in Int
      BY <3>1, TypedIs DEF FieldsTyped
    <3>3. a.npurgatory = a0.npurgatory
      BY <1>14 DEF ShortFields
    <3> QED  BY <1>2, <2>20, <3>2, <3>3
  <2>22. q = (p + (m - n)) % SizeMod /\ b.npurgatory = (q + -d) % SizeMod
    BY <2>4, <2>19, <2>20, <2>21
  <2>23. (q + -d) % SizeMod = (p + (k - n)) % SizeMod
    <3>1. n \in Int /\ m \in Int /\ d \in Int /\ p \in Int
      BY <1>12, <2>3, <2>21
    <3>2. KeptBack(m, d, k)
      BY <1>7 DEF KeptBack
    <3>3. RaisedBy(p, n, m, q)
      BY <2>22 DEF RaisedBy
    <3>4. SpentFrom(p, n, d, k, q)
      BY <3>1, <3>2, <3>3, SpentIs
    <3> QED  BY <3>4 DEF SpentFrom
  <2>24. PICK np : np = arena'.npurgatory
    OBVIOUS
  <2>25. np = (arena.npurgatory + (k - n)) % SizeMod
    BY <2>18, <2>20, <2>22, <2>23, <2>24 DEF StepKeeps
  <2>26. Spent(t, n, v, np)
    BY <2>3, <2>15, <2>16, <2>25 DEF Spent
  <2> QED  BY <1>1, <1>8, <2>18, <2>24, <2>26 DEF StepKeeps
<1> QED  BY <1>8, <1>13, <1>15, <1>16

-----------------------------------------------------------------------------
(* A large object leaves the client, to be freed or resized.               *)

LEMMA WorldOwns ==
  ASSUME NEW a, NEW R, NEW C, NEW bn, NEW ob, NEW wk, NEW U, World(a, R, C, bn, ob, wk, U), NEW r \in R
  PROVE  /\ r \in Pages /\ r \in Int /\ Length(a, r) \in Nat /\ Length(a, r) >= 1
         /\ (IsLarge(a, r) => a.map[r].size = Length(a, r))
         /\ (~IsLarge(a, r) => Length(a, r) = RunPages)
<1>1. PICK O, K, A : O = Others(bn, ob, wk, U) /\ K = Left(a, C, wk, U) /\ A = R \cup O
  OBVIOUS
<1>2. Fine(a, A, K)
  BY <1>1, WorldFine
<1>3. r \in A
  BY <1>1
<1> QED  BY <1>2, <1>3, OwnedIs

ObjectLeft(a, ob, r, n) ==
  IsLarge(a, r) /\ a.map[r].size = n /\ Length(a, r) = n /\ r \in Pages /\ r \in Int
  /\ n \in Nat /\ n >= 1 /\ n = ob[r]

LEMMA ObjectLeaves ==
  ASSUME NEW a, NEW R, R = {}, NEW C, NEW bn, NEW ob, NEW wk, NEW U, World(a, R, C, bn, ob, wk, U),
         NEW r \in DOMAIN ob, NEW oc, oc = [p \in DOMAIN ob \ {r} |-> ob[p]],
         NEW S, S = {r}, NEW n, n = ob[r]
  PROVE  World(a, S, C, bn, oc, wk, U) /\ ObjectLeft(a, ob, r, n)
<1>1. DOMAIN oc = DOMAIN ob \ {r} /\ \A p \in DOMAIN oc : oc[p] = ob[p]
  OBVIOUS
<1>2. ObjectsOk(a, ob) /\ BinOk(a, bn) /\ Parted(a, R, C, bn, ob, wk, U)
  BY DEF World
<1>3. DOMAIN ob \cap DOMAIN bn.runs = {}
  BY <1>2 DEF Parted
<1>4. ObjectsOk(a, oc)
  BY <1>1, <1>2 DEF ObjectsOk
<1>5. /\ S \cup DOMAIN oc \cup DOMAIN bn.runs = R \cup DOMAIN ob \cup DOMAIN bn.runs
      /\ S \cap DOMAIN oc = {} /\ S \cap DOMAIN bn.runs = {} /\ DOMAIN oc \cap DOMAIN bn.runs = {}
  BY <1>1, <1>3
<1>6. World(a, S, C, bn, oc, wk, U)
  BY <1>2, <1>4, <1>5, WorldHand
<1>7. IsLarge(a, r) /\ a.map[r].size = ob[r]
  BY <1>2 DEF ObjectsOk
<1>9. r \in S
  OBVIOUS
<1>10. Length(a, r) \in Nat /\ Length(a, r) >= 1 /\ r \in Int /\ r \in Pages
       /\ a.map[r].size = Length(a, r)
  BY <1>6, <1>7, <1>9, WorldOwns
<1> QED  BY <1>6, <1>7, <1>10 DEF ObjectLeft

(* A run that is nobody's is given back, and that is all.                  *)
LEMMA GivesLast ==
  ASSUME ArenaOk, NEW t \in Threads, NEW a, NEW R, NEW bn, NEW ob, World(a, R, {}, bn, ob, work, But(t)),
         NEW r, R = {r}, NEW dirty \in BOOLEAN, ~dirty => Unused(a, r, 0), GiveRun(t, a, r, dirty, <<>>)
  PROVE  StepKeeps(bn, ob, a.npurgatory)
<1>1. PICK w, T : w = <<>> /\ T = {}
  OBVIOUS
<1>2. ListOk(w) /\ T = Range(w) /\ HandOf(T) = R \ {r} /\ Claims(a, T)
  BY <1>1, ListNone DEF Claims
<1>3. \A y : y \notin T
  BY <1>1
<1>4. Gives(a, R, r, dirty, bn, ob, w, t, T)
  BY <1>2, <1>3 DEF Gives
<1>5. GiveRun(t, a, r, dirty, w)
  BY <1>1
<1>6. GiveEnded(bn, ob, a.npurgatory)
  BY <1>4, <1>5, GiveEnds
<1> QED  BY <1>6 DEF GiveEnded, StepKeeps, StepEnded

LEMMA StepDalloc ==
  ASSUME ArenaOk, NEW t \in Threads, NEW r \in DOMAIN objects, arena_dalloc_large(t, r)
  PROVE  StepKeeps(bin', objects', arena.npurgatory)
<1>1. PICK a, oc : a = arena /\ oc = [p \in DOMAIN objects \ {r} |-> objects[p]]
  OBVIOUS
<1>2. Idle(t) /\ objects' = oc /\ bin' = bin /\ GiveRun(t, a, r, TRUE, <<>>)
  BY <1>1 DEF arena_dalloc_large
<1>3. PICK N, S, n : N = {} /\ S = {r} /\ n = objects[r]
  OBVIOUS
<1>9. PICK dirty \in BOOLEAN : dirty = TRUE
  OBVIOUS
<1>4. PICK bn, ob, wk, V : bn = bin /\ ob = objects /\ wk = work /\ V = But(t)
  OBVIOUS
<1>5. World(a, N, N, bn, ob, wk, V)
  BY <1>1, <1>2, <1>3, <1>4, BeginIdle
<1>6. World(a, S, N, bn, oc, wk, V)
  <2>1. r \in DOMAIN ob /\ oc = [p \in DOMAIN ob \ {r} |-> ob[p]] /\ n = ob[r]
    BY <1>1, <1>3, <1>4
  <2> QED  BY <1>3, <1>5, <2>1, ObjectLeaves
<1>7. World(a, S, {}, bn, oc, work, But(t))
  BY <1>3, <1>4, <1>6
<1>8. StepKeeps(bn, oc, a.npurgatory)
  BY <1>2, <1>3, <1>7, <1>9, GivesLast
<1> QED  BY <1>1, <1>2, <1>4, <1>8

LEMMA StepShrink ==
  ASSUME ArenaOk, NEW t \in Threads, NEW r \in DOMAIN objects, NEW n \in Nat, n >= 1,
         arena_ralloc_large_shrink(t, r, n)
  PROVE  StepKeeps(bin', objects', arena.npurgatory)
<1>1. PICK a, oc : a = arena /\ oc = [p \in DOMAIN objects \ {r} |-> objects[p]]
  OBVIOUS
<1>2. PICK old, s, b : old = objects[r] /\ s = r + n /\ b = Cut(a, r, old, n, {})
  OBVIOUS
<1>3. PICK od : od = [objects EXCEPT ![r] = n]
  OBVIOUS
<1>4. Idle(t) /\ objects' = od /\ bin' = bin /\ n < old /\ GiveRun(t, b, s, TRUE, <<>>)
  BY <1>1, <1>2, <1>3 DEF arena_ralloc_large_shrink, CutTail
<1>5. PICK N, R : N = {} /\ R = {r}
  OBVIOUS
<1>18. PICK dirty \in BOOLEAN : dirty = TRUE
  OBVIOUS
<1>6. PICK bn, ob, wk, V : bn = bin /\ ob = objects /\ wk = work /\ V = But(t)
  OBVIOUS
<1>7. World(a, N, N, bn, ob, wk, V)
  BY <1>1, <1>4, <1>5, <1>6, BeginIdle
<1>8. World(a, R, N, bn, oc, wk, V) /\ ObjectLeft(a, ob, r, old)
  <2>1. r \in DOMAIN ob /\ oc = [p \in DOMAIN ob \ {r} |-> ob[p]] /\ old = ob[r]
    BY <1>1, <1>2, <1>6
  <2> QED  BY <1>5, <1>7, <2>1, ObjectLeaves
<1>9. Length(a, r) = old /\ r \in Int /\ r \in R /\ old \in Nat
  BY <1>5, <1>8 DEF ObjectLeft
<1>10. PICK S : S = R \cup {s}
  OBVIOUS
<1>19. PICK kept \in FreeFlags : kept = {}
  BY DEF FreeFlags
<1>11. World(b, S, N, bn, oc, wk, V) /\ s \notin R /\ CutOut(a, b, r, old, n, kept)
  <2>1. b = Cut(a, r, old, n, kept)
    BY <1>2, <1>19
  <2> QED  BY <1>2, <1>4, <1>8, <1>9, <1>10, <2>1, WorldCut
<1>12. IsLarge(b, r) /\ b.map[r].size = n /\ b.npurgatory = a.npurgatory
  BY <1>11 DEF CutOut, IsLarge, Elem, Taken, MapOnly
<1>13. PICK Q : Q = S \ {r}
  OBVIOUS
<1>14. Q = {s} /\ r \in S /\ od = With(oc, r, n)
  <2>1. Q = {s} /\ r \in S
    BY <1>5, <1>10, <1>11, <1>13
  <2>2. od = [p \in DOMAIN objects |-> IF p = r THEN n ELSE objects[p]]
    BY <1>3
  <2>3. With(oc, r, n) = [p \in DOMAIN objects |-> IF p = r THEN n ELSE oc[p]]
    BY <1>1 DEF With
  <2>4. \A p \in DOMAIN objects : p # r => oc[p] = objects[p]
    BY <1>1
  <2> QED  BY <2>1, <2>2, <2>3, <2>4
<1>15. World(b, Q, N, bn, od, wk, V)
  BY <1>11, <1>12, <1>13, <1>14, ObjectGets
<1>16. World(b, Q, {}, bn, od, work, But(t))
  BY <1>5, <1>6, <1>15
<1>17. StepKeeps(bn, od, b.npurgatory)
  BY <1>4, <1>14, <1>16, <1>18, GivesLast
<1> QED  BY <1>1, <1>4, <1>6, <1>12, <1>17

(* A thread that has nothing to do stays so.                               *)
LEMMA IdleStays ==
  ASSUME ArenaOk, NEW t \in Threads, Idle(t), work' = work
  PROVE  work' = [work EXCEPT ![t] = <<>>]
<1>1. work = [u \in Threads |-> work[u]] /\ work[t] = <<>>
  BY DEF ArenaOk, Workers, Idle
<1>2. PICK w : w = work
  OBVIOUS
<1>3. w = [u \in Threads |-> w[u]] /\ w[t] = <<>>
  BY <1>1, <1>2
<1>4. w = [w EXCEPT ![t] = <<>>]
  BY <1>3
<1> QED  BY <1>2, <1>4

(* What lies behind a large object that can grow.                          *)
LEMMA RunBehind ==
  ASSUME NEW a, NEW A, NEW K, Fine(a, A, K), NEW r \in A, NEW s, s = r + Length(a, r),
         s \in Of(Base(r)), IsFree(a.map[s])
  PROVE  /\ s \in a.clean \cup a.dirty /\ a.map[s].size \in Nat /\ a.map[s].size >= 1
         /\ Base(s) = Base(r)
<1>1. Good(a, A, K)
  BY DEF Fine
<1>2. PICK F, R : F = FreeRuns(a) /\ R = A \cup F
  OBVIOUS
<1>3. Typed(a) /\ Laid(a, A, F, K) /\ Tiles(a, R, K) /\ r \in R
  BY <1>1, <1>2 DEF Good, Laid
<1>4. r \in Int /\ r \in Pages /\ Length(a, r) \in Nat
  BY <1>3, TileEnds DEF Tiles
<1>5. Base(s) = Base(r)
  BY <1>4, InOf
<1>6. s \in R
  BY <1>3, <1>5, TileNext
<1>7. s \in F
  <2>1. s \in A => ~IsFree(a.map[s])
    BY <1>3, AllocLength
  <2> QED  BY <1>2, <1>6, <2>1
<1>8. Length(a, s) = a.map[s].size
  BY <1>3, <1>7, FreeLength
<1>9. a.map[s].size \in Nat /\ a.map[s].size >= 1
  BY <1>3, <1>6, <1>8, TileEnds
<1>10. s \notin SpareRuns(a)
  <2>1. SUFFICES ASSUME s \in SpareRuns(a) PROVE FALSE
    OBVIOUS
  <2>2. PICK c \in Chunks : c = a.spare /\ s = First(c)
    BY <2>1 DEF SpareRuns
  <2>3. Base(s) = c
    BY <2>2, ChunkSpan
  <2>4. r \notin A
    BY <1>1, <1>5, <2>2, <2>3, SpareAlone
  <2> QED  BY <2>4
<1> QED  BY <1>2, <1>5, <1>7, <1>9, <1>10 DEF FreeRuns

(* So much it grows by.                                                    *)
GrowsBy(old, follow, n, extra) == IF old + follow <= n + extra THEN follow ELSE n + extra - old

LEMMA GrowsByIs ==
  ASSUME NEW old \in Nat, NEW follow \in Nat, follow >= 1, NEW n \in Nat, NEW extra \in Nat,
         n + extra > old, NEW k, k = GrowsBy(old, follow, n, extra)
  PROVE  k \in Nat /\ k >= 1 /\ k <= follow
BY DEF GrowsBy

LEMMA TwoDirty ==
  ASSUME NEW x, NEW y
  PROVE  Dirty(x) \cup Dirty(y) \in FreeFlags
BY DEF Dirty, FreeFlags

LEMMA StepGrow ==
  ASSUME ArenaOk, NEW t \in Threads, NEW r \in DOMAIN objects, NEW n \in Nat, NEW extra \in Nat,
         arena_ralloc_large_grow(t, r, n, extra)
  PROVE  StepKeeps(bin', objects', arena.npurgatory)
<1>1. PICK a, oc : a = arena /\ oc = [p \in DOMAIN objects \ {r} |-> objects[p]]
  OBVIOUS
<1>2. PICK old, s : old = objects[r] /\ s = r + old
  OBVIOUS
<1>3. PICK follow : follow = a.map[s].size
  OBVIOUS
<1>4. PICK k : k = GrowsBy(old, follow, n, extra)
  OBVIOUS
<1>5. PICK large \in BOOLEAN : large = TRUE
  OBVIOUS
<1>6. PICK b, m : b = RunSplit(a, s, k, large) /\ m = old + k
  OBVIOUS
<1>7. PICK e : e = s + k - 1
  OBVIOUS
<1>8. PICK fd : fd = Dirty(b.map[r]) \cup Dirty(b.map[e])
  OBVIOUS
<1>9. PICK g, P : g = Grown(b, r, e, m, fd) /\ P = Span(s, k)
  OBVIOUS
<1>10. PICK h, od : h = Touch(g, P) /\ od = With(objects, r, m)
  OBVIOUS
<1>11. /\ Idle(t) /\ n + extra > old /\ s \in Of(Base(r)) /\ IsFree(a.map[s])
       /\ arena' = h /\ objects' = od /\ bin' = bin /\ work' = work
  <2>1. /\ Idle(t) /\ n + extra > old /\ s \in Of(Base(r)) /\ IsFree(a.map[s])
        /\ bin' = bin /\ work' = work
    BY <1>1, <1>2 DEF arena_ralloc_large_grow, Owns
  <2>2. k = IF old + follow <= n + extra THEN follow ELSE n + extra - old
    BY <1>4 DEF GrowsBy
  <2>3. b = RunSplit(arena, r + objects[r], k, TRUE)
    BY <1>1, <1>2, <1>5, <1>6
  <2>4. fd = Dirty(b.map[r]) \cup Dirty(b.map[r + objects[r] + k - 1])
    BY <1>2, <1>7, <1>8
  <2>5. objects' = [p \in DOMAIN objects \cup {r} |-> IF p = r THEN objects[r] + k ELSE objects[p]]
    BY <1>1, <1>2, <1>3, <2>2 DEF arena_ralloc_large_grow, Owns
  <2>6. objects' = od
    BY <1>2, <1>6, <1>10, <2>5 DEF With
  <2>7. arena' = Touch([b EXCEPT !.map =
                          Inner([@ EXCEPT ![r] = Elem(old + k, Taken \cup fd),
                                          ![s + k - 1] = Elem(0, Taken \cup fd)],
                                r, old + k)],
                       Span(s, k))
    BY <1>1, <1>2, <1>3, <2>2, <2>3, <2>4 DEF arena_ralloc_large_grow
  <2>8. arena' = h
    BY <1>6, <1>7, <1>9, <1>10, <2>7 DEF Grown
  <2> QED  BY <2>1, <2>6, <2>8
<1>12. PICK N, R : N = {} /\ R = {r}
  OBVIOUS
<1>13. PICK bn, ob, wk, V : bn = bin /\ ob = objects /\ wk = work /\ V = But(t)
  OBVIOUS
<1>14. World(a, N, N, bn, ob, wk, V)
  BY <1>1, <1>11, <1>12, <1>13, BeginIdle
<1>15. World(a, R, N, bn, oc, wk, V) /\ ObjectLeft(a, ob, r, old)
  <2>1. r \in DOMAIN ob /\ oc = [p \in DOMAIN ob \ {r} |-> ob[p]] /\ old = ob[r]
    BY <1>1, <1>2, <1>13
  <2>2. N = {}
    BY <1>12
  <2>3. R = {r}
    BY <1>12
  <2> QED  BY <1>14, <2>1, <2>2, <2>3, ObjectLeaves
<1>16. Length(a, r) = old /\ r \in Int /\ r \in R /\ old \in Nat /\ old >= 1
  BY <1>12, <1>15 DEF ObjectLeft
<1>17. s \in a.clean \cup a.dirty /\ follow \in Nat /\ follow >= 1 /\ Base(s) = Base(r)
  <2>1. PICK O, K, A : O = Others(bn, oc, wk, V) /\ K = Left(a, N, wk, V) /\ A = R \cup O
    OBVIOUS
  <2>2. Fine(a, A, K)
    BY <1>15, <2>1, WorldFine
  <2>3. r \in A /\ s = r + Length(a, r)
    BY <1>2, <1>16, <2>1
  <2> QED  BY <1>3, <1>11, <2>2, <2>3, RunBehind
<1>18. k \in Nat /\ k >= 1 /\ k <= follow
  BY <1>4, <1>11, <1>16, <1>17, GrowsByIs
<1>19. PICK S : S = R \cup {s}
  OBVIOUS
<1>20. /\ World(b, S, N, bn, oc, wk, V) /\ s \notin R /\ SplitOut(a, b, s, k, large)
       /\ RunSplitFields(a, b, s, k, large) /\ \A q \in R : Keeps(a, b, q)
  <2>1. large \/ k = RunPages
    BY <1>5
  <2> QED  BY <1>3, <1>6, <1>15, <1>17, <1>18, <1>19, <2>1, WorldSplit
<1>21. Length(b, s) = k /\ Length(b, r) = old /\ b.npurgatory = a.npurgatory
  BY <1>16, <1>20 DEF SplitOut, Keeps, Same, RunSplitFields
<1>22. r \in S /\ s \in S /\ s = r + Length(b, r) /\ m = Length(b, r) + Length(b, s)
       /\ e = s + Length(b, s) - 1 /\ fd \in FreeFlags
  BY <1>2, <1>6, <1>7, <1>8, <1>16, <1>19, <1>21, TwoDirty
<1>23. PICK Q : Q = S \ {s}
  OBVIOUS
<1>24. /\ World(g, Q, N, bn, oc, wk, V) /\ MapOnly(b, g)
       /\ g.map[r] = Elem(m, Taken \cup fd) /\ Length(g, r) = m /\ r \in Q
  BY <1>9, <1>17, <1>20, <1>22, <1>23, WorldGrown
<1>25. Within(g, r, P)
  BY <1>2, <1>6, <1>9, <1>16, <1>18, <1>24 DEF Within, Span
<1>26. World(h, Q, N, bn, oc, wk, V) /\ Wrote(g, h, Q, r, P)
  BY <1>10, <1>24, <1>25, WorldTouch
<1>27. IsLarge(h, r) /\ h.map[r].size = m /\ h.npurgatory = a.npurgatory
  BY <1>21, <1>24, <1>26 DEF Wrote, Same, IsLarge, Elem, Taken, MapOnly
<1>28. Q \ {r} = {} /\ od = With(oc, r, m)
  <2>1. Q \ {r} = {}
    BY <1>12, <1>19, <1>23
  <2>2. DOMAIN objects \cup {r} = DOMAIN oc \cup {r}
    BY <1>1
  <2>3. \A p \in DOMAIN objects : p # r => oc[p] = objects[p]
    BY <1>1
  <2> QED  BY <1>10, <2>1, <2>2, <2>3 DEF With
<1>29. PICK Z : Z = Q \ {r}
  OBVIOUS
<1>30. World(h, Z, N, bn, od, wk, V)
  BY <1>24, <1>26, <1>27, <1>28, <1>29, ObjectGets
<1>31. World(h, N, N, bn, od, work, But(t))
  BY <1>12, <1>13, <1>28, <1>29, <1>30
<1>32. work' = [work EXCEPT ![t] = <<>>]
  BY <1>11, IdleStays
<1>33. StepEnded(bn, od)
  BY <1>11, <1>12, <1>31, <1>32, EndNone
<1> QED  BY <1>1, <1>11, <1>13, <1>27, <1>33 DEF StepKeeps

-----------------------------------------------------------------------------
(* The bin.  What the record of a run says: no region is free twice.       *)
RunRec(e) ==
  /\ e = [next |-> e.next, avail |-> e.avail] /\ e.next \in 0 .. Regs
  /\ e.avail \in Seq(0 .. e.next - 1) /\ IsInjective(e.avail)

(* So it has no more free regions than regions.                            *)
LEMMA AvailShort ==
  ASSUME NEW n \in Nat, NEW s \in Seq(0 .. n - 1), IsInjective(s)
  PROVE  Len(s) \in Nat /\ Len(s) <= n
<1>1. PICK S, T : S = 1 .. Len(s) /\ T = 0 .. n - 1
  OBVIOUS
<1>2. Len(s) \in Nat /\ s \in [S -> T] /\ DOMAIN s = S
  BY <1>1
<1>3. IsFiniteSet(S) /\ Cardinality(S) = Len(s)
  <2>1. PICK m : m = Len(s)
    OBVIOUS
  <2>2. m \in Nat /\ S = 1 .. m /\ 1 \in Int
    BY <1>1, <1>2, <2>1
  <2>3. IsFiniteSet(1 .. m) /\ Cardinality(1 .. m) = IF 1 > m THEN 0 ELSE m - 1 + 1
    BY <2>2, FS_Interval
  <2>4. (IF 1 > m THEN 0 ELSE m - 1 + 1) = m
    BY <2>2
  <2> QED  BY <2>1, <2>2, <2>3, <2>4
<1>4. IsFiniteSet(T) /\ Cardinality(T) = n
  BY <1>1, FS_Interval
<1>5. ~(Cardinality(T) < Cardinality(S))
  <2>1. SUFFICES ASSUME Cardinality(T) < Cardinality(S) PROVE FALSE
    OBVIOUS
  <2>2. \E x, y \in S : x # y /\ s[x] = s[y]
    BY <1>2, <1>3, <1>4, <2>1, FS_PigeonHole
  <2> QED  BY <1>2, <2>2 DEF IsInjective
<1> QED  BY <1>2, <1>3, <1>4, <1>5

FreeIn(e) == Regs - e.next + Len(e.avail)

LEMMA FreeInIs ==
  ASSUME NEW e, RunRec(e)
  PROVE  FreeIn(e) \in Nat /\ FreeIn(e) <= Regs /\ e.next \in Nat /\ Len(e.avail) \in Nat
<1>1. e.next \in Nat /\ e.next <= Regs /\ Regs \in Nat
  BY Numbers DEF RunRec
<1>2. PICK n, s : n = e.next /\ s = e.avail
  OBVIOUS
<1>3. n \in Nat /\ s \in Seq(0 .. n - 1) /\ IsInjective(s)
  BY <1>1, <1>2 DEF RunRec
<1>4. Len(s) \in Nat /\ Len(s) <= n
  BY <1>3, AvailShort
<1> QED  BY <1>1, <1>2, <1>4 DEF FreeIn

(* A region is taken, or given back.                                       *)
RecAlloc(e) ==
  IF e.avail # <<>> THEN [e EXCEPT !.avail = Tail(e.avail)] ELSE [e EXCEPT !.next = e.next + 1]
RecDalloc(e, i) == [e EXCEPT !.avail = <<i>> \o @]

LEMMA RecAllocIs ==
  ASSUME NEW e, RunRec(e), FreeIn(e) > 0, NEW f, f = RecAlloc(e)
  PROVE  RunRec(f) /\ f.next >= e.next /\ FreeIn(f) = FreeIn(e) - 1
<1>1. e = [next |-> e.next, avail |-> e.avail] /\ e.next \in Nat /\ e.next <= Regs /\ Regs \in Nat
      /\ e.avail \in Seq(0 .. e.next - 1) /\ IsInjective(e.avail)
  BY Numbers DEF RunRec
<1>2. PICK n, s : n = e.next /\ s = e.avail
  OBVIOUS
<1>3. n \in Nat /\ n <= Regs /\ s \in Seq(0 .. n - 1) /\ IsInjective(s) /\ Len(s) \in Nat
  BY <1>1, <1>2
<1>4. CASE s # <<>>
  <2>1. f = [next |-> n, avail |-> Tail(s)]
    BY <1>1, <1>2, <1>4 DEF RecAlloc
  <2>2. PICK u : u = Tail(s)
    OBVIOUS
  <2>3. u \in Seq(0 .. n - 1) /\ Len(u) = Len(s) - 1 /\ \A i \in 1 .. Len(u) : u[i] = s[i + 1]
    BY <1>3, <1>4, <2>2
  <2>4. IsInjective(u)
    <3>1. ASSUME NEW i \in DOMAIN u, NEW j \in DOMAIN u, u[i] = u[j] PROVE i = j
      <4>1. i \in 1 .. Len(u) /\ j \in 1 .. Len(u)
        BY <2>3
      <4>2. i + 1 \in DOMAIN s /\ j + 1 \in DOMAIN s /\ s[i + 1] = s[j + 1]
        <5>1. s[i + 1] = s[j + 1]
          BY <2>3, <3>1, <4>1
        <5>2. PICK m, l : m = Len(s) /\ l = Len(u)
          OBVIOUS
        <5>3. m \in Nat /\ l = m - 1 /\ i \in 1 .. l /\ j \in 1 .. l /\ DOMAIN s = 1 .. m
          BY <1>3, <2>3, <4>1, <5>2
        <5>4. i + 1 \in 1 .. m /\ j + 1 \in 1 .. m
          BY <5>3
        <5> QED  BY <5>1, <5>3, <5>4
      <4>3. i + 1 = j + 1
        BY <1>3, <4>2 DEF IsInjective
      <4> QED  BY <4>1, <4>3
    <3> QED  BY <3>1 DEF IsInjective
  <2>5. f.next = n /\ f.avail = u /\ f = [next |-> f.next, avail |-> f.avail]
    BY <2>1, <2>2
  <2>6. FreeIn(f) = FreeIn(e) - 1
    <3>1. PICK l, k : l = Len(s) /\ k = Len(u)
      OBVIOUS
    <3>2. FreeIn(e) = Regs - n + l /\ FreeIn(f) = Regs - n + k
      BY <1>2, <2>5, <3>1 DEF FreeIn
    <3>3. l \in Nat /\ k = l - 1
      BY <1>3, <2>3, <3>1
    <3> QED  BY <1>1, <1>3, <3>2, <3>3
  <2> QED  BY <1>1, <1>2, <1>3, <2>3, <2>4, <2>5, <2>6 DEF RunRec
<1>5. CASE s = <<>>
  <2>1. f = [next |-> n + 1, avail |-> s]
    BY <1>1, <1>2, <1>5 DEF RecAlloc
  <2>2. Len(s) = 0
    BY <1>5
  <2>3. n + 1 <= Regs
    BY <1>1, <1>2, <2>2 DEF FreeIn
  <2>4. f.next = n + 1 /\ f.avail = s /\ f = [next |-> f.next, avail |-> f.avail]
    BY <2>1
  <2>5. s \in Seq(0 .. (n + 1) - 1)
    BY <1>5
  <2>6. FreeIn(f) = FreeIn(e) - 1
    <3>1. PICK l : l = Len(s)
      OBVIOUS
    <3>2. FreeIn(e) = Regs - n + l /\ FreeIn(f) = Regs - (n + 1) + l
      BY <1>2, <2>4, <3>1 DEF FreeIn
    <3>3. l \in Nat
      BY <1>3, <3>1
    <3> QED  BY <1>1, <1>3, <3>2, <3>3
  <2>7. f.next \in 0 .. Regs /\ f.next >= e.next
    BY <1>1, <1>2, <1>3, <2>3, <2>4
  <2> QED  BY <1>3, <2>4, <2>5, <2>6, <2>7 DEF RunRec
<1> QED  BY <1>4, <1>5

LEMMA RecDallocIs ==
  ASSUME NEW e, RunRec(e), NEW i \in 0 .. e.next - 1, \A k \in DOMAIN e.avail : e.avail[k] # i,
         NEW f, f = RecDalloc(e, i)
  PROVE  RunRec(f) /\ f.next = e.next /\ FreeIn(f) = FreeIn(e) + 1
<1>1. e = [next |-> e.next, avail |-> e.avail] /\ e.next \in Nat /\ e.next <= Regs /\ Regs \in Nat
      /\ e.avail \in Seq(0 .. e.next - 1) /\ IsInjective(e.avail)
  BY Numbers DEF RunRec
<1>2. PICK n, s : n = e.next /\ s = e.avail
  OBVIOUS
<1>3. n \in Nat /\ n <= Regs /\ s \in Seq(0 .. n - 1) /\ IsInjective(s) /\ Len(s) \in Nat
      /\ i \in 0 .. n - 1 /\ \A k \in DOMAIN s : s[k] # i
  BY <1>1, <1>2
<1>4. PICK u : u = <<i>> \o s
  OBVIOUS
<1>5. /\ u \in Seq(0 .. n - 1) /\ Len(u) = Len(s) + 1 /\ u[1] = i
      /\ \A k \in 1 .. Len(s) : u[k + 1] = s[k]
  BY <1>3, <1>4
<1>6. IsInjective(u)
  <2>1. ASSUME NEW k \in DOMAIN u, k # 1 PROVE k - 1 \in DOMAIN s /\ u[k] = s[k - 1]
    <3>1. k \in 1 .. Len(s) + 1
      BY <1>5
    <3>2. k - 1 \in 1 .. Len(s) /\ (k - 1) + 1 = k
      BY <1>3, <2>1, <3>1
    <3>3. u[(k - 1) + 1] = s[k - 1]
      BY <1>5, <3>2
    <3> QED  BY <1>3, <3>2, <3>3
  <2>2. ASSUME NEW k \in DOMAIN u, NEW j \in DOMAIN u, u[k] = u[j] PROVE k = j
    <3>1. k \in Int /\ j \in Int
      BY <1>5
    <3>2. CASE k = 1
      BY <1>3, <1>5, <2>1, <2>2, <3>2
    <3>3. CASE j = 1
      BY <1>3, <1>5, <2>1, <2>2, <3>3
    <3>4. CASE k # 1 /\ j # 1
      <4>1. k - 1 \in DOMAIN s /\ j - 1 \in DOMAIN s /\ s[k - 1] = s[j - 1]
        BY <2>1, <2>2, <3>4
      <4>2. k - 1 = j - 1
        BY <1>3, <4>1 DEF IsInjective
      <4> QED  BY <3>1, <4>2
    <3> QED  BY <3>2, <3>3, <3>4
  <2> QED  BY <2>2 DEF IsInjective
<1>7. f.next = n /\ f.avail = u /\ f = [next |-> f.next, avail |-> f.avail]
  BY <1>1, <1>2, <1>4 DEF RecDalloc
<1>8. FreeIn(f) = FreeIn(e) + 1
  <2>1. PICK l, k : l = Len(s) /\ k = Len(u)
    OBVIOUS
  <2>2. FreeIn(e) = Regs - n + l /\ FreeIn(f) = Regs - n + k
    BY <1>2, <1>7, <2>1 DEF FreeIn
  <2>3. l \in Nat /\ k = l + 1
    BY <1>3, <1>5, <2>1
  <2> QED  BY <1>1, <1>3, <2>2, <2>3
<1> QED  BY <1>1, <1>2, <1>3, <1>5, <1>6, <1>7, <1>8 DEF RunRec

-----------------------------------------------------------------------------
(* The runs of the bin, in the arena.                                      *)

(* Of the bin, the arena is concerned with how far its runs are used.      *)
NextsAs(bn, bm, D) == \A p \in D : bm.runs[p].next = bn.runs[p].next

LEMMA WorldBin ==
  ASSUME NEW a, NEW R, NEW C, NEW bn, NEW ob, NEW wk, NEW U, World(a, R, C, bn, ob, wk, U),
         NEW bm, DOMAIN bm.runs = DOMAIN bn.runs, NextsAs(bn, bm, DOMAIN bn.runs)
  PROVE  World(a, R, C, bm, ob, wk, U)
<1>1. ObjectsOk(a, ob) /\ BinOk(a, bn) /\ Parted(a, R, C, bn, ob, wk, U)
  BY DEF World
<1>2. /\ R \cap Others(bn, ob, wk, U) = {} /\ DOMAIN ob \cap DOMAIN bn.runs = {}
      /\ DOMAIN ob \subseteq Others(bn, ob, wk, U) /\ DOMAIN bn.runs \subseteq Others(bn, ob, wk, U)
  BY <1>1 DEF Parted, Others
<1>3. BinOk(a, bm)
  BY <1>1 DEF BinOk, NextsAs
<1>4. /\ R \cup DOMAIN ob \cup DOMAIN bm.runs = R \cup DOMAIN ob \cup DOMAIN bn.runs
      /\ R \cap DOMAIN ob = {} /\ R \cap DOMAIN bm.runs = {} /\ DOMAIN ob \cap DOMAIN bm.runs = {}
  BY <1>2
<1> QED  BY <1>1, <1>3, <1>4, WorldHand

(* A run leaves the bin.                                                   *)
RunLeft(a, r, k) ==
  /\ r \in Pages /\ r \in Int /\ ~IsLarge(a, r) /\ Length(a, r) = RunPages
  /\ k \in 0 .. Regs /\ Unused(a, r, Past(k))

BinLess(bn, bm, r, k, S) ==
  /\ r \in DOMAIN bn.runs /\ k = bn.runs[r].next /\ S = {r}
  /\ DOMAIN bm.runs = DOMAIN bn.runs \ {r} /\ NextsAs(bn, bm, DOMAIN bm.runs)

LEMMA BinLeaves ==
  ASSUME NEW a, NEW N, N = {}, NEW C, NEW bn, NEW ob, NEW wk, NEW U, World(a, N, C, bn, ob, wk, U),
         NEW r, NEW k, NEW bm, NEW S, BinLess(bn, bm, r, k, S)
  PROVE  World(a, S, C, bm, ob, wk, U) /\ RunLeft(a, r, k)
<1>1. ObjectsOk(a, ob) /\ BinOk(a, bn) /\ Parted(a, N, C, bn, ob, wk, U)
  BY DEF World
<1>2. DOMAIN ob \cap DOMAIN bn.runs = {}
  BY <1>1 DEF Parted
<1> USE DEF BinLess
<1>3. BinOk(a, bm)
  BY <1>1 DEF BinOk, NextsAs
<1>4. /\ S \cup DOMAIN ob \cup DOMAIN bm.runs = N \cup DOMAIN ob \cup DOMAIN bn.runs
      /\ S \cap DOMAIN ob = {} /\ S \cap DOMAIN bm.runs = {} /\ DOMAIN ob \cap DOMAIN bm.runs = {}
  BY <1>2
<1>5. World(a, S, C, bm, ob, wk, U)
  BY <1>1, <1>3, <1>4, WorldHand
<1>6. r \in S
  OBVIOUS
<1>7. ~IsLarge(a, r) /\ k \in 0 .. Regs /\ Unused(a, r, Past(k))
  BY <1>1 DEF BinOk
<1>8. r \in Pages /\ r \in Int /\ Length(a, r) = RunPages
  BY <1>5, <1>6, <1>7, WorldOwns
<1> QED  BY <1>5, <1>7, <1>8 DEF RunLeft

(* A run comes to the bin.                                                 *)
LEMMA BinEnters ==
  ASSUME NEW a, NEW S, NEW C, NEW bn, NEW ob, NEW wk, NEW U, World(a, S, C, bn, ob, wk, U),
         NEW r, S = {r}, NEW k \in 0 .. Regs, ~IsLarge(a, r), Unused(a, r, Past(k)),
         NEW bm, DOMAIN bm.runs = DOMAIN bn.runs \cup {r}, NextsAs(bn, bm, DOMAIN bn.runs),
         bm.runs[r].next = k, NEW N, N = {}
  PROVE  World(a, N, C, bm, ob, wk, U)
<1>1. ObjectsOk(a, ob) /\ BinOk(a, bn) /\ Parted(a, S, C, bn, ob, wk, U)
  BY DEF World
<1>2. /\ DOMAIN ob \cap DOMAIN bn.runs = {} /\ r \notin DOMAIN ob
  BY <1>1 DEF Parted, Others
<1>3. BinOk(a, bm)
  BY <1>1 DEF BinOk, NextsAs
<1>4. /\ N \cup DOMAIN ob \cup DOMAIN bm.runs = S \cup DOMAIN ob \cup DOMAIN bn.runs
      /\ N \cap DOMAIN ob = {} /\ N \cap DOMAIN bm.runs = {} /\ DOMAIN ob \cap DOMAIN bm.runs = {}
  BY <1>2
<1> QED  BY <1>1, <1>3, <1>4, WorldHand

(* Regions of a run are written, up to the k-th.                           *)
Used(bn, bm, r, k) ==
  /\ r \in DOMAIN bn.runs /\ k \in 0 .. Regs /\ bn.runs[r].next <= k
  /\ DOMAIN bm.runs = DOMAIN bn.runs /\ NextsAs(bn, bm, DOMAIN bn.runs \ {r})
  /\ bm.runs[r].next = k

LEMMA RunWritten ==
  ASSUME NEW a, NEW N, N = {}, NEW C, NEW bn, NEW ob, NEW wk, NEW U, World(a, N, C, bn, ob, wk, U),
         NEW r, NEW k, NEW bm, Used(bn, bm, r, k), NEW b, b = Touch(a, Span(r, Past(k)))
  PROVE  World(b, N, C, bm, ob, wk, U) /\ b.npurgatory = a.npurgatory
<1> USE DEF Used
<1>1. PICK S, l, P : S = {r} /\ l = bn.runs[r].next /\ P = Span(r, Past(k))
  OBVIOUS
<1>2. PICK bl : bl = [runs |-> [p \in DOMAIN bn.runs \ {r} |-> bn.runs[p]]]
  OBVIOUS
<1>3. DOMAIN bl.runs = DOMAIN bn.runs \ {r} /\ \A p \in DOMAIN bl.runs : bl.runs[p] = bn.runs[p]
  BY <1>2
<1>4. NextsAs(bn, bl, DOMAIN bl.runs)
  BY <1>3 DEF NextsAs
<1>5. World(a, S, C, bl, ob, wk, U) /\ RunLeft(a, r, l)
  <2>1. BinLess(bn, bl, r, l, S)
    BY <1>1, <1>3, <1>4 DEF BinLess
  <2> QED  BY <2>1, BinLeaves
<1>16. b = Touch(a, P)
  BY <1>1
<1>6. /\ Past(k) \in Nat /\ Past(l) \in Nat /\ Past(l) <= Past(k) /\ Past(k) <= RunPages
      /\ r \in Int /\ Length(a, r) = RunPages /\ RunPages \in Nat /\ Unused(a, r, Past(l))
  BY <1>1, <1>5, PastIs, Numbers DEF RunLeft
<1>7. Within(a, r, P)
  BY <1>1, <1>6 DEF Within, Span
<1>8. r \in S
  BY <1>1
<1>9. World(b, S, C, bl, ob, wk, U) /\ Wrote(a, b, S, r, P)
  BY <1>5, <1>7, <1>8, <1>16, WorldTouch
<1>10. Same(a, b, r) /\ b.touched = a.touched \cup P /\ b.npurgatory = a.npurgatory
  BY <1>9 DEF Wrote
<1>11. Unused(b, r, Past(k))
  BY <1>1, <1>6, <1>10, UnusedTouched
<1>12. ~IsLarge(b, r)
  BY <1>5, <1>10 DEF IsLarge, Same, RunLeft
<1>13. DOMAIN bm.runs = DOMAIN bl.runs \cup {r}
  BY <1>3
<1>14. NextsAs(bl, bm, DOMAIN bl.runs)
  BY <1>3 DEF NextsAs
<1>15. World(b, N, C, bm, ob, wk, U)
  BY <1>1, <1>9, <1>11, <1>12, <1>13, <1>14, BinEnters
<1> QED  BY <1>10, <1>15

-----------------------------------------------------------------------------
(* The runs of the bin that have regions: in the tree, current, or in      *)
(* somebody's hand.  M are those taken out of the tree or about to enter   *)
(* it, within a step; H are those that are held between steps, which have  *)
(* all their regions.                                                      *)

Shape(bn) ==
  /\ IsBin(bn) /\ DOMAIN bn.runs \subseteq Pages
  /\ bn.cur \in DOMAIN bn.runs \cup {Null} /\ bn.tree \subseteq DOMAIN bn.runs
  /\ \A r \in DOMAIN bn.runs : RunRec(bn.runs[r])

Found(bn, M, H) ==
  /\ \A r \in DOMAIN bn.runs : NFree(bn, r) > 0 => r \in bn.tree \cup {bn.cur} \cup M \cup H
  /\ \A r \in bn.tree : NFree(bn, r) > 0 /\ r # bn.cur
  /\ \A r \in M : r \in DOMAIN bn.runs /\ NFree(bn, r) > 0 /\ r \notin bn.tree /\ r # bn.cur
  /\ \A r \in H : r \in DOMAIN bn.runs /\ NFree(bn, r) = Regs /\ r \notin bn.tree /\ r # bn.cur
  /\ M \cap H = {}

BinFine(bn, M, H) == Shape(bn) /\ Found(bn, M, H)

LEMMA NFreeIs ==
  ASSUME NEW bn, Shape(bn), NEW r \in DOMAIN bn.runs
  PROVE  /\ NFree(bn, r) = FreeIn(bn.runs[r]) /\ NFree(bn, r) \in Nat /\ NFree(bn, r) <= Regs
         /\ RunRec(bn.runs[r]) /\ r \in Int /\ r # Null
<1>1. RunRec(bn.runs[r]) /\ r \in Pages
  BY DEF Shape
<1>2. NFree(bn, r) = FreeIn(bn.runs[r])
  BY DEF NFree, FreeIn
<1>3. r \in Nat /\ Null \notin Nat
  BY <1>1, Numbers, ArenaAssumption DEF Pages
<1> QED  BY <1>1, <1>2, <1>3, FreeInIs

(* Only the current run or the tree changes.                               *)
Moves(bn, bm) == IsBin(bm) /\ bm.runs = bn.runs

LEMMA MovesShape ==
  ASSUME NEW bn, Shape(bn), NEW bm, Moves(bn, bm), bm.cur \in DOMAIN bn.runs \cup {Null},
         bm.tree \subseteq DOMAIN bn.runs
  PROVE  Shape(bm) /\ \A r \in DOMAIN bn.runs : NFree(bm, r) = NFree(bn, r)
BY DEF Shape, Moves, NFree

LEMMA UsableIs ==
  ASSUME NEW bn, Shape(bn), ~Usable(bn, bn.cur)
  PROVE  \A r \in DOMAIN bn.runs : NFree(bn, r) > 0 => r # bn.cur
<1>1. SUFFICES ASSUME NEW r \in DOMAIN bn.runs, NFree(bn, r) > 0, r = bn.cur PROVE FALSE
  OBVIOUS
<1>2. r # Null
  BY <1>1, NFreeIs
<1> QED  BY <1>1, <1>2 DEF Usable

(* A current run without regions is forgotten.                             *)
LEMMA CurNull ==
  ASSUME NEW bn, NEW M, NEW H, BinFine(bn, M, H), ~Usable(bn, bn.cur),
         NEW bm, bm = [bn EXCEPT !.cur = Null]
  PROVE  BinFine(bm, M, H) /\ Moves(bn, bm) /\ bm.cur = Null /\ bm.tree = bn.tree
<1>1. Shape(bn) /\ Found(bn, M, H)
  BY DEF BinFine
<1>2. IsBin(bm) /\ bm.runs = bn.runs /\ bm.cur = Null /\ bm.tree = bn.tree
  BY <1>1 DEF Shape, IsBin
<1>3. Shape(bm) /\ \A r \in DOMAIN bn.runs : NFree(bm, r) = NFree(bn, r)
  BY <1>1, <1>2, MovesShape DEF Moves, Shape
<1>4. \A r \in DOMAIN bn.runs : NFree(bn, r) > 0 => r # bn.cur
  BY <1>1, UsableIs
<1>5. \A r \in DOMAIN bn.runs : r # Null
  BY <1>1, NFreeIs
<1>6. bn.tree \subseteq DOMAIN bn.runs
  BY <1>1 DEF Shape
<1>7. Found(bm, M, H)
  BY <1>1, <1>2, <1>3, <1>4, <1>5, <1>6 DEF Found
<1> QED  BY <1>2, <1>3, <1>7 DEF BinFine, Moves

(* The lowest run of the tree is taken out of it.                          *)
LEMMA LowestIs ==
  ASSUME NEW bn, Shape(bn), NEW r, r = LowestRun(bn)
  PROVE  /\ (r = Null <=> bn.tree = {}) /\ (r # Null => r \in bn.tree /\ r \in DOMAIN bn.runs)
<1>1. bn.tree \in SUBSET Nat /\ bn.tree \subseteq DOMAIN bn.runs /\ Null \notin Nat
  BY ArenaAssumption, Numbers DEF Shape, Pages
<1>2. CASE bn.tree = {}
  BY <1>2 DEF LowestRun
<1>3. CASE bn.tree # {}
  <2>1. PICK S : S = bn.tree
    OBVIOUS
  <2>2. Min(S) \in S
    BY <1>1, <1>3, <2>1, MinIs
  <2>3. r = Min(S)
    BY <1>3, <2>1 DEF LowestRun
  <2> QED  BY <1>1, <1>3, <2>1, <2>2, <2>3
<1> QED  BY <1>2, <1>3

LEMMA LowestLeaves ==
  ASSUME NEW bn, NEW H, NEW N, N = {}, BinFine(bn, N, H), NEW r, r = LowestRun(bn), r # Null,
         NEW bm, bm = WithoutLowest(bn), NEW M, M = {r}
  PROVE  /\ BinFine(bm, M, H) /\ Moves(bn, bm) /\ bm.cur = bn.cur /\ r \in DOMAIN bn.runs
         /\ r # bn.cur /\ NFree(bm, r) = NFree(bn, r)
<1>1. Shape(bn) /\ Found(bn, N, H)
  BY DEF BinFine
<1>2. IsBin(bm) /\ bm.runs = bn.runs /\ bm.cur = bn.cur /\ bm.tree = bn.tree \ {r}
  BY <1>1 DEF Shape, IsBin, WithoutLowest
<1>3. Shape(bm) /\ \A q \in DOMAIN bn.runs : NFree(bm, q) = NFree(bn, q)
  BY <1>1, <1>2, MovesShape DEF Moves, Shape
<1>4. r \in bn.tree /\ r \in DOMAIN bn.runs
  BY <1>1, LowestIs
<1>5. bn.tree \subseteq DOMAIN bn.runs
  BY <1>1 DEF Shape
<1>6. Found(bm, M, H)
  BY <1>1, <1>2, <1>3, <1>4, <1>5 DEF Found
<1>7. r # bn.cur
  BY <1>1, <1>4 DEF Found
<1> QED  BY <1>2, <1>3, <1>4, <1>6, <1>7 DEF BinFine, Moves

LEMMA NoLowest ==
  ASSUME NEW bn, Shape(bn), LowestRun(bn) = Null
  PROVE  WithoutLowest(bn) = bn
<1>1. bn.tree = {}
  BY LowestIs
<1>2. PICK bm : bm = WithoutLowest(bn)
  OBVIOUS
<1>3. IsBin(bm) /\ bm.runs = bn.runs /\ bm.cur = bn.cur /\ bm.tree = {}
  BY <1>1, <1>2 DEF Shape, IsBin, WithoutLowest
<1> QED  BY <1>1, <1>2, <1>3 DEF Shape, IsBin

(* It becomes the current one.                                             *)
LEMMA CurRun ==
  ASSUME NEW bn, NEW H, NEW M, NEW r, M = {r}, BinFine(bn, M, H), ~Usable(bn, bn.cur),
         NEW bm, bm = [bn EXCEPT !.cur = r], NEW N, N = {}
  PROVE  /\ BinFine(bm, N, H) /\ Moves(bn, bm) /\ bm.cur = r /\ r \in DOMAIN bn.runs
         /\ NFree(bm, r) > 0
<1>1. Shape(bn) /\ Found(bn, M, H)
  BY DEF BinFine
<1>2. IsBin(bm) /\ bm.runs = bn.runs /\ bm.cur = r /\ bm.tree = bn.tree
  BY <1>1 DEF Shape, IsBin
<1>3. r \in DOMAIN bn.runs /\ NFree(bn, r) > 0 /\ r \notin bn.tree /\ r \notin H
  BY <1>1 DEF Found
<1>4. Shape(bm) /\ \A q \in DOMAIN bn.runs : NFree(bm, q) = NFree(bn, q)
  BY <1>1, <1>2, <1>3, MovesShape DEF Moves, Shape
<1>5. \A q \in DOMAIN bn.runs : NFree(bn, q) > 0 => q # bn.cur
  BY <1>1, UsableIs
<1>6. bn.tree \subseteq DOMAIN bn.runs
  BY <1>1 DEF Shape
<1>7. Found(bm, N, H)
  BY <1>1, <1>2, <1>3, <1>4, <1>5, <1>6 DEF Found
<1> QED  BY <1>2, <1>3, <1>4, <1>7 DEF BinFine, Moves

(* arena_bin_lower_run.                                                    *)
LEMMA LowerFine ==
  ASSUME NEW bn, NEW H, NEW M, NEW r, M = {r}, BinFine(bn, M, H),
         NEW bm, bm = LowerRun(bn, r), NEW N, N = {}
  PROVE  BinFine(bm, N, H) /\ Moves(bn, bm)
<1>1. Shape(bn) /\ Found(bn, M, H)
  BY DEF BinFine
<1>2. r \in DOMAIN bn.runs /\ NFree(bn, r) > 0 /\ r \notin bn.tree /\ r \notin H /\ r # bn.cur
  BY <1>1 DEF Found
<1>3. bn.tree \subseteq DOMAIN bn.runs /\ bn.cur \in DOMAIN bn.runs \cup {Null}
  BY <1>1 DEF Shape
<1>4. \A q \in DOMAIN bn.runs : q # Null /\ q \in Int
  BY <1>1, NFreeIs
<1>5. PICK cur, tree : cur = bn.cur /\ tree = bn.tree
  OBVIOUS
<1>6. CASE cur = Null
  <2>1. IsBin(bm) /\ bm.runs = bn.runs /\ bm.cur = r /\ bm.tree = tree
    BY <1>1, <1>5, <1>6 DEF Shape, IsBin, LowerRun
  <2>2. Shape(bm) /\ \A q \in DOMAIN bn.runs : NFree(bm, q) = NFree(bn, q)
    BY <1>1, <1>2, <1>3, <1>5, <2>1, MovesShape DEF Moves
  <2>3. Found(bm, N, H)
    BY <1>1, <1>2, <1>3, <1>4, <1>5, <1>6, <2>1, <2>2 DEF Found
  <2> QED  BY <2>1, <2>2, <2>3 DEF BinFine, Moves
<1>7. CASE cur # Null /\ r < cur
  <2>1. /\ IsBin(bm) /\ bm.runs = bn.runs /\ bm.cur = r
        /\ bm.tree = (IF NFree(bn, cur) > 0 THEN tree \cup {cur} ELSE tree)
    BY <1>1, <1>5, <1>7 DEF Shape, IsBin, LowerRun
  <2>2. bm.tree \subseteq DOMAIN bn.runs
    BY <1>3, <1>5, <1>7, <2>1
  <2>3. Shape(bm) /\ \A q \in DOMAIN bn.runs : NFree(bm, q) = NFree(bn, q)
    BY <1>1, <1>2, <2>1, <2>2, MovesShape DEF Moves
  <2>4. Found(bm, N, H)
    BY <1>1, <1>2, <1>3, <1>4, <1>5, <1>7, <2>1, <2>3 DEF Found
  <2> QED  BY <2>1, <2>3, <2>4 DEF BinFine, Moves
<1>8. CASE cur # Null /\ ~(r < cur)
  <2>1. IsBin(bm) /\ bm.runs = bn.runs /\ bm.cur = cur /\ bm.tree = tree \cup {r}
    BY <1>1, <1>5, <1>8 DEF Shape, IsBin, LowerRun
  <2>2. Shape(bm) /\ \A q \in DOMAIN bn.runs : NFree(bm, q) = NFree(bn, q)
    BY <1>1, <1>2, <1>3, <1>5, <2>1, MovesShape DEF Moves
  <2>3. Found(bm, N, H)
    BY <1>1, <1>2, <1>3, <1>4, <1>5, <1>8, <2>1, <2>2 DEF Found
  <2> QED  BY <2>1, <2>2, <2>3 DEF BinFine, Moves
<1> QED  BY <1>6, <1>7, <1>8

(* The record of one run changes.                                          *)
Changed(bn, bm, r, e) ==
  /\ IsBin(bm) /\ bm.cur = bn.cur /\ bm.tree = bn.tree
  /\ DOMAIN bm.runs = DOMAIN bn.runs /\ bm.runs[r] = e
  /\ \A q \in DOMAIN bn.runs : q # r => bm.runs[q] = bn.runs[q]

LEMMA RegAllocIs ==
  ASSUME NEW bn, IsBin(bn), NEW r \in DOMAIN bn.runs, NEW bm, bm = RegAlloc(bn, r),
         NEW e, e = RecAlloc(bn.runs[r])
  PROVE  Changed(bn, bm, r, e)
<1>1. PICK cur, tree, runs : cur = bn.cur /\ tree = bn.tree /\ runs = bn.runs
  OBVIOUS
<1>2. bn = [cur |-> cur, tree |-> tree, runs |-> runs] /\ r \in DOMAIN runs
  BY <1>1 DEF IsBin
<1>3. PICK g : g = [runs EXCEPT ![r] = e]
  OBVIOUS
<1>4. bm = [cur |-> cur, tree |-> tree, runs |-> g]
  BY <1>1, <1>2, <1>3 DEF RegAlloc, RecAlloc
<1>5. DOMAIN g = DOMAIN runs /\ g[r] = e /\ \A q \in DOMAIN runs : q # r => g[q] = runs[q]
  BY <1>2, <1>3
<1>6. bm.cur = cur /\ bm.tree = tree /\ bm.runs = g /\ IsBin(bm)
  BY <1>4 DEF IsBin
<1> QED  BY <1>1, <1>5, <1>6 DEF Changed

LEMMA RegDallocIs ==
  ASSUME NEW bn, IsBin(bn), NEW r \in DOMAIN bn.runs, NEW i, NEW bm, bm = RegDalloc(bn, r, i),
         NEW e, e = RecDalloc(bn.runs[r], i)
  PROVE  Changed(bn, bm, r, e)
<1>1. PICK cur, tree, runs : cur = bn.cur /\ tree = bn.tree /\ runs = bn.runs
  OBVIOUS
<1>2. bn = [cur |-> cur, tree |-> tree, runs |-> runs] /\ r \in DOMAIN runs
  BY <1>1 DEF IsBin
<1>3. PICK g : g = [runs EXCEPT ![r] = e]
  OBVIOUS
<1>4. bm = [cur |-> cur, tree |-> tree, runs |-> g]
  BY <1>1, <1>2, <1>3 DEF RegDalloc, RecDalloc
<1>5. DOMAIN g = DOMAIN runs /\ g[r] = e /\ \A q \in DOMAIN runs : q # r => g[q] = runs[q]
  BY <1>2, <1>3
<1>6. bm.cur = cur /\ bm.tree = tree /\ bm.runs = g /\ IsBin(bm)
  BY <1>4 DEF IsBin
<1> QED  BY <1>1, <1>5, <1>6 DEF Changed

LEMMA ChangedShape ==
  ASSUME NEW bn, Shape(bn), NEW bm, NEW r \in DOMAIN bn.runs, NEW e, Changed(bn, bm, r, e), RunRec(e)
  PROVE  /\ Shape(bm) /\ NFree(bm, r) = FreeIn(e)
         /\ \A q \in DOMAIN bn.runs : q # r => NFree(bm, q) = NFree(bn, q)
<1>1. Shape(bm)
  BY DEF Shape, Changed
<1>2. NFree(bm, r) = FreeIn(e)
  BY DEF NFree, FreeIn, Changed
<1>3. ASSUME NEW q \in DOMAIN bn.runs, q # r PROVE NFree(bm, q) = NFree(bn, q)
  BY <1>3 DEF NFree, Changed
<1> QED  BY <1>1, <1>2, <1>3

(* A region is taken from the current run.                                *)
LEMMA AllocFine ==
  ASSUME NEW bn, NEW M, NEW H, BinFine(bn, M, H), NEW r, r = bn.cur, Usable(bn, r),
         NEW bm, bm = RegAlloc(bn, r), NEW k, k = bm.runs[r].next
  PROVE  /\ BinFine(bm, M, H) /\ Used(bn, bm, r, k) /\ bm.cur = bn.cur /\ bm.tree = bn.tree
         /\ \A q \in DOMAIN bn.runs : q # r => NFree(bm, q) = NFree(bn, q)
<1>1. Shape(bn) /\ Found(bn, M, H) /\ IsBin(bn)
  BY DEF BinFine, Shape
<1>2. r \in DOMAIN bn.runs /\ NFree(bn, r) > 0 /\ bn.tree \subseteq DOMAIN bn.runs
  BY <1>1 DEF Shape, Usable
<1>3. PICK e, f : e = bn.runs[r] /\ f = RecAlloc(e)
  OBVIOUS
<1>4. RunRec(e) /\ FreeIn(e) > 0
  BY <1>1, <1>2, <1>3, NFreeIs
<1>5. RunRec(f) /\ f.next >= e.next
  BY <1>3, <1>4, RecAllocIs
<1>6. Changed(bn, bm, r, f)
  BY <1>1, <1>2, <1>3, RegAllocIs
<1>7. Shape(bm) /\ \A q \in DOMAIN bn.runs : q # r => NFree(bm, q) = NFree(bn, q)
  BY <1>1, <1>2, <1>5, <1>6, ChangedShape
<1>8. bm.cur = bn.cur /\ bm.tree = bn.tree /\ DOMAIN bm.runs = DOMAIN bn.runs /\ bm.runs[r] = f
      /\ \A q \in DOMAIN bn.runs : q # r => bm.runs[q] = bn.runs[q]
  BY <1>6 DEF Changed
<1>9. Found(bm, M, H)
  BY <1>1, <1>2, <1>7, <1>8 DEF Found
<1>10. k = f.next /\ k \in 0 .. Regs /\ e.next <= k
  <2>1. k = f.next
    BY <1>8
  <2>2. e.next \in Nat /\ f.next \in Nat /\ f.next \in 0 .. Regs
    BY <1>4, <1>5, FreeInIs DEF RunRec
  <2> QED  BY <1>5, <2>1, <2>2
<1>11. NextsAs(bn, bm, DOMAIN bn.runs \ {r})
  BY <1>8 DEF NextsAs
<1> QED  BY <1>2, <1>3, <1>7, <1>8, <1>9, <1>10, <1>11 DEF BinFine, Used

(* Runs are held, or not.                                                  *)
LEMMA HeldUsed ==
  ASSUME NEW bn, NEW N, N = {}, NEW H, BinFine(bn, N, H), NEW r \in H, NEW M, M = {r},
         NEW G, G = H \ {r}
  PROVE  BinFine(bn, M, G) /\ r \in DOMAIN bn.runs /\ r # bn.cur /\ NFree(bn, r) = Regs
<1>1. Shape(bn) /\ Found(bn, N, H)
  BY DEF BinFine
<1>2. r \in DOMAIN bn.runs /\ NFree(bn, r) = Regs /\ r \notin bn.tree /\ r # bn.cur /\ Regs > 0
  BY <1>1, Numbers DEF Found
<1>3. NFree(bn, r) > 0
  BY <1>2
<1>4. Found(bn, M, G)
  BY <1>1, <1>2, <1>3 DEF Found
<1> QED  BY <1>1, <1>2, <1>4 DEF BinFine

LEMMA UsedHeld ==
  ASSUME NEW bn, NEW M, NEW r, M = {r}, NEW H, BinFine(bn, M, H), NFree(bn, r) = Regs,
         NEW G, G = H \cup {r}, NEW N, N = {}
  PROVE  BinFine(bn, N, G)
BY DEF BinFine, Found

(* A run is given back to the arena.                                       *)
LEMMA DropFine ==
  ASSUME NEW bn, NEW N, N = {}, NEW H, BinFine(bn, N, H), NEW r \in H,
         NEW bm, bm = [bn EXCEPT !.runs = [p \in DOMAIN @ \ {r} |-> @[p]]],
         NEW G, G = H \ {r}, NEW S, S = {r}, NEW k, k = bn.runs[r].next
  PROVE  BinFine(bm, N, G) /\ BinLess(bn, bm, r, k, S)
<1>1. Shape(bn) /\ Found(bn, N, H)
  BY DEF BinFine
<1>2. PICK g : g = [p \in DOMAIN bn.runs \ {r} |-> bn.runs[p]]
  OBVIOUS
<1>3. IsBin(bm) /\ bm.cur = bn.cur /\ bm.tree = bn.tree /\ bm.runs = g
  BY <1>1, <1>2 DEF Shape, IsBin
<1>4. DOMAIN g = DOMAIN bn.runs \ {r} /\ \A p \in DOMAIN g : g[p] = bn.runs[p]
  BY <1>2
<1>5. \A p \in DOMAIN g : NFree(bm, p) = NFree(bn, p)
  BY <1>3, <1>4 DEF NFree
<1>6. r \in DOMAIN bn.runs /\ r \notin bn.tree /\ r # bn.cur
  BY <1>1 DEF Found
<1>7. Shape(bm)
  BY <1>1, <1>3, <1>4, <1>6 DEF Shape
<1>8. bn.tree \subseteq DOMAIN bn.runs
  BY <1>1 DEF Shape
<1>9. Found(bm, N, G)
  BY <1>1, <1>3, <1>4, <1>5, <1>6, <1>8 DEF Found
<1>10. BinLess(bn, bm, r, k, S)
  BY <1>3, <1>4, <1>6 DEF BinLess, NextsAs
<1> QED  BY <1>7, <1>9, <1>10 DEF BinFine

(* The arena has a run for the bin.                                        *)
LEMMA NewFound ==
  ASSUME NEW bn, NEW N, N = {}, NEW H, BinFine(bn, N, H), NEW r \in Pages, r \notin DOMAIN bn.runs,
         NEW bm, bm = NewBin(bn, r), NEW G, G = H \cup {r}
  PROVE  BinFine(bm, N, G)
<1>1. Shape(bn) /\ Found(bn, N, H) /\ IsBin(bn)
  BY DEF BinFine, Shape
<1>2. PICK e : e = [next |-> 0, avail |-> <<>>]
  OBVIOUS
<1>3. /\ IsBin(bm) /\ bm.cur = bn.cur /\ bm.tree = bn.tree
      /\ DOMAIN bm.runs = DOMAIN bn.runs \cup {r} /\ bm.runs[r] = e
      /\ \A p \in DOMAIN bn.runs : bm.runs[p] = bn.runs[p]
  BY <1>1, <1>2, NewBinIs
<1>4. RunRec(e) /\ e.next = 0 /\ Len(e.avail) = 0
  <2>1. e.next = 0 /\ e.avail = <<>> /\ e = [next |-> e.next, avail |-> e.avail]
    BY <1>2
  <2>2. IsInjective(<<>>) /\ <<>> \in Seq(0 .. 0 - 1) /\ 0 \in 0 .. Regs /\ Len(<<>>) = 0
    BY Numbers DEF IsInjective
  <2> QED  BY <2>1, <2>2 DEF RunRec
<1>5. NFree(bm, r) = Regs
  BY <1>3, <1>4, Numbers DEF NFree
<1>6. \A p \in DOMAIN bn.runs : NFree(bm, p) = NFree(bn, p)
  BY <1>3 DEF NFree
<1>7. Shape(bm)
  BY <1>1, <1>3, <1>4 DEF Shape
<1>8. bn.tree \subseteq DOMAIN bn.runs /\ bn.cur \in DOMAIN bn.runs \cup {Null} /\ r # Null
  BY <1>1, ArenaAssumption, Numbers DEF Shape, Pages
<1>9. Found(bm, N, G)
  BY <1>1, <1>3, <1>5, <1>6, <1>8 DEF Found
<1> QED  BY <1>7, <1>9 DEF BinFine

(* A region is given back.                                                 *)
Freer(bn, b, r) ==
  /\ Shape(b) /\ NFree(b, r) = NFree(bn, r) + 1 /\ NFree(bn, r) \in Nat /\ NFree(bn, r) < Regs
  /\ b.cur = bn.cur /\ b.tree = bn.tree /\ DOMAIN b.runs = DOMAIN bn.runs
  /\ \A q \in DOMAIN bn.runs : q # r => NFree(b, q) = NFree(bn, q)
  /\ NextsAs(bn, b, DOMAIN bn.runs)

LEMMA RegDallocFreer ==
  ASSUME NEW bn, Shape(bn), NEW r \in DOMAIN bn.runs, NEW i \in Held(bn, r),
         NEW b, b = RegDalloc(bn, r, i)
  PROVE  Freer(bn, b, r)
<1>1. PICK e, f : e = bn.runs[r] /\ f = RecDalloc(e, i)
  OBVIOUS
<1>2. RunRec(e) /\ NFree(bn, r) = FreeIn(e) /\ IsBin(bn)
  BY <1>1, NFreeIs DEF Shape
<1>3. i \in 0 .. e.next - 1 /\ \A k \in DOMAIN e.avail : e.avail[k] # i
  BY <1>1 DEF Held
<1>4. RunRec(f) /\ f.next = e.next /\ FreeIn(f) = FreeIn(e) + 1
  BY <1>1, <1>2, <1>3, RecDallocIs
<1>5. Changed(bn, b, r, f)
  BY <1>1, <1>2, RegDallocIs
<1>6. Shape(b) /\ NFree(b, r) = FreeIn(f) /\ \A q \in DOMAIN bn.runs : q # r => NFree(b, q) = NFree(bn, q)
  BY <1>4, <1>5, ChangedShape
<1>7. FreeIn(e) \in Nat /\ FreeIn(f) <= Regs /\ Regs \in Nat
  BY <1>2, <1>4, FreeInIs, Numbers
<1>8. NextsAs(bn, b, DOMAIN bn.runs)
  BY <1>1, <1>4, <1>5 DEF NextsAs, Changed
<1>9. NFree(bn, r) < Regs
  BY <1>2, <1>4, <1>7
<1> QED  BY <1>2, <1>4, <1>5, <1>6, <1>7, <1>8, <1>9 DEF Freer, Changed

(* A run that has all its regions again is out of the bin's reach.         *)
Joins(G, H, r) == G = H \cup {r}

Leaves(bn, bm, N, G) ==
  BinFine(bm, N, G) /\ DOMAIN bm.runs = DOMAIN bn.runs /\ NextsAs(bn, bm, DOMAIN bn.runs)

LEMMA DissociateFine ==
  ASSUME NEW bn, NEW N, N = {}, NEW H, BinFine(bn, N, H), NEW r \in DOMAIN bn.runs,
         NEW b, Freer(bn, b, r), NFree(b, r) = Regs, NEW bm, bm = Dissociate(b, r),
         NEW G, Joins(G, H, r)
  PROVE  Leaves(bn, bm, N, G) /\ r \notin H
<1>1. Shape(bn) /\ Found(bn, N, H)
  BY DEF BinFine
<1>2. /\ Shape(b) /\ NFree(b, r) = NFree(bn, r) + 1 /\ NFree(bn, r) \in Nat /\ NFree(bn, r) < Regs
      /\ b.cur = bn.cur /\ b.tree = bn.tree /\ DOMAIN b.runs = DOMAIN bn.runs
      /\ \A q \in DOMAIN bn.runs : q # r => NFree(b, q) = NFree(bn, q)
      /\ NextsAs(bn, b, DOMAIN bn.runs)
  BY DEF Freer
<1>3. r \notin H /\ Regs \in Nat
  BY <1>1, <1>2, Numbers DEF Found
<1> USE DEF Joins
<1>4. r # Null
  BY <1>1, NFreeIs
<1>5. /\ IsBin(bm) /\ bm.runs = b.runs /\ bm.cur = (IF r = b.cur THEN Null ELSE b.cur)
      /\ bm.tree = b.tree \ {r}
  <2>1. IsBin(b)
    BY <1>2 DEF Shape
  <2>2. CASE r = b.cur
    <3>1. r \notin b.tree
      BY <1>1, <1>2, <2>2 DEF Found
    <3> QED  BY <2>1, <2>2, <3>1 DEF Dissociate, IsBin
  <2>3. CASE r # b.cur /\ Regs # 1
    BY <2>1, <2>3 DEF Dissociate, IsBin
  <2>4. CASE r # b.cur /\ Regs = 1
    <3>1. NFree(bn, r) = 0
      <4>1. NFree(bn, r) \in Nat /\ NFree(bn, r) < 1
        BY <1>2, <2>4
      <4> QED  BY <4>1
    <3>2. r \notin b.tree
      BY <1>1, <1>2, <3>1 DEF Found
    <3> QED  BY <2>1, <2>4, <3>2 DEF Dissociate, IsBin
  <2> QED  BY <2>2, <2>3, <2>4
<1>6. bm.cur \in DOMAIN b.runs \cup {Null} /\ bm.tree \subseteq DOMAIN b.runs
  BY <1>2, <1>5 DEF Shape
<1>7. Shape(bm) /\ \A q \in DOMAIN b.runs : NFree(bm, q) = NFree(b, q)
  BY <1>2, <1>5, <1>6, MovesShape DEF Moves
<1>8. \A q \in DOMAIN bn.runs : q # Null
  BY <1>1, NFreeIs
<1>9. bn.tree \subseteq DOMAIN bn.runs
  BY <1>1 DEF Shape
<1>10. Found(bm, N, G)
  <2>1. ASSUME NEW q \in DOMAIN bm.runs, NFree(bm, q) > 0 PROVE q \in bm.tree \cup {bm.cur} \cup N \cup G
    <3>1. CASE q = r
      BY <3>1
    <3>2. CASE q # r
      <4>1. q \in DOMAIN bn.runs /\ NFree(bn, q) > 0
        BY <1>2, <1>5, <1>7, <2>1, <3>2
      <4>2. q \in bn.tree \cup {bn.cur} \cup N \cup H
        BY <1>1, <4>1 DEF Found
      <4> QED  BY <1>2, <1>5, <3>2, <4>2
    <3> QED  BY <3>1, <3>2
  <2>2. ASSUME NEW q \in bm.tree PROVE NFree(bm, q) > 0 /\ q # bm.cur
    <3>1. q \in bn.tree /\ q # r /\ q \in DOMAIN bn.runs
      BY <1>2, <1>5, <1>9
    <3> QED  BY <1>1, <1>2, <1>5, <1>7, <1>8, <3>1 DEF Found
  <2>3. ASSUME NEW q \in G
        PROVE  q \in DOMAIN bm.runs /\ NFree(bm, q) = Regs /\ q \notin bm.tree /\ q # bm.cur
    <3>1. CASE q = r
      BY <1>2, <1>4, <1>5, <1>7, <3>1
    <3>2. CASE q # r
      <4>1. q \in DOMAIN bn.runs /\ NFree(bn, q) = Regs /\ q \notin bn.tree /\ q # bn.cur
        BY <1>1, <3>2 DEF Found
      <4> QED  BY <1>2, <1>5, <1>7, <1>8, <3>2, <4>1
    <3> QED  BY <3>1, <3>2
  <2> QED  BY <2>1, <2>2, <2>3 DEF Found
<1>11. NextsAs(bn, bm, DOMAIN bn.runs)
  BY <1>2, <1>5 DEF NextsAs
<1> QED  BY <1>2, <1>3, <1>5, <1>7, <1>10, <1>11 DEF BinFine, Leaves

(* One that has a region again, and had none, is found again.              *)
LEMMA RegionBack ==
  ASSUME NEW bn, NEW N, N = {}, NEW H, BinFine(bn, N, H), NEW r \in DOMAIN bn.runs,
         NEW b, Freer(bn, b, r), NFree(b, r) # Regs,
         NEW bm, bm = (IF NFree(b, r) = 1 /\ r # bn.cur THEN LowerRun(b, r) ELSE b)
  PROVE  /\ BinFine(bm, N, H)
         /\ DOMAIN bm.runs = DOMAIN bn.runs /\ NextsAs(bn, bm, DOMAIN bn.runs)
<1>1. Shape(bn) /\ Found(bn, N, H)
  BY DEF BinFine
<1>2. /\ Shape(b) /\ NFree(b, r) = NFree(bn, r) + 1 /\ NFree(bn, r) \in Nat /\ NFree(bn, r) < Regs
      /\ b.cur = bn.cur /\ b.tree = bn.tree /\ DOMAIN b.runs = DOMAIN bn.runs
      /\ \A q \in DOMAIN bn.runs : q # r => NFree(b, q) = NFree(bn, q)
      /\ NextsAs(bn, b, DOMAIN bn.runs)
  BY DEF Freer
<1>3. r \notin H /\ Regs \in Nat
  BY <1>1, <1>2, Numbers DEF Found
<1>4. bn.tree \subseteq DOMAIN bn.runs
  BY <1>1 DEF Shape
<1>5. CASE NFree(b, r) = 1 /\ r # bn.cur
  <2>1. PICK M : M = {r}
    OBVIOUS
  <2>2. r \notin bn.tree
    BY <1>1, <1>2, <1>5 DEF Found
  <2>3. Found(b, M, H)
    BY <1>1, <1>2, <1>3, <1>4, <1>5, <2>1, <2>2 DEF Found
  <2>4. BinFine(b, M, H) /\ bm = LowerRun(b, r)
    BY <1>2, <1>5, <2>3 DEF BinFine
  <2>5. BinFine(bm, N, H) /\ Moves(b, bm)
    BY <2>1, <2>4, LowerFine
  <2> QED  BY <1>2, <2>5 DEF Moves, NextsAs
<1>6. CASE ~(NFree(b, r) = 1 /\ r # bn.cur)
  <2>1. bm = b
    BY <1>6
  <2>2. r \in bn.tree \cup {bn.cur}
    <3>1. CASE NFree(bn, r) > 0
      BY <1>1, <1>3, <3>1 DEF Found
    <3>2. CASE ~(NFree(bn, r) > 0)
      BY <1>2, <1>6, <3>2
    <3> QED  BY <3>1, <3>2
  <2>3. NFree(b, r) > 0
    BY <1>2
  <2>4. Found(b, N, H)
    BY <1>1, <1>2, <1>3, <1>4, <2>2, <2>3 DEF Found
  <2> QED  BY <1>2, <2>1, <2>4 DEF BinFine
<1> QED  BY <1>5, <1>6

-----------------------------------------------------------------------------
(* The runs that threads hold for the bin.                                 *)

Named(w, name) == {x \in Range(w) : x[1] = name}
Holds(w) == {x[2] : x \in Named(w, "drop")} \cup ({x[2] : x \in Named(w, "bin")} \ {Null})
HeldOf(wk, U) == UNION {Holds(wk[u]) : u \in U}

BinInv(bn, wk) ==
  /\ BinFine(bn, {}, HeldOf(wk, Threads))
  /\ \A t, u \in Threads : t # u => Holds(wk[t]) \cap Holds(wk[u]) = {}

LEMMA HoldsNothing ==
  ASSUME NEW w, \A x \in Range(w) : x[1] \notin {"bin", "drop"}
  PROVE  Holds(w) = {}
BY DEF Holds, Named

LEMMA RangeOne ==
  ASSUME NEW x
  PROVE  Range(<<x>>) = {x} /\ Range(<<>>) = {} /\ <<>> \in Seq({}) /\ <<x>> \in Seq({x})
<1>1. Range(<<x>>) = {x}
  BY DEF Range
<1>2. Range(<<>>) = {}
  BY DEF Range
<1> QED  BY <1>1, <1>2

LEMMA HoldsOne ==
  ASSUME NEW x, NEW w, Range(w) = {x}
  PROVE  /\ x[1] = "drop" => Holds(w) = {x[2]}
         /\ x[1] = "bin" => Holds(w) = {x[2]} \ {Null}
         /\ x[1] \notin {"bin", "drop"} => Holds(w) = {}
         /\ Holds(<<>>) = {}
<1>1. Range(w) = {x} /\ Range(<<>>) = {}
  BY RangeOne
<1>2. Holds(<<>>) = {}
  BY <1>1, HoldsNothing
<1>3. CASE x[1] = "drop"
  <2>1. Named(w, "drop") = {x} /\ Named(w, "bin") = {}
    BY <1>1, <1>3 DEF Named
  <2> QED  BY <1>2, <1>3, <2>1 DEF Holds
<1>4. CASE x[1] = "bin"
  <2>1. Named(w, "bin") = {x} /\ Named(w, "drop") = {}
    BY <1>1, <1>4 DEF Named
  <2> QED  BY <1>2, <1>4, <2>1 DEF Holds
<1>5. CASE x[1] \notin {"bin", "drop"}
  BY <1>1, <1>2, <1>5, HoldsNothing
<1> QED  BY <1>3, <1>4, <1>5

LEMMA HoldsBefore ==
  ASSUME NEW S, NEW v \in Seq(S), NEW x, x[1] \notin {"bin", "drop"}, NEW w, w = Before(x, v)
  PROVE  Holds(w) = Holds(v) /\ w \in Seq(S \cup {x})
<1>1. w = <<x>> \o v
  BY DEF Before
<1>2. /\ w \in Seq(S \cup {x}) /\ w[1] = x
      /\ \A i \in DOMAIN v : w[i + 1] = v[i]
      /\ DOMAIN w = 1 .. Len(v) + 1 /\ DOMAIN v = 1 .. Len(v) /\ Len(v) \in Nat
  BY <1>1, ConcatOne
<1>3. Range(w) = Range(v) \cup {x}
  <2>1. ASSUME NEW i \in DOMAIN w PROVE w[i] \in Range(v) \cup {x}
    <3>1. CASE i = 1
      BY <1>2, <3>1
    <3>2. CASE i # 1
      <4>1. i - 1 \in DOMAIN v /\ (i - 1) + 1 = i
        BY <1>2, <3>2
      <4>2. w[(i - 1) + 1] = v[i - 1]
        BY <1>2, <4>1
      <4> QED  BY <4>1, <4>2 DEF Range
    <3> QED  BY <3>1, <3>2
  <2>2. ASSUME NEW i \in DOMAIN v PROVE v[i] \in Range(w)
    <3>1. i + 1 \in DOMAIN w /\ w[i + 1] = v[i]
      BY <1>2
    <3> QED  BY <3>1 DEF Range
  <2>3. x \in Range(w)
    <3>1. 1 \in DOMAIN w /\ w[1] = x
      BY <1>2
    <3> QED  BY <3>1 DEF Range
  <2>4. ASSUME NEW y \in Range(w) PROVE y \in Range(v) \cup {x}
    <3>1. PICK i \in DOMAIN w : w[i] = y
      BY DEF Range
    <3> QED  BY <2>1, <3>1
  <2>5. ASSUME NEW y \in Range(v) PROVE y \in Range(w)
    <3>1. PICK i \in DOMAIN v : v[i] = y
      BY DEF Range
    <3> QED  BY <2>2, <3>1
  <2> QED  BY <2>3, <2>4, <2>5
<1>4. Named(w, "drop") = Named(v, "drop") /\ Named(w, "bin") = Named(v, "bin")
  BY <1>3 DEF Named
<1> QED  BY <1>2, <1>4 DEF Holds

(* Thread t has its own, and the other threads have theirs.                *)
BinParts(bn, G, H) == \E N, J : N = {} /\ J = G \cup H /\ BinFine(bn, N, J) /\ G \cap H = {}

LEMMA BinPart ==
  ASSUME NEW bn, NEW wk, BinInv(bn, wk), NEW t \in Threads, NEW G, G = Holds(wk[t]),
         NEW H, H = HeldOf(wk, But(t))
  PROVE  BinParts(bn, G, H)
<1>1. HeldOf(wk, Threads) = G \cup H
  BY DEF HeldOf, But
<1>2. G \cap H = {}
  BY DEF HeldOf, But, BinInv
<1> QED  BY <1>1, <1>2 DEF BinParts, BinInv

LEMMA BinJoin ==
  ASSUME NEW bn, NEW wk, BinInv(bn, wk), Workers(wk), NEW t \in Threads,
         NEW H, H = HeldOf(wk, But(t)), NEW w, NEW G, G = Holds(w), NEW bm, BinParts(bm, G, H),
         NEW wl, wl = [wk EXCEPT ![t] = w]
  PROVE  BinInv(bm, wl)
<1>1. wl[t] = w /\ \A u \in But(t) : wl[u] = wk[u]
  BY DEF But, Workers
<1>2. HeldOf(wl, Threads) = G \cup H
  BY <1>1 DEF HeldOf, But
<1>3. BinFine(bm, {}, HeldOf(wl, Threads)) /\ G \cap H = {}
  BY <1>2 DEF BinParts
<1>4. \A u \in But(t) : Holds(wk[u]) \subseteq H
  BY DEF HeldOf
<1>5. ASSUME NEW u \in Threads, NEW v \in Threads, u # v PROVE Holds(wl[u]) \cap Holds(wl[v]) = {}
  <2>1. CASE u = t
    BY <1>1, <1>3, <1>4, <1>5, <2>1 DEF But
  <2>2. CASE v = t
    BY <1>1, <1>3, <1>4, <1>5, <2>2 DEF But
  <2>3. CASE u # t /\ v # t
    BY <1>1, <1>5, <2>3 DEF But, BinInv
  <2> QED  BY <2>1, <2>2, <2>3
<1> QED  BY <1>3, <1>5 DEF BinInv

(* A step that does not touch the bin, nor what is held for it.            *)
Quiet(t) == bin' = bin /\ \E w : work' = [work EXCEPT ![t] = w] /\ Holds(w) = Holds(work[t])

LEMMA QuietBin ==
  ASSUME BinInv(bin, work), Workers(work), NEW t \in Threads, Quiet(t)
  PROVE  BinInv(bin', work')
<1>1. PICK w : work' = [work EXCEPT ![t] = w] /\ Holds(w) = Holds(work[t])
  BY DEF Quiet
<1>2. PICK bn, wk, wl, G, H : bn = bin /\ wk = work /\ wl = work' /\ G = Holds(wk[t]) /\ H = HeldOf(wk, But(t))
  OBVIOUS
<1>3. BinInv(bn, wk) /\ Workers(wk)
  BY <1>2
<1>4. BinParts(bn, G, H)
  BY <1>2, <1>3, BinPart
<1>5. G = Holds(w) /\ wl = [wk EXCEPT ![t] = w] /\ H = HeldOf(wk, But(t))
  BY <1>1, <1>2
<1>6. BinInv(bn, wl)
  BY <1>3, <1>4, <1>5, BinJoin
<1> QED  BY <1>2, <1>6 DEF Quiet

(* The task of a thread that comes last is its only one.                   *)
LEMMA OnlyTask ==
  ASSUME ArenaOk, NEW t \in Threads, NEW name, Task(t, name), name \in {"map", "run", "bin", "drop", "tail"},
         NEW x, x = work[t][1]
  PROVE  Range(work[t]) = {x}
<1>1. PICK v, T, w : v = Rest(t) /\ T = Range(v) /\ w = work[t]
  OBVIOUS
<1>2. TaskFacts(t, x, v, T, name)
  BY <1>1, TaskIs
<1>3. T = {}
  <2>1. Rank(x) = 5 /\ \A y \in T : Rank(x) < Rank(y)
    BY <1>2 DEF TaskFacts, Rank
  <2>2. \A y \in T : FALSE
    BY <2>1 DEF Rank
  <2> QED  BY <2>2
<1>4. ListOk(w)
  <2>1. Begun(t, Range(w))
    BY <1>1, Begin
  <2> QED  BY <1>1, <2>1 DEF Begun
<1>5. FirstOf(w, x, v)
  BY <1>1 DEF FirstOf, Rest, Task, Idle
<1>6. Popped(w, x, v, T)
  BY <1>1, <1>4, <1>5, ListPop
<1> QED  BY <1>1, <1>3, <1>6 DEF Popped

(* What a thread holds for the bin when it has a task to do.               *)
LEMMA TaskHolds ==
  ASSUME ArenaOk, NEW t \in Threads, NEW name, Task(t, name), name \in {"map", "run", "bin", "drop", "tail"}
  PROVE  /\ name = "drop" => Holds(work[t]) = {Arg(t)}
         /\ name = "bin" => Holds(work[t]) = {Arg(t)} \ {Null}
         /\ name \notin {"bin", "drop"} => Holds(work[t]) = {}
<1>1. PICK x, w : x = work[t][1] /\ w = work[t]
  OBVIOUS
<1>2. x[1] = name /\ Arg(t) = x[2]
  BY <1>1 DEF Task, Arg
<1>3. Range(w) = {x}
  BY <1>1, OnlyTask
<1> QED  BY <1>1, <1>2, <1>3, HoldsOne

LEMMA IdleHolds ==
  ASSUME NEW t, Idle(t)
  PROVE  Holds(work[t]) = {}
BY RangeOne, HoldsOne DEF Idle

(* What a step on the bin comes to, before the tasks are set.              *)
BinEnds(a, bm, ob, G, t) ==
  /\ World(a, {}, {}, bm, ob, work, But(t))
  /\ BinParts(bm, G, HeldOf(work, But(t)))

BothEnded(bm, ob) == StepEnded(bm, ob) /\ BinInv(bm, work')

LEMMA BothNone ==
  ASSUME ArenaOk, BinInv(bin, work), NEW t \in Threads, NEW a, arena' = a, NEW bm, NEW ob,
         NEW G, G = {}, BinEnds(a, bm, ob, G, t), work' = [work EXCEPT ![t] = <<>>]
  PROVE  BothEnded(bm, ob)
<1>1. PICK R : R = {}
  OBVIOUS
<1>2. World(a, R, R, bm, ob, work, But(t))
  BY <1>1 DEF BinEnds
<1>3. StepEnded(bm, ob)
  BY <1>1, <1>2, EndNone
<1>4. PICK bn, wk, wl, H, w : bn = bin /\ wk = work /\ wl = work' /\ H = HeldOf(wk, But(t)) /\ w = <<>>
  OBVIOUS
<1>5. BinInv(bn, wk) /\ Workers(wk) /\ BinParts(bm, G, H) /\ wl = [wk EXCEPT ![t] = w]
  BY <1>4 DEF BinEnds, ArenaOk
<1>6. G = Holds(w)
  <2>1. Range(<<t>>) = {t}
    BY RangeOne
  <2> QED  BY <1>4, <2>1, HoldsOne
<1>7. BinInv(bm, wl)
  BY <1>4, <1>5, <1>6, BinJoin
<1> QED  BY <1>3, <1>4, <1>7 DEF BothEnded

LEMMA BothOne ==
  ASSUME ArenaOk, BinInv(bin, work), NEW t \in Threads, NEW a, arena' = a, NEW bm, NEW ob,
         NEW x, TaskOk(x), x[1] \in Plain, NEW G, G = Holds(<<x>>),
         BinEnds(a, bm, ob, G, t), work' = [work EXCEPT ![t] = <<x>>]
  PROVE  BothEnded(bm, ob)
<1>1. PICK R : R = {}
  OBVIOUS
<1>2. World(a, R, R, bm, ob, work, But(t))
  BY <1>1 DEF BinEnds
<1>3. StepEnded(bm, ob)
  BY <1>1, <1>2, EndOne
<1>4. PICK bn, wk, wl, H, w : bn = bin /\ wk = work /\ wl = work' /\ H = HeldOf(wk, But(t)) /\ w = <<x>>
  OBVIOUS
<1>5. BinInv(bn, wk) /\ Workers(wk) /\ BinParts(bm, G, H) /\ wl = [wk EXCEPT ![t] = w]
  BY <1>4 DEF BinEnds, ArenaOk
<1>6. G = Holds(w)
  BY <1>4
<1>7. BinInv(bm, wl)
  BY <1>4, <1>5, <1>6, BinJoin
<1> QED  BY <1>3, <1>4, <1>7 DEF BothEnded

(* A region of the current run, and the pages it lies on.                  *)
Took(a, b, bn, bm, M, H, ob, wk, U, r) ==
  /\ BinFine(bm, M, H) /\ World(b, {}, {}, bm, ob, wk, U) /\ b.npurgatory = a.npurgatory
  /\ \A q \in DOMAIN bn.runs : q # r => NFree(bm, q) = NFree(bn, q)

LEMMA TakesFine ==
  ASSUME NEW a, NEW N, N = {}, NEW bn, NEW ob, NEW wk, NEW U, World(a, N, N, bn, ob, wk, U),
         NEW M, NEW H, BinFine(bn, M, H), NEW r, r = bn.cur, Usable(bn, r),
         NEW bm, bm = RegAlloc(bn, r), NEW b, b = Touch(a, Span(r, Past(bm.runs[r].next)))
  PROVE  Took(a, b, bn, bm, M, H, ob, wk, U, r)
<1>1. PICK k, P : k = bm.runs[r].next /\ P = Span(r, Past(k))
  OBVIOUS
<1>2. /\ BinFine(bm, M, H) /\ Used(bn, bm, r, k)
      /\ \A q \in DOMAIN bn.runs : q # r => NFree(bm, q) = NFree(bn, q)
  BY <1>1, AllocFine
<1>3. World(b, N, N, bm, ob, wk, U) /\ b.npurgatory = a.npurgatory
  <2>1. b = Touch(a, Span(r, Past(k)))
    BY <1>1
  <2> QED  BY <1>2, <2>1, RunWritten
<1> QED  BY <1>2, <1>3 DEF Took

(* Only the current run or the tree changes: to the arena that is nothing. *)
LEMMA WorldMoved ==
  ASSUME NEW a, NEW N, N = {}, NEW bn, NEW ob, NEW wk, NEW U, World(a, N, N, bn, ob, wk, U),
         NEW bm, Moves(bn, bm)
  PROVE  World(a, N, N, bm, ob, wk, U)
<1>1. DOMAIN bm.runs = DOMAIN bn.runs /\ NextsAs(bn, bm, DOMAIN bn.runs)
  BY DEF Moves, NextsAs
<1> QED  BY <1>1, WorldBin

(* Calls for small regions.                                                *)
BothKept(n) == BothEnded(bin', objects') /\ arena'.npurgatory = n

(* What a call that begins on the bin finds.                               *)
LEMMA BeginBin ==
  ASSUME ArenaOk, BinInv(bin, work), NEW t \in Threads, Idle(t), NEW H, H = HeldOf(work, But(t)),
         NEW N, N = {}
  PROVE  World(arena, N, N, bin, objects, work, But(t)) /\ BinFine(bin, N, H)
<1>1. PICK G : G = Holds(work[t])
  OBVIOUS
<1>2. G = {}
  BY <1>1, IdleHolds
<1>3. PICK bn, wk : bn = bin /\ wk = work
  OBVIOUS
<1>4. BinParts(bn, G, H)
  BY <1>1, <1>3, BinPart
<1>5. G \cup H = H
  BY <1>2
<1>6. BinFine(bn, {}, H)
  BY <1>4, <1>5 DEF BinParts
<1> QED  BY <1>3, <1>6, BeginIdle

LEMMA BinEndsWith ==
  ASSUME NEW a, NEW bm, NEW ob, NEW wk, wk = work, NEW t, NEW H, H = HeldOf(wk, But(t)), NEW N, N = {},
         World(a, N, N, bm, ob, wk, But(t)), NEW G, NEW J, J = G \cup H, BinFine(bm, N, J), G \cap H = {}
  PROVE  BinEnds(a, bm, ob, G, t)
BY DEF BinEnds, BinParts

LEMMA StepMallocSmall ==
  ASSUME ArenaOk, BinInv(bin, work), NEW t \in Threads, arena_malloc_small(t)
  PROVE  BothKept(arena.npurgatory)
<1>1. PICK a, bn, ob, wk, V : a = arena /\ bn = bin /\ ob = objects /\ wk = work /\ V = But(t)
  OBVIOUS
<1>2. PICK N, H : N = {} /\ H = HeldOf(wk, V)
  OBVIOUS
<1>3. Idle(t) /\ objects' = ob
  BY <1>1 DEF arena_malloc_small
<1>4. World(a, N, N, bn, ob, wk, V) /\ BinFine(bn, N, H)
  BY <1>1, <1>2, <1>3, BeginBin
<1>5. ASSUME NEW c, World(a, N, N, c, ob, wk, V), BinFine(c, N, H), NEW r, r = c.cur, Usable(c, r),
             TakesRegion(c, r), work' = work
      PROVE  BothKept(arena.npurgatory)
  <2>1. PICK bm, b : bm = RegAlloc(c, r) /\ b = Touch(a, Span(r, Past(bm.runs[r].next)))
    OBVIOUS
  <2>2. bin' = bm /\ arena' = b
    BY <1>1, <1>5, <2>1 DEF TakesRegion
  <2>3. Took(a, b, c, bm, N, H, ob, wk, V, r)
    BY <1>2, <1>5, <2>1, TakesFine
  <2>4. World(b, N, N, bm, ob, wk, V) /\ BinFine(bm, N, H) /\ b.npurgatory = a.npurgatory
    BY <1>2, <2>3 DEF Took
  <2>5. PICK G, J : G = {} /\ J = G \cup H
    OBVIOUS
  <2>6. J = H /\ G \cap H = {}
    BY <2>5
  <2>7. BinEnds(b, bm, ob, G, t)
    <3>1. World(b, N, N, bm, ob, wk, But(t)) /\ H = HeldOf(wk, But(t)) /\ BinFine(bm, N, J)
      BY <1>1, <1>2, <2>4, <2>6
    <3> QED  BY <1>1, <1>2, <2>5, <2>6, <3>1, BinEndsWith
  <2>8. work' = [work EXCEPT ![t] = <<>>]
    BY <1>3, <1>5, IdleStays
  <2>9. BothEnded(bm, ob)
    BY <2>2, <2>5, <2>7, <2>8, BothNone
  <2> QED  BY <1>1, <1>3, <2>2, <2>4, <2>9 DEF BothKept
<1>6. PICK b, r : b = [bn EXCEPT !.cur = Null] /\ r = LowestRun(b)
  OBVIOUS
<1>7. CASE Usable(bn, bn.cur)
  <2>1. PICK q : q = bn.cur
    OBVIOUS
  <2>2. TakesRegion(bn, q) /\ work' = work /\ Usable(bn, q)
    BY <1>1, <1>7, <2>1 DEF arena_malloc_small
  <2> QED  BY <1>4, <1>5, <2>1, <2>2
<1>8. ASSUME ~Usable(bn, bn.cur)
      PROVE  BinFine(b, N, H) /\ World(a, N, N, b, ob, wk, V) /\ b.cur = Null /\ ~Usable(b, b.cur)
  <2>1. BinFine(b, N, H) /\ Moves(bn, b) /\ b.cur = Null
    BY <1>4, <1>6, <1>8, CurNull
  <2>2. World(a, N, N, b, ob, wk, V)
    BY <1>2, <1>4, <2>1, WorldMoved
  <2> QED  BY <2>1, <2>2 DEF Usable
<1>9. CASE ~Usable(bn, bn.cur) /\ r # Null
  <2>1. PICK M, c, d : M = {r} /\ c = WithoutLowest(b) /\ d = [c EXCEPT !.cur = r]
    OBVIOUS
  <2>2. BinFine(c, M, H) /\ Moves(b, c) /\ c.cur = b.cur
    <3>1. N = {} /\ BinFine(b, N, H)
      BY <1>2, <1>8, <1>9
    <3>2. r = LowestRun(b) /\ r # Null
      BY <1>6, <1>9
    <3>3. c = WithoutLowest(b)
      BY <2>1
    <3>4. M = {r}
      BY <2>1
    <3> QED  BY <3>1, <3>2, <3>3, <3>4, LowestLeaves
  <2>3. ~Usable(c, c.cur)
    BY <1>8, <1>9, <2>2 DEF Usable
  <2>4. BinFine(d, N, H) /\ Moves(c, d) /\ d.cur = r /\ NFree(d, r) > 0
    BY <1>2, <2>1, <2>2, <2>3, CurRun
  <2>5. World(a, N, N, c, ob, wk, V)
    BY <1>2, <1>8, <1>9, <2>2, WorldMoved
  <2>6. World(a, N, N, d, ob, wk, V)
    BY <1>2, <2>4, <2>5, WorldMoved
  <2>7. Usable(d, r) /\ r = d.cur
    BY <1>9, <2>4 DEF Usable
  <2>8. TakesRegion(d, r) /\ work' = work
    BY <1>1, <1>6, <1>9, <2>1 DEF arena_malloc_small
  <2> QED  BY <1>5, <2>4, <2>6, <2>7, <2>8
<1>10. CASE ~Usable(bn, bn.cur) /\ r = Null
  <2>1. PICK x : x = <<"run">>
    OBVIOUS
  <2>2. bin' = b /\ work' = [work EXCEPT ![t] = <<x>>] /\ arena' = a
    BY <1>1, <1>6, <1>10, <2>1 DEF arena_malloc_small
  <2>3. TaskOk(x) /\ x[1] \in Plain /\ x[1] \notin {"bin", "drop"}
    BY <2>1 DEF TaskOk, Plain
  <2>4. PICK G, J : G = Holds(<<x>>) /\ J = G \cup H
    OBVIOUS
  <2>5. Range(<<x>>) = {x}
    BY RangeOne
  <2>6. G = {}
    BY <2>3, <2>4, <2>5, HoldsOne
  <2>7. J = H /\ G \cap H = {}
    BY <2>4, <2>6
  <2>8. BinEnds(a, b, ob, G, t)
    <3>1. World(a, N, N, b, ob, wk, But(t)) /\ H = HeldOf(wk, But(t)) /\ BinFine(b, N, J)
      BY <1>1, <1>2, <1>8, <1>10, <2>7
    <3> QED  BY <1>1, <1>2, <2>4, <2>7, <3>1, BinEndsWith
  <2>9. BothEnded(b, ob)
    BY <2>2, <2>3, <2>4, <2>8, BothOne
  <2> QED  BY <1>1, <1>3, <2>2, <2>9 DEF BothKept
<1> QED  BY <1>7, <1>9, <1>10

LEMMA StepDallocBin ==
  ASSUME ArenaOk, BinInv(bin, work), NEW t \in Threads, NEW r \in DOMAIN bin.runs, NEW i \in Held(bin, r),
         arena_dalloc_bin(t, r, i)
  PROVE  BothKept(arena.npurgatory)
<1>1. PICK a, bn, ob, wk, V : a = arena /\ bn = bin /\ ob = objects /\ wk = work /\ V = But(t)
  OBVIOUS
<1>2. PICK N, H, b : N = {} /\ H = HeldOf(wk, V) /\ b = RegDalloc(bn, r, i)
  OBVIOUS
<1>3. Idle(t) /\ objects' = ob /\ arena' = a
  BY <1>1 DEF arena_dalloc_bin
<1>4. World(a, N, N, bn, ob, wk, V) /\ BinFine(bn, N, H)
  BY <1>1, <1>2, <1>3, BeginBin
<1>5. r \in DOMAIN bn.runs /\ i \in Held(bn, r) /\ Shape(bn)
  BY <1>1, <1>4 DEF BinFine
<1>6. Freer(bn, b, r)
  BY <1>2, <1>5, RegDallocFreer
<1>7. CASE NFree(b, r) = Regs
  <2>1. PICK bm, x, G, J : bm = Dissociate(b, r) /\ x = <<"drop", r>> /\ G = Holds(<<x>>) /\ J = H \cup {r}
    OBVIOUS
  <2>2. bin' = bm /\ work' = [work EXCEPT ![t] = <<x>>]
    BY <1>1, <1>2, <1>7, <2>1 DEF arena_dalloc_bin
  <2>3. BinFine(bm, N, J) /\ r \notin H /\ DOMAIN bm.runs = DOMAIN bn.runs /\ NextsAs(bn, bm, DOMAIN bn.runs)
    <3>1. N = {} /\ BinFine(bn, N, H)
      BY <1>2, <1>4
    <3>2. r \in DOMAIN bn.runs /\ Freer(bn, b, r) /\ NFree(b, r) = Regs
      BY <1>5, <1>6, <1>7
    <3>3. bm = Dissociate(b, r)
      BY <2>1
    <3>4. Joins(J, H, r)
      BY <2>1 DEF Joins
    <3>5. Leaves(bn, bm, N, J) /\ r \notin H
      BY <3>1, <3>2, <3>3, <3>4, DissociateFine
    <3> QED  BY <3>5 DEF Leaves
  <2>4. World(a, N, N, bm, ob, wk, V)
    BY <1>4, <2>3, WorldBin
  <2>5. TaskOk(x) /\ x[1] \in Plain /\ x[1] = "drop" /\ x[2] = r
    BY <2>1 DEF TaskOk, Plain
  <2>6. Range(<<x>>) = {x}
    BY RangeOne
  <2>7. G = {r}
    BY <2>1, <2>5, <2>6, HoldsOne
  <2>8. J = G \cup H /\ G \cap H = {}
    BY <2>1, <2>3, <2>7
  <2>9. BinEnds(a, bm, ob, G, t)
    <3>1. World(a, N, N, bm, ob, wk, But(t)) /\ H = HeldOf(wk, But(t))
      BY <1>1, <1>2, <2>4
    <3> QED  BY <1>1, <1>2, <2>3, <2>8, <3>1, BinEndsWith
  <2>10. BothEnded(bm, ob)
    BY <1>3, <2>1, <2>2, <2>5, <2>9, BothOne
  <2> QED  BY <1>1, <1>3, <2>2, <2>10 DEF BothKept
<1>8. CASE NFree(b, r) # Regs
  <2>1. PICK bm : bm = (IF NFree(b, r) = 1 /\ r # bn.cur THEN LowerRun(b, r) ELSE b)
    OBVIOUS
  <2>2. bin' = bm /\ work' = work
    BY <1>1, <1>2, <1>8, <2>1 DEF arena_dalloc_bin
  <2>3. BinFine(bm, N, H) /\ DOMAIN bm.runs = DOMAIN bn.runs /\ NextsAs(bn, bm, DOMAIN bn.runs)
    BY <1>2, <1>4, <1>5, <1>6, <1>8, <2>1, RegionBack
  <2>4. World(a, N, N, bm, ob, wk, V)
    BY <1>4, <2>3, WorldBin
  <2>5. PICK G, J : G = {} /\ J = G \cup H
    OBVIOUS
  <2>6. J = H /\ G \cap H = {}
    BY <2>5
  <2>7. BinEnds(a, bm, ob, G, t)
    <3>1. World(a, N, N, bm, ob, wk, But(t)) /\ H = HeldOf(wk, But(t)) /\ BinFine(bm, N, J)
      BY <1>1, <1>2, <2>3, <2>4, <2>6
    <3> QED  BY <1>1, <1>2, <2>5, <2>6, <3>1, BinEndsWith
  <2>8. work' = [work EXCEPT ![t] = <<>>]
    BY <1>3, <2>2, IdleStays
  <2>9. BothEnded(bm, ob)
    BY <1>3, <2>2, <2>5, <2>7, <2>8, BothNone
  <2> QED  BY <1>1, <1>3, <2>2, <2>9 DEF BothKept
<1> QED  BY <1>7, <1>8

(* arena_bin_nonfull_run_get is back with a run, or without one.           *)
RefillFrom(b, r, H) ==
  \/ r = Null /\ b = bin /\ \E N : N = {} /\ BinFine(b, N, H)
  \/ r # Null /\ Moves(bin, b) /\ \E M : M = {r} /\ BinFine(b, M, H)

LEMMA RefillBegins ==
  ASSUME ArenaOk, BinInv(bin, work), NEW t \in Threads, Task(t, "bin"), NEW got, got = Arg(t),
         NEW r, r = (IF got # Null THEN got ELSE LowestRun(bin)),
         NEW b, b = (IF got # Null THEN bin ELSE WithoutLowest(bin)),
         NEW H, H = HeldOf(work, But(t))
  PROVE  RefillFrom(b, r, H)
<1>1. PICK bn, wk, G, J, N, name : /\ bn = bin /\ wk = work /\ G = Holds(work[t]) /\ J = G \cup H /\ N = {}
                                   /\ name = "bin"
  OBVIOUS
<1>2. G = {got} \ {Null}
  BY <1>1, TaskHolds
<1>3. BinParts(bn, G, H)
  BY <1>1, BinPart
<1>4. BinFine(bn, N, J) /\ G \cap H = {}
  BY <1>1, <1>3 DEF BinParts
<1>5. Shape(bn) /\ Moves(bn, bn)
  BY <1>4 DEF BinFine, Shape, Moves
<1>6. CASE got # Null
  <2>1. PICK M : M = {r}
    OBVIOUS
  <2>2. b = bn /\ r = got /\ r # Null
    BY <1>1, <1>6
  <2>3. r \in J /\ H = J \ {r}
    BY <1>1, <1>2, <1>4, <1>6, <2>2
  <2>4. BinFine(bn, M, H)
    BY <1>1, <1>4, <2>1, <2>3, HeldUsed
  <2> QED  BY <1>1, <1>5, <2>1, <2>2, <2>4 DEF RefillFrom
<1>7. CASE got = Null
  <2>1. r = LowestRun(bn) /\ b = WithoutLowest(bn)
    BY <1>1, <1>7
  <2>2. J = H
    BY <1>1, <1>2, <1>7
  <2>3. CASE r = Null
    <3>1. b = bn
      BY <1>5, <2>1, <2>3, NoLowest
    <3> QED  BY <1>1, <1>4, <2>2, <2>3, <3>1 DEF RefillFrom
  <2>4. CASE r # Null
    <3>1. PICK M : M = {r}
      OBVIOUS
    <3>2. BinFine(bn, N, H) /\ N = {}
      BY <1>1, <1>4, <2>2
    <3>3. BinFine(b, M, H) /\ Moves(bn, b)
      BY <2>1, <2>4, <3>1, <3>2, LowestLeaves
    <3> QED  BY <1>1, <2>4, <3>1, <3>3 DEF RefillFrom
  <2> QED  BY <2>3, <2>4
<1> QED  BY <1>6, <1>7

(* The step ends with a bin in which all is found.                         *)
LEMMA RefillEnds ==
  ASSUME ArenaOk, BinInv(bin, work), NEW t \in Threads, NEW e, arena' = e, NEW bm, bin' = bm,
         NEW ob, objects' = ob, NEW wk, wk = work, NEW N, N = {}, World(e, N, N, bm, ob, wk, But(t)),
         NEW H, H = HeldOf(wk, But(t)), BinFine(bm, N, H), work' = [work EXCEPT ![t] = <<>>],
         e.npurgatory = arena.npurgatory
  PROVE  BothKept(arena.npurgatory)
<1>1. PICK G, J : G = {} /\ J = G \cup H
  OBVIOUS
<1>2. J = H /\ G \cap H = {}
  BY <1>1
<1>3. BinEnds(e, bm, ob, G, t)
  BY <1>1, <1>2, BinEndsWith
<1>4. BothEnded(bm, ob)
  BY <1>1, <1>3, BothNone
<1> QED  BY <1>4 DEF BothKept

LEMMA StepRefill ==
  ASSUME ArenaOk, BinInv(bin, work), NEW t \in Threads, Refill(t)
  PROVE  BothKept(arena.npurgatory)
<1>1. PICK a, bn, ob, wk, V : a = arena /\ bn = bin /\ ob = objects /\ wk = work /\ V = But(t)
  OBVIOUS
<1>2. PICK got, N, H : got = Arg(t) /\ N = {} /\ H = HeldOf(wk, V)
  OBVIOUS
<1>3. PICK r, b : /\ r = (IF got # Null THEN got ELSE LowestRun(bin))
                  /\ b = (IF got # Null THEN bin ELSE WithoutLowest(bin))
  OBVIOUS
<1>4. PICK cur, spent, e : /\ cur = b.cur /\ spent = RegAlloc(b, cur)
                           /\ e = Touch(a, Span(cur, Past(spent.runs[cur].next)))
  OBVIOUS
<1>5. PICK name : name = "bin"
  OBVIOUS
<1>6. Task(t, name) /\ objects' = ob
  BY <1>1, <1>5 DEF Refill
<1>7. RefillFrom(b, r, H)
  BY <1>1, <1>2, <1>3, <1>5, <1>6, RefillBegins
<1>8. World(a, N, N, bn, ob, wk, V)
  <2>1. work[t][1] = work[t][1] /\ name \in {"map", "run", "bin", "drop"}
    BY <1>5
  <2>2. World(arena, {}, {}, bin, objects, work, But(t))
    BY <1>6, <2>1, LastPlain
  <2> QED  BY <1>1, <1>2, <2>2
<1>9. /\ \/ r = Null /\ b = bn /\ BinFine(b, N, H)
         \/ r # Null /\ \E M : M = {r} /\ BinFine(b, M, H)
      /\ World(a, N, N, b, ob, wk, V)
  <2>1. CASE r = Null
    BY <1>1, <1>2, <1>7, <1>8, <2>1 DEF RefillFrom
  <2>2. CASE r # Null
    <3>1. Moves(bn, b) /\ \E M : M = {r} /\ BinFine(b, M, H)
      BY <1>1, <1>7, <2>2 DEF RefillFrom
    <3> QED  BY <1>2, <1>8, <2>2, <3>1, WorldMoved
  <2> QED  BY <2>1, <2>2
<1>10. ASSUME NEW M, BinFine(b, M, H), Usable(b, cur)
       PROVE  /\ BinFine(spent, M, H) /\ World(e, N, N, spent, ob, wk, V)
              /\ e.npurgatory = a.npurgatory
              /\ \A q \in DOMAIN b.runs : q # cur => NFree(spent, q) = NFree(b, q)
  <2>1. Took(a, e, b, spent, M, H, ob, wk, V, cur)
    BY <1>2, <1>4, <1>9, <1>10, TakesFine
  <2> QED  BY <1>2, <2>1 DEF Took
<1>11. V = But(t) /\ H = HeldOf(wk, But(t)) /\ wk = work /\ N = {}
  BY <1>1, <1>2
<1>12. CASE Usable(b, cur) /\ r = Null
  <2>1. arena' = e /\ bin' = spent /\ work' = [work EXCEPT ![t] = <<>>]
    BY <1>1, <1>2, <1>3, <1>4, <1>12 DEF Refill
  <2>2. BinFine(spent, N, H) /\ World(e, N, N, spent, ob, wk, V) /\ e.npurgatory = a.npurgatory
    BY <1>9, <1>10, <1>12
  <2> QED  BY <1>1, <1>6, <1>11, <2>1, <2>2, RefillEnds
<1>13. CASE Usable(b, cur) /\ r # Null
  <2>1. PICK M : M = {r} /\ BinFine(b, M, H)
    BY <1>9, <1>13
  <2>2. /\ BinFine(spent, M, H) /\ World(e, N, N, spent, ob, wk, V) /\ e.npurgatory = a.npurgatory
        /\ \A q \in DOMAIN b.runs : q # cur => NFree(spent, q) = NFree(b, q)
    BY <1>10, <1>13, <2>1
  <2>3. r \in DOMAIN b.runs /\ r # cur /\ r \notin H
    BY <1>4, <2>1 DEF BinFine, Found
  <2>4. CASE NFree(b, r) = Regs
    <3>1. PICK x : x = <<"drop", r>>
      OBVIOUS
    <3>2. arena' = e /\ bin' = spent /\ work' = [work EXCEPT ![t] = <<x>>]
      BY <1>1, <1>2, <1>3, <1>4, <1>13, <2>4, <3>1 DEF Refill
    <3>3. PICK G, J : G = Holds(<<x>>) /\ J = H \cup {r}
      OBVIOUS
    <3>4. NFree(spent, r) = Regs
      BY <2>2, <2>3, <2>4
    <3>5. BinFine(spent, N, J)
      BY <1>2, <2>1, <2>2, <3>3, <3>4, UsedHeld
    <3>6. TaskOk(x) /\ x[1] \in Plain /\ x[1] = "drop" /\ x[2] = r
      BY <3>1 DEF TaskOk, Plain
    <3>7. Range(<<x>>) = {x}
      BY RangeOne
    <3>8. G = {r}
      BY <3>3, <3>6, <3>7, HoldsOne
    <3>9. J = G \cup H /\ G \cap H = {}
      BY <2>3, <3>3, <3>8
    <3>10. BinEnds(e, spent, ob, G, t)
      BY <1>1, <1>2, <2>2, <3>5, <3>9, BinEndsWith
    <3>11. BothEnded(spent, ob)
      BY <3>2, <3>3, <3>6, <3>10, BothOne
    <3> QED  BY <1>1, <1>6, <2>2, <3>2, <3>11 DEF BothKept
  <2>5. CASE NFree(b, r) # Regs
    <3>1. PICK bm : bm = LowerRun(spent, r)
      OBVIOUS
    <3>2. arena' = e /\ bin' = bm /\ work' = [work EXCEPT ![t] = <<>>]
      BY <1>1, <1>2, <1>3, <1>4, <1>13, <2>5, <3>1 DEF Refill
    <3>3. BinFine(bm, N, H) /\ Moves(spent, bm)
      BY <1>2, <2>1, <2>2, <3>1, LowerFine
    <3>4. World(e, N, N, bm, ob, wk, V)
      BY <1>2, <2>2, <3>3, WorldMoved
    <3> QED  BY <1>1, <1>6, <1>11, <2>2, <3>2, <3>3, <3>4, RefillEnds
  <2> QED  BY <2>4, <2>5
<1>14. CASE ~Usable(b, cur) /\ r = Null
  <2>1. arena' = a /\ bin' = bn /\ work' = [work EXCEPT ![t] = <<>>]
    BY <1>1, <1>2, <1>3, <1>4, <1>14 DEF Refill
  <2>2. BinFine(bn, N, H) /\ World(a, N, N, bn, ob, wk, V)
    BY <1>8, <1>9, <1>14
  <2> QED  BY <1>1, <1>6, <1>11, <2>1, <2>2, RefillEnds
<1>15. CASE ~Usable(b, cur) /\ r # Null
  <2>1. PICK M : M = {r} /\ BinFine(b, M, H)
    BY <1>9, <1>15
  <2>2. PICK d, bm, f : /\ d = [b EXCEPT !.cur = r] /\ bm = RegAlloc(d, r)
                        /\ f = Touch(a, Span(r, Past(bm.runs[r].next)))
    OBVIOUS
  <2>3. arena' = f /\ bin' = bm /\ work' = [work EXCEPT ![t] = <<>>]
    BY <1>1, <1>2, <1>3, <1>4, <1>15, <2>2 DEF Refill, TakesRegion
  <2>4. ~Usable(b, b.cur)
    BY <1>4, <1>15
  <2>5. BinFine(d, N, H) /\ Moves(b, d) /\ d.cur = r /\ NFree(d, r) > 0
    BY <1>2, <2>1, <2>2, <2>4, CurRun
  <2>6. World(a, N, N, d, ob, wk, V)
    BY <1>2, <1>9, <2>5, WorldMoved
  <2>7. Usable(d, r) /\ r = d.cur
    BY <1>15, <2>5 DEF Usable
  <2>8. Took(a, f, d, bm, N, H, ob, wk, V, r)
    BY <1>2, <2>2, <2>5, <2>6, <2>7, TakesFine
  <2>9. BinFine(bm, N, H) /\ World(f, N, N, bm, ob, wk, V) /\ f.npurgatory = a.npurgatory
    BY <1>2, <2>8 DEF Took
  <2> QED  BY <1>1, <1>6, <1>11, <2>3, <2>9, RefillEnds
<1> QED  BY <1>12, <1>13, <1>14, <1>15

(* A chunk in which another run is in use is not given up.                 *)
LEMMA ChunkStays ==
  ASSUME NEW a, NEW A, NEW K, Good(a, A, K), NEW r \in A, NEW s \in A, r # s, Base(r) = Base(s),
         NEW dirty \in BOOLEAN, a.released = Null, NEW b, b = RunDalloc(a, s, dirty)
  PROVE  b.released = Null /\ IsArena(b)
<1>1. PICK f : f = Freed(a, s, DallocFlags(a, s, dirty))
  OBVIOUS
<1>2. /\ Good(f, A \ {s}, K) /\ f.released = Null
      /\ Good(b, A \ {s}, K \ {b.released})
      /\ \/ b = f
         \/ First(Base(s)) \in f.clean \cup f.dirty /\ f.map[First(Base(s))].size = NP
  <2>1. /\ DallocFlags(a, s, dirty) \in FreeFlags
        /\ Good(f, A \ {s}, K) /\ f.released = Null
        /\ Good(b, A \ {s}, K \ {b.released}) /\ b.released \in K \cup {Null}
        /\ \A q : Same(f, b, q)
        /\ \/ b = f
           \/ DeallocFields(f, b, Base(s)) /\ First(Base(s)) \in f.clean \cup f.dirty
              /\ f.map[First(Base(s))].size = NP /\ b = ChunkDealloc(f, Base(s))
    BY <1>1, DallocGood
  <2> QED  BY <2>1
<1>3. IsArena(b)
  BY <1>2, TypedIs DEF Good
<1>4. b = f
  <2>1. SUFFICES ASSUME First(Base(s)) \in f.clean \cup f.dirty, f.map[First(Base(s))].size = NP
                 PROVE  FALSE
    BY <1>2
  <2>2. PICK c, q, A1, F, R : c = Base(s) /\ q = First(c) /\ A1 = A \ {s} /\ F = FreeRuns(f) /\ R = A1 \cup F
    OBVIOUS
  <2>3. Typed(f) /\ Laid(f, A1, F, K) /\ q \in F
    BY <1>2, <2>1, <2>2 DEF Good, FreeRuns
  <2>4. Length(f, q) = NP /\ q \notin A1
    BY <2>1, <2>2, <2>3, FreeLength
  <2>5. Tiles(f, R, K) /\ r \in R /\ q \in R /\ r \in A1
    BY <2>2, <2>3 DEF Laid
  <2>6. r \in Int /\ Length(f, r) \in Nat /\ Length(f, r) >= 1
    BY <2>5, TileEnds
  <2>7. q \in Int /\ NP \in Nat
    BY <2>5, TileEnds, Numbers
  <2>8. r \in q .. q + Length(f, q) - 1
    <3>1. Base(r) = c /\ c \in Int
      BY <2>2, <2>6, BaseIs
    <3>2. First(c) <= r /\ r <= First(c) + NP - 1
      BY <2>6, <3>1, BaseIs
    <3> QED  BY <2>2, <2>4, <2>6, <2>7, <3>2
  <2>9. r \in r .. r + Length(f, r) - 1
    BY <2>6
  <2>10. r = q
    BY <2>5, <2>8, <2>9, TileOne
  <2> QED  BY <2>4, <2>5, <2>10
<1> QED  BY <1>2, <1>3, <1>4

Adjacent(a, R, r, s) == r \in R /\ s \in R /\ r # s /\ Base(r) = Base(s) /\ Unused(a, s, 0)
TailGiven(a, b, R, s, bn, ob, wk, U) ==
  World(b, R \ {s}, {}, bn, ob, wk, U) /\ b.npurgatory = a.npurgatory

LEMMA WorldTail ==
  ASSUME NEW a, NEW R, NEW bn, NEW ob, NEW wk, NEW U, World(a, R, {}, bn, ob, wk, U),
         NEW r, NEW s, Adjacent(a, R, r, s),
         NEW dirty \in BOOLEAN, ~dirty, NEW b, b = RunDalloc(a, s, dirty)
  PROVE  TailGiven(a, b, R, s, bn, ob, wk, U)
<1>0. r \in R /\ s \in R /\ r # s /\ Base(r) = Base(s) /\ Unused(a, s, 0) /\ dirty = FALSE
  BY DEF Adjacent
<1>1. PICK O, K, A : O = Others(bn, ob, wk, U) /\ K = Left(a, {}, wk, U) /\ A = R \cup O
  OBVIOUS
<1>2. Fine(a, A, K) /\ a.released = Null
  BY <1>1, WorldFine
<1>3. Good(a, A, K) /\ r \in A /\ s \in A
  BY <1>0, <1>1, <1>2 DEF Fine
<1>4. b.released = Null /\ IsArena(b)
  BY <1>0, <1>2, <1>3, ChunkStays
<1>5. PICK c : c = Forgotten(b)
  OBVIOUS
<1>6. c = b
  BY <1>4, <1>5 DEF Forgotten, IsArena
<1>7. Givable(a, R, s, dirty, bn, ob, wk, U)
  BY <1>0 DEF Givable
<1>8. Gave(a, b, c, R, s, bn, ob, wk, U)
  BY <1>0, <1>5, <1>7, WorldGive
<1>9. {b.released} \ {Null} = {}
  BY <1>4
<1> QED  BY <1>6, <1>8, <1>9 DEF Gave, TailGiven

(* The tasks that giving a run back brings hold nothing for the bin.       *)
LEMMA GiveHolds ==
  ASSUME NEW t, NEW a, NEW r, NEW dirty, NEW S, NEW w \in Seq(S), GiveRun(t, a, r, dirty, w)
  PROVE  \E v : work' = [work EXCEPT ![t] = v] /\ Holds(v) = Holds(w)
<1>1. PICK b : b = RunDalloc(a, r, dirty)
  OBVIOUS
<1>2. PICK soiled \in BOOLEAN : soiled = (DallocFlags(a, r, dirty) # {})
  OBVIOUS
<1>3. PICK maybe \in BOOLEAN : maybe = (soiled /\ (b.released # Null \/ MustPurge(b)))
  OBVIOUS
<1>4. PICK v, released : v = GiveWork(w, released, maybe) /\ released = b.released
  OBVIOUS
<1>5. work' = [work EXCEPT ![t] = v]
  BY <1>1, <1>2, <1>3, <1>4 DEF GiveRun, GiveWork, Does
<1>6. PICK x, y : x = <<"unmap", released>> /\ y = <<"maybe">>
  OBVIOUS
<1>7. x[1] \notin {"bin", "drop"} /\ y[1] \notin {"bin", "drop"}
  BY <1>6
<1>8. PICK p : p = IF maybe THEN Before(y, w) ELSE w
  OBVIOUS
<1>9. Holds(p) = Holds(w) /\ \E T : p \in Seq(T)
  <2>1. CASE maybe
    BY <1>7, <1>8, <2>1, HoldsBefore
  <2>2. CASE ~maybe
    BY <1>8, <2>2
  <2> QED  BY <2>1, <2>2
<1>10. PICK T : p \in Seq(T)
  BY <1>9
<1>11. PICK q : q = IF released = Null THEN p ELSE Before(x, p)
  OBVIOUS
<1>12. Holds(q) = Holds(p)
  <2>1. CASE released = Null
    BY <1>11, <2>1
  <2>2. CASE released # Null
    BY <1>7, <1>10, <1>11, <2>2, HoldsBefore
  <2> QED  BY <2>1, <2>2
<1>13. v = q
  BY <1>4, <1>6, <1>8, <1>11, GiveWorkIs
<1> QED  BY <1>5, <1>9, <1>12, <1>13

(* arena_dalloc_bin_run.                                                   *)
(* A run whose end no region reached is cut, and its end goes back first.  *)
DroppedTail(a, r, past, b) == b = RunDalloc(CutTail(a, r, RunPages, past), r + past, FALSE)

LEMMA DropTail ==
  ASSUME NEW a, NEW S, NEW bn, NEW ob, NEW wk, NEW U, World(a, S, {}, bn, ob, wk, U),
         NEW r, S = {r}, NEW k, RunLeft(a, r, k), NEW past, past = Past(k), past < RunPages,
         NEW b, DroppedTail(a, r, past, b)
  PROVE  World(b, S, {}, bn, ob, wk, U) /\ b.npurgatory = a.npurgatory
<1>0. b = RunDalloc(CutTail(a, r, RunPages, past), r + past, FALSE)
  BY DEF DroppedTail
<1>1. PICK N, old, s, c : /\ N = {} /\ old = RunPages /\ s = r + past
                          /\ c = Cut(a, r, old, past, {})
  OBVIOUS
<1>2. PICK kept \in FreeFlags : kept = {}
  BY DEF FreeFlags
<1>3. PICK dirty \in BOOLEAN : dirty = FALSE
  OBVIOUS
<1>4. /\ r \in Int /\ Length(a, r) = RunPages /\ Unused(a, r, past) /\ k \in 0 .. Regs
  BY DEF RunLeft
<1>5. past \in Nat /\ past >= 1 /\ old \in Nat
  BY <1>1, <1>4, PastIs, Numbers
<1>6. PICK R : R = S \cup {s}
  OBVIOUS
<1>7. World(a, S, N, bn, ob, wk, U) /\ r \in S
  BY <1>1
<1>8. World(c, R, N, bn, ob, wk, U) /\ s \notin S /\ CutOut(a, c, r, old, past, kept) /\ Unused(c, s, 0)
  <2>1. c = Cut(a, r, old, past, kept)
    BY <1>1, <1>2
  <2>2. old = Length(a, r) /\ past < old
    BY <1>1, <1>4
  <2>3. World(c, R, N, bn, ob, wk, U) /\ s \notin S /\ CutOut(a, c, r, old, past, kept)
        /\ (Unused(a, r, past) => Unused(c, s, 0))
    BY <1>1, <1>5, <1>6, <1>7, <2>1, <2>2, WorldCut
  <2> QED  BY <1>4, <2>3
<1>9. c.npurgatory = a.npurgatory
  BY <1>8 DEF CutOut, MapOnly
<1>10. Base(r) = Base(s)
  <2>1. PICK O, K, A, F : O = Others(bn, ob, wk, U) /\ K = Left(a, {}, wk, U) /\ A = S \cup O /\ F = FreeRuns(a)
    OBVIOUS
  <2>2. Fine(a, A, K) /\ r \in A
    BY <1>7, <2>1, WorldFine
  <2>3. Tiles(a, A \cup F, K)
    BY <2>1, <2>2 DEF Fine, Good, Laid
  <2>4. PICK T : T = A \cup F
    OBVIOUS
  <2>5. \A p \in r .. r + Length(a, r) - 1 : p \in Pages /\ Base(p) = Base(r)
    BY <2>2, <2>3, <2>4, TileEnds
  <2>6. s \in r .. r + Length(a, r) - 1
    BY <1>1, <1>4, <1>5
  <2> QED  BY <2>5, <2>6
<1>11. b = RunDalloc(c, s, dirty)
  BY <1>0, <1>1, <1>3 DEF CutTail
<1>12. World(c, R, {}, bn, ob, wk, U) /\ r \in R /\ s \in R /\ r # s
  BY <1>1, <1>6, <1>7, <1>8
<1>13. World(b, R \ {s}, {}, bn, ob, wk, U) /\ b.npurgatory = c.npurgatory
  <2>1. World(c, R, {}, bn, ob, wk, U)
    BY <1>12
  <2>2. Adjacent(c, R, r, s)
    BY <1>8, <1>10, <1>12 DEF Adjacent
  <2>3. ~dirty
    BY <1>3
  <2>4. TailGiven(c, b, R, s, bn, ob, wk, U)
    BY <1>11, <2>1, <2>2, <2>3, WorldTail
  <2> QED  BY <2>4 DEF TailGiven
<1>14. R \ {s} = S
  BY <1>6, <1>8
<1> QED  BY <1>9, <1>13, <1>14

LEMMA StepDrop ==
  ASSUME ArenaOk, BinInv(bin, work), NEW t \in Threads, DropRun(t)
  PROVE  BothKept(arena.npurgatory)
<1>1. PICK a, bn, ob, wk, V : a = arena /\ bn = bin /\ ob = objects /\ wk = work /\ V = But(t)
  OBVIOUS
<1>2. PICK r, k, past, N, S : r = Arg(t) /\ k = bn.runs[r].next /\ past = Past(k) /\ N = {} /\ S = {r}
  OBVIOUS
<1>3. PICK G, H, J : G = Holds(work[t]) /\ H = HeldOf(wk, V) /\ J = G \cup H
  OBVIOUS
<1>4. PICK bm : bm = [bn EXCEPT !.runs = [p \in DOMAIN @ \ {r} |-> @[p]]]
  OBVIOUS
<1>5. PICK b : b = (IF Dirty(a.map[r]) = {} /\ past < RunPages
                    THEN RunDalloc(CutTail(a, r, RunPages, past), r + past, FALSE) ELSE a)
  OBVIOUS
<1>6. PICK name : name = "drop"
  OBVIOUS
<1>7. Task(t, name) /\ bin' = bm /\ objects' = ob /\ GiveRun(t, b, r, TRUE, <<>>)
  BY <1>1, <1>2, <1>4, <1>5, <1>6 DEF DropRun
<1>8. World(a, N, N, bn, ob, wk, V)
  <2>1. PICK x : x = work[t][1]
    OBVIOUS
  <2>2. World(arena, {}, {}, bin, objects, work, But(t))
    BY <1>6, <1>7, <2>1, LastPlain
  <2> QED  BY <1>1, <1>2, <2>2
<1>9. G = {r}
  BY <1>2, <1>3, <1>6, <1>7, TaskHolds
<1>10. BinFine(bn, N, J) /\ G \cap H = {}
  <2>1. BinParts(bn, G, H)
    BY <1>1, <1>3, BinPart
  <2> QED  BY <1>2, <1>3, <2>1 DEF BinParts
<1>11. r \in J /\ H = J \ {r}
  BY <1>3, <1>9, <1>10
<1>12. BinFine(bm, N, H) /\ BinLess(bn, bm, r, k, S)
  BY <1>2, <1>4, <1>10, <1>11, DropFine
<1>13. World(a, S, N, bm, ob, wk, V) /\ RunLeft(a, r, k)
  BY <1>2, <1>8, <1>12, BinLeaves
<1>14. World(b, S, {}, bm, ob, wk, V) /\ b.npurgatory = a.npurgatory
  <2>1. World(a, S, {}, bm, ob, wk, V)
    BY <1>2, <1>13
  <2>2. CASE Dirty(a.map[r]) = {} /\ past < RunPages
    <3>1. DroppedTail(a, r, past, b)
      BY <1>5, <2>2 DEF DroppedTail
    <3>2. RunLeft(a, r, k)
      BY <1>13
    <3>3. S = {r}
      BY <1>2
    <3>4. past = Past(k)
      BY <1>2
    <3>5. past < RunPages
      BY <2>2
    <3> QED  BY <2>1, <3>1, <3>2, <3>3, <3>4, <3>5, DropTail
  <2>3. CASE ~(Dirty(a.map[r]) = {} /\ past < RunPages)
    BY <1>5, <2>1, <2>3
  <2> QED  BY <2>2, <2>3
<1>15. StepKeeps(bm, ob, b.npurgatory)
  <2>1. World(b, S, {}, bm, ob, work, But(t))
    BY <1>1, <1>14
  <2>2. PICK dirty \in BOOLEAN : dirty = TRUE
    OBVIOUS
  <2>3. GiveRun(t, b, r, dirty, <<>>)
    BY <1>7, <2>2
  <2> QED  BY <1>2, <2>1, <2>2, <2>3, GivesLast
<1>16. BinInv(bm, work')
  <2>1. PICK e, w : e = {} /\ w = <<>>
    OBVIOUS
  <2>2. PICK dirty \in BOOLEAN : dirty = TRUE
    OBVIOUS
  <2>9. GiveRun(t, b, r, dirty, w)
    BY <1>7, <2>1, <2>2
  <2>10. w \in Seq(e)
    BY <2>1
  <2>3. PICK v : work' = [work EXCEPT ![t] = v] /\ Holds(v) = Holds(w)
    BY <2>9, <2>10, GiveHolds
  <2>4. Holds(v) = N
    <3>1. Range(<<t>>) = {t}
      BY RangeOne
    <3> QED  BY <1>2, <2>1, <2>3, <3>1, HoldsOne
  <2>5. PICK wl, L : wl = work' /\ L = Holds(v)
    OBVIOUS
  <2>6. BinParts(bm, L, H)
    <3>1. L \cup H = H /\ L \cap H = {}
      BY <1>2, <2>4, <2>5
    <3> QED  BY <1>2, <1>12, <3>1 DEF BinParts
  <2>7. BinInv(bn, wk) /\ Workers(wk) /\ H = HeldOf(wk, But(t)) /\ wl = [wk EXCEPT ![t] = v]
    BY <1>1, <1>3, <2>3, <2>5 DEF ArenaOk
  <2>8. BinInv(bm, wl)
    BY <2>5, <2>6, <2>7, BinJoin
  <2> QED  BY <2>5, <2>8
<1> QED  BY <1>1, <1>7, <1>14, <1>15, <1>16 DEF BothKept, BothEnded, StepKeeps

(* Steps that leave the bin alone, and what is held for it.                *)
LEMMA RestHolds ==
  ASSUME ArenaOk, NEW t \in Threads, NEW name, Task(t, name), name \notin {"bin", "drop"},
         NEW v, v = Rest(t)
  PROVE  Holds(v) = Holds(work[t]) /\ v \in Seq(Range(v)) /\ ListOk(v)
<1>1. PICK x, w, T : x = work[t][1] /\ w = work[t] /\ T = Range(v)
  OBVIOUS
<1>2. PICK W : W = Range(w)
  OBVIOUS
<1>3. TaskFacts(t, x, v, T, name)
  BY <1>1, TaskIs
<1>4. ListOk(w)
  <2>1. Begun(t, W)
    BY <1>1, <1>2, Begin
  <2> QED  BY <1>1, <2>1 DEF Begun
<1>5. FirstOf(w, x, v)
  BY <1>1 DEF FirstOf, Task, Idle, Rest
<1>6. Popped(w, x, v, T)
  BY <1>1, <1>4, <1>5, ListPop
<1>7. Range(w) = T \cup {x} /\ ListOk(v) /\ x[1] = name
  BY <1>3, <1>6 DEF Popped, TaskFacts
<1>8. Named(w, "bin") = Named(v, "bin") /\ Named(w, "drop") = Named(v, "drop")
  BY <1>1, <1>7 DEF Named
<1>9. Holds(v) = Holds(w)
  BY <1>8 DEF Holds
<1> QED  BY <1>1, <1>7, <1>9 DEF ListOk

LEMMA QuietWork ==
  ASSUME NEW t, NEW v, work' = [work EXCEPT ![t] = v], bin' = bin, Holds(v) = Holds(work[t])
  PROVE  Quiet(t)
BY DEF Quiet

LEMMA QuietGive ==
  ASSUME NEW t, NEW a, NEW r, NEW dirty, NEW S, NEW w \in Seq(S), GiveRun(t, a, r, dirty, w),
         bin' = bin, Holds(w) = Holds(work[t])
  PROVE  Quiet(t)
<1>1. PICK v : work' = [work EXCEPT ![t] = v] /\ Holds(v) = Holds(w)
  BY GiveHolds
<1> QED  BY <1>1, QuietWork

(* The same, for a thread that does nothing after.                         *)
LEMMA QuietGiveLast ==
  ASSUME NEW t, NEW a, NEW r, NEW dirty, NEW w, w = <<>>, GiveRun(t, a, r, dirty, w),
         bin' = bin, NEW N, N = {}, Holds(work[t]) = N
  PROVE  Quiet(t)
<1>1. PICK S : S = {}
  OBVIOUS
<1>2. w \in Seq(S)
  BY <1>1
<1>3. Holds(w) = Holds(work[t])
  <2>1. Range(w) = {}
    BY RangeOne
  <2> QED  BY <2>1, HoldsNothing
<1> QED  BY <1>2, <1>3, QuietGive

(* And before tasks that have nothing to do with the bin.                  *)
LEMMA QuietBefore ==
  ASSUME NEW t, NEW S, NEW v \in Seq(S), NEW x, x[1] \notin {"bin", "drop"}, NEW w, w = Before(x, v),
         work' = [work EXCEPT ![t] = w], bin' = bin, Holds(v) = Holds(work[t])
  PROVE  Quiet(t)
<1>1. Holds(w) = Holds(v)
  BY HoldsBefore
<1> QED  BY <1>1, QuietWork

LEMMA QuietUnmap ==
  ASSUME ArenaOk, NEW t \in Threads, UnmapChunk(t)
  PROVE  Quiet(t)
<1>1. PICK name, v : name = "unmap" /\ v = Rest(t)
  OBVIOUS
<1>2. Task(t, name) /\ bin' = bin /\ work' = [work EXCEPT ![t] = v]
  BY <1>1 DEF UnmapChunk
<1> QED  BY <1>1, <1>2, RestHolds, QuietWork

LEMMA QuietMadvise ==
  ASSUME ArenaOk, NEW t \in Threads, Madvise(t)
  PROVE  Quiet(t)
<1>1. PICK name, v : name = "madvise" /\ v = Rest(t)
  OBVIOUS
<1>2. Task(t, name) /\ bin' = bin /\ work' = [work EXCEPT ![t] = v]
  BY <1>1 DEF Madvise
<1> QED  BY <1>1, <1>2, RestHolds, QuietWork

LEMMA QuietMaybe ==
  ASSUME ArenaOk, NEW t \in Threads, MaybePurge(t)
  PROVE  Quiet(t)
<1>1. PICK name, v, x : name = "maybe" /\ v = Rest(t) /\ x = <<"purge", Commitment(arena, FALSE)>>
  OBVIOUS
<1>2. Task(t, name) /\ bin' = bin
  BY <1>1 DEF MaybePurge
<1>3. Holds(v) = Holds(work[t]) /\ v \in Seq(Range(v))
  BY <1>1, <1>2, RestHolds
<1>4. \/ work' = [work EXCEPT ![t] = v]
      \/ work' = [work EXCEPT ![t] = Before(x, v)]
  BY <1>1 DEF MaybePurge, Does, Before
<1>5. x[1] \notin {"bin", "drop"}
  BY <1>1
<1> QED  BY <1>2, <1>3, <1>4, <1>5, QuietWork, QuietBefore

LEMMA QuietPurgeAll ==
  ASSUME NEW t \in Threads, arena_purge_all(t)
  PROVE  Quiet(t)
<1>1. PICK x : x = <<"purge", Commitment(arena, TRUE)>>
  OBVIOUS
<1>2. Idle(t) /\ bin' = bin /\ work' = [work EXCEPT ![t] = <<x>>]
  BY <1>1 DEF arena_purge_all, Does
<1>3. x[1] \notin {"bin", "drop"}
  BY <1>1
<1>4. Range(<<x>>) = {x}
  BY RangeOne
<1>5. Holds(<<x>>) = {} /\ Holds(work[t]) = {}
  BY <1>2, <1>3, <1>4, HoldsOne, IdleHolds
<1> QED  BY <1>2, <1>5, QuietWork

LEMMA QuietPurge ==
  ASSUME ArenaOk, NEW t \in Threads, PurgeChunk(t)
  PROVE  Quiet(t)
<1>1. PICK name, v, n : name = "purge" /\ v = Rest(t) /\ n = Arg(t)
  OBVIOUS
<1>2. PICK a, c : a = Shortened(arena) /\ c = Head(a.chunks_dirty)
  OBVIOUS
<1>3. PICK d, m, runs : d = a.cdirty[c] /\ m = Max({n, d}) /\ runs = DirtyRuns(Unspared(a, c), c)
  OBVIOUS
<1>4. PICK x, y, z : x = <<"madvise", runs>> /\ y = <<"return", runs>> /\ z = <<"purge", (m - d) % SizeMod>>
  OBVIOUS
<1>5. Task(t, name) /\ bin' = bin
  BY <1>1 DEF PurgeChunk
<1>6. Holds(v) = Holds(work[t]) /\ v \in Seq(Range(v))
  BY <1>1, <1>5, RestHolds
<1>7. \/ work' = [work EXCEPT ![t] = v]
      \/ work' = [work EXCEPT ![t] = <<x, y, z>> \o v]
  BY <1>1, <1>2, <1>3, <1>4 DEF PurgeChunk, Does
<1>8. CASE work' = [work EXCEPT ![t] = v]
  BY <1>5, <1>6, <1>8, QuietWork
<1>9. CASE work' = [work EXCEPT ![t] = <<x, y, z>> \o v]
  <2>1. x[1] \notin {"bin", "drop"} /\ y[1] \notin {"bin", "drop"} /\ z[1] \notin {"bin", "drop"}
    BY <1>4
  <2>2. PICK S : S = Range(v) \cup {x, y, z}
    OBVIOUS
  <2>3. x \in S /\ y \in S /\ z \in S /\ v \in Seq(S)
    BY <1>6, <2>2
  <2>4. <<x, y, z>> \o v = Before(x, Before(y, Before(z, v)))
    BY <2>3, ConcatThree
  <2>5. PICK p : p = Before(z, v)
    OBVIOUS
  <2>6. Holds(p) = Holds(v) /\ p \in Seq(S \cup {z})
    BY <2>1, <2>3, <2>5, HoldsBefore
  <2>7. PICK q, P : q = Before(y, p) /\ P = S \cup {z}
    OBVIOUS
  <2>8. Holds(q) = Holds(p) /\ q \in Seq(P \cup {y})
    BY <2>1, <2>6, <2>7, HoldsBefore
  <2>9. PICK w, Q : w = Before(x, q) /\ Q = P \cup {y}
    OBVIOUS
  <2>10. work' = [work EXCEPT ![t] = w] /\ q \in Seq(Q)
    BY <1>9, <2>4, <2>5, <2>7, <2>8, <2>9
  <2>11. Holds(q) = Holds(work[t])
    BY <1>6, <2>6, <2>8
  <2> QED  BY <1>5, <2>1, <2>9, <2>10, <2>11, QuietBefore
<1> QED  BY <1>7, <1>8, <1>9

LEMMA QuietReturn ==
  ASSUME ArenaOk, NEW t \in Threads, ReturnRun(t)
  PROVE  Quiet(t)
<1>1. PICK name, v, r, more : name = "return" /\ v = Rest(t) /\ r = Min(Arg(t)) /\ more = Arg(t) \ {r}
  OBVIOUS
<1>2. PICK x, w, a : /\ x = <<"return", more>> /\ a = arena
                     /\ w = IF more = {} THEN v ELSE Before(x, v)
  OBVIOUS
<1>3. PICK dirty \in BOOLEAN : dirty = FALSE
  OBVIOUS
<1>4. Task(t, name) /\ bin' = bin /\ GiveRun(t, a, r, dirty, w)
  BY <1>1, <1>2, <1>3 DEF ReturnRun, Before
<1>5. Holds(v) = Holds(work[t]) /\ v \in Seq(Range(v))
  BY <1>1, <1>4, RestHolds
<1>6. x[1] \notin {"bin", "drop"}
  BY <1>2
<1>7. PICK S : S = Range(v) \cup {x}
  OBVIOUS
<1>8. Holds(w) = Holds(v) /\ w \in Seq(S)
  <2>1. CASE more = {}
    BY <1>2, <1>5, <1>7, <2>1
  <2>2. CASE more # {}
    <3>1. w = Before(x, v)
      BY <1>2, <2>2
    <3> QED  BY <1>5, <1>6, <1>7, <3>1, HoldsBefore
  <2> QED  BY <2>1, <2>2
<1>9. Holds(w) = Holds(work[t])
  BY <1>5, <1>8
<1> QED  BY <1>4, <1>8, <1>9, QuietGive

LEMMA QuietDalloc ==
  ASSUME NEW t \in Threads, NEW r \in DOMAIN objects, arena_dalloc_large(t, r)
  PROVE  Quiet(t)
<1>1. PICK a, w, N : a = arena /\ w = <<>> /\ N = {}
  OBVIOUS
<1>2. PICK dirty \in BOOLEAN : dirty = TRUE
  OBVIOUS
<1>3. Idle(t) /\ bin' = bin /\ GiveRun(t, a, r, dirty, w)
  BY <1>1, <1>2 DEF arena_dalloc_large
<1>4. Holds(work[t]) = N
  BY <1>1, <1>3, IdleHolds
<1> QED  BY <1>1, <1>3, <1>4, QuietGiveLast

LEMMA QuietShrink ==
  ASSUME NEW t \in Threads, NEW r \in DOMAIN objects, NEW n, arena_ralloc_large_shrink(t, r, n)
  PROVE  Quiet(t)
<1>1. PICK a, w, N, s : a = CutTail(arena, r, objects[r], n) /\ w = <<>> /\ N = {} /\ s = r + n
  OBVIOUS
<1>2. PICK dirty \in BOOLEAN : dirty = TRUE
  OBVIOUS
<1>3. Idle(t) /\ bin' = bin /\ GiveRun(t, a, s, dirty, w)
  BY <1>1, <1>2 DEF arena_ralloc_large_shrink
<1>4. Holds(work[t]) = N
  BY <1>1, <1>3, IdleHolds
<1> QED  BY <1>1, <1>3, <1>4, QuietGiveLast

LEMMA QuietGrow ==
  ASSUME ArenaOk, NEW t \in Threads, NEW r \in DOMAIN objects, NEW n, NEW extra,
         arena_ralloc_large_grow(t, r, n, extra)
  PROVE  Quiet(t)
<1>1. PICK w : w = <<>>
  OBVIOUS
<1>2. Idle(t) /\ bin' = bin /\ work' = work
  BY DEF arena_ralloc_large_grow, Owns
<1>3. work' = [work EXCEPT ![t] = w]
  BY <1>1, <1>2, IdleStays
<1>4. Holds(w) = Holds(work[t])
  BY <1>1, <1>2 DEF Idle
<1> QED  BY <1>2, <1>3, <1>4, QuietWork

(* The steps of a thread that holds nothing for the bin.                   *)
LEMMA QuietTrim ==
  ASSUME NEW t, NEW a, NEW r, NEW old, NEW new, TrimTail(t, a, r, old, new), Holds(work[t]) = {}
  PROVE  Quiet(t)
<1>1. PICK b, w, N, s : b = Touch(CutTail(a, r, old, new), Span(r, new)) /\ w = <<>> /\ N = {} /\ s = r + new
  OBVIOUS
<1>2. PICK dirty \in BOOLEAN : dirty = FALSE
  OBVIOUS
<1>3. bin' = bin
  BY DEF TrimTail, Owns
<1>4. \/ work' = [work EXCEPT ![t] = w]
      \/ GiveRun(t, b, s, dirty, w)
  BY <1>1, <1>2 DEF TrimTail, Does
<1>5. Holds(w) = {}
  <2>1. Range(w) = {}
    BY <1>1, RangeOne
  <2> QED  BY <2>1, HoldsNothing
<1>6. CASE work' = [work EXCEPT ![t] = w]
  BY <1>3, <1>5, <1>6, QuietWork
<1>7. CASE GiveRun(t, b, s, dirty, w)
  <2>1. Holds(work[t]) = N
    BY <1>1
  <2> QED  BY <1>1, <1>3, <1>7, <2>1, QuietGiveLast
<1> QED  BY <1>4, <1>6, <1>7

LEMMA QuietAligned ==
  ASSUME NEW t, NEW a, NEW r, NEW req, Aligned(t, a, r, req), Holds(work[t]) = {}
  PROVE  Quiet(t)
<1>1. PICK lead : lead = req.align - (Address(r) % req.align)
  OBVIOUS
<1>2. PICK x, b : x = <<"tail", r + lead, req.need - lead, req.size>> /\ b = CutHead(a, r, req.need, lead)
  OBVIOUS
<1>3. PICK dirty \in BOOLEAN : dirty = FALSE
  OBVIOUS
<1>4. PICK w, S : w = <<x>> /\ S = {x}
  OBVIOUS
<1>5. \/ TrimTail(t, a, r, req.need, req.size)
      \/ GiveRun(t, b, r, dirty, w) /\ bin' = bin
  BY <1>1, <1>2, <1>3, <1>4 DEF Aligned
<1>6. CASE TrimTail(t, a, r, req.need, req.size)
  <2>1. PICK old, new : old = req.need /\ new = req.size
    OBVIOUS
  <2>2. TrimTail(t, a, r, old, new)
    BY <1>6, <2>1
  <2> QED  BY <2>2, QuietTrim
<1>7. CASE GiveRun(t, b, r, dirty, w) /\ bin' = bin
  <2>1. w \in Seq(S)
    BY <1>4
  <2>2. Range(w) = {x} /\ x[1] \notin {"bin", "drop"}
    BY <1>2, <1>4, RangeOne
  <2>3. Holds(w) = Holds(work[t])
    BY <2>2, HoldsOne
  <2> QED  BY <1>7, <2>1, <2>3, QuietGive
<1> QED  BY <1>5, <1>6, <1>7

LEMMA QuietTrimTail ==
  ASSUME ArenaOk, NEW t \in Threads, TrimTailOf(t)
  PROVE  Quiet(t)
<1>1. PICK x, name : x = work[t][1] /\ name = "tail"
  OBVIOUS
<1>2. PICK r, old, new : r = x[2] /\ old = x[3] /\ new = x[4]
  OBVIOUS
<1>3. Task(t, name) /\ TrimTail(t, arena, r, old, new)
  BY <1>1, <1>2 DEF TrimTailOf
<1>4. Holds(work[t]) = {}
  BY <1>1, <1>3, TaskHolds
<1>5. PICK a : a = arena
  OBVIOUS
<1>6. TrimTail(t, a, r, old, new)
  BY <1>3, <1>5
<1> QED  BY <1>4, <1>6, QuietTrim

(* A run that was cut for the bin is nobody else's.                        *)
LEMMA NewRunFine ==
  ASSUME ArenaOk, BinInv(bin, work), NEW t \in Threads, Holds(work[t]) = {}, NEW a, NEW R, NEW r,
         Fresh(a, R, r, RunPages, t), NewRun(t, a, r)
  PROVE  BinInv(bin', work')
<1>1. PICK bn, ob, wk, V, N : bn = bin /\ ob = objects /\ wk = work /\ V = But(t) /\ N = {}
  OBVIOUS
<1>2. PICK G, H, bm : G = Holds(wk[t]) /\ H = HeldOf(wk, V) /\ bm = NewBin(bn, r)
  OBVIOUS
<1>3. PICK x, w, wl : x = <<"bin", r>> /\ w = <<x>> /\ wl = work'
  OBVIOUS
<1>4. bin' = bm /\ wl = [wk EXCEPT ![t] = w]
  BY <1>1, <1>2, <1>3 DEF NewRun, NewBin, Does
<1>5. World(a, R, N, bn, ob, wk, V) /\ R = {r} /\ r \in Pages
  <2>1. PICK n : n = RunPages
    OBVIOUS
  <2>2. Fresh(a, R, r, n, t)
    BY <2>1
  <2>3. r \in Pages
    BY <2>2, FreshIs
  <2> QED  BY <1>1, <2>2, <2>3 DEF Fresh
<1>6. r \notin DOMAIN bn.runs
  <2>1. R \cap Others(bn, ob, wk, V) = {}
    BY <1>5 DEF World, Parted
  <2> QED  BY <1>5, <2>1 DEF Others
<1>7. BinFine(bn, N, H)
  <2>1. BinParts(bn, G, H)
    BY <1>1, <1>2, BinPart
  <2>2. G \cup H = H
    BY <1>1, <1>2
  <2> QED  BY <1>1, <2>1, <2>2 DEF BinParts
<1>8. PICK L, J : L = Holds(w) /\ J = H \cup {r}
  OBVIOUS
<1>9. BinFine(bm, N, J)
  BY <1>1, <1>2, <1>5, <1>6, <1>7, <1>8, NewFound
<1>10. L = {r}
  <2>1. Range(w) = {x}
    BY <1>3, RangeOne
  <2>2. L = {x[2]} \ {Null} /\ x[2] = r
    BY <1>3, <1>8, <2>1, HoldsOne
  <2>3. r # Null
    BY <1>5, ArenaAssumption DEF Pages
  <2> QED  BY <2>2, <2>3
<1>11. L \cup H = J /\ L \cap H = {}
  <2>1. \A h \in H : h \in DOMAIN bn.runs
    BY <1>7 DEF BinFine, Found
  <2> QED  BY <1>6, <1>8, <1>10, <2>1
<1>12. BinParts(bm, L, H)
  BY <1>1, <1>9, <1>11 DEF BinParts
<1>13. BinInv(bn, wk) /\ Workers(wk) /\ H = HeldOf(wk, But(t))
  BY <1>1, <1>2 DEF ArenaOk
<1>14. BinInv(bm, wl)
  BY <1>4, <1>8, <1>12, <1>13, BinJoin
<1> QED  BY <1>3, <1>4, <1>14

LEMMA QuietKeeps ==
  ASSUME ArenaOk, BinInv(bin, work), NEW t \in Threads, Quiet(t), NEW n, StepKeeps(bin', objects', n)
  PROVE  BothKept(n)
<1>1. BinInv(bin', work')
  BY QuietBin DEF ArenaOk
<1> QED  BY <1>1 DEF BothKept, BothEnded, StepKeeps

CutsFrom(a, r, req, t) ==
  /\ World(a, {}, {}, bin, objects, work, But(t)) /\ r \in a.clean \cup a.dirty
  /\ req \in Requests /\ req.need <= a.map[r].size

LEMMA CutsOk ==
  ASSUME ArenaOk, BinInv(bin, work), NEW t \in Threads, NEW a, NEW r, NEW req, CutsFrom(a, r, req, t),
         Cuts(t, a, r, req), Holds(work[t]) = {}
  PROVE  BothKept(a.npurgatory)
<1>0. IsBin(bin)
  BY DEF BinInv, BinFine, Shape
<1>1. /\ World(a, {}, {}, bin, objects, work, But(t)) /\ r \in a.clean \cup a.dirty
      /\ req \in Requests /\ req.need <= a.map[r].size
  BY DEF CutsFrom
<1>2. PICK need, large : need = req.need /\ large = (req.for # "bin")
  OBVIOUS
<1>3. /\ need \in Nat /\ need >= 1 /\ need <= NP /\ large \in BOOLEAN /\ need <= a.map[r].size
      /\ req.for \in {"bin", "object", "align"} /\ (large \/ need = RunPages)
  BY <1>1, <1>2, RequestIs
<1>4. PICK N, V, bn : N = {} /\ V = But(t) /\ bn = bin
  OBVIOUS
<1>5. PICK wk, ob, S : wk = work /\ ob = objects /\ S = N \cup {r}
  OBVIOUS
<1>6. PICK b : b = RunSplit(a, r, need, large)
  OBVIOUS
<1>7. World(a, N, N, bn, ob, wk, V)
  BY <1>1, <1>4, <1>5
<1>8. /\ World(b, S, N, bn, ob, wk, V) /\ SplitOut(a, b, r, need, large)
      /\ RunSplitFields(a, b, r, need, large) /\ Unused(b, r, 0)
  BY <1>1, <1>3, <1>5, <1>6, <1>7, WorldSplit
<1>9. Length(b, r) = need /\ b.npurgatory = a.npurgatory
  BY <1>8 DEF SplitOut, RunSplitFields
<1>10. Fresh(b, S, r, need, t)
  BY <1>4, <1>5, <1>8, <1>9 DEF Fresh
<1>11. a.map[r].flags \in FreeFlags
  <2>1. PICK A, K : A = N \cup Others(bn, ob, wk, V) /\ K = Left(a, N, wk, V)
    OBVIOUS
  <2>2. Fine(a, A, K)
    BY <1>7, <2>1, WorldFine
  <2> QED  BY <1>1, <2>2, TreeRuns
<1>12. IsLarge(b, r) <=> large
  BY <1>3, <1>8, <1>11 DEF SplitOut, IsLarge, Elem, Taken, FreeFlags
<1>13. CASE req.for = "object"
  <2>1. TrimTail(t, b, r, need, need)
    BY <1>2, <1>6, <1>13 DEF Cuts
  <2>2. FreshLarge(b, S, r, need, t)
    BY <1>2, <1>10, <1>12, <1>13 DEF FreshLarge
  <2>4. need \in 1 .. need
    BY <1>3
  <2>3. StepKeeps(bin', objects', b.npurgatory)
    BY <2>1, <2>2, <2>4, TrimTailOk
  <2>5. Quiet(t)
    BY <2>1, QuietTrim
  <2> QED  BY <1>9, <2>3, <2>5, QuietKeeps
<1>14. CASE req.for = "align"
  <2>1. Aligned(t, b, r, req)
    BY <1>2, <1>6, <1>14 DEF Cuts
  <2>2. FreshLarge(b, S, r, req.need, t) /\ AlignOk(req)
    BY <1>1, <1>2, <1>10, <1>12, <1>14, RequestAlign DEF FreshLarge
  <2>3. StepKeeps(bin', objects', b.npurgatory)
    BY <2>1, <2>2, AlignedOk
  <2>5. Quiet(t)
    BY <2>1, QuietAligned
  <2> QED  BY <1>9, <2>3, <2>5, QuietKeeps
<1>15. CASE req.for = "bin"
  <2>1. NewRun(t, b, r)
    BY <1>2, <1>6, <1>15 DEF Cuts
  <2>2. Fresh(b, S, r, RunPages, t) /\ ~IsLarge(b, r)
    BY <1>2, <1>3, <1>10, <1>12, <1>15
  <2>3. StepKeeps(bin', objects', b.npurgatory)
    BY <1>0, <2>1, <2>2, NewRunOk
  <2>5. BinInv(bin', work')
    BY <2>1, <2>2, NewRunFine
  <2> QED  BY <1>9, <2>3, <2>5 DEF BothKept, BothEnded, StepKeeps
<1> QED  BY <1>3, <1>13, <1>14, <1>15

LEMMA RunAllocOk ==
  ASSUME ArenaOk, BinInv(bin, work), NEW t \in Threads, NEW req \in Requests, RunAlloc(t, req),
         World(arena, {}, {}, bin, objects, work, But(t)), Holds(work[t]) = {}
  PROVE  BothKept(arena.npurgatory)
<1>1. PICK a, r : a = arena /\ r = FindRun(arena, req.need)
  OBVIOUS
<1>2. PICK N, V, bn : N = {} /\ V = But(t) /\ bn = bin
  OBVIOUS
<1>3. PICK wk, ob : wk = work /\ ob = objects
  OBVIOUS
<1>4. World(a, N, N, bn, ob, wk, V)
  BY <1>1, <1>2, <1>3
<1>5. PICK A, K : A = N \cup Others(bn, ob, wk, V) /\ K = Left(a, N, wk, V)
  OBVIOUS
<1>6. Fine(a, A, K)
  BY <1>4, <1>5, WorldFine
<1>7. CASE r # Null
  <2>1. Cuts(t, a, r, req)
    BY <1>1, <1>7 DEF RunAlloc
  <2>2. r \in a.clean \cup a.dirty /\ a.map[r].size >= req.need
    BY <1>1, <1>6, <1>7, FindRunIs
  <2>3. req.need <= a.map[r].size
    <3>1. a.map[r].size \in Nat /\ req.need \in Nat
      BY <1>6, <2>2, TreeRuns, RequestIs
    <3> QED  BY <2>2, <3>1
  <2>4. CutsFrom(a, r, req, t)
    BY <1>1, <2>2, <2>3 DEF CutsFrom
  <2> QED  BY <1>1, <2>1, <2>4, CutsOk
<1>8. CASE r = Null /\ a.spare # Null
  <2>1. PICK b, s : b = ReuseSpare(a) /\ s = First(a.spare)
    OBVIOUS
  <2>2. Cuts(t, b, s, req)
    BY <1>1, <1>8, <2>1 DEF RunAlloc
  <2>3. /\ World(b, N, N, bn, ob, wk, V) /\ ReuseFields(a, b)
        /\ First(a.spare) \in b.clean \cup b.dirty /\ b.map[First(a.spare)].size = NP
    BY <1>4, <1>8, <2>1, WorldReuse
  <2>4. CutsFrom(b, s, req, t) /\ b.npurgatory = a.npurgatory
    BY <1>2, <1>3, <2>1, <2>3, RequestIs DEF CutsFrom, ReuseFields
  <2>5. BothKept(b.npurgatory)
    BY <2>2, <2>4, CutsOk
  <2> QED  BY <1>1, <2>4, <2>5
<1>9. CASE r = Null /\ a.spare = Null
  <2>1. PICK x : x = <<"map", req>>
    OBVIOUS
  <2>2. /\ arena' = arena /\ bin' = bin /\ objects' = objects
        /\ work' = [work EXCEPT ![t] = <<x>>]
    BY <1>1, <1>9, <2>1 DEF RunAlloc, Does
  <2>3. x[1] = "map" /\ x[2] = req
    BY <2>1
  <2>4. TaskOk(x) /\ x[1] \in Plain
    BY <2>3 DEF TaskOk, Plain
  <2>5. arena' = a /\ World(a, N, N, bn, ob, work, But(t))
    BY <1>1, <1>2, <1>3, <1>4, <2>2
  <2>6. StepEnded(bn, ob)
    BY <1>2, <2>2, <2>4, <2>5, EndOne
  <2>7. PICK w : w = <<x>>
    OBVIOUS
  <2>8. Range(w) = {x} /\ x[1] \notin {"bin", "drop"}
    BY <2>3, <2>7, RangeOne
  <2>9. Holds(w) = Holds(work[t])
    BY <2>8, HoldsOne
  <2>10. Quiet(t)
    BY <2>2, <2>7, <2>9, QuietWork
  <2>11. StepKeeps(bin', objects', arena.npurgatory)
    BY <1>2, <1>3, <2>2, <2>6 DEF StepKeeps
  <2> QED  BY <2>10, <2>11, QuietKeeps
<1> QED  BY <1>7, <1>8, <1>9

(* Calls and tasks that take a run out of the arena.                       *)
LEMMA StepMalloc ==
  ASSUME ArenaOk, BinInv(bin, work), NEW t \in Threads, NEW n \in 1 .. NP, arena_malloc_large(t, n)
  PROVE  BothKept(arena.npurgatory)
<1>1. PICK req : req = [for |-> "object", need |-> n]
  OBVIOUS
<1>2. RunAlloc(t, req) /\ Idle(t)
  BY <1>1 DEF arena_malloc_large
<1>3. req \in Requests
  BY <1>1 DEF Requests
<1>4. World(arena, {}, {}, bin, objects, work, But(t))
  BY <1>2, BeginIdle
<1>5. Holds(work[t]) = {}
  BY <1>2, IdleHolds
<1> QED  BY <1>2, <1>3, <1>4, <1>5, RunAllocOk

LEMMA StepPalloc ==
  ASSUME ArenaOk, BinInv(bin, work), NEW t \in Threads, NEW n \in 1 .. NP, NEW align \in {2, 4},
         arena_palloc(t, n, align)
  PROVE  BothKept(arena.npurgatory)
<1>1. PICK need : need = Oversize(n, align)
  OBVIOUS
<1>2. PICK req : req = [for |-> "align", need |-> need, size |-> n, align |-> align]
  OBVIOUS
<1>3. RunAlloc(t, req) /\ Idle(t) /\ need <= NP
  BY <1>1, <1>2 DEF arena_palloc
<1>4. NP \in Nat
  BY Numbers
<1>5. need \in 1 .. NP /\ n + align - 1 <= need
  BY <1>1, <1>3, <1>4 DEF Oversize
<1>6. req \in Requests
  BY <1>2, <1>5 DEF Requests
<1>7. World(arena, {}, {}, bin, objects, work, But(t))
  BY <1>3, BeginIdle
<1>8. Holds(work[t]) = {}
  BY <1>3, IdleHolds
<1> QED  BY <1>3, <1>6, <1>7, <1>8, RunAllocOk

LEMMA StepRunForBin ==
  ASSUME ArenaOk, BinInv(bin, work), NEW t \in Threads, RunForBin(t)
  PROVE  BothKept(arena.npurgatory)
<1>1. PICK req : req = [for |-> "bin", need |-> RunPages]
  OBVIOUS
<1>2. Task(t, "run") /\ RunAlloc(t, req)
  BY <1>1 DEF RunForBin
<1>3. req \in Requests
  BY <1>1 DEF Requests
<1>4. World(arena, {}, {}, bin, objects, work, But(t))
  <2>1. PICK x, name : x = work[t][1] /\ name = "run"
    OBVIOUS
  <2> QED  BY <1>2, <2>1, LastPlain
<1>5. Holds(work[t]) = {}
  <2>1. PICK name : name = "run"
    OBVIOUS
  <2> QED  BY <1>2, <2>1, TaskHolds
<1> QED  BY <1>2, <1>3, <1>4, <1>5, RunAllocOk

LEMMA StepMapChunk ==
  ASSUME ArenaOk, BinInv(bin, work), NEW t \in Threads, MapChunk(t)
  PROVE  BothKept(arena.npurgatory)
<1>1. PICK x, name : x = work[t][1] /\ name = "map"
  OBVIOUS
<1>2. PICK req, r, free : req = Arg(t) /\ r = FindRun(arena, req.need) /\ free = Chunks \ arena.mapped
  OBVIOUS
<1>3. /\ Task(t, name)
      /\ \/ free # {} /\ Cuts(t, NewChunk(arena, Min(free)), First(Min(free)), req)
         \/ r # Null /\ Cuts(t, arena, r, req)
         \/ /\ r = Null
            /\ Does(t, IF req.for = "bin" THEN <<<<"bin", Null>>>> ELSE <<>>)
            /\ UNCHANGED <<bin, arena, objects>>
  BY <1>1, <1>2 DEF MapChunk
<1>4. x[1] = "map" /\ TaskOk(x) /\ World(arena, {}, {}, bin, objects, work, But(t))
  BY <1>1, <1>3, LastPlain
<1>5. req \in Requests
  BY <1>1, <1>2, <1>4 DEF TaskOk, Arg
<1>6. PICK N, V, bn : N = {} /\ V = But(t) /\ bn = bin
  OBVIOUS
<1>7. PICK wk, ob, a : wk = work /\ ob = objects /\ a = arena
  OBVIOUS
<1>8. World(a, N, N, bn, ob, wk, V)
  BY <1>4, <1>6, <1>7
<1>12. Holds(work[t]) = {}
  BY <1>1, <1>3, TaskHolds
<1>9. CASE free # {} /\ Cuts(t, NewChunk(arena, Min(free)), First(Min(free)), req)
  <2>1. PICK c : c = Min(free)
    OBVIOUS
  <2>2. free \in SUBSET Nat
    <3>1. NC \in Nat
      BY Numbers
    <3> QED  BY <1>2, <3>1 DEF Chunks
  <2>3. c \in free
    BY <1>9, <2>1, <2>2, MinIs
  <2>4. c \in Chunks /\ c \notin a.mapped
    BY <1>2, <1>7, <2>3
  <2>5. PICK b, s : b = NewChunk(a, c) /\ s = First(c)
    OBVIOUS
  <2>6. Cuts(t, b, s, req)
    BY <1>7, <1>9, <2>1, <2>5
  <2>7. World(b, N, N, bn, ob, wk, V) /\ NewFields(a, b, c) /\ First(c) \in b.clean /\ b.map[First(c)] = Elem(NP, {})
    BY <1>8, <2>4, <2>5, WorldNew
  <2>8. b.map[s].size = NP /\ s \in b.clean \cup b.dirty /\ b.npurgatory = a.npurgatory
    BY <2>5, <2>7 DEF Elem, NewFields
  <2>9. req.need <= b.map[s].size
    BY <1>5, <2>8, RequestIs
  <2>10. CutsFrom(b, s, req, t)
    BY <1>5, <1>6, <1>7, <2>7, <2>8, <2>9 DEF CutsFrom
  <2>11. BothKept(b.npurgatory)
    BY <1>12, <2>6, <2>10, CutsOk
  <2> QED  BY <1>7, <2>8, <2>11
<1>10. CASE r # Null /\ Cuts(t, arena, r, req)
  <2>1. PICK A, K : A = N \cup Others(bn, ob, wk, V) /\ K = Left(a, N, wk, V)
    OBVIOUS
  <2>2. Fine(a, A, K)
    BY <1>8, <2>1, WorldFine
  <2>3. r \in a.clean \cup a.dirty /\ a.map[r].size >= req.need
    BY <1>2, <1>7, <1>10, <2>2, FindRunIs
  <2>4. a.map[r].size \in Nat /\ req.need \in Nat
    BY <1>5, <2>2, <2>3, TreeRuns, RequestIs
  <2>5. CutsFrom(a, r, req, t)
    BY <1>4, <1>5, <1>7, <2>3, <2>4 DEF CutsFrom
  <2> QED  BY <1>7, <1>10, <1>12, <2>5, CutsOk
<1>11. CASE /\ r = Null
            /\ Does(t, IF req.for = "bin" THEN <<<<"bin", Null>>>> ELSE <<>>)
            /\ UNCHANGED <<bin, arena, objects>>
  <2>1. arena' = a /\ World(a, N, N, bn, ob, work, But(t)) /\ bin' = bn /\ objects' = ob
    BY <1>6, <1>7, <1>8, <1>11
  <2>2. CASE req.for = "bin"
    <3>1. PICK y : y = <<"bin", Null>>
      OBVIOUS
    <3>2. y[1] = "bin" /\ work' = [work EXCEPT ![t] = <<y>>]
      BY <1>11, <2>2, <3>1 DEF Does
    <3>3. TaskOk(y) /\ y[1] \in Plain
      BY <3>2 DEF TaskOk, Plain
    <3>4. StepEnded(bn, ob)
      BY <1>6, <2>1, <3>2, <3>3, EndOne
    <3>5. PICK w : w = <<y>>
      OBVIOUS
    <3>6. Range(w) = {y} /\ y[2] = Null
      BY <3>1, <3>5, RangeOne
    <3>7. Holds(w) = Holds(work[t])
      BY <1>12, <3>2, <3>6, HoldsOne
    <3>8. Quiet(t)
      BY <1>6, <2>1, <3>2, <3>5, <3>7, QuietWork
    <3>9. StepKeeps(bin', objects', arena.npurgatory)
      BY <1>7, <2>1, <3>4 DEF StepKeeps
    <3> QED  BY <3>8, <3>9, QuietKeeps
  <2>3. CASE req.for # "bin"
    <3>1. work' = [work EXCEPT ![t] = <<>>]
      BY <1>11, <2>3 DEF Does
    <3>2. StepEnded(bn, ob)
      BY <1>6, <2>1, <3>1, EndNone
    <3>3. PICK w : w = <<>>
      OBVIOUS
    <3>4. Range(w) = {}
      BY <3>3, RangeOne
    <3>5. Holds(w) = Holds(work[t])
      BY <1>12, <3>4, HoldsNothing
    <3>6. Quiet(t)
      BY <1>6, <2>1, <3>1, <3>3, <3>5, QuietWork
    <3>7. StepKeeps(bin', objects', arena.npurgatory)
      BY <1>7, <2>1, <3>2 DEF StepKeeps
    <3> QED  BY <3>6, <3>7, QuietKeeps
  <2> QED  BY <2>2, <2>3
<1> QED  BY <1>3, <1>9, <1>10, <1>11

-----------------------------------------------------------------------------
(* The inductive invariant.                                                *)

IInv == ArenaOk /\ BinInv(bin, work) /\ uses \in Programs

LEMMA InitGood ==
  ASSUME Init
  PROVE  Fine(arena, {}, {}) /\ arena.released = Null /\ arena.mapped = {}
<1>1. PICK a : a = arena
  OBVIOUS
<1>2. /\ a.map = [p \in Pages |-> Elem(0, {})] /\ a.clean = {} /\ a.dirty = {}
      /\ a.chunks_dirty = <<>> /\ a.dirtied = {} /\ a.cdirty = [c \in Chunks |-> 0]
      /\ a.spare = Null /\ a.released = Null /\ a.mapped = {} /\ a.touched = {}
      /\ a.nactive = 0 /\ a.ndirty = 0 /\ a.npurgatory = 0
  BY <1>1 DEF Init
<1>3. IsArena(a)
  BY <1>1, <1>2 DEF Init, IsArena
<1>4. FieldsTyped(a)
  <2>1. a.map \in [Pages -> Elems]
    <3>1. Elem(0, {}) \in Elems
      BY ElemTyped
    <3> QED  BY <1>2, <3>1
  <2>2. a.chunks_dirty \in Seq(Chunks)
    BY <1>2
  <2>3. a.cdirty \in [Chunks -> Int]
    BY <1>2
  <2> QED  BY <1>2, <2>1, <2>2, <2>3 DEF FieldsTyped
<1>5. Typed(a)
  BY <1>3, <1>4, TypedIs
<1>6. FreeRuns(a) = {} /\ SpareRuns(a) = {}
  <2>1. SpareRuns(a) = {}
    BY <1>2, <1>5, SpareIs
  <2> QED  BY <1>2, <2>1 DEF FreeRuns
<1>7. Laid(a, {}, FreeRuns(a), {})
  BY <1>6 DEF Laid, Tiles
<1>8. Sorted(a) /\ Apart(a, FreeRuns(a))
  BY <1>2, <1>6 DEF Sorted, Apart
<1>9. Listed(a, {})
  <2>1. Range(<<>>) = {}
    BY RangeOne
  <2>2. IsInjective(<<>>)
    BY DEF IsInjective
  <2> QED  BY <1>2, <2>1, <2>2 DEF Listed
<1>10. Counted(a, {}, {})
  <2>1. Sizes(a, {}) = 0
    BY SizesNone
  <2>2. PICK f : f = [c \in {} |-> a.cdirty[c]]
    OBVIOUS
  <2>3. SumFunction(f) = 0
    <3>1. IsFiniteSet({})
      BY FS_EmptySet
    <3>2. PICK S : S = {}
      OBVIOUS
    <3>3. IsFiniteSet(S) /\ f \in [S -> Nat]
      BY <2>2, <3>1, <3>2
    <3> QED  BY <3>2, <3>3, SumIs
  <2> QED  BY <1>2, <2>1, <2>2, <2>3 DEF Counted
<1>11. Zero(a)
  BY <1>6 DEF Zero
<1>12. Good(a, {}, {})
  BY <1>2, <1>5, <1>7, <1>8, <1>9 DEF Good
<1> QED  BY <1>1, <1>2, <1>10, <1>11, <1>12 DEF Fine

LEMMA InitIInv ==
  ASSUME Init
  PROVE  IInv
<1>1. PICK a, bn, ob, wk : a = arena /\ bn = bin /\ ob = objects /\ wk = work
  OBVIOUS
<1>2. Fine(a, {}, {}) /\ a.released = Null /\ a.mapped = {}
  BY <1>1, InitGood
<1>3. bn = [cur |-> Null, tree |-> {}, runs |-> <<>>] /\ DOMAIN ob = {} /\ wk = [t \in Threads |-> <<>>]
  BY <1>1 DEF Init
<1>4. DOMAIN bn.runs = {} /\ bn.tree = {} /\ bn.cur = Null /\ IsBin(bn)
  BY <1>3 DEF IsBin
<1>5. \A u \in Threads : wk[u] = <<>> /\ Range(wk[u]) = {}
  BY <1>3, RangeOne
<1>6. HandOf({}) = {} /\ Leaving({}) = {} /\ ListOk(<<>>)
  BY ListNone
<1>7. Holding(wk, Threads) = {} /\ Unmapping(wk, Threads) = {}
  BY <1>5, <1>6 DEF Holding, Unmapping
<1>8. Others(bn, ob, wk, Threads) = {} /\ Left(a, {}, wk, Threads) = {}
  BY <1>2, <1>3, <1>4, <1>7 DEF Others, Left
<1>9. Parted(a, {}, {}, bn, ob, wk, Threads)
  <2>1. \A u \in Threads : HandOf(Range(wk[u])) = {} /\ Leaving(Range(wk[u])) = {}
    BY <1>5, <1>6
  <2> QED  BY <1>3, <1>4, <1>7, <1>8, <2>1 DEF Parted
<1>10. ThreadsOk(a, wk, Threads)
  BY <1>5, <1>6 DEF ThreadsOk, Claims
<1>11. ObjectsOk(a, ob) /\ BinOk(a, bn)
  BY <1>3, <1>4 DEF ObjectsOk, BinOk
<1>12. World(a, {}, {}, bn, ob, wk, Threads)
  <2>1. Fine(a, {} \cup Others(bn, ob, wk, Threads), Left(a, {}, wk, Threads))
    BY <1>2, <1>8
  <2> QED  BY <1>2, <1>9, <1>10, <1>11, <2>1 DEF World
<1>13. BinInv(bn, wk)
  <2>1. \A u \in Threads : Holds(wk[u]) = {}
    BY <1>5, HoldsNothing
  <2>2. HeldOf(wk, Threads) = {}
    BY <2>1 DEF HeldOf
  <2>3. Shape(bn)
    BY <1>4 DEF Shape
  <2>4. Found(bn, {}, {})
    BY <1>4 DEF Found
  <2> QED  BY <2>1, <2>2, <2>3, <2>4 DEF BinInv, BinFine
<1>14. Workers(wk)
  BY <1>3 DEF Workers
<1> QED  BY <1>1, <1>12, <1>13, <1>14 DEF IInv, ArenaOk, Init

StepOk == BothEnded(bin', objects')

LEMMA QuietOk ==
  ASSUME ArenaOk, BinInv(bin, work), NEW t \in Threads, Quiet(t), StepEnded(bin', objects')
  PROVE  StepOk
<1>1. BinInv(bin', work')
  BY QuietBin DEF ArenaOk
<1> QED  BY <1>1 DEF StepOk, BothEnded

LEMMA KeptOk ==
  ASSUME NEW n, BothKept(n)
  PROVE  StepOk
BY DEF BothKept, StepOk

LEMMA CallLargeOk ==
  ASSUME IInv, NEW t \in Threads, CallLarge(t)
  PROVE  StepOk
<1>1. ArenaOk /\ BinInv(bin, work) /\ uses.pages \subseteq 1 .. NP /\ NP \in Nat
  BY ArenaAssumption, Numbers DEF IInv
<1>2. ASSUME NEW n \in uses.pages, arena_malloc_large(t, n) PROVE StepOk
  BY <1>1, <1>2, StepMalloc, KeptOk
<1>3. ASSUME NEW n \in uses.pages, NEW align \in {2, 4}, arena_palloc(t, n, align) PROVE StepOk
  BY <1>1, <1>3, StepPalloc, KeptOk
<1>4. ASSUME NEW r \in DOMAIN objects, arena_dalloc_large(t, r) PROVE StepOk
  <2>1. StepEnded(bin', objects')
    BY <1>1, <1>4, StepDalloc DEF StepKeeps
  <2>2. Quiet(t)
    BY <1>4, QuietDalloc
  <2> QED  BY <1>1, <2>1, <2>2, QuietOk
<1>5. ASSUME NEW r \in DOMAIN objects, NEW n \in uses.pages, arena_ralloc_large_shrink(t, r, n)
      PROVE  StepOk
  <2>0. n \in Nat /\ n >= 1
    BY <1>1
  <2>1. StepEnded(bin', objects')
    BY <1>1, <1>5, <2>0, StepShrink DEF StepKeeps
  <2>2. Quiet(t)
    BY <1>5, QuietShrink
  <2> QED  BY <1>1, <2>1, <2>2, QuietOk
<1>6. ASSUME NEW r \in DOMAIN objects, NEW n \in uses.pages, NEW extra \in 0 .. NP - n,
             arena_ralloc_large_grow(t, r, n, extra)
      PROVE  StepOk
  <2>0. n \in Nat /\ extra \in Nat
    BY <1>1
  <2>1. StepEnded(bin', objects')
    BY <1>1, <1>6, <2>0, StepGrow DEF StepKeeps
  <2>2. Quiet(t)
    BY <1>1, <1>6, QuietGrow
  <2> QED  BY <1>1, <2>1, <2>2, QuietOk
<1> QED  BY <1>2, <1>3, <1>4, <1>5, <1>6 DEF CallLarge

LEMMA CallSmallOk ==
  ASSUME IInv, NEW t \in Threads, CallSmall(t)
  PROVE  StepOk
<1>1. ArenaOk /\ BinInv(bin, work)
  BY DEF IInv
<1>2. CASE arena_malloc_small(t)
  BY <1>1, <1>2, StepMallocSmall, KeptOk
<1>3. ASSUME NEW r \in DOMAIN bin.runs, NEW i \in Held(bin, r), arena_dalloc_bin(t, r, i) PROVE StepOk
  BY <1>1, <1>3, StepDallocBin, KeptOk
<1> QED  BY <1>2, <1>3 DEF CallSmall

LEMMA ContinueOk ==
  ASSUME IInv, NEW t \in Threads, Continue(t)
  PROVE  StepOk
<1>1. ArenaOk /\ BinInv(bin, work)
  BY DEF IInv
<1>2. CASE MapChunk(t)
  BY <1>1, <1>2, StepMapChunk, KeptOk
<1>3. CASE UnmapChunk(t)
  <2>1. StepEnded(bin', objects')
    BY <1>1, <1>3, StepUnmap DEF StepKeeps
  <2> QED  BY <1>1, <1>3, <2>1, QuietUnmap, QuietOk
<1>4. CASE TrimTailOf(t)
  <2>1. StepEnded(bin', objects')
    BY <1>1, <1>4, StepTrimTail DEF StepKeeps
  <2> QED  BY <1>1, <1>4, <2>1, QuietTrimTail, QuietOk
<1>5. CASE MaybePurge(t)
  BY <1>1, <1>5, StepMaybe, QuietMaybe, QuietOk
<1>6. CASE PurgeChunk(t)
  BY <1>1, <1>6, StepPurge, QuietPurge, QuietOk
<1>7. CASE Madvise(t)
  <2>1. StepEnded(bin', objects')
    BY <1>1, <1>7, StepMadvise DEF StepKeeps
  <2> QED  BY <1>1, <1>7, <2>1, QuietMadvise, QuietOk
<1>8. CASE ReturnRun(t)
  <2>1. StepEnded(bin', objects')
    BY <1>1, <1>8, StepReturn DEF StepKeeps
  <2> QED  BY <1>1, <1>8, <2>1, QuietReturn, QuietOk
<1>9. CASE RunForBin(t)
  BY <1>1, <1>9, StepRunForBin, KeptOk
<1>10. CASE Refill(t)
  BY <1>1, <1>10, StepRefill, KeptOk
<1>11. CASE DropRun(t)
  BY <1>1, <1>11, StepDrop, KeptOk
<1> QED  BY <1>2, <1>3, <1>4, <1>5, <1>6, <1>7, <1>8, <1>9, <1>10, <1>11 DEF Continue

LEMMA NextIInv ==
  ASSUME IInv, [Next]_vars
  PROVE  IInv'
<1>1. CASE Next
  <2>1. PICK t \in Threads : CallLarge(t) \/ CallSmall(t) \/ arena_purge_all(t) \/ Continue(t)
    BY <1>1 DEF Next
  <2>2. StepOk
    <3>1. CASE arena_purge_all(t)
      <4>1. ArenaOk /\ BinInv(bin, work)
        BY DEF IInv
      <4> QED  BY <3>1, <4>1, StepPurgeAll, QuietPurgeAll, QuietOk
    <3> QED  BY <2>1, <3>1, CallLargeOk, CallSmallOk, ContinueOk
  <2>3. uses' = uses
    BY <1>1 DEF Next
  <2> QED  BY <2>2, <2>3 DEF StepOk, BothEnded, StepEnded, IInv, ArenaOk
<1>2. CASE UNCHANGED vars
  BY <1>2 DEF vars, IInv, ArenaOk, BinInv
<1> QED  BY <1>1, <1>2

(* Who holds which run, chunk and place in the bin, in every state that    *)
(* the threads' steps bring about.                                         *)
THEOREM Inductive == Spec => []IInv
<1>1. Init => IInv
  BY InitIInv
<1>2. IInv /\ [Next]_vars => IInv'
  BY NextIInv
<1> QED  BY <1>1, <1>2, PTL DEF Spec

-----------------------------------------------------------------------------
(* What the inductive invariant says of the definitions of the model.      *)

LEMMA TileSum ==
  ASSUME NEW a, NEW R, NEW K, Tiles(a, R, K), NEW c \in K, c \in Chunks, NEW S, S = {r \in R : Base(r) = c}
  PROVE  Sizes(a, S) = NP
<1>1. PICK f : f = [r \in S |-> Length(a, r)]
  OBVIOUS
<1>2. \A r \in S : /\ r \in R /\ Base(r) = c /\ r \in Int /\ Length(a, r) \in Nat /\ Length(a, r) >= 1
                   /\ f[r] = Length(a, r)
                   /\ \A p \in r .. r + Length(a, r) - 1 : p \in Pages /\ Base(p) = Base(r)
  BY <1>1, TileEnds
<1>3. IsFiniteSet(S)
  <2>1. S \in SUBSET Pages
    BY DEF Tiles
  <2> QED  BY <2>1, PagesFinite
<1>4. PICK H : H = Heap(f, S)
  OBVIOUS
<1>5. DOMAIN f = S /\ \A r \in S : f[r] \in Nat
  BY <1>1, <1>2
<1>6. IsFiniteSet(H) /\ SumFunction(f) = Cardinality(H)
  BY <1>3, <1>4, <1>5, HeapFinite, SumIsHeap
<1>7. PICK P : P = Of(c)
  OBVIOUS
<1>8. PICK g : g = [h \in H |-> h[1] + h[2] - 1]
  OBVIOUS
<1>9. ASSUME NEW h \in H
      PROVE  /\ h[1] \in S /\ h[2] \in Nat /\ h = <<h[1], h[2]>>
             /\ g[h] \in h[1] .. h[1] + Length(a, h[1]) - 1 /\ g[h] \in P
  <2>1. h[1] \in S /\ h[2] \in Nat /\ 1 <= h[2] /\ h[2] <= f[h[1]] /\ h = <<h[1], h[2]>>
    BY <1>4, <1>9 DEF Heap
  <2>2. g[h] = h[1] + h[2] - 1
    BY <1>8, <1>9
  <2>3. PICK r, n, k : r = h[1] /\ n = h[2] /\ k = Length(a, r)
    OBVIOUS
  <2>4. r \in Int /\ n \in Nat /\ 1 <= n /\ n <= k /\ k \in Nat
    BY <1>2, <2>1, <2>3
  <2>5. r + n - 1 \in r .. r + k - 1
    BY <2>4
  <2>6. g[h] \in Pages /\ Base(g[h]) = c
    BY <1>2, <2>1, <2>2, <2>3, <2>5
  <2>7. Of(c) = {p \in Pages : Base(p) = c}
    BY ChunkSpan
  <2> QED  BY <1>7, <2>1, <2>2, <2>3, <2>5, <2>6, <2>7
<1>10. ASSUME NEW h \in H, NEW i \in H, g[h] = g[i] PROVE h = i
  <2>1. h[1] = i[1]
    <3>1. PICK r, q, p : r = h[1] /\ q = i[1] /\ p = g[h]
      OBVIOUS
    <3>2. r \in R /\ q \in R /\ p \in r .. r + Length(a, r) - 1 /\ p \in q .. q + Length(a, q) - 1
      BY <1>2, <1>9, <1>10, <3>1
    <3> QED  BY <3>1, <3>2, TileOne
  <2>2. g[h] = h[1] + h[2] - 1 /\ g[i] = i[1] + i[2] - 1
    BY <1>8
  <2>3. h[1] \in Int /\ h[2] \in Nat /\ i[2] \in Nat
    BY <1>2, <1>9
  <2>4. h[2] = i[2]
    <3>1. PICK r, n, m : r = h[1] /\ n = h[2] /\ m = i[2]
      OBVIOUS
    <3>2. r + n - 1 = r + m - 1
      BY <1>10, <2>1, <2>2, <3>1
    <3>3. r \in Int /\ n \in Nat /\ m \in Nat
      BY <2>3, <3>1
    <3> QED  BY <3>1, <3>2, <3>3
  <2> QED  BY <1>9, <2>1, <2>4
<1>11. ASSUME NEW p \in P PROVE \E h \in H : g[h] = p
  <2>1. p \in Pages /\ Base(p) = c /\ p \in Int
    <3>1. Of(c) = {x \in Pages : Base(x) = c}
      BY ChunkSpan
    <3> QED  BY <1>7, <3>1 DEF Pages
  <2>2. PICK r \in R : r <= p /\ p < r + Length(a, r)
    BY <2>1 DEF Tiles
  <2>3. r \in Int /\ Length(a, r) \in Nat
    BY TileEnds
  <2>4. p \in r .. r + Length(a, r) - 1
    BY <2>1, <2>2, <2>3
  <2>5. r \in S
    <3>1. Base(p) = Base(r)
      BY <2>4, TileEnds
    <3> QED  BY <2>1, <3>1
  <2>6. PICK n, h : n = p - r + 1 /\ h = <<r, n>>
    OBVIOUS
  <2>7. n \in Nat /\ 1 <= n /\ n <= Length(a, r)
    BY <2>1, <2>2, <2>3, <2>6
  <2>8. h \in H /\ h[1] = r /\ h[2] = n
    BY <1>2, <1>4, <2>5, <2>6, <2>7 DEF Heap
  <2>9. g[h] = r + n - 1
    BY <1>8, <2>8
  <2> QED  BY <2>1, <2>3, <2>6, <2>8, <2>9
<1>12. g \in Bijection(H, P)
  <2>1. g \in [H -> P]
    BY <1>8, <1>9
  <2> QED  BY <1>10, <1>11, <2>1 DEF Bijection, Injection, Surjection, IsInjective
<1>13. Cardinality(P) = Cardinality(H)
  BY <1>6, <1>12, FS_Bijection DEF ExistsBijection
<1>14. Cardinality(P) = NP
  <2>1. PICK b, e : b = First(c) /\ e = First(c) + NP - 1
    OBVIOUS
  <2>2. b \in Int /\ e \in Int /\ NP \in Nat \ {0}
    <3>1. c \in Int
      BY ChunkSpan
    <3>2. First(c) \in Int
      BY <3>1, BaseIs
    <3> QED  BY <2>1, <3>2, Numbers
  <2>3. ~(b > e) /\ e - b + 1 = NP
    BY <2>1, <2>2
  <2>4. Cardinality(b .. e) = NP
    BY <2>2, <2>3, FS_Interval
  <2> QED  BY <1>7, <2>1, <2>4 DEF Of
<1> QED  BY <1>1, <1>6, <1>13, <1>14 DEF Sizes

(* The state as the properties see it: A are the allocated runs, F the     *)
(* free ones, K the chunks.                                                *)
Seen(a, A, F, K) ==
  /\ a = arena /\ A = Others(bin, objects, work, Threads) /\ F = FreeRuns(a)
  /\ K = Left(a, {}, work, Threads)

View(a, A, F, K) ==
  /\ Fine(a, A, K) /\ Laid(a, A, F, K) /\ A \cap F = {} /\ Kept = K /\ Runs = A \cup F
  /\ Free(A \cup F) = F /\ K \in SUBSET Chunks

LEMMA Viewed ==
  ASSUME IInv, NEW a, NEW A, NEW F, NEW K, Seen(a, A, F, K)
  PROVE  View(a, A, F, K)
<1>1. World(a, {}, {}, bin, objects, work, Threads)
  BY DEF IInv, ArenaOk, Seen
<1>2. Fine(a, A, K) /\ ThreadsOk(a, work, Threads)
  <2>1. {} \cup A = A
    OBVIOUS
  <2> QED  BY <1>1, <2>1 DEF World, Seen
<1>3. Laid(a, A, F, K) /\ Typed(a) /\ a.mapped \in SUBSET Chunks
  <2>1. Laid(a, A, F, K) /\ Typed(a)
    BY <1>2 DEF Fine, Good, Seen
  <2> QED  BY <2>1, TypedIs DEF FieldsTyped
<1>4. A \cap F = {}
  <2>1. \A r \in A \cap F : Kind(a, r, A, F)
    BY <1>3 DEF Laid
  <2> QED  BY <2>1 DEF Kind
<1>5. Kept = K /\ K \in SUBSET Chunks
  <2>1. PICK U : U = {task[2] : task \in UNION {Tasks(t, {"unmap"}) : t \in Threads}}
    OBVIOUS
  <2>2. PICK W : W = Unmapping(work, Threads)
    OBVIOUS
  <2>3. ASSUME NEW c \in W PROVE c \in U
    <3>1. PICK u \in Threads : c \in Leaving(Range(work[u]))
      BY <2>2, <2>3 DEF Unmapping
    <3>2. PICK x \in Range(work[u]) : x[1] = "unmap" /\ x[2] = c
      BY <3>1 DEF Leaving
    <3>3. x \in Tasks(u, {"unmap"})
      BY <3>2 DEF Tasks
    <3> QED  BY <2>1, <3>2, <3>3
  <2>4. ASSUME NEW c \in U, c \in Chunks PROVE c \in W
    <3>1. PICK u \in Threads : \E x \in Tasks(u, {"unmap"}) : c = x[2]
      BY <2>1, <2>4
    <3>2. PICK x \in Tasks(u, {"unmap"}) : c = x[2]
      BY <3>1
    <3>3. x \in Range(work[u]) /\ x[1] = "unmap"
      BY DEF Tasks
    <3>4. c \in Leaving(Range(work[u]))
      BY <2>4, <3>2, <3>3 DEF Leaving
    <3> QED  BY <2>2, <2>4, <3>4 DEF Unmapping
  <2>5. a.mapped \ U = a.mapped \ W
    BY <1>3, <2>3, <2>4
  <2>6. Kept = a.mapped \ U
    BY <2>1 DEF Kept, Seen
  <2>7. K = a.mapped \ W
    BY <2>2 DEF Left, Seen
  <2> QED  BY <1>3, <2>5, <2>6, <2>7
<1>6. Runs = A \cup F
  <2>1. \A c \in K : Starts(a, c) = {r \in A \cup F : Base(r) = c}
    BY <1>3, <1>5, StartsIs
  <2>2. \A r \in A \cup F : Base(r) \in K
    BY <1>3, LaidEnds
  <2>3. Runs = UNION {Starts(a, c) : c \in K}
    BY <1>5 DEF Runs, Seen
  <2>4. ASSUME NEW r \in A \cup F PROVE r \in Runs
    BY <2>1, <2>2, <2>3, <2>4
  <2>5. ASSUME NEW r \in Runs PROVE r \in A \cup F
    BY <2>1, <2>3, <2>5
  <2> QED  BY <2>4, <2>5
<1>7. Free(A \cup F) = F
  <2>1. \A r \in F : IsFree(a.map[r])
    BY <1>3, FreeLength
  <2>2. \A r \in A : ~IsFree(a.map[r])
    BY <1>3, AllocLength
  <2> QED  BY <2>1, <2>2 DEF Free, Seen
<1> QED  BY <1>2, <1>3, <1>4, <1>5, <1>6, <1>7 DEF View

(* The chunks of the arena, cut into runs.                                 *)
LEMMA MapTrees ==
  ASSUME IInv
  PROVE  MapMatchesTrees
<1>1. PICK a, A, F, K : Seen(a, A, F, K)
  BY DEF Seen
<1>2. View(a, A, F, K) /\ a = arena /\ F = FreeRuns(a)
  BY <1>1, Viewed DEF Seen
<1>3. PICK R : R = A \cup F
  OBVIOUS
<1>4. /\ Laid(a, A, F, K) /\ Tiles(a, R, K) /\ Kept = K /\ Runs = R /\ Free(R) = F
      /\ K \in SUBSET Chunks /\ Typed(a) /\ Sorted(a) /\ Apart(a, F)
  BY <1>2, <1>3 DEF View, Fine, Good, Laid
<1>5. ASSUME NEW c \in K
      PROVE  /\ SizeOf(In(c, R)) = NP
             /\ c = a.spare => In(c, R) = {First(c)} /\ First(c) \in F
  <2>1. PICK S : S = In(c, R)
    OBVIOUS
  <2>2. S = {r \in R : Base(r) = c} /\ c \in Chunks
    BY <1>4, <2>1 DEF In
  <2>3. Sizes(a, S) = NP
    BY <1>4, <2>2, TileSum
  <2>4. SizeOf(S) = NP
    BY <1>2, <2>3 DEF SizeOf, Sizes
  <2>5. ASSUME c = a.spare PROVE S = {First(c)} /\ First(c) \in F
    <3>1. First(c) \in SpareRuns(a) /\ First(c) \in F
      BY <1>2, <2>2, <2>5 DEF SpareRuns, FreeRuns
    <3>2. a.map[First(c)].size = NP
      BY <1>4, <3>1 DEF Sorted
    <3>3. PICK q : q = First(c)
      OBVIOUS
    <3>4. Length(a, q) = NP
      BY <1>4, <3>1, <3>2, <3>3, FreeLength
    <3>5. First(c) \in R /\ Length(a, First(c)) = NP
      BY <1>3, <3>1, <3>3, <3>4
    <3>6. \A r \in R : Base(r) = c => r = First(c)
      BY <1>4, <2>2, <3>5, TileDrop
    <3>7. Base(First(c)) = c
      BY <2>2, ChunkSpan
    <3> QED  BY <2>2, <3>1, <3>5, <3>6, <3>7
  <2> QED  BY <2>1, <2>4, <2>5
<1>6. ASSUME NEW r \in F
      PROVE  /\ EndOf(r) = r + Length(a, r) - 1 /\ a.map[r] = a.map[EndOf(r)]
             /\ EndOf(r) + 1 \in In(Base(r), F) => IsDirty(r) # IsDirty(EndOf(r) + 1)
             /\ (IsDirty(r) <=> a.map[r].flags # {})
  <2>1. PICK e : e = EndOf(r)
    OBVIOUS
  <2>2. e = r + Length(a, r) - 1
    BY <1>2, <2>1 DEF EndOf
  <2>3. Length(a, r) = a.map[r].size /\ a.map[r + a.map[r].size - 1] = a.map[r]
    BY <1>4, FreeLength
  <2>4. ASSUME NEW q \in F PROVE IsDirty(q) <=> a.map[q].flags # {}
    <3>1. Dirty(a.map[q]) = a.map[q].flags
      BY <1>4, <2>4, FreeLength
    <3> QED  BY <1>2, <3>1 DEF IsDirty
  <2>5. ASSUME e + 1 \in In(Base(r), F) PROVE IsDirty(r) # IsDirty(e + 1)
    <3>1. PICK s : s = e + 1
      OBVIOUS
    <3>2. s \in F /\ Base(s) = Base(r)
      BY <2>5, <3>1 DEF In
    <3>3. r \in Int /\ Length(a, r) \in Nat
      <4>1. r \in R
        BY <1>3
      <4> QED  BY <1>4, <4>1, TileEnds
    <3>4. s = r + Length(a, r)
      <4>1. PICK n : n = Length(a, r)
        OBVIOUS
      <4>2. e = r + n - 1 /\ n \in Nat
        BY <2>2, <3>3, <4>1
      <4> QED  BY <3>1, <3>3, <4>1, <4>2
    <3>5. a.map[s].flags # a.map[r].flags
      BY <1>4, <3>2, <3>4 DEF Apart
    <3>6. a.map[s].flags \in FreeFlags /\ a.map[r].flags \in FreeFlags
      BY <1>4, <3>2, FreeLength
    <3>7. (a.map[r].flags # {}) # (a.map[s].flags # {})
      BY <3>5, <3>6 DEF FreeFlags
    <3> QED  BY <2>4, <3>1, <3>2, <3>7
  <2> QED  BY <2>1, <2>2, <2>3, <2>4, <2>5
<1>7. PICK listed : listed = {r \in F : Base(r) # a.spare}
  OBVIOUS
<1>8. listed = a.clean \cup a.dirty
  <2>1. ASSUME NEW r \in a.clean \cup a.dirty PROVE r \in listed
    <3>1. r \in F /\ r \in R
      BY <1>2, <1>3 DEF FreeRuns
    <3>2. CASE Base(r) = a.spare
      <4>1. Base(r) \in K
        BY <1>4, <3>1 DEF Tiles
      <4>2. r \in In(Base(r), R)
        BY <3>1 DEF In
      <4>3. r = First(a.spare) /\ a.spare \in Chunks
        BY <1>4, <1>5, <3>2, <4>1, <4>2
      <4>4. r \in SpareRuns(a)
        BY <4>3 DEF SpareRuns
      <4> QED  BY <1>4, <4>4 DEF Sorted
    <3> QED  BY <1>7, <3>1, <3>2
  <2>2. ASSUME NEW r \in listed PROVE r \in a.clean \cup a.dirty
    <3>1. r \in F /\ Base(r) # a.spare
      BY <1>7, <2>2
    <3>2. CASE r \in SpareRuns(a)
      <4>1. PICK c \in {a.spare} \cap Chunks : r = First(c)
        BY <3>2 DEF SpareRuns
      <4>2. Base(r) = a.spare
        BY <4>1, ChunkSpan
      <4> QED  BY <3>1, <4>2
    <3> QED  BY <1>2, <3>1, <3>2 DEF FreeRuns
  <2> QED  BY <2>1, <2>2
<1>9. a.dirty = {r \in listed : IsDirty(r)} /\ a.clean = listed \ a.dirty
  <2>1. ASSUME NEW r \in listed PROVE r \in F /\ (IsDirty(r) <=> a.map[r].flags # {})
    BY <1>6, <1>7, <2>1
  <2>2. \A r \in a.clean : a.map[r].flags = {}
    BY <1>4 DEF Sorted
  <2>3. \A r \in a.dirty : a.map[r].flags # {}
    BY <1>4 DEF Sorted
  <2> QED  BY <1>8, <2>1, <2>2, <2>3
<1> QED  BY <1>2, <1>4, <1>5, <1>6, <1>7, <1>9 DEF MapMatchesTrees

(* MapMatchesTrees: the map of each chunk is cut into runs without a gap,  *)
(* its free runs are in the tree of their kind, the spare's in none, and   *)
(* two side by side differ (arena_run_split, arena_run_dalloc, the trims   *)
(* and arena_chunk_purge).                                                 *)
THEOREM TreesFollowMap == Spec => []MapMatchesTrees
<1>1. IInv => MapMatchesTrees
  BY MapTrees
<1> QED  BY <1>1, Inductive, PTL

LEMMA HandIs ==
  ASSUME NEW t, ListOk(work[t])
  PROVE  InHand(t) = HandOf(Range(work[t]))
<1>1. PICK T : T = Range(work[t])
  OBVIOUS
<1>2. \A x \in T : TaskOk(x)
  BY <1>1 DEF ListOk, TodoOk
<1>3. PICK h : h = [x \in T |-> CASE x[1] \in {"madvise", "return"} -> x[2]
                                  [] x[1] = "tail" -> {x[2]}
                                  [] OTHER -> {}]
  OBVIOUS
<1>4. ASSUME NEW x \in T
      PROVE  /\ x[1] \in {"madvise", "return"} => h[x] = x[2] /\ x[2] \subseteq Pages
             /\ x[1] = "tail" => h[x] = {x[2]} /\ x[2] \in Pages
             /\ x[1] \notin {"madvise", "return", "tail"} => h[x] = {}
  BY <1>2, <1>3, <1>4 DEF TaskOk
<1>5. InHand(t) = UNION {h[x] : x \in T}
  BY <1>1, <1>3 DEF InHand
<1>6. ASSUME NEW p \in InHand(t) PROVE p \in HandOf(T)
  <2>1. PICK x \in T : p \in h[x]
    BY <1>5, <1>6
  <2>2. CASE x[1] \in {"madvise", "return"}
    BY <1>4, <2>1, <2>2 DEF HandOf
  <2>3. CASE x[1] = "tail"
    BY <1>4, <2>1, <2>3 DEF HandOf
  <2> QED  BY <1>4, <2>1, <2>2, <2>3
<1>7. ASSUME NEW p \in HandOf(T) PROVE p \in InHand(t)
  <2>1. PICK x \in T : \/ x[1] \in {"madvise", "return"} /\ p \in x[2]
                       \/ x[1] = "tail" /\ p = x[2]
    BY <1>7 DEF HandOf
  <2>2. p \in h[x]
    BY <1>4, <2>1
  <2> QED  BY <1>5, <2>1, <2>2
<1> QED  BY <1>1, <1>6, <1>7

(* Who owns the runs.                                                      *)
LEMMA RunsOwned ==
  ASSUME IInv
  PROVE  EveryRunHasOneOwner
<1>1. PICK a, A, F, K : Seen(a, A, F, K)
  BY DEF Seen
<1>2. View(a, A, F, K) /\ a = arena /\ A = Others(bin, objects, work, Threads)
  BY <1>1, Viewed DEF Seen
<1>3. PICK R, N : R = A \cup F /\ N = {}
  OBVIOUS
<1>4. Runs = R /\ Free(R) = F /\ A \cap F = {} /\ Fine(a, A, K)
  BY <1>2, <1>3 DEF View
<1>5. World(a, N, N, bin, objects, work, Threads)
  BY <1>2, <1>3 DEF IInv, ArenaOk
<1>6. Parted(a, N, N, bin, objects, work, Threads) /\ ObjectsOk(a, objects) /\ ThreadsOk(a, work, Threads)
  BY <1>5 DEF World
<1>7. \A t \in Threads : InHand(t) = HandOf(Range(work[t]))
  <2>1. ASSUME NEW t \in Threads PROVE InHand(t) = HandOf(Range(work[t]))
    <3>1. ListOk(work[t])
      BY <1>6 DEF ThreadsOk
    <3> QED  BY <3>1, HandIs
  <2> QED  BY <2>1
<1>8. PICK hands : hands = UNION {InHand(t) : t \in Threads}
  OBVIOUS
<1>9. hands = Holding(work, Threads)
  <2>1. \A t \in Threads : InHand(t) \subseteq Pages
    BY <1>7 DEF HandOf
  <2> QED  BY <1>7, <1>8, <2>1 DEF Holding
<1>10. R \ F = DOMAIN objects \cup DOMAIN bin.runs \cup hands
  BY <1>2, <1>3, <1>4, <1>9 DEF Others
<1>11. /\ DOMAIN objects \cap DOMAIN bin.runs = {}
       /\ hands \cap (DOMAIN objects \cup DOMAIN bin.runs) = {}
  BY <1>6, <1>9 DEF Parted
<1>12. ASSUME NEW t \in Threads, NEW u \in Threads, t # u PROVE InHand(t) \cap InHand(u) = {}
  BY <1>6, <1>7, <1>12 DEF Parted
<1>13. ASSUME NEW r \in DOMAIN objects PROVE Length(a, r) = objects[r]
  <2>1. IsLarge(a, r) /\ a.map[r].size = objects[r]
    BY <1>6, <1>13 DEF ObjectsOk
  <2>2. r \in A
    BY <1>2, <1>13 DEF Others
  <2> QED  BY <1>4, <2>1, <2>2, OwnedIs
<1> QED  BY <1>2, <1>4, <1>8, <1>10, <1>11, <1>12, <1>13 DEF EveryRunHasOneOwner

(* EveryRunHasOneOwner: an allocated run belongs to one large object, with *)
(* the pages it was asked for, to the bin, or to the one thread that       *)
(* purges or trims it, though purge and trim let go of the lock            *)
(* (arena_purge, arena_palloc).                                            *)
THEOREM OneOwner == Spec => []EveryRunHasOneOwner
<1>1. IInv => EveryRunHasOneOwner
  BY RunsOwned
<1> QED  BY <1>1, Inductive, PTL

LEMMA PagesCounted ==
  ASSUME IInv
  PROVE  DirtyPagesCounted /\ CleanIsZero
<1>1. PICK a, A, F, K : Seen(a, A, F, K)
  BY DEF Seen
<1>2. View(a, A, F, K) /\ a = arena /\ F = FreeRuns(a)
  BY <1>1, Viewed DEF Seen
<1>3. PICK R : R = A \cup F
  OBVIOUS
<1>4. /\ Runs = R /\ Free(R) = F /\ A \cap F = {} /\ Kept = K /\ Laid(a, A, F, K)
      /\ Typed(a) /\ Listed(a, K) /\ Counted(a, A, K) /\ Zero(a)
  BY <1>2, <1>3 DEF View, Fine, Good
<1>5. \A r \in F : Dirty(a.map[r]) = a.map[r].flags /\ (IsDirty(r) <=> a.map[r].flags # {})
  <2>1. \A r \in F : Dirty(a.map[r]) = a.map[r].flags
    BY <1>4, FreeLength
  <2> QED  BY <1>2, <2>1 DEF IsDirty
<1>6. ASSUME NEW c \in K PROVE a.cdirty[c] = SizeOf({r \in In(c, F) : IsDirty(r)})
  <2>1. PICK S : S = {r \in In(c, F) : IsDirty(r)}
    OBVIOUS
  <2>2. S = Soiled(a, c)
    BY <1>2, <1>5, <2>1 DEF In, Soiled
  <2>3. SizeOf(S) = Sizes(a, S)
    BY <1>2 DEF SizeOf, Sizes
  <2> QED  BY <1>4, <2>1, <2>2, <2>3 DEF Counted
<1>7. a.nactive = SizeOf(R \ F)
  <2>1. R \ F = A
    BY <1>3, <1>4
  <2>2. SizeOf(A) = Sizes(a, A)
    BY <1>2 DEF SizeOf, Sizes
  <2> QED  BY <1>4, <2>1, <2>2 DEF Counted
<1>8. a.ndirty = SumFunction([c \in K |-> a.cdirty[c]]) /\ \A c \in K : a.cdirty[c] > 0 => c \in a.dirtied
  BY <1>4 DEF Counted
<1>9. IsInjective(a.chunks_dirty) /\ Range(a.chunks_dirty) = a.dirtied \cap K
  BY <1>4 DEF Listed
<1>10. DirtyPagesCounted
  BY <1>2, <1>4, <1>6, <1>7, <1>8, <1>9 DEF DirtyPagesCounted
<1>11. ASSUME NEW r \in F, ~IsDirty(r) PROVE (r .. EndOf(r)) \cap a.touched = {}
  <2>1. Unused(a, r, 0) /\ Dirty(a.map[r]) = {}
    BY <1>4, <1>5, <1>11, <1>2 DEF Zero
  <2>2. r \in Int
    BY <1>4, LaidEnds
  <2>3. r + 0 = r /\ EndOf(r) = r + Length(a, r) - 1
    BY <1>2, <2>2 DEF EndOf
  <2> QED  BY <2>1, <2>3 DEF Unused
<1>12. CleanIsZero
  BY <1>2, <1>4, <1>11 DEF CleanIsZero
<1> QED  BY <1>10, <1>12

(* DirtyPagesCounted: the counts the purge is decided on are the pages     *)
(* they stand for, and a chunk with dirty pages is in chunks_dirty, once   *)
(* (arena_run_dalloc, arena_chunk_dealloc, arena_chunk_purge).             *)
THEOREM CountsAgree == Spec => []DirtyPagesCounted
<1>1. IInv => DirtyPagesCounted
  BY PagesCounted
<1> QED  BY <1>1, Inductive, PTL

(* CleanIsZero: no page of a clean free run was written since it was       *)
(* mapped or purged, on which arena_run_split relies for calloc.           *)
THEOREM CleanStaysZero == Spec => []CleanIsZero
<1>1. IInv => CleanIsZero
  BY PagesCounted
<1> QED  BY <1>1, Inductive, PTL

LEMMA PartRuns ==
  ASSUME IInv
  PROVE  PartRunsAreFound
<1>1. PICK H : H = HeldOf(work, Threads)
  OBVIOUS
<1>2. Shape(bin) /\ Found(bin, {}, H)
  BY <1>1 DEF IInv, BinInv, BinFine
<1>3. PICK held : held = {task[2] : task \in UNION {Tasks(t, {"bin", "drop"}) : t \in Threads}} \ {Null}
  OBVIOUS
<1>4. ASSUME NEW r \in held PROVE r \in H
  <2>1. PICK t \in Threads : \E x \in Tasks(t, {"bin", "drop"}) : r = x[2]
    BY <1>3, <1>4
  <2>2. PICK x \in Tasks(t, {"bin", "drop"}) : r = x[2]
    BY <2>1
  <2>3. x \in Range(work[t]) /\ x[1] \in {"bin", "drop"} /\ r # Null
    BY <1>3, <1>4 DEF Tasks
  <2>4. r \in Holds(work[t])
    BY <2>2, <2>3 DEF Holds, Named
  <2> QED  BY <1>1, <2>4 DEF HeldOf
<1>5. ASSUME NEW r \in H PROVE r \in held
  <2>1. r \in DOMAIN bin.runs /\ r # Null
    BY <1>2, <1>5, NFreeIs DEF Found
  <2>2. PICK t \in Threads : r \in Holds(work[t])
    BY <1>1, <1>5 DEF HeldOf
  <2>3. PICK x \in Range(work[t]) : x[1] \in {"bin", "drop"} /\ r = x[2]
    BY <2>2 DEF Holds, Named
  <2>4. x \in Tasks(t, {"bin", "drop"})
    BY <2>3 DEF Tasks
  <2> QED  BY <1>3, <2>1, <2>3, <2>4
<1>6. held = H
  BY <1>4, <1>5
<1>7. PICK part : part = {r \in DOMAIN bin.runs : NFree(bin, r) > 0}
  OBVIOUS
<1>8. part \subseteq bin.tree \cup {bin.cur} \cup held
  BY <1>2, <1>6, <1>7 DEF Found
<1>9. bin.tree \subseteq part
  BY <1>2, <1>7 DEF Found, Shape
<1>10. bin.cur \notin bin.tree \cup held /\ bin.tree \cap held = {}
  BY <1>2, <1>6 DEF Found
<1> QED  BY <1>3, <1>7, <1>8, <1>9, <1>10 DEF PartRunsAreFound

(* PartRunsAreFound: a run of the bin that has regions to give is current, *)
(* or in the tree, or in the hands of one thread, and the tree has no      *)
(* others, though arena_bin_malloc_hard lets go of the bin while it waits  *)
(* for the arena.                                                          *)
THEOREM PartRunsFound == Spec => []PartRunsAreFound
<1>1. IInv => PartRunsAreFound
  BY PartRuns
<1> QED  BY <1>1, Inductive, PTL

-----------------------------------------------------------------------------
(* What the threads that purge have committed to.                          *)

Debts(w) == {i \in DOMAIN w : w[i][1] = "purge"}
Owed(w) == SumFunction([i \in Debts(w) |-> w[i][2]])

(* The list of a thread has at most one task to purge.                     *)
OwedAs(w, P) ==
  /\ Owed(w) \in Nat
  /\ P = {} => Owed(w) = 0
  /\ \A x \in P : Owed(w) = x[2]

LEMMA OwedIs ==
  ASSUME NEW w, ListOk(w), NEW P, P = Named(w, "purge")
  PROVE  OwedAs(w, P)
<1>1. PICK D, f : D = Debts(w) /\ f = [i \in D |-> w[i][2]]
  OBVIOUS
<1>2. Owed(w) = SumFunction(f)
  BY <1>1 DEF Owed
<1>3. /\ \A i, j \in DOMAIN w : i < j => Rank(w[i]) < Rank(w[j])
      /\ \A x \in Range(w) : TaskOk(x)
      /\ DOMAIN w = 1 .. Len(w) /\ Len(w) \in Nat
  BY DEF ListOk, TodoOk
<1>4. ASSUME NEW i \in D
      PROVE  /\ w[i] \in P /\ w[i][2] \in Nat /\ Rank(w[i]) = 4 /\ i \in DOMAIN w /\ i \in Nat
  <2>1. i \in DOMAIN w /\ w[i][1] = "purge" /\ w[i] \in Range(w)
    BY <1>1 DEF Debts, Range
  <2>2. w[i] \in P
    BY <2>1 DEF Named
  <2>3. w[i][2] \in Nat
    BY <1>3, <2>1 DEF TaskOk
  <2>4. Rank(w[i]) = 4
    BY <2>1 DEF Rank
  <2> QED  BY <1>3, <2>1, <2>2, <2>3, <2>4
<1>5. ASSUME NEW x \in P PROVE \E i \in D : w[i] = x
  <2>1. PICK i \in DOMAIN w : w[i] = x
    BY DEF Named, Range
  <2> QED  BY <1>1, <2>1 DEF Named, Debts
<1>6. f \in [D -> Nat]
  BY <1>1, <1>4
<1>7. ASSUME NEW i \in D, NEW j \in D PROVE i = j
  <2>1. ~(i < j) /\ ~(j < i)
    BY <1>3, <1>4
  <2> QED  BY <1>4, <2>1
<1>8. CASE D = {}
  <2>1. IsFiniteSet(D) /\ P = {}
    BY <1>5, <1>8, FS_EmptySet
  <2>2. SumFunction(f) \in Nat /\ SumFunction(f) = 0
    BY <1>6, <1>8, <2>1, SumIs
  <2> QED  BY <1>2, <2>1, <2>2 DEF OwedAs
<1>9. ASSUME NEW i \in D PROVE OwedAs(w, P)
  <2>0. D = {i}
    BY <1>7, <1>9
  <2>1. D = {i} /\ IsFiniteSet(D)
    BY <2>0, FS_Singleton
  <2>2. /\ SumFunction(f) = f[i] + SumFunction([y \in D \ {i} |-> f[y]])
        /\ SumFunction(f) \in Nat
    BY <1>6, <2>1, SumIs
  <2>3. SumFunction([y \in D \ {i} |-> f[y]]) = 0
    <3>1. PICK N, g : N = D \ {i} /\ g = [y \in N |-> f[y]]
      OBVIOUS
    <3>2. N = {} /\ IsFiniteSet(N) /\ g \in [N -> Nat]
      BY <2>1, <3>1, FS_EmptySet
    <3>3. SumFunction(g) = 0
      BY <3>2, SumIs
    <3> QED  BY <3>1, <3>3
  <2>4. f[i] = w[i][2] /\ w[i] \in P /\ w[i][2] \in Nat
    BY <1>1, <1>4
  <2>5. Owed(w) = w[i][2]
    BY <1>2, <2>2, <2>3, <2>4
  <2>6. \A x \in P : x = w[i]
    BY <1>5, <2>1
  <2> QED  BY <2>4, <2>5, <2>6 DEF OwedAs
<1> QED  BY <1>8, <1>9

LEMMA OwedSame ==
  ASSUME NEW v, ListOk(v), NEW w, ListOk(w), Named(v, "purge") = Named(w, "purge")
  PROVE  Owed(v) = Owed(w)
<1>1. PICK P : P = Named(v, "purge")
  OBVIOUS
<1>2. OwedAs(v, P) /\ OwedAs(w, P)
  BY <1>1, OwedIs
<1>3. CASE P = {}
  BY <1>2, <1>3 DEF OwedAs
<1>4. ASSUME NEW x \in P PROVE Owed(v) = Owed(w)
  BY <1>2, <1>4 DEF OwedAs
<1> QED  BY <1>3, <1>4

(* The tasks to purge of a thread's list, and how it is changed. *)
Purges(w) == Named(w, "purge")

LEMMA RangeBefore ==
  ASSUME NEW S, NEW v \in Seq(S), NEW x, NEW w, w = Before(x, v)
  PROVE  Range(w) = Range(v) \cup {x} /\ w \in Seq(S \cup {x})
<1>1. w = <<x>> \o v
  BY DEF Before
<1>2. /\ w \in Seq(S \cup {x}) /\ w[1] = x
      /\ \A i \in DOMAIN v : w[i + 1] = v[i]
      /\ DOMAIN w = 1 .. Len(v) + 1 /\ DOMAIN v = 1 .. Len(v) /\ Len(v) \in Nat
  BY <1>1, ConcatOne
<1>3. ASSUME NEW i \in DOMAIN w PROVE w[i] \in Range(v) \cup {x}
  <2>1. CASE i = 1
    BY <1>2, <2>1
  <2>2. CASE i # 1
    <3>1. i - 1 \in DOMAIN v /\ (i - 1) + 1 = i
      BY <1>2, <2>2
    <3>2. w[(i - 1) + 1] = v[i - 1]
      BY <1>2, <3>1
    <3> QED  BY <3>1, <3>2 DEF Range
  <2> QED  BY <2>1, <2>2
<1>4. ASSUME NEW i \in DOMAIN v PROVE v[i] \in Range(w)
  <2>1. i + 1 \in DOMAIN w /\ w[i + 1] = v[i]
    BY <1>2
  <2> QED  BY <2>1 DEF Range
<1>5. x \in Range(w)
  <2>1. 1 \in DOMAIN w /\ w[1] = x
    BY <1>2
  <2> QED  BY <2>1 DEF Range
<1>6. ASSUME NEW y \in Range(w) PROVE y \in Range(v) \cup {x}
  <2>1. PICK i \in DOMAIN w : w[i] = y
    BY DEF Range
  <2> QED  BY <1>3, <2>1
<1>7. ASSUME NEW y \in Range(v) PROVE y \in Range(w)
  <2>1. PICK i \in DOMAIN v : v[i] = y
    BY DEF Range
  <2> QED  BY <1>4, <2>1
<1> QED  BY <1>2, <1>5, <1>6, <1>7

LEMMA PurgesBefore ==
  ASSUME NEW S, NEW v \in Seq(S), NEW x, NEW w, w = Before(x, v)
  PROVE  /\ w \in Seq(S \cup {x})
         /\ x[1] # "purge" => Purges(w) = Purges(v)
         /\ x[1] = "purge" => Purges(w) = Purges(v) \cup {x}
<1>1. Range(w) = Range(v) \cup {x} /\ w \in Seq(S \cup {x})
  BY RangeBefore
<1> QED  BY <1>1 DEF Purges, Named

IsList(v) == \E S : v \in Seq(S)

LEMMA PurgesOther ==
  ASSUME NEW v, IsList(v), NEW x, x[1] # "purge", NEW w, w = Before(x, v)
  PROVE  Purges(w) = Purges(v)
<1>1. PICK S : v \in Seq(S)
  BY DEF IsList
<1>2. v \in Seq(S) /\ w = Before(x, v)
  BY <1>1
<1>3. w \in Seq(S \cup {x}) /\ Purges(w) = Purges(v)
  BY <1>2, PurgesBefore
<1> QED  BY <1>3

LEMMA PurgesOne ==
  ASSUME NEW x
  PROVE  /\ Purges(<<>>) = {} /\ (x[1] # "purge" => Purges(<<x>>) = {})
         /\ (x[1] = "purge" => Purges(<<x>>) = {x})
<1>1. Range(<<x>>) = {x} /\ Range(<<>>) = {}
  BY RangeOne
<1> QED  BY <1>1 DEF Purges, Named

(* Thread t gets a list that has these tasks to purge. *)
Leads(t, P) == \E v : work' = [work EXCEPT ![t] = v] /\ Purges(v) = P

LEMMA LeadsTo ==
  ASSUME NEW t, NEW P, NEW v, work' = [work EXCEPT ![t] = v], Purges(v) = P
  PROVE  Leads(t, P)
BY DEF Leads

LEMMA LeadsGive ==
  ASSUME NEW t, NEW a, NEW r, NEW dirty, NEW S, NEW w \in Seq(S), GiveRun(t, a, r, dirty, w),
         NEW P, P = Purges(w)
  PROVE  Leads(t, P)
<1>1. PICK b : b = RunDalloc(a, r, dirty)
  OBVIOUS
<1>2. PICK soiled \in BOOLEAN : soiled = (DallocFlags(a, r, dirty) # {})
  OBVIOUS
<1>3. PICK maybe \in BOOLEAN : maybe = (soiled /\ (b.released # Null \/ MustPurge(b)))
  OBVIOUS
<1>4. PICK v, released : v = GiveWork(w, released, maybe) /\ released = b.released
  OBVIOUS
<1>5. work' = [work EXCEPT ![t] = v]
  BY <1>1, <1>2, <1>3, <1>4 DEF GiveRun, GiveWork, Does
<1>6. PICK x, y : x = <<"unmap", released>> /\ y = <<"maybe">>
  OBVIOUS
<1>7. x[1] # "purge" /\ y[1] # "purge"
  BY <1>6
<1>8. PICK p : p = IF maybe THEN Before(y, w) ELSE w
  OBVIOUS
<1>9. Purges(p) = Purges(w) /\ \E T : p \in Seq(T)
  <2>1. CASE maybe
    <3>1. p = Before(y, w)
      BY <1>8, <2>1
    <3>2. p \in Seq(S \cup {y}) /\ Purges(p) = Purges(w)
      BY <1>7, <3>1, PurgesBefore
    <3> QED  BY <3>2
  <2>2. CASE ~maybe
    BY <1>8, <2>2
  <2> QED  BY <2>1, <2>2
<1>10. IsList(p)
  BY <1>9 DEF IsList
<1>11. PICK q : q = IF released = Null THEN p ELSE Before(x, p)
  OBVIOUS
<1>12. Purges(q) = Purges(p)
  <2>1. CASE released = Null
    BY <1>11, <2>1
  <2>2. CASE released # Null
    <3>1. q = Before(x, p)
      BY <1>11, <2>2
    <3>2. x[1] # "purge"
      BY <1>7
    <3> QED  BY <1>10, <3>1, <3>2, PurgesOther
  <2> QED  BY <2>1, <2>2
<1>13. v = q
  BY <1>4, <1>6, <1>8, <1>11, GiveWorkIs
<1> QED  BY <1>5, <1>9, <1>12, <1>13, LeadsTo

LEMMA LeadsGiveLast ==
  ASSUME NEW t, NEW a, NEW r, NEW dirty, NEW w, w = <<>>, GiveRun(t, a, r, dirty, w), NEW P, P = {}
  PROVE  Leads(t, P)
<1>1. PICK S : S = {}
  OBVIOUS
<1>2. w \in Seq(S)
  BY <1>1
<1>3. P = Purges(w)
  BY PurgesOne
<1> QED  BY <1>2, <1>3, LeadsGive

LEMMA LeadsNone ==
  ASSUME NEW t, NEW P, P = {}, work' = [work EXCEPT ![t] = <<>>]
  PROVE  Leads(t, P)
<1>1. PICK v : v = <<>>
  OBVIOUS
<1>2. Purges(v) = P
  BY <1>1, PurgesOne
<1> QED  BY <1>1, <1>2, LeadsTo

LEMMA LeadsOne ==
  ASSUME NEW t, NEW P, P = {}, NEW x, x[1] # "purge", work' = [work EXCEPT ![t] = <<x>>]
  PROVE  Leads(t, P)
<1>1. PICK v : v = <<x>>
  OBVIOUS
<1>2. Purges(v) = P
  BY <1>1, PurgesOne
<1> QED  BY <1>1, <1>2, LeadsTo

(* The step leaves the thread with the debt it had. *)
Owing(t) == Leads(t, Purges(work[t]))

LEMMA RestPurges ==
  ASSUME ArenaOk, NEW t \in Threads, NEW name, Task(t, name), NEW v, v = Rest(t),
         NEW x, x = work[t][1]
  PROVE  /\ x[1] = name /\ v \in Seq(Range(v))
         /\ name # "purge" => Purges(v) = Purges(work[t])
         /\ name \in {"maybe", "purge"} => Purges(v) = {}
         /\ name = "purge" => Purges(work[t]) = {x}
<1>1. PICK w, T : w = work[t] /\ T = Range(v)
  OBVIOUS
<1>2. PICK W : W = Range(w)
  OBVIOUS
<1>3. TaskFacts(t, x, v, T, name)
  BY <1>1, TaskIs
<1>4. ListOk(w)
  <2>1. Begun(t, W)
    BY <1>1, <1>2, Begin
  <2> QED  BY <1>1, <2>1 DEF Begun
<1>5. FirstOf(w, x, v)
  BY <1>1 DEF FirstOf, Task, Idle, Rest
<1>6. Popped(w, x, v, T)
  BY <1>1, <1>4, <1>5, ListPop
<1>7. Range(w) = T \cup {x} /\ ListOk(v) /\ x[1] = name /\ T = Range(v)
  BY <1>1, <1>3, <1>6 DEF Popped, TaskFacts
<1>8. name # "purge" => Purges(v) = Purges(w)
  BY <1>7 DEF Purges, Named
<1>9. name \in {"maybe", "purge"} => Purges(v) = {}
  <2> SUFFICES ASSUME name \in {"maybe", "purge"}, NEW y \in Purges(v) PROVE FALSE
    OBVIOUS
  <2>1. y[1] = "purge" /\ y \in T
    BY <1>7 DEF Purges, Named
  <2>2. Rank(x) < Rank(y)
    BY <1>3, <2>1 DEF TaskFacts
  <2>3. Rank(x) = 4 /\ Rank(y) = 4
    BY <1>7, <2>1 DEF Rank
  <2> QED  BY <2>2, <2>3
<1>10. name = "purge" => Purges(w) = {x}
  <2> SUFFICES ASSUME name = "purge" PROVE Purges(w) = {x}
    OBVIOUS
  <2>1. Purges(v) = {}
    BY <1>9
  <2>2. \A y : y \in Purges(w) <=> y \in Purges(v) \cup {x}
    BY <1>7 DEF Purges, Named
  <2> QED  BY <2>1, <2>2
<1>11. v \in Seq(Range(v))
  BY <1>7 DEF ListOk
<1> QED  BY <1>1, <1>7, <1>8, <1>9, <1>10, <1>11

LEMMA LastPurges ==
  ASSUME ArenaOk, NEW t \in Threads, NEW name, Task(t, name), name \in {"map", "run", "bin", "drop", "tail"}
  PROVE  Purges(work[t]) = {}
<1>1. PICK x, w : x = work[t][1] /\ w = work[t]
  OBVIOUS
<1>2. x[1] = name
  BY <1>1 DEF Task
<1>3. Range(w) = {x}
  BY <1>1, OnlyTask
<1> QED  BY <1>1, <1>2, <1>3 DEF Purges, Named

LEMMA IdlePurges ==
  ASSUME NEW t, Idle(t)
  PROVE  Purges(work[t]) = {}
BY PurgesOne DEF Idle

LEMMA OwesWork ==
  ASSUME NEW t, NEW v, work' = [work EXCEPT ![t] = v], Purges(v) = Purges(work[t])
  PROVE  Owing(t)
BY DEF Owing, Leads

LEMMA OwesGive ==
  ASSUME NEW t, NEW a, NEW r, NEW dirty, NEW S, NEW w \in Seq(S), GiveRun(t, a, r, dirty, w),
         Purges(w) = Purges(work[t])
  PROVE  Owing(t)
<1>1. PICK P : P = Purges(work[t])
  OBVIOUS
<1>2. P = Purges(w)
  BY <1>1
<1>3. Leads(t, P)
  BY <1>2, LeadsGive
<1> QED  BY <1>1, <1>3 DEF Owing

(* The same, of a thread that owes nothing. *)
LEMMA OwesGiveLast ==
  ASSUME NEW t, NEW a, NEW r, NEW dirty, NEW w, w = <<>>, GiveRun(t, a, r, dirty, w), Purges(work[t]) = {}
  PROVE  Owing(t)
<1>1. PICK S, P : S = {} /\ P = Purges(work[t])
  OBVIOUS
<1>2. w \in Seq(S)
  BY <1>1
<1>3. Purges(w) = Purges(work[t])
  BY PurgesOne
<1> QED  BY <1>2, <1>3, OwesGive

LEMMA OwesNone ==
  ASSUME NEW t, work' = [work EXCEPT ![t] = <<>>], Purges(work[t]) = {}
  PROVE  Owing(t)
<1>1. PICK v : v = <<>>
  OBVIOUS
<1>2. Purges(v) = {}
  BY <1>1, PurgesOne
<1> QED  BY <1>1, <1>2, OwesWork

LEMMA OwesOne ==
  ASSUME NEW t, NEW x, x[1] # "purge", work' = [work EXCEPT ![t] = <<x>>], Purges(work[t]) = {}
  PROVE  Owing(t)
<1>1. PICK v : v = <<x>>
  OBVIOUS
<1>2. Purges(v) = {}
  BY <1>1, PurgesOne
<1> QED  BY <1>1, <1>2, OwesWork

LEMMA OwesIdle ==
  ASSUME ArenaOk, NEW t \in Threads, Idle(t), work' = work
  PROVE  Owing(t)
<1>1. PICK w : w = <<>>
  OBVIOUS
<1>2. work' = [work EXCEPT ![t] = w]
  BY <1>1, IdleStays
<1>3. Purges(w) = Purges(work[t])
  BY <1>1 DEF Idle
<1> QED  BY <1>2, <1>3, OwesWork

LEMMA OwesUnmap ==
  ASSUME ArenaOk, NEW t \in Threads, UnmapChunk(t)
  PROVE  Owing(t)
<1>1. PICK name, v, x : name = "unmap" /\ v = Rest(t) /\ x = work[t][1]
  OBVIOUS
<1>2. Task(t, name) /\ work' = [work EXCEPT ![t] = v]
  BY <1>1 DEF UnmapChunk
<1>3. Purges(v) = Purges(work[t])
  BY <1>1, <1>2, RestPurges
<1> QED  BY <1>2, <1>3, OwesWork

LEMMA OwesMadvise ==
  ASSUME ArenaOk, NEW t \in Threads, Madvise(t)
  PROVE  Owing(t)
<1>1. PICK name, v, x : name = "madvise" /\ v = Rest(t) /\ x = work[t][1]
  OBVIOUS
<1>2. Task(t, name) /\ work' = [work EXCEPT ![t] = v]
  BY <1>1 DEF Madvise
<1>3. Purges(v) = Purges(work[t])
  BY <1>1, <1>2, RestPurges
<1> QED  BY <1>2, <1>3, OwesWork

LEMMA OwesReturn ==
  ASSUME ArenaOk, NEW t \in Threads, ReturnRun(t)
  PROVE  Owing(t)
<1>1. PICK name, v, r, more : name = "return" /\ v = Rest(t) /\ r = Min(Arg(t)) /\ more = Arg(t) \ {r}
  OBVIOUS
<1>2. PICK x, w, a : /\ x = <<"return", more>> /\ a = arena
                     /\ w = IF more = {} THEN v ELSE Before(x, v)
  OBVIOUS
<1>3. PICK dirty \in BOOLEAN : dirty = FALSE
  OBVIOUS
<1>10. PICK y : y = work[t][1]
  OBVIOUS
<1>4. Task(t, name) /\ GiveRun(t, a, r, dirty, w)
  BY <1>1, <1>2, <1>3 DEF ReturnRun, Before
<1>5. Purges(v) = Purges(work[t]) /\ v \in Seq(Range(v))
  BY <1>1, <1>4, <1>10, RestPurges
<1>6. x[1] # "purge"
  BY <1>2
<1>7. PICK S, T : T = Range(v) /\ S = T \cup {x}
  OBVIOUS
<1>8. Purges(w) = Purges(v) /\ w \in Seq(S)
  <2>0. v \in Seq(T)
    BY <1>5, <1>7
  <2>1. CASE more = {}
    BY <1>2, <1>7, <2>0, <2>1
  <2>2. CASE more # {}
    <3>1. w = Before(x, v)
      BY <1>2, <2>2
    <3> QED  BY <1>6, <1>7, <2>0, <3>1, PurgesBefore
  <2> QED  BY <2>1, <2>2
<1>9. Purges(w) = Purges(work[t])
  BY <1>5, <1>8
<1> QED  BY <1>4, <1>8, <1>9, OwesGive

LEMMA OwesDalloc ==
  ASSUME NEW t \in Threads, NEW r \in DOMAIN objects, arena_dalloc_large(t, r)
  PROVE  Owing(t)
<1>1. PICK a, w : a = arena /\ w = <<>>
  OBVIOUS
<1>2. PICK dirty \in BOOLEAN : dirty = TRUE
  OBVIOUS
<1>3. Idle(t) /\ GiveRun(t, a, r, dirty, w)
  BY <1>1, <1>2 DEF arena_dalloc_large
<1>4. Purges(work[t]) = {}
  BY <1>3, IdlePurges
<1> QED  BY <1>1, <1>3, <1>4, OwesGiveLast

LEMMA OwesShrink ==
  ASSUME NEW t \in Threads, NEW r \in DOMAIN objects, NEW n, arena_ralloc_large_shrink(t, r, n)
  PROVE  Owing(t)
<1>1. PICK a, w, s : a = CutTail(arena, r, objects[r], n) /\ w = <<>> /\ s = r + n
  OBVIOUS
<1>2. PICK dirty \in BOOLEAN : dirty = TRUE
  OBVIOUS
<1>3. Idle(t) /\ GiveRun(t, a, s, dirty, w)
  BY <1>1, <1>2 DEF arena_ralloc_large_shrink
<1>4. Purges(work[t]) = {}
  BY <1>3, IdlePurges
<1> QED  BY <1>1, <1>3, <1>4, OwesGiveLast

LEMMA OwesGrow ==
  ASSUME ArenaOk, NEW t \in Threads, NEW r \in DOMAIN objects, NEW n, NEW extra,
         arena_ralloc_large_grow(t, r, n, extra)
  PROVE  Owing(t)
<1>1. Idle(t) /\ work' = work
  BY DEF arena_ralloc_large_grow, Owns
<1> QED  BY <1>1, OwesIdle

(* The steps of a thread that takes a run, or trims one. *)
LEMMA OwesTrim ==
  ASSUME NEW t, NEW a, NEW r, NEW old, NEW new, TrimTail(t, a, r, old, new), Purges(work[t]) = {}
  PROVE  Owing(t)
<1>1. PICK b, w, s : b = Touch(CutTail(a, r, old, new), Span(r, new)) /\ w = <<>> /\ s = r + new
  OBVIOUS
<1>2. PICK dirty \in BOOLEAN : dirty = FALSE
  OBVIOUS
<1>3. \/ work' = [work EXCEPT ![t] = <<>>]
      \/ GiveRun(t, b, s, dirty, w)
  BY <1>1, <1>2 DEF TrimTail, Does
<1>4. CASE work' = [work EXCEPT ![t] = <<>>]
  BY <1>4, OwesNone
<1>5. CASE GiveRun(t, b, s, dirty, w)
  BY <1>1, <1>5, OwesGiveLast
<1> QED  BY <1>3, <1>4, <1>5

LEMMA OwesAligned ==
  ASSUME NEW t, NEW a, NEW r, NEW req, Aligned(t, a, r, req), Purges(work[t]) = {}
  PROVE  Owing(t)
<1>1. PICK lead : lead = req.align - (Address(r) % req.align)
  OBVIOUS
<1>2. PICK x, b : x = <<"tail", r + lead, req.need - lead, req.size>> /\ b = CutHead(a, r, req.need, lead)
  OBVIOUS
<1>3. PICK dirty \in BOOLEAN : dirty = FALSE
  OBVIOUS
<1>4. PICK w, S : w = <<x>> /\ S = {x}
  OBVIOUS
<1>5. \/ TrimTail(t, a, r, req.need, req.size)
      \/ GiveRun(t, b, r, dirty, w)
  BY <1>1, <1>2, <1>3, <1>4 DEF Aligned
<1>6. CASE TrimTail(t, a, r, req.need, req.size)
  <2>1. PICK old, new : old = req.need /\ new = req.size
    OBVIOUS
  <2>2. TrimTail(t, a, r, old, new)
    BY <1>6, <2>1
  <2> QED  BY <2>2, OwesTrim
<1>7. CASE GiveRun(t, b, r, dirty, w)
  <2>1. w \in Seq(S)
    BY <1>4
  <2>2. x[1] # "purge"
    BY <1>2
  <2>3. Purges(w) = Purges(work[t])
    BY <1>4, <2>2, PurgesOne
  <2> QED  BY <1>7, <2>1, <2>3, OwesGive
<1> QED  BY <1>5, <1>6, <1>7

LEMMA OwesTrimTail ==
  ASSUME ArenaOk, NEW t \in Threads, TrimTailOf(t)
  PROVE  Owing(t)
<1>1. PICK x, name : x = work[t][1] /\ name = "tail"
  OBVIOUS
<1>2. PICK r, old, new : r = x[2] /\ old = x[3] /\ new = x[4]
  OBVIOUS
<1>3. Task(t, name) /\ TrimTail(t, arena, r, old, new)
  BY <1>1, <1>2 DEF TrimTailOf
<1>4. Purges(work[t]) = {}
  BY <1>1, <1>3, LastPurges
<1>5. PICK a : a = arena
  OBVIOUS
<1>6. TrimTail(t, a, r, old, new)
  BY <1>3, <1>5
<1> QED  BY <1>4, <1>6, OwesTrim

LEMMA OwesCuts ==
  ASSUME NEW t \in Threads, NEW a, NEW r, NEW req \in Requests, Cuts(t, a, r, req), Purges(work[t]) = {}
  PROVE  Owing(t)
<1>1. PICK b, need : b = RunSplit(a, r, req.need, req.for # "bin") /\ need = req.need
  OBVIOUS
<1>2. CASE req.for = "object"
  <2>1. TrimTail(t, b, r, need, need)
    BY <1>1, <1>2 DEF Cuts
  <2> QED  BY <2>1, OwesTrim
<1>3. CASE req.for = "align"
  <2>1. Aligned(t, b, r, req)
    BY <1>1, <1>3 DEF Cuts
  <2> QED  BY <2>1, OwesAligned
<1>4. CASE req.for = "bin"
  <2>1. NewRun(t, b, r)
    BY <1>1, <1>4 DEF Cuts
  <2>2. PICK x : x = <<"bin", r>>
    OBVIOUS
  <2>3. work' = [work EXCEPT ![t] = <<x>>] /\ x[1] # "purge"
    BY <2>1, <2>2 DEF NewRun, Does
  <2> QED  BY <2>3, OwesOne
<1> QED  BY <1>2, <1>3, <1>4, RequestIs

LEMMA OwesRunAlloc ==
  ASSUME NEW t \in Threads, NEW req \in Requests, RunAlloc(t, req), Purges(work[t]) = {}
  PROVE  Owing(t)
<1>1. PICK a, b, r, s : a = arena /\ b = ReuseSpare(arena) /\ r = FindRun(arena, req.need) /\ s = First(arena.spare)
  OBVIOUS
<1>2. PICK x : x = <<"map", req>>
  OBVIOUS
<1>3. Cuts(t, a, r, req) \/ Cuts(t, b, s, req) \/ work' = [work EXCEPT ![t] = <<x>>]
  BY <1>1, <1>2 DEF RunAlloc, Does
<1>4. x[1] # "purge"
  BY <1>2
<1>5. CASE work' = [work EXCEPT ![t] = <<x>>]
  BY <1>4, <1>5, OwesOne
<1>6. CASE Cuts(t, a, r, req)
  BY <1>6, OwesCuts
<1>7. CASE Cuts(t, b, s, req)
  BY <1>7, OwesCuts
<1> QED  BY <1>3, <1>5, <1>6, <1>7

LEMMA OwesMalloc ==
  ASSUME NEW t \in Threads, NEW n \in 1 .. NP, arena_malloc_large(t, n)
  PROVE  Owing(t)
<1>1. PICK req : req = [for |-> "object", need |-> n]
  OBVIOUS
<1>2. RunAlloc(t, req) /\ Idle(t)
  BY <1>1 DEF arena_malloc_large
<1>3. req \in Requests
  BY <1>1 DEF Requests
<1>4. Purges(work[t]) = {}
  BY <1>2, IdlePurges
<1> QED  BY <1>2, <1>3, <1>4, OwesRunAlloc

LEMMA OwesPalloc ==
  ASSUME NEW t \in Threads, NEW n \in 1 .. NP, NEW align \in {2, 4}, arena_palloc(t, n, align)
  PROVE  Owing(t)
<1>1. PICK need : need = Oversize(n, align)
  OBVIOUS
<1>2. PICK req : req = [for |-> "align", need |-> need, size |-> n, align |-> align]
  OBVIOUS
<1>3. RunAlloc(t, req) /\ Idle(t) /\ need <= NP
  BY <1>1, <1>2 DEF arena_palloc
<1>4. need \in 1 .. NP /\ n + align - 1 <= need
  BY <1>1, <1>3, Numbers DEF Oversize
<1>5. req \in Requests
  BY <1>2, <1>4 DEF Requests
<1>6. Purges(work[t]) = {}
  BY <1>3, IdlePurges
<1> QED  BY <1>3, <1>5, <1>6, OwesRunAlloc

LEMMA OwesRunForBin ==
  ASSUME ArenaOk, NEW t \in Threads, RunForBin(t)
  PROVE  Owing(t)
<1>1. PICK req, name : req = [for |-> "bin", need |-> RunPages] /\ name = "run"
  OBVIOUS
<1>2. Task(t, name) /\ RunAlloc(t, req)
  BY <1>1 DEF RunForBin
<1>3. req \in Requests
  BY <1>1 DEF Requests
<1>4. Purges(work[t]) = {}
  BY <1>1, <1>2, LastPurges
<1> QED  BY <1>2, <1>3, <1>4, OwesRunAlloc

LEMMA OwesMapChunk ==
  ASSUME ArenaOk, NEW t \in Threads, MapChunk(t)
  PROVE  Owing(t)
<1>1. PICK x, y, name : x = work[t][1] /\ y = <<"bin", Null>> /\ name = "map"
  OBVIOUS
<1>2. PICK req, r, free : req = Arg(t) /\ r = FindRun(arena, req.need) /\ free = Chunks \ arena.mapped
  OBVIOUS
<1>3. PICK a, b, s : a = arena /\ b = NewChunk(arena, Min(free)) /\ s = First(Min(free))
  OBVIOUS
<1>4. /\ Task(t, name)
      /\ \/ Cuts(t, b, s, req)
         \/ Cuts(t, a, r, req)
         \/ work' = [work EXCEPT ![t] = <<y>>]
         \/ work' = [work EXCEPT ![t] = <<>>]
  BY <1>1, <1>2, <1>3 DEF MapChunk, Does
<1>5. x[1] = "map" /\ TaskOk(x)
  BY <1>1, <1>4, LastPlain
<1>6. req \in Requests
  BY <1>1, <1>2, <1>5 DEF TaskOk, Arg
<1>7. Purges(work[t]) = {}
  BY <1>1, <1>4, LastPurges
<1>8. y[1] # "purge"
  BY <1>1
<1>9. CASE Cuts(t, b, s, req)
  BY <1>6, <1>7, <1>9, OwesCuts
<1>10. CASE Cuts(t, a, r, req)
  BY <1>6, <1>7, <1>10, OwesCuts
<1>11. CASE work' = [work EXCEPT ![t] = <<y>>]
  BY <1>7, <1>8, <1>11, OwesOne
<1>12. CASE work' = [work EXCEPT ![t] = <<>>]
  BY <1>7, <1>12, OwesNone
<1> QED  BY <1>4, <1>9, <1>10, <1>11, <1>12

(* The steps of the bin. *)
LEMMA OwesMallocSmall ==
  ASSUME ArenaOk, NEW t \in Threads, arena_malloc_small(t)
  PROVE  Owing(t)
<1>1. PICK x : x = <<"run">>
  OBVIOUS
<1>2. Idle(t) /\ (work' = work \/ work' = [work EXCEPT ![t] = <<x>>]) /\ x[1] # "purge"
  BY <1>1 DEF arena_malloc_small
<1>3. Purges(work[t]) = {}
  BY <1>2, IdlePurges
<1>4. CASE work' = work
  BY <1>2, <1>4, OwesIdle
<1>5. CASE work' = [work EXCEPT ![t] = <<x>>]
  BY <1>2, <1>3, <1>5, OwesOne
<1> QED  BY <1>2, <1>4, <1>5

LEMMA OwesDallocBin ==
  ASSUME ArenaOk, NEW t \in Threads, NEW r, NEW i, arena_dalloc_bin(t, r, i)
  PROVE  Owing(t)
<1>1. PICK x : x = <<"drop", r>>
  OBVIOUS
<1>2. Idle(t) /\ (work' = work \/ work' = [work EXCEPT ![t] = <<x>>]) /\ x[1] # "purge"
  BY <1>1 DEF arena_dalloc_bin
<1>3. Purges(work[t]) = {}
  BY <1>2, IdlePurges
<1>4. CASE work' = work
  BY <1>2, <1>4, OwesIdle
<1>5. CASE work' = [work EXCEPT ![t] = <<x>>]
  BY <1>2, <1>3, <1>5, OwesOne
<1> QED  BY <1>2, <1>4, <1>5

LEMMA OwesRefill ==
  ASSUME ArenaOk, NEW t \in Threads, Refill(t)
  PROVE  Owing(t)
<1>1. PICK got, name : got = Arg(t) /\ name = "bin"
  OBVIOUS
<1>2. PICK r : r = IF got # Null THEN got ELSE LowestRun(bin)
  OBVIOUS
<1>3. PICK x : x = <<"drop", r>>
  OBVIOUS
<1>4. /\ Task(t, name) /\ x[1] # "purge"
      /\ work' = [work EXCEPT ![t] = <<>>] \/ work' = [work EXCEPT ![t] = <<x>>]
  BY <1>1, <1>2, <1>3 DEF Refill
<1>5. Purges(work[t]) = {}
  BY <1>1, <1>4, LastPurges
<1>6. CASE work' = [work EXCEPT ![t] = <<>>]
  BY <1>5, <1>6, OwesNone
<1>7. CASE work' = [work EXCEPT ![t] = <<x>>]
  BY <1>4, <1>5, <1>7, OwesOne
<1> QED  BY <1>4, <1>6, <1>7

LEMMA OwesDrop ==
  ASSUME ArenaOk, NEW t \in Threads, DropRun(t)
  PROVE  Owing(t)
<1>1. PICK r, w, name : r = Arg(t) /\ w = <<>> /\ name = "drop"
  OBVIOUS
<1>2. PICK past : past = Past(bin.runs[r].next)
  OBVIOUS
<1>3. PICK trims \in BOOLEAN, dirty \in BOOLEAN :
        trims = (Dirty(arena.map[r]) = {} /\ past < RunPages) /\ dirty = TRUE
  OBVIOUS
<1>4. PICK a : a = IF trims THEN RunDalloc(CutTail(arena, r, RunPages, past), r + past, FALSE) ELSE arena
  OBVIOUS
<1>5. Task(t, name) /\ GiveRun(t, a, r, dirty, w)
  BY <1>1, <1>2, <1>3, <1>4 DEF DropRun
<1>6. Purges(work[t]) = {}
  BY <1>1, <1>5, LastPurges
<1> QED  BY <1>1, <1>5, <1>6, OwesGiveLast

(* The sum of what the threads owe. *)
Sums(P, n) ==
  \/ P = {} /\ n = 0
  \/ \E x : P = {x} /\ x[2] = n

OwedBy(wk) == SumFunction([t \in Threads |-> Owed(wk[t])])
Balanced(np, wk) == np = OwedBy(wk) % SizeMod

LEMMA BalancedIs == PurgatoryBalanced <=> Balanced(arena.npurgatory, work)
<1>1. PICK f : f = [t \in Threads |-> Owed(work[t])]
  OBVIOUS
<1>2. PurgatoryBalanced <=> arena.npurgatory = SumFunction(f) % SizeMod
  BY <1>1 DEF PurgatoryBalanced, Owed, Debts
<1> QED  BY <1>1, <1>2 DEF Balanced, OwedBy

LEMMA OwedSums ==
  ASSUME NEW w, ListOk(w), NEW n, Sums(Purges(w), n)
  PROVE  Owed(w) = n
<1>1. PICK P : P = Named(w, "purge")
  OBVIOUS
<1>2. OwedAs(w, P) /\ Sums(P, n)
  BY <1>1, OwedIs DEF Purges
<1> QED  BY <1>2 DEF OwedAs, Sums

Debtors(wk) == DOMAIN wk = Threads /\ \A u \in Threads : ListOk(wk[u])

LEMMA DebtIs ==
  ASSUME NEW w, ListOk(w)
  PROVE  Owed(w) \in Nat
<1>1. PICK P : P = Named(w, "purge")
  OBVIOUS
<1>2. OwedAs(w, P)
  BY <1>1, OwedIs
<1> QED  BY <1>2 DEF OwedAs

(* A thread gets the list v. *)
SumMoves(F, G, x, y) == F \in Nat /\ G \in Nat /\ x \in Nat /\ y \in Nat /\ G = F + (y - x)

LEMMA SumOwed ==
  ASSUME NEW wk, Debtors(wk), NEW t \in Threads, NEW v, ListOk(v), NEW wl, wl = [wk EXCEPT ![t] = v],
         NEW F, F = OwedBy(wk), NEW G, G = OwedBy(wl)
  PROVE  SumMoves(F, G, Owed(wk[t]), Owed(v))
<1>1. PICK f, g : f = [u \in Threads |-> Owed(wk[u])] /\ g = [u \in Threads |-> Owed(wl[u])]
  OBVIOUS
<1>2. wl[t] = v /\ \A u \in Threads \ {t} : wl[u] = wk[u]
  BY DEF Debtors
<1>3. f \in [Threads -> Nat] /\ f[t] = Owed(wk[t])
  <2>1. \A u \in Threads : Owed(wk[u]) \in Nat
    BY DebtIs DEF Debtors
  <2> QED  BY <1>1, <2>1
<1>4. g \in [Threads -> Nat] /\ g[t] = Owed(v)
  <2>1. ASSUME NEW u \in Threads PROVE Owed(wl[u]) \in Nat
    <3>1. PICK w : w = wl[u]
      OBVIOUS
    <3>2. ListOk(w)
      BY <1>2, <3>1 DEF Debtors
    <3> QED  BY <3>1, <3>2, DebtIs
  <2> QED  BY <1>1, <1>2, <2>1
<1>5. \A u \in Threads \ {t} : g[u] = f[u]
  BY <1>1, <1>2
<1>6. IsFiniteSet(Threads)
  BY ThreadsAssumption
<1>7. /\ SumFunction(g) - SumFunction(f) = g[t] - f[t]
      /\ SumFunction(g) \in Nat /\ SumFunction(f) \in Nat
  BY <1>3, <1>4, <1>5, <1>6, SumChange
<1>8. f[t] \in Nat /\ g[t] \in Nat
  BY <1>3, <1>4
<1>9. F = SumFunction(f) /\ G = SumFunction(g)
  BY <1>1 DEF OwedBy
<1> QED  BY <1>3, <1>4, <1>7, <1>8, <1>9 DEF SumMoves

LEMMA BalanceSame ==
  ASSUME NEW wk, Debtors(wk), NEW t \in Threads, NEW v, ListOk(v), NEW wl, wl = [wk EXCEPT ![t] = v],
         Owed(v) = Owed(wk[t]), NEW np, Balanced(np, wk)
  PROVE  Balanced(np, wl)
<1>1. PICK F, G : F = OwedBy(wk) /\ G = OwedBy(wl)
  OBVIOUS
<1>2. PICK x, y : x = Owed(wk[t]) /\ y = Owed(v)
  OBVIOUS
<1>3. SumMoves(F, G, x, y)
  BY <1>1, <1>2, SumOwed
<1>4. G = F
  BY <1>2, <1>3 DEF SumMoves
<1> QED  BY <1>1, <1>4 DEF Balanced

Turns(np, mp, x, y) == mp = (np + (y - x)) % SizeMod

LEMMA BalancePays ==
  ASSUME NEW wk, Debtors(wk), NEW t \in Threads, NEW v, ListOk(v), NEW wl, wl = [wk EXCEPT ![t] = v],
         NEW x, NEW y, Owed(wk[t]) = x, Owed(v) = y,
         NEW np, Balanced(np, wk), NEW mp, Turns(np, mp, x, y)
  PROVE  Balanced(mp, wl)
<1>1. PICK F, G : F = OwedBy(wk) /\ G = OwedBy(wl)
  OBVIOUS
<1>2. SumMoves(F, G, x, y)
  BY <1>1, SumOwed
<1>4. PICK d : d = y - x
  OBVIOUS
<1>5. d \in Int /\ G = F + d /\ F \in Int
  BY <1>2, <1>4 DEF SumMoves
<1>6. np = F % SizeMod /\ SizeMod \in Nat \ {0}
  BY <1>1, ArenaAssumption DEF Balanced
<1>7. ((F % SizeMod) + d) % SizeMod = (F + d) % SizeMod
  BY <1>5, <1>6, ModAdd
<1>8. mp = G % SizeMod
  <2>1. mp = (np + d) % SizeMod
    BY <1>4 DEF Turns
  <2> QED  BY <1>5, <1>6, <1>7, <2>1
<1> QED  BY <1>1, <1>8 DEF Balanced

LEMMA DebtorsAre ==
  ASSUME NEW a, NEW bn, NEW ob, NEW wk, World(a, {}, {}, bn, ob, wk, Threads), Workers(wk)
  PROVE  Debtors(wk)
<1>1. \A u \in Threads : ListOk(wk[u])
  BY DEF World, ThreadsOk
<1>2. DOMAIN wk = Threads
  <2>1. PICK g : g = [u \in Threads |-> wk[u]]
    OBVIOUS
  <2>2. wk = g
    BY <2>1 DEF Workers
  <2> QED  BY <2>1, <2>2
<1> QED  BY <1>1, <1>2 DEF Debtors

(* The thread owes what it did, or its debt changes as npurgatory does.    *)
Even(t) == Owing(t) /\ arena'.npurgatory = arena.npurgatory

Idles(t) == \E v : /\ work' = [work EXCEPT ![t] = v] /\ Sums(Purges(work[t]), 0) /\ Sums(Purges(v), 0)
                   /\ arena'.npurgatory = arena.npurgatory

PaysBy(t, v, x, y) == /\ work' = [work EXCEPT ![t] = v] /\ x \in Nat /\ y \in Nat
                      /\ Sums(Purges(work[t]), x) /\ Sums(Purges(v), y)
                      /\ arena'.npurgatory = (arena.npurgatory + (y - x)) % SizeMod

Pays(t) == \E v, x, y : PaysBy(t, v, x, y)

(* The lists before and after, and the debts.                              *)
Lists(t, v, wk, wl) ==
  /\ wk = work /\ wl = work' /\ Debtors(wk) /\ wl = [wk EXCEPT ![t] = v]
  /\ ListOk(v) /\ ListOk(wk[t])

LEMMA ListsAre ==
  ASSUME ArenaOk, StepEnded(bin', objects'), NEW t \in Threads, NEW v, work' = [work EXCEPT ![t] = v],
         NEW wk, wk = work, NEW wl, wl = work'
  PROVE  Lists(t, v, wk, wl)
<1>1. Debtors(wk)
  <2>1. World(arena, {}, {}, bin, objects, wk, Threads) /\ Workers(wk)
    BY DEF ArenaOk
  <2> QED  BY <2>1, DebtorsAre
<1>2. Debtors(wl)
  <2>1. PICK a, bn, ob : a = arena' /\ bn = bin' /\ ob = objects'
    OBVIOUS
  <2>2. World(a, {}, {}, bn, ob, wl, Threads) /\ Workers(wl)
    BY <2>1 DEF StepEnded
  <2> QED  BY <2>2, DebtorsAre
<1>3. wl = [wk EXCEPT ![t] = v]
  OBVIOUS
<1>4. wl[t] = v
  BY <1>1, <1>3 DEF Debtors
<1>5. ListOk(v) /\ ListOk(wk[t])
  BY <1>1, <1>2, <1>4 DEF Debtors
<1> QED  BY <1>1, <1>3, <1>5 DEF Lists

LEMMA BalancedAs == ASSUME NEW np, np = arena'.npurgatory, NEW wl, wl = work'
                    PROVE  PurgatoryBalanced' <=> Balanced(np, wl)
<1>1. PICK f : f = [t \in Threads |-> Owed(wl[t])]
  OBVIOUS
<1>2. PurgatoryBalanced' <=> arena'.npurgatory = SumFunction(f) % SizeMod
  BY <1>1 DEF PurgatoryBalanced, Owed, Debts
<1> QED  BY <1>1, <1>2 DEF Balanced, OwedBy

Still(t, v) == /\ work' = [work EXCEPT ![t] = v] /\ Owed(v) = Owed(work[t])
               /\ arena'.npurgatory = arena.npurgatory

LEMMA StillKeeps ==
  ASSUME ArenaOk, PurgatoryBalanced, StepEnded(bin', objects'), NEW t \in Threads, NEW v, Still(t, v)
  PROVE  PurgatoryBalanced'
<1>0. /\ work' = [work EXCEPT ![t] = v] /\ Owed(v) = Owed(work[t])
      /\ arena'.npurgatory = arena.npurgatory
  BY DEF Still
<1>1. PICK wk, wl, np : wk = work /\ wl = work' /\ np = arena.npurgatory
  OBVIOUS
<1>2. Lists(t, v, wk, wl)
  BY <1>0, <1>1, ListsAre
<1>3. /\ Debtors(wk) /\ wl = [wk EXCEPT ![t] = v] /\ ListOk(v) /\ Owed(v) = Owed(wk[t])
  BY <1>0, <1>1, <1>2 DEF Lists
<1>4. Balanced(np, wk)
  BY <1>1, BalancedIs
<1>5. Balanced(np, wl)
  BY <1>3, <1>4, BalanceSame
<1>6. np = arena'.npurgatory
  BY <1>0, <1>1
<1> QED  BY <1>1, <1>5, <1>6, BalancedAs

LEMMA EvenKeeps ==
  ASSUME ArenaOk, PurgatoryBalanced, StepEnded(bin', objects'), NEW t \in Threads, Even(t)
  PROVE  PurgatoryBalanced'
<1>1. PICK v : work' = [work EXCEPT ![t] = v] /\ Purges(v) = Purges(work[t])
  BY DEF Even, Owing, Leads
<1>2. PICK wk, wl, w : wk = work /\ wl = work' /\ w = work[t]
  OBVIOUS
<1>3. Lists(t, v, wk, wl)
  BY <1>1, <1>2, ListsAre
<1>4. ListOk(v) /\ ListOk(w) /\ Named(v, "purge") = Named(w, "purge")
  BY <1>1, <1>2, <1>3 DEF Lists, Purges
<1>5. Owed(v) = Owed(w)
  BY <1>4, OwedSame
<1>6. arena'.npurgatory = arena.npurgatory
  BY DEF Even
<1>7. Owed(v) = Owed(work[t])
  BY <1>2, <1>5
<1>8. Still(t, v)
  BY <1>1, <1>6, <1>7 DEF Still
<1> QED  BY <1>8, StillKeeps

LEMMA IdlesKeeps ==
  ASSUME ArenaOk, PurgatoryBalanced, StepEnded(bin', objects'), NEW t \in Threads, Idles(t)
  PROVE  PurgatoryBalanced'
<1>1. PICK v : /\ work' = [work EXCEPT ![t] = v] /\ Sums(Purges(work[t]), 0) /\ Sums(Purges(v), 0)
               /\ arena'.npurgatory = arena.npurgatory
  BY DEF Idles
<1>2. PICK wk, wl, w : wk = work /\ wl = work' /\ w = work[t]
  OBVIOUS
<1>3. Lists(t, v, wk, wl)
  BY <1>1, <1>2, ListsAre
<1>4. ListOk(v) /\ ListOk(w) /\ Sums(Purges(w), 0) /\ Sums(Purges(v), 0)
  BY <1>1, <1>2, <1>3 DEF Lists
<1>5. Owed(v) = 0 /\ Owed(w) = 0
  BY <1>4, OwedSums
<1>6. Owed(v) = Owed(work[t])
  BY <1>2, <1>5
<1>7. Still(t, v)
  BY <1>1, <1>6 DEF Still
<1> QED  BY <1>7, StillKeeps

LEMMA PaysKeeps ==
  ASSUME ArenaOk, PurgatoryBalanced, StepEnded(bin', objects'), NEW t \in Threads, Pays(t)
  PROVE  PurgatoryBalanced'
<1>1. PICK v, x, y : PaysBy(t, v, x, y)
  BY DEF Pays
<1>2. /\ work' = [work EXCEPT ![t] = v] /\ x \in Nat /\ y \in Nat
      /\ Sums(Purges(work[t]), x) /\ Sums(Purges(v), y)
      /\ arena'.npurgatory = (arena.npurgatory + (y - x)) % SizeMod
  BY <1>1 DEF PaysBy
<1>3. PICK wk, wl, w : wk = work /\ wl = work' /\ w = work[t]
  OBVIOUS
<1>4. PICK np, mp : np = arena.npurgatory /\ mp = arena'.npurgatory
  OBVIOUS
<1>5. Lists(t, v, wk, wl)
  BY <1>2, <1>3, ListsAre
<1>6. ListOk(v) /\ ListOk(w) /\ Sums(Purges(w), x) /\ Sums(Purges(v), y)
  BY <1>2, <1>3, <1>5 DEF Lists
<1>7. Owed(w) = x /\ Owed(v) = y
  BY <1>6, OwedSums
<1>8. Debtors(wk) /\ wl = [wk EXCEPT ![t] = v] /\ Owed(wk[t]) = x
  BY <1>3, <1>5, <1>7 DEF Lists
<1>9. Balanced(np, wk)
  BY <1>3, <1>4, BalancedIs
<1>10. Turns(np, mp, x, y)
  BY <1>2, <1>4 DEF Turns
<1>11. Balanced(mp, wl)
  BY <1>6, <1>7, <1>8, <1>9, <1>10, BalancePays
<1> QED  BY <1>3, <1>4, <1>11, BalancedAs

LEMMA ArenaTyped ==
  ASSUME ArenaOk, NEW a, a = arena
  PROVE  Typed(a) /\ IsArena(a)
<1>1. PICK N : N = {}
  OBVIOUS
<1>2. PICK bn, ob, wk : bn = bin /\ ob = objects /\ wk = work
  OBVIOUS
<1>3. World(a, N, N, bn, ob, wk, Threads)
  BY <1>1, <1>2 DEF ArenaOk
<1>4. Typed(a)
  BY <1>3, WorldFine
<1> QED  BY <1>4, TypedIs

LEMMA NowCommitted ==
  ASSUME ArenaOk, NEW n, arena' = Committed(arena, n)
  PROVE  arena'.npurgatory = (arena.npurgatory + n) % SizeMod
<1>1. PICK a : a = arena
  OBVIOUS
<1>2. IsArena(a)
  BY <1>1, ArenaTyped
<1>3. Committed(a, n).npurgatory = (a.npurgatory + n) % SizeMod
  BY <1>2 DEF Committed, IsArena
<1> QED  BY <1>1, <1>3

LEMMA CommitNat ==
  ASSUME ArenaOk, NEW all \in BOOLEAN
  PROVE  Commitment(arena, all) \in Nat
<1>1. PICK a : a = arena
  OBVIOUS
<1>2. Typed(a)
  BY <1>1, ArenaTyped
<1>3. Commitment(a, all) \in Nat
  BY <1>2, CommitmentIs
<1> QED  BY <1>1, <1>3

LEMMA SumsNone == Sums({}, 0)
BY DEF Sums

LEMMA SumsOne ==
  ASSUME NEW x, NEW n, x[2] = n, NEW P, P = {x}
  PROVE  Sums(P, n)
BY DEF Sums

LEMMA PurgeAllPays ==
  ASSUME ArenaOk, NEW t \in Threads, arena_purge_all(t)
  PROVE  Pays(t)
<1>1. PICK all \in BOOLEAN : all = TRUE
  OBVIOUS
<1>2. PICK n : n = Commitment(arena, all)
  OBVIOUS
<1>3. n \in Nat
  BY <1>2, CommitNat
<1>4. PICK x, v : x = <<"purge", n>> /\ v = <<x>>
  OBVIOUS
<1>5. Idle(t) /\ arena' = Committed(arena, n) /\ work' = [work EXCEPT ![t] = v]
  BY <1>1, <1>2, <1>4 DEF arena_purge_all, Does
<1>6. x[1] = "purge" /\ x[2] = n
  BY <1>4
<1>7. Purges(v) = {x}
  BY <1>4, <1>6, PurgesOne
<1>8. Sums(Purges(v), n)
  BY <1>6, <1>7, SumsOne
<1>9. Sums(Purges(work[t]), 0)
  BY <1>5, IdlePurges, SumsNone
<1>10. arena'.npurgatory = (arena.npurgatory + (n - 0)) % SizeMod
  <2>1. n - 0 = n
    BY <1>3
  <2>2. arena'.npurgatory = (arena.npurgatory + n) % SizeMod
    BY <1>5, NowCommitted
  <2> QED  BY <2>1, <2>2
<1>11. PaysBy(t, v, 0, n)
  BY <1>3, <1>5, <1>8, <1>9, <1>10 DEF PaysBy
<1> QED  BY <1>11 DEF Pays

LEMMA MaybePays ==
  ASSUME ArenaOk, NEW t \in Threads, MaybePurge(t)
  PROVE  Pays(t) \/ Even(t)
<1>1. PICK dirty \in BOOLEAN : dirty = FALSE
  OBVIOUS
<1>2. PICK n : n = Commitment(arena, dirty)
  OBVIOUS
<1>3. n \in Nat
  BY <1>2, CommitNat
<1>4. PICK name, x, z : name = "maybe" /\ x = <<"purge", n>> /\ z = work[t][1]
  OBVIOUS
<1>5. PICK v, w : v = Rest(t) /\ w = Before(x, v)
  OBVIOUS
<1>6. /\ Task(t, name)
      /\ \/ arena' = Committed(arena, n) /\ work' = [work EXCEPT ![t] = w]
         \/ arena' = arena /\ work' = [work EXCEPT ![t] = v]
  BY <1>1, <1>2, <1>4, <1>5 DEF MaybePurge, Does, Before
<1>7. v \in Seq(Range(v)) /\ Purges(v) = {} /\ Purges(work[t]) = {}
  BY <1>4, <1>5, <1>6, RestPurges
<1>8. CASE arena' = arena /\ work' = [work EXCEPT ![t] = v]
  <2>1. Purges(v) = Purges(work[t])
    BY <1>7
  <2>2. Owing(t)
    BY <1>8, <2>1, OwesWork
  <2> QED  BY <1>8, <2>2 DEF Even
<1>9. CASE arena' = Committed(arena, n) /\ work' = [work EXCEPT ![t] = w]
  <2>1. x[1] = "purge" /\ x[2] = n
    BY <1>4
  <2>2. PICK S : S = Range(v)
    OBVIOUS
  <2>3. v \in Seq(S)
    BY <1>7, <2>2
  <2>4. Purges(w) = Purges(v) \cup {x}
    <3>1. v \in Seq(S) /\ w = Before(x, v) /\ x[1] = "purge"
      BY <1>5, <2>1, <2>3
    <3>2. w \in Seq(S \cup {x}) /\ Purges(w) = Purges(v) \cup {x}
      BY <3>1, PurgesBefore
    <3> QED  BY <3>2
  <2>5. Purges(w) = {x}
    BY <1>7, <2>4
  <2>6. Sums(Purges(w), n)
    BY <2>1, <2>5, SumsOne
  <2>7. Sums(Purges(work[t]), 0)
    BY <1>7, SumsNone
  <2>8. arena'.npurgatory = (arena.npurgatory + (n - 0)) % SizeMod
    <3>1. n - 0 = n
      BY <1>3
    <3>2. arena'.npurgatory = (arena.npurgatory + n) % SizeMod
      BY <1>9, NowCommitted
    <3> QED  BY <3>1, <3>2
  <2>9. PaysBy(t, w, 0, n)
    BY <1>3, <1>9, <2>6, <2>7, <2>8 DEF PaysBy
  <2> QED  BY <2>9 DEF Pays
<1> QED  BY <1>6, <1>8, <1>9

(* The list of a thread that has the dirty runs of a chunk.                *)
LEMMA PurgesListed ==
  ASSUME NEW v, NEW S, v \in Seq(S), Purges(v) = {}, NEW runs, NEW k, NEW w, w = PurgeList(v, runs, k)
  PROVE  Sums(Purges(w), k)
<1>1. PICK x, y, z : x = <<"madvise", runs>> /\ y = <<"return", runs>> /\ z = <<"purge", k>>
  OBVIOUS
<1>2. PICK p : p = Before(z, v)
  OBVIOUS
<1>3. PICK q : q = Before(y, p)
  OBVIOUS
<1>4. w = Before(x, q)
  BY <1>1, <1>2, <1>3 DEF PurgeList
<1>5. x[1] # "purge" /\ y[1] # "purge" /\ z[1] = "purge" /\ z[2] = k
  BY <1>1
<1>6. p \in Seq(S \cup {z}) /\ Purges(p) = Purges(v) \cup {z}
  BY <1>2, <1>5, PurgesBefore
<1>7. IsList(p)
  BY <1>6 DEF IsList
<1>8. Purges(q) = Purges(p)
  BY <1>3, <1>5, <1>7, PurgesOther
<1>9. IsList(q)
  <2>1. PICK T : T = S \cup {z}
    OBVIOUS
  <2>2. q \in Seq(T \cup {y})
    BY <1>3, <1>6, <2>1, PurgesBefore
  <2> QED  BY <2>2 DEF IsList
<1>10. Purges(w) = Purges(q)
  BY <1>4, <1>5, <1>9, PurgesOther
<1>11. Purges(w) = {z}
  BY <1>6, <1>8, <1>10
<1> QED  BY <1>5, <1>11, SumsOne

LEMMA PurgePays ==
  ASSUME ArenaOk, NEW t \in Threads, PurgeChunk(t)
  PROVE  Pays(t) \/ Idles(t)
<1>1. PICK name, x, v, n : name = "purge" /\ x = work[t][1] /\ v = Rest(t) /\ n = Arg(t)
  OBVIOUS
<1>2. Task(t, name) /\ Spent(t, n, v, arena'.npurgatory)
  BY <1>1, StepPurge DEF PurgeChunk
<1>3. v \in Seq(Range(v)) /\ Purges(v) = {} /\ Purges(work[t]) = {x}
  BY <1>1, <1>2, RestPurges
<1>4. x[2] = n /\ n \in Nat
  <2>1. PICK T : T = Range(v)
    OBVIOUS
  <2>2. TaskFacts(t, x, v, T, name)
    BY <1>1, <1>2, <2>1, TaskIs
  <2> QED  BY <1>1, <2>2 DEF TaskFacts, TaskOk, Arg
<1>5. Sums(Purges(work[t]), n)
  BY <1>3, <1>4, SumsOne
<1>6. Sums(Purges(v), 0)
  BY <1>3, SumsNone
<1>7. CASE arena'.npurgatory = arena.npurgatory /\ n = 0 /\ work' = [work EXCEPT ![t] = v]
  BY <1>5, <1>6, <1>7 DEF Idles
<1>8. CASE arena'.npurgatory = (arena.npurgatory + -n) % SizeMod /\ work' = [work EXCEPT ![t] = v]
  <2>1. -n = 0 - n
    BY <1>4
  <2>2. PaysBy(t, v, n, 0)
    BY <1>4, <1>5, <1>6, <1>8, <2>1 DEF PaysBy
  <2> QED  BY <2>2 DEF Pays
<1>9. ASSUME NEW k \in Nat, NEW runs, arena'.npurgatory = (arena.npurgatory + (k - n)) % SizeMod,
             work' = [work EXCEPT ![t] = PurgeList(v, runs, k)]
      PROVE  Pays(t)
  <2>1. PICK w, S : w = PurgeList(v, runs, k) /\ S = Range(v)
    OBVIOUS
  <2>2. v \in Seq(S) /\ Purges(v) = {}
    BY <1>3, <2>1
  <2>3. Sums(Purges(w), k)
    BY <2>1, <2>2, PurgesListed
  <2>4. PaysBy(t, w, n, k)
    BY <1>4, <1>5, <1>9, <2>1, <2>3 DEF PaysBy
  <2> QED  BY <2>4 DEF Pays
<1> QED  BY <1>2, <1>7, <1>8, <1>9 DEF Spent

Settled(t) == Even(t) \/ Idles(t) \/ Pays(t)

LEMMA KeptEven ==
  ASSUME NEW t, Owing(t), BothKept(arena.npurgatory)
  PROVE  Settled(t)
BY DEF BothKept, Settled, Even

LEMMA KeepsEven ==
  ASSUME NEW t, Owing(t), NEW bn, NEW ob, StepKeeps(bn, ob, arena.npurgatory)
  PROVE  Settled(t)
BY DEF StepKeeps, Settled, Even

LEMMA LargeSettled ==
  ASSUME IInv, NEW t \in Threads, CallLarge(t)
  PROVE  Settled(t)
<1>1. ArenaOk /\ BinInv(bin, work) /\ uses.pages \subseteq 1 .. NP /\ NP \in Nat
  BY ArenaAssumption, Numbers DEF IInv
<1>2. ASSUME NEW n \in uses.pages, arena_malloc_large(t, n) PROVE Settled(t)
  <2>1. n \in 1 .. NP
    BY <1>1
  <2>2. Owing(t) /\ BothKept(arena.npurgatory)
    BY <1>1, <1>2, <2>1, StepMalloc, OwesMalloc
  <2> QED  BY <2>2, KeptEven
<1>3. ASSUME NEW n \in uses.pages, NEW align \in {2, 4}, arena_palloc(t, n, align) PROVE Settled(t)
  <2>1. n \in 1 .. NP
    BY <1>1
  <2>2. Owing(t) /\ BothKept(arena.npurgatory)
    BY <1>1, <1>3, <2>1, StepPalloc, OwesPalloc
  <2> QED  BY <2>2, KeptEven
<1>4. ASSUME NEW r \in DOMAIN objects, arena_dalloc_large(t, r) PROVE Settled(t)
  <2>1. Owing(t) /\ StepKeeps(bin', objects', arena.npurgatory)
    BY <1>1, <1>4, StepDalloc, OwesDalloc
  <2> QED  BY <2>1, KeepsEven
<1>5. ASSUME NEW r \in DOMAIN objects, NEW n \in uses.pages, arena_ralloc_large_shrink(t, r, n)
      PROVE  Settled(t)
  <2>1. n \in Nat /\ n >= 1
    BY <1>1
  <2>2. Owing(t) /\ StepKeeps(bin', objects', arena.npurgatory)
    BY <1>1, <1>5, <2>1, StepShrink, OwesShrink
  <2> QED  BY <2>2, KeepsEven
<1>6. ASSUME NEW r \in DOMAIN objects, NEW n \in uses.pages, NEW extra \in 0 .. NP - n,
             arena_ralloc_large_grow(t, r, n, extra)
      PROVE  Settled(t)
  <2>1. n \in Nat /\ extra \in Nat
    BY <1>1
  <2>2. Owing(t) /\ StepKeeps(bin', objects', arena.npurgatory)
    BY <1>1, <1>6, <2>1, StepGrow, OwesGrow
  <2> QED  BY <2>2, KeepsEven
<1> QED  BY <1>2, <1>3, <1>4, <1>5, <1>6 DEF CallLarge

LEMMA SmallSettled ==
  ASSUME IInv, NEW t \in Threads, CallSmall(t)
  PROVE  Settled(t)
<1>1. ArenaOk /\ BinInv(bin, work)
  BY DEF IInv
<1>2. CASE arena_malloc_small(t)
  <2>1. Owing(t) /\ BothKept(arena.npurgatory)
    BY <1>1, <1>2, StepMallocSmall, OwesMallocSmall
  <2> QED  BY <2>1, KeptEven
<1>3. ASSUME NEW r \in DOMAIN bin.runs, NEW i \in Held(bin, r), arena_dalloc_bin(t, r, i)
      PROVE  Settled(t)
  <2>1. Owing(t) /\ BothKept(arena.npurgatory)
    BY <1>1, <1>3, StepDallocBin, OwesDallocBin
  <2> QED  BY <2>1, KeptEven
<1> QED  BY <1>2, <1>3 DEF CallSmall

LEMMA ContinueSettled ==
  ASSUME IInv, NEW t \in Threads, Continue(t)
  PROVE  Settled(t)
<1>1. ArenaOk /\ BinInv(bin, work)
  BY DEF IInv
<1>2. CASE MapChunk(t)
  <2>1. Owing(t) /\ BothKept(arena.npurgatory)
    BY <1>1, <1>2, StepMapChunk, OwesMapChunk
  <2> QED  BY <2>1, KeptEven
<1>3. CASE UnmapChunk(t)
  <2>1. Owing(t) /\ StepKeeps(bin', objects', arena.npurgatory)
    BY <1>1, <1>3, StepUnmap, OwesUnmap
  <2> QED  BY <2>1, KeepsEven
<1>4. CASE TrimTailOf(t)
  <2>1. Owing(t) /\ StepKeeps(bin', objects', arena.npurgatory)
    BY <1>1, <1>4, StepTrimTail, OwesTrimTail
  <2> QED  BY <2>1, KeepsEven
<1>5. CASE MaybePurge(t)
  BY <1>1, <1>5, MaybePays DEF Settled
<1>6. CASE PurgeChunk(t)
  BY <1>1, <1>6, PurgePays DEF Settled
<1>7. CASE Madvise(t)
  <2>1. Owing(t) /\ StepKeeps(bin', objects', arena.npurgatory)
    BY <1>1, <1>7, StepMadvise, OwesMadvise
  <2> QED  BY <2>1, KeepsEven
<1>8. CASE ReturnRun(t)
  <2>1. Owing(t) /\ StepKeeps(bin', objects', arena.npurgatory)
    BY <1>1, <1>8, StepReturn, OwesReturn
  <2> QED  BY <2>1, KeepsEven
<1>9. CASE RunForBin(t)
  <2>1. Owing(t) /\ BothKept(arena.npurgatory)
    BY <1>1, <1>9, StepRunForBin, OwesRunForBin
  <2> QED  BY <2>1, KeptEven
<1>10. CASE Refill(t)
  <2>1. Owing(t) /\ BothKept(arena.npurgatory)
    BY <1>1, <1>10, StepRefill, OwesRefill
  <2> QED  BY <2>1, KeptEven
<1>11. CASE DropRun(t)
  <2>1. Owing(t) /\ BothKept(arena.npurgatory)
    BY <1>1, <1>11, StepDrop, OwesDrop
  <2> QED  BY <2>1, KeptEven
<1> QED  BY <1>2, <1>3, <1>4, <1>5, <1>6, <1>7, <1>8, <1>9, <1>10, <1>11 DEF Continue

LEMMA InitBalanced ==
  ASSUME Init
  PROVE  PurgatoryBalanced
<1>1. PICK f : f = [t \in Threads |-> Owed(work[t])]
  OBVIOUS
<1>2. f \in [Threads -> Nat] /\ \A t \in Threads : f[t] = 0
  <2>1. ASSUME NEW t \in Threads PROVE Owed(work[t]) = 0
    <3>1. PICK w, P : w = work[t] /\ P = {}
      OBVIOUS
    <3>2. w = <<>>
      BY <3>1 DEF Init
    <3>3. ListOk(w) /\ P = Named(w, "purge")
      BY <3>1, <3>2, ListNone, PurgesOne DEF Purges
    <3>4. OwedAs(w, P)
      BY <3>3, OwedIs
    <3> QED  BY <3>1, <3>4 DEF OwedAs
  <2> QED  BY <1>1, <2>1
<1>3. IsFiniteSet(Threads)
  BY ThreadsAssumption
<1>4. SumFunction(f) = 0
  <2>1. PICK H : H = Heap(f, Threads)
    OBVIOUS
  <2>2. H = {}
    BY <1>2, <2>1 DEF Heap
  <2>3. DOMAIN f = Threads /\ \A t \in DOMAIN f : f[t] \in Nat
    BY <1>2
  <2>4. SumFunction(f) = Cardinality(Heap(f, DOMAIN f))
    BY <1>3, <2>3, SumIsHeap
  <2> QED  BY <2>1, <2>2, <2>3, <2>4, FS_EmptySet
<1>5. arena.npurgatory = 0
  BY DEF Init
<1>6. 0 % SizeMod = 0
  <2>1. SizeMod \in Nat \ {0}
    BY ArenaAssumption
  <2> QED  BY <2>1
<1>7. OwedBy(work) = SumFunction(f)
  BY <1>1 DEF OwedBy
<1>8. Balanced(arena.npurgatory, work)
  BY <1>4, <1>5, <1>6, <1>7 DEF Balanced
<1> QED  BY <1>8, BalancedIs

LEMMA NextBalanced ==
  ASSUME IInv, PurgatoryBalanced, [Next]_vars
  PROVE  PurgatoryBalanced'
<1>1. CASE Next
  <2>1. PICK t \in Threads : CallLarge(t) \/ CallSmall(t) \/ arena_purge_all(t) \/ Continue(t)
    BY <1>1 DEF Next
  <2>2. ArenaOk
    BY DEF IInv
  <2>3. StepEnded(bin', objects')
    <3>1. IInv'
      BY NextIInv
    <3> QED  BY <3>1 DEF IInv, ArenaOk, StepEnded
  <2>4. Settled(t)
    <3>1. CASE arena_purge_all(t)
      BY <2>2, <3>1, PurgeAllPays DEF Settled
    <3> QED  BY <2>1, <3>1, LargeSettled, SmallSettled, ContinueSettled
  <2> QED  BY <2>2, <2>3, <2>4, EvenKeeps, IdlesKeeps, PaysKeeps DEF Settled
<1>2. CASE UNCHANGED vars
  BY <1>2 DEF vars, PurgatoryBalanced
<1> QED  BY <1>1, <1>2

(* PurgatoryBalanced: npurgatory is what the threads that purge have still *)
(* committed to, though each of them raises and lowers it on its own, and  *)
(* lets go of the lock in between (arena_purge).                           *)
THEOREM PurgatoryKept == Spec => []PurgatoryBalanced
<1>1. Init => IInv /\ PurgatoryBalanced
  BY InitIInv, InitBalanced
<1>2. IInv /\ PurgatoryBalanced /\ [Next]_vars => IInv' /\ PurgatoryBalanced'
  BY NextIInv, NextBalanced
<1> QED  BY <1>1, <1>2, PTL DEF Spec
=============================================================================
