----------------------------- MODULE BootProofs -----------------------------
(***************************************************************************)
(* Proofs about Boot: no lock that fork takes stays with a thread the      *)
(* child does not have, and threads are spread evenly over the arenas, for *)
(* any number of threads, arenas and calls.                                *)
(*                                                                         *)
(* The inductive invariant says what the tasks of a thread can be (Shape), *)
(* which of them it can have before the allocator is initialized (Waits),  *)
(* and what it holds, or is about to take, when it comes to each of them.  *)
(***************************************************************************)
EXTENDS Boot, FiniteSetTheorems, SequenceTheorems, WellFoundedInduction, TLAPS

Ops == {"alloc", "init", "spin", "boot", "ncpus", "array", "first", "choose", "extend",
        "prefork", "fork"}
Tasks == [op : {"lock", "unlock"}, l : Locks] \cup [op : Ops, l : {Null}]

(* With one arena next_arena is set, but never used. *)
NextArenas == Arenas \cup {SecondArena}

TypeOK ==
  /\ lock \in [Locks -> Threads \cup {Null}]
  /\ initialized \in BOOLEAN /\ initializer \in Threads \cup {Null} /\ handlers \in Nat
  /\ arenas = Null \/ arenas \in SUBSET Arenas
  /\ next_arena \in NextArenas
  /\ arena_of \in [Threads -> Arenas \cup {Null}]
  /\ work \in [Threads -> Seq(Tasks)]
  /\ calls \in [Threads -> Nat]
  /\ alive \in SUBSET Threads
  /\ punted \in BOOLEAN

-----------------------------------------------------------------------------
(* What a thread has left to do.                                           *)

Is(task, op, l) == task.op = op /\ task.l = l

(* Each task with what may be before it and after it.                      *)
Shape(w) ==
  \A k \in 1 .. Len(w) :
    /\ w[k].op = "unlock" =>
         \A i \in 1 .. k - 1 :
           /\ w[i].op \in {"lock", "unlock"}
           /\ Is(w[i], "unlock", w[k].l) => \E j \in i + 1 .. k - 1 : Is(w[j], "lock", w[k].l)
    /\ w[k].op \in {"init", "spin", "boot", "ncpus", "first"} => k = 1
    /\ w[k].op \in {"choose", "extend"} =>
         \A i \in 1 .. k - 1 :
           w[i].op = "lock" \/ Is(w[i], "unlock", <<"base">>)
    /\ w[k].op = "array" => k + 1 = Len(w) /\ w[k + 1].op = "alloc"
    /\ w[k].op = "fork" => k = Len(w) /\ \A i \in 1 .. k - 1 : w[i].op \in {"lock", "prefork"}
    /\ w[k].op = "prefork" => w[Len(w)].op = "fork"

(* A call that has not come past malloc_init_hard.                         *)
Waits(w) ==
  w = <<>> \/ (Len(w) = 2 /\ w[1].op \in {"init", "spin", "boot"} /\ w[2].op = "alloc")

(* A lock is held from its task on, until the next one that gives it back. *)
UnlocksOwn(t) ==
  \A k \in 1 .. Len(work[t]) : work[t][k].op = "unlock" =>
    \/ lock[work[t][k].l] = t
    \/ \E j \in 1 .. k - 1 : Is(work[t][j], "lock", work[t][k].l)

BootHasLock(t) ==
  \A k \in 1 .. Len(work[t]) : work[t][k].op = "boot" => lock[<<"init">>] = t /\ initializer = Null

ArrayOnce(t) ==
  \A k \in 1 .. Len(work[t]) : work[t][k].op = "array" =>
    ~initialized /\ initializer = t /\ arenas # Null

ChooseLocked(t) ==
  \A k \in 1 .. Len(work[t]) : work[t][k].op \in {"choose", "extend"} =>
    /\ initialized /\ NArenas > 1 /\ arena_of[t] = Null
    /\ \/ lock[<<"arenas">>] = t
       \/ k = 2 /\ Is(work[t][1], "lock", <<"arenas">>)

FirstOnly(t) ==
  \A k \in 1 .. Len(work[t]) : work[t][k].op = "first" => NArenas = 1 /\ initialized

ArenaTasks(t) ==
  /\ arenas # Null /\ arena_of[t] # Null => arena_of[t] \in arenas
  /\ \A k \in 1 .. Len(work[t]), a \in Arenas :
       arenas # Null /\ Is(work[t][k], "lock", ArenaLock(a)) => a \in arenas

(* The locks of jemalloc_prefork.                                          *)
ForkSet(as) == {<<"arenas">>, <<"base">>, <<"huge">>} \cup {ArenaLock(a) : a \in as}

NotStarted(w) == Len(w) = handlers + 1 /\ \A i \in 1 .. Len(w) - 1 : w[i].op = "prefork"

Started(t, w) ==
  /\ lock[<<"arenas">>] = t
  /\ handlers >= 1 /\ Len(w) >= handlers
  /\ \A i \in Len(w) - handlers + 1 .. Len(w) - 1 : w[i].op = "prefork"
  /\ \A l \in ForkSet(arenas) : lock[l] = t \/ \E j \in 1 .. Len(w) - 1 : Is(w[j], "lock", l)

Forking(t) ==
  \A k \in 1 .. Len(work[t]) : work[t][k].op = "fork" =>
    initialized /\ (NotStarted(work[t]) \/ Started(t, work[t]))

WorkInv ==
  \A t \in Threads :
    /\ Shape(work[t]) /\ UnlocksOwn(t) /\ BootHasLock(t) /\ ArrayOnce(t)
    /\ ChooseLocked(t) /\ FirstOnly(t) /\ ArenaTasks(t) /\ Forking(t)

-----------------------------------------------------------------------------
(* How far the boot is.                                                    *)
BootInv ==
  /\ initializer = Null => arenas = {} /\ next_arena = 0 /\ ~initialized
  /\ ~initialized => \A t \in Threads : t # initializer => Waits(work[t]) /\ arena_of[t] = Null
  /\ ~initialized /\ initializer # Null =>
       /\ arena_of[initializer] = 0
       /\ \/ arenas = Null
          \/ /\ arenas = {0} /\ next_arena = 0
             /\ \E k \in 1 .. Len(work[initializer]) : work[initializer][k].op = "array"
  /\ initialized => arenas \in SUBSET Arenas /\ 0 \in arenas

ArenaLocksMade ==
  \A a \in Arenas : arenas # Null /\ lock[ArenaLock(a)] # Null => a \in arenas

(* A child has begun with the lock of a bin, or init_lock, taken by a      *)
(* thread it does not have, but with no other.                             *)
ChildInv ==
  /\ Child => initialized
  /\ ChildLocksFree

IInv == TypeOK /\ WorkInv /\ BootInv /\ ArenaLocksMade /\ ChildInv

(* The arenas before next_arena have one thread more than the others.      *)
Of(a) == {t \in Threads : arena_of[t] = a}

RoundRobin ==
  initialized /\ ~punted /\ NArenas > 1 =>
    /\ next_arena \in Arenas
    /\ \E n \in Nat : \A a \in Arenas :
         Cardinality(Of(a)) = IF a < next_arena THEN n + 1 ELSE n

-----------------------------------------------------------------------------
(* Locks, and the sequences of them that fork walks.                       *)

(* No two of the locks are one.                                            *)
LEMMA LocksDiffer ==
  /\ {<<"init">>, <<"arenas">>, <<"base">>, <<"huge">>} \subseteq Locks
  /\ \A a \in Arenas : BinLock(a) \in Locks /\ ArenaLock(a) \in Locks
  /\ <<"init">> # <<"arenas">> /\ <<"init">> # <<"base">> /\ <<"init">> # <<"huge">>
  /\ <<"arenas">> # <<"base">> /\ <<"arenas">> # <<"huge">> /\ <<"base">> # <<"huge">>
  /\ \A a, b \in Arenas : ArenaLock(a) = ArenaLock(b) => a = b
  /\ \A a, b \in Arenas : BinLock(a) # ArenaLock(b)
  /\ \A a \in Arenas : \A l \in {<<"init">>, <<"arenas">>, <<"base">>, <<"huge">>} :
       l # ArenaLock(a) /\ l # BinLock(a)
<1>1. \A a, b \in Arenas : ArenaLock(a) = ArenaLock(b) => a = b
  BY DEF ArenaLock
<1>2. \A a, b \in Arenas : BinLock(a) # ArenaLock(b)
  BY DEF ArenaLock, BinLock
<1>3. ASSUME NEW a, NEW c PROVE <<c>> # ArenaLock(a) /\ <<c>> # BinLock(a)
  <2>1. Len(<<c>>) = 1 /\ Len(ArenaLock(a)) = 2 /\ Len(BinLock(a)) = 2
    BY DEF ArenaLock, BinLock
  <2> QED  BY <2>1
<1> QED  BY <1>1, <1>2, <1>3 DEF Locks, BinLocks

(* A set of numbers below a bound can be listed in ascending order.        *)
Sorted(as, s) ==
  /\ s \in [1 .. Cardinality(as) -> as]
  /\ \A i, j \in DOMAIN s : i < j => s[i] < s[j]

LEMMA SortedExists ==
  ASSUME NEW as \in SUBSET Arenas
  PROVE  \E s : Sorted(as, s)
<1> DEFINE Bad == {m \in Nat : \E bs \in SUBSET (0 .. m - 1) : ~ \E s : Sorted(bs, s)}
<1>1. CASE Bad = {}
  BY <1>1, BootAssumption DEF Arenas
<1>2. CASE Bad # {}
  <2>1. PICK m \in Bad : \A c \in Bad : ~(<<c, m>> \in OpToRel(<, Nat))
    <3> HIDE DEF Bad
    <3>1. Bad \subseteq Nat
      BY DEF Bad
    <3> QED  BY <1>2, <3>1, NatLessThanWellFounded, WFMin
  <2>2. PICK bs \in SUBSET (0 .. m - 1) : ~ \E s : Sorted(bs, s)
    OBVIOUS
  <2>3. m # 0
    <3> SUFFICES ASSUME m = 0 PROVE FALSE
      OBVIOUS
    <3> HIDE DEF Bad
    <3>0. bs = {}
      <4>1. bs \subseteq 0 .. 0 - 1
        OBVIOUS
      <4> QED  BY <4>1
    <3>1. bs = {} /\ Cardinality(bs) = 0
      BY <3>0, FS_EmptySet
    <3>2. Sorted(bs, <<>>)
      BY <3>1 DEF Sorted
    <3> QED  BY <2>2, <3>2
  <2>4. m - 1 \in Nat /\ m - 1 \notin Bad
    <3>1. m - 1 \in Nat /\ m - 1 < m
      BY <2>3
    <3> HIDE DEF Bad
    <3>2. m \in Nat
      BY DEF Bad
    <3>3. <<m - 1, m>> \in OpToRel(<, Nat)
      BY <3>1, <3>2 DEF OpToRel
    <3> QED  BY <2>1, <3>1, <3>3
  <2>5. m - 1 \in bs
    <3> SUFFICES ASSUME m - 1 \notin bs PROVE FALSE
      OBVIOUS
    <3>1. bs \in SUBSET (0 .. (m - 1) - 1)
      BY <2>4
    <3> QED  BY <2>2, <2>4, <3>1
  <2> DEFINE cs == bs \ {m - 1}
             n == Cardinality(cs)
  <2>6. cs \in SUBSET (0 .. (m - 1) - 1)
    BY <2>4
  <2>7. PICK s : Sorted(cs, s)
    BY <2>4, <2>6
  <2>8. n \in Nat /\ Cardinality(bs) = n + 1
    <3>1. IsFiniteSet(0 .. m - 1)
      BY FS_Interval
    <3>2. IsFiniteSet(bs) /\ IsFiniteSet(cs)
      BY <3>1, FS_Subset
    <3>3. bs = cs \cup {m - 1}
      BY <2>5
    <3> QED  BY <3>2, <3>3, FS_AddElement, FS_CardinalityType
  <2> DEFINE r == [i \in 1 .. n + 1 |-> IF i = n + 1 THEN m - 1 ELSE s[i]]
  <2>9. \A i \in 1 .. n : s[i] \in cs
    BY <2>7 DEF Sorted
  <2>10. r \in [1 .. n + 1 -> bs]
    BY <2>5, <2>8, <2>9
  <2>11. ASSUME NEW i \in 1 .. n + 1, NEW j \in 1 .. n + 1, i < j PROVE r[i] < r[j]
    <3>1. i \in 1 .. n
      BY <2>8, <2>11
    <3>2. CASE j = n + 1
      <4> HIDE DEF Bad, cs, n
      <4>1. r[i] = s[i] /\ r[j] = m - 1
        BY <3>1, <3>2, <2>8
      <4>2. s[i] \in 0 .. (m - 1) - 1
        BY <3>1, <2>6, <2>9
      <4> QED  BY <4>1, <4>2, <2>4
    <3>3. CASE j # n + 1
      <4>1. j \in 1 .. n /\ DOMAIN s = 1 .. n
        BY <3>3, <2>7, <2>8 DEF Sorted
      <4>2. s[i] < s[j]
        BY <4>1, <3>1, <2>7, <2>11 DEF Sorted
      <4>3. r[i] = s[i] /\ r[j] = s[j]
        BY <3>1, <3>3, <2>8
      <4> QED  BY <4>2, <4>3
    <3> QED  BY <3>2, <3>3
  <2>12. Sorted(bs, r)
    BY <2>8, <2>10, <2>11 DEF Sorted
  <2> QED  BY <2>2, <2>12
<1> QED  BY <1>1, <1>2

(* Ascending lists every arena, and once. *)
LEMMA AscendingLists ==
  ASSUME NEW as \in SUBSET Arenas
  PROVE  /\ Cardinality(as) \in Nat
         /\ Ascending(as) \in [1 .. Cardinality(as) -> as]
         /\ \A i, j \in 1 .. Cardinality(as) : Ascending(as)[i] = Ascending(as)[j] => i = j
         /\ \A a \in as : \E i \in 1 .. Cardinality(as) : Ascending(as)[i] = a
<1> DEFINE n == Cardinality(as)
           s == Ascending(as)
<1>1. IsFiniteSet(as) /\ n \in Nat
  <2>1. IsFiniteSet(Arenas)
    BY FS_Interval, BootAssumption DEF Arenas
  <2> QED  BY <2>1, FS_Subset, FS_CardinalityType
<1>2. Sorted(as, s)
  BY SortedExists DEF Sorted, Ascending
<1>3. s \in [1 .. n -> as] /\ \A i, j \in 1 .. n : i < j => s[i] < s[j]
  BY <1>2 DEF Sorted
<1>4. \A i, j \in 1 .. n : s[i] = s[j] => i = j
  <2> HIDE DEF s
  <2> SUFFICES ASSUME NEW i \in 1 .. n, NEW j \in 1 .. n, s[i] = s[j], i # j PROVE FALSE
    OBVIOUS
  <2>1. s[i] \in as /\ s[j] \in as
    BY <1>3
  <2>2. s[i] \in Int /\ s[j] \in Int
    <3>1. \A a \in as : a \in Int
      BY DEF Arenas
    <3> HIDE DEF n
    <3> QED  BY <2>1, <3>1
  <2>3. i < j \/ j < i
    BY <1>1
  <2>4. s[i] < s[j] \/ s[j] < s[i]
    BY <2>3, <1>3
  <2> QED  BY <2>2, <2>4
<1>5. s \in Surjection(1 .. n, as)
  <2>1. s \in Injection(1 .. n, as)
    BY <1>3, <1>4 DEF Injection, IsInjective
  <2>2. IsFiniteSet(1 .. n) /\ Cardinality(1 .. n) = n
    <3> HIDE DEF n
    <3>1. n \in Int /\ 1 \in Int /\ (n < 1 => n = 0)
      BY <1>1
    <3> QED  BY <3>1, FS_Interval
  <2> QED  BY <2>1, <2>2, <1>1, FS_Injection
<1>6. \A a \in as : \E i \in 1 .. n : s[i] = a
  BY <1>5 DEF Surjection
<1> QED  BY <1>1, <1>3, <1>4, <1>6

(* Two sequences in a row, position by position. *)
LEMMA Joined ==
  ASSUME NEW S, NEW u \in Seq(S), NEW v \in Seq(S)
  PROVE  /\ u \o v \in Seq(S)
         /\ Len(u) \in Nat /\ Len(v) \in Nat
         /\ Len(u \o v) = Len(u) + Len(v)
         /\ \A k \in 1 .. Len(u) : (u \o v)[k] = u[k]
         /\ \A k \in 1 .. Len(v) : (u \o v)[Len(u) + k] = v[k]
         /\ \A k \in 1 .. Len(u) + Len(v) : k \in 1 .. Len(u) \/ k - Len(u) \in 1 .. Len(v)
         /\ \A k \in 1 .. Len(u) + Len(v) : k - Len(u) \in 1 .. Len(v) => (u \o v)[k] = v[k - Len(u)]
<1>1. /\ u \o v \in Seq(S)
      /\ Len(u \o v) = Len(u) + Len(v)
      /\ \A i \in 1 .. Len(u) + Len(v) :
           (u \o v)[i] = IF i <= Len(u) THEN u[i] ELSE v[i - Len(u)]
  BY ConcatProperties
<1>2. Len(u) \in Nat /\ Len(v) \in Nat
  BY LenProperties
<1> DEFINE m == Len(u)
           n == Len(v)
           w == u \o v
<1> HIDE DEF m, n, w
<1>3. m \in Nat /\ n \in Nat
  BY <1>2 DEF m, n
<1>4. \A i \in 1 .. m + n : w[i] = IF i <= m THEN u[i] ELSE v[i - m]
  BY <1>1 DEF m, n, w
<1>5. \A k \in 1 .. m : w[k] = u[k]
  BY <1>3, <1>4
<1>6. \A k \in 1 .. n : w[m + k] = v[k]
  <2> TAKE k \in 1 .. n
  <2>1. m + k \in 1 .. m + n /\ ~(m + k <= m) /\ (m + k) - m = k
    BY <1>3
  <2>2. w[m + k] = v[(m + k) - m]
    BY <2>1, <1>4
  <2> QED  BY <2>1, <2>2
<1>7. \A k \in 1 .. m + n : k \in 1 .. m \/ k - m \in 1 .. n
  BY <1>3
<1>8. \A k \in 1 .. m + n : k - m \in 1 .. n => w[k] = v[k - m]
  BY <1>3, <1>4
<1> QED  BY <1>1, <1>2, <1>5, <1>6, <1>7, <1>8 DEF m, n, w

(* The locks of the arenas, as a list. *)
LEMMA ArenaLocksList ==
  ASSUME NEW as \in SUBSET Arenas
  PROVE  /\ ArenaLocks(as) \in Seq(Locks)
         /\ \A k \in 1 .. Len(ArenaLocks(as)) : \E a \in as : ArenaLocks(as)[k] = ArenaLock(a)
         /\ \A a \in as : \E k \in 1 .. Len(ArenaLocks(as)) : ArenaLocks(as)[k] = ArenaLock(a)
         /\ \A j, k \in 1 .. Len(ArenaLocks(as)) : ArenaLocks(as)[j] = ArenaLocks(as)[k] => j = k
<1> DEFINE n == Cardinality(as)
           s == Ascending(as)
           ls == ArenaLocks(as)
<1>1. /\ n \in Nat /\ s \in [1 .. n -> as]
      /\ \A i, j \in 1 .. n : s[i] = s[j] => i = j
      /\ \A a \in as : \E i \in 1 .. n : s[i] = a
  BY AscendingLists
<1>2. ls = [k \in 1 .. n |-> ArenaLock(s[k])]
  BY DEF ArenaLocks
<1> HIDE DEF n, s, ls
<1>3. \A k \in 1 .. n : ls[k] = ArenaLock(s[k]) /\ s[k] \in as /\ s[k] \in Arenas /\ ls[k] \in Locks
  BY <1>1, <1>2, LocksDiffer
<1>4. ls \in [1 .. n -> Locks]
  BY <1>2, <1>3
<1>5. ls \in Seq(Locks) /\ Len(ls) = n
  BY <1>1, <1>4, SeqDef
<1>6. ASSUME NEW j \in 1 .. n, NEW k \in 1 .. n, ls[j] = ls[k] PROVE j = k
  <2>1. ArenaLock(s[j]) = ArenaLock(s[k]) /\ s[j] \in Arenas /\ s[k] \in Arenas
    BY <1>3, <1>6
  <2>2. s[j] = s[k]
    BY <2>1, LocksDiffer
  <2> QED  BY <2>2, <1>1
<1>7. \A k \in 1 .. n : \E a \in as : ls[k] = ArenaLock(a)
  BY <1>3
<1>8. \A a \in as : \E k \in 1 .. n : ls[k] = ArenaLock(a)
  BY <1>1, <1>3
<1>9. /\ ls \in Seq(Locks)
      /\ \A k \in 1 .. Len(ls) : \E a \in as : ls[k] = ArenaLock(a)
      /\ \A a \in as : \E k \in 1 .. Len(ls) : ls[k] = ArenaLock(a)
      /\ \A j, k \in 1 .. Len(ls) : ls[j] = ls[k] => j = k
  BY <1>5, <1>6, <1>7, <1>8
<1> QED  BY <1>9 DEF ls

(* What jemalloc_prefork and jemalloc_postfork walk is the same set of     *)
(* locks, each once, and arenas_lock is the first that is taken.           *)
LEMMA PreforkList ==
  ASSUME NEW as \in SUBSET Arenas
  PROVE  /\ ForkLocks(as) \in Seq(Locks) /\ Len(ForkLocks(as)) >= 3
         /\ ForkLocks(as)[1] = <<"arenas">>
         /\ \A k \in 1 .. Len(ForkLocks(as)) : ForkLocks(as)[k] \in ForkSet(as)
         /\ \A l \in ForkSet(as) : l = <<"arenas">> \/
              \E k \in 2 .. Len(ForkLocks(as)) : ForkLocks(as)[k] = l
<1> DEFINE ls == ArenaLocks(as)
           f == ForkLocks(as)
           ab == <<<<"arenas">>>>
           bh == <<<<"base">>, <<"huge">>>>
           g == ab \o ls
           n == Len(ls)
<1>1. /\ ls \in Seq(Locks)
      /\ \A k \in 1 .. n : \E a \in as : ls[k] = ArenaLock(a)
      /\ \A a \in as : \E k \in 1 .. n : ls[k] = ArenaLock(a)
  BY ArenaLocksList
<1>2. ab \in Seq(Locks) /\ bh \in Seq(Locks)
  BY LocksDiffer
<1>3. /\ Len(ab) = 1 /\ ab[1] = <<"arenas">>
      /\ Len(bh) = 2 /\ bh[1] = <<"base">> /\ bh[2] = <<"huge">>
  OBVIOUS
<1>4. f = g \o bh
  BY DEF ForkLocks
<1> HIDE DEF ls, f, ab, bh, n
<1> HIDE DEF g
<1>41. /\ g \in Seq(Locks) /\ Len(ls) \in Nat
       /\ Len(g) = Len(ab) + Len(ls)
       /\ \A k \in 1 .. Len(ab) : g[k] = ab[k]
       /\ \A k \in 1 .. Len(ls) : g[Len(ab) + k] = ls[k]
       /\ \A k \in 1 .. Len(ab) + Len(ls) : k \in 1 .. Len(ab) \/ k - Len(ab) \in 1 .. Len(ls)
       /\ \A k \in 1 .. Len(ab) + Len(ls) : k - Len(ab) \in 1 .. Len(ls) => g[k] = ls[k - Len(ab)]
  BY <1>1, <1>2, Joined DEF g
<1>5. /\ g \in Seq(Locks) /\ n \in Nat /\ Len(g) = 1 + n
      /\ \A k \in 1 .. 1 : g[k] = ab[k]
      /\ \A k \in 1 .. n : g[1 + k] = ls[k]
      /\ \A k \in 1 .. 1 + n : k \in 1 .. 1 \/ k - 1 \in 1 .. n
      /\ \A k \in 1 .. 1 + n : k - 1 \in 1 .. n => g[k] = ls[k - 1]
  BY <1>3, <1>41 DEF n
<1>50. g \in Seq(Locks)
  BY <1>5
<1>51. /\ f \in Seq(Locks) /\ Len(f) = Len(g) + Len(bh)
       /\ \A k \in 1 .. Len(g) : f[k] = g[k]
       /\ \A k \in 1 .. Len(bh) : f[Len(g) + k] = bh[k]
       /\ \A k \in 1 .. Len(g) + Len(bh) : k \in 1 .. Len(g) \/ k - Len(g) \in 1 .. Len(bh)
       /\ \A k \in 1 .. Len(g) + Len(bh) : k - Len(g) \in 1 .. Len(bh) => f[k] = bh[k - Len(g)]
  BY <1>2, <1>4, <1>50, Joined
<1>6. /\ f \in Seq(Locks) /\ Len(f) = (1 + n) + 2
      /\ \A k \in 1 .. 1 + n : f[k] = g[k]
      /\ \A k \in 1 .. 2 : f[(1 + n) + k] = bh[k]
      /\ \A k \in 1 .. (1 + n) + 2 : k \in 1 .. 1 + n \/ k - (1 + n) \in 1 .. 2
      /\ \A k \in 1 .. (1 + n) + 2 : k - (1 + n) \in 1 .. 2 => f[k] = bh[k - (1 + n)]
  BY <1>3, <1>5, <1>51
<1>61. <<"arenas">> \in ForkSet(as) /\ <<"base">> \in ForkSet(as) /\ <<"huge">> \in ForkSet(as)
  BY DEF ForkSet
<1>7. \A k \in 1 .. 1 + n : g[k] \in ForkSet(as)
  <2> TAKE k \in 1 .. 1 + n
  <2>1. CASE k \in 1 .. 1
    <3>1. k = 1
      BY <2>1
    <3>2. g[1] = ab[1]
      BY <1>5
    <3> QED  BY <3>1, <3>2, <1>3, <1>61
  <2>2. CASE k - 1 \in 1 .. n
    BY <2>2, <1>1, <1>5 DEF ForkSet
  <2> QED  BY <2>1, <2>2, <1>5
<1>8. ASSUME NEW k \in 1 .. 2 PROVE bh[k] \in ForkSet(as)
  <2>1. k = 1 \/ k = 2
    OBVIOUS
  <2> QED  BY <2>1, <1>3, <1>61
<1>9. \A k \in 1 .. Len(f) : f[k] \in ForkSet(as)
  BY <1>6, <1>7, <1>8
<1>10. f[1] = <<"arenas">>
  BY <1>3, <1>5, <1>6
<1>11. ASSUME NEW l \in ForkSet(as), l # <<"arenas">> PROVE \E k \in 2 .. Len(f) : f[k] = l
  <2>1. CASE l \in {<<"base">>, <<"huge">>}
    <3>1. f[(1 + n) + 1] = <<"base">> /\ f[(1 + n) + 2] = <<"huge">>
      BY <1>3, <1>6
    <3>2. (1 + n) + 1 \in 2 .. Len(f) /\ (1 + n) + 2 \in 2 .. Len(f)
      BY <1>5, <1>6
    <3> QED  BY <2>1, <3>1, <3>2
  <2>2. ASSUME NEW a \in as, l = ArenaLock(a) PROVE \E k \in 2 .. Len(f) : f[k] = l
    <3>1. PICK k \in 1 .. n : ls[k] = ArenaLock(a)
      BY <1>1
    <3>2. 1 + k \in 1 .. 1 + n /\ 1 + k \in 2 .. Len(f)
      BY <1>5, <1>6
    <3>3. f[1 + k] = l
      BY <1>5, <1>6, <2>2, <3>1, <3>2
    <3> QED  BY <3>2, <3>3
  <2> QED  BY <1>11, <2>1, <2>2 DEF ForkSet
<1>12. Len(f) >= 3
  BY <1>5, <1>6
<1> QED  BY <1>6, <1>9, <1>10, <1>11, <1>12 DEF f

LEMMA PostforkList ==
  ASSUME NEW as \in SUBSET Arenas
  PROVE  /\ PostforkLocks(as) \in Seq(Locks)
         /\ \A k \in 1 .. Len(PostforkLocks(as)) : PostforkLocks(as)[k] \in ForkSet(as)
         /\ \A j, k \in 1 .. Len(PostforkLocks(as)) :
              PostforkLocks(as)[j] = PostforkLocks(as)[k] => j = k
<1> DEFINE ls == ArenaLocks(as)
           p == PostforkLocks(as)
           ab == <<<<"arenas">>>>
           hb == <<<<"huge">>, <<"base">>>>
           g == hb \o ls
           n == Len(ls)
<1>1. /\ ls \in Seq(Locks)
      /\ \A k \in 1 .. n : \E a \in as : ls[k] = ArenaLock(a)
      /\ \A j, k \in 1 .. n : ls[j] = ls[k] => j = k
  BY ArenaLocksList
<1>2. ab \in Seq(Locks) /\ hb \in Seq(Locks)
  BY LocksDiffer
<1>3. /\ Len(ab) = 1 /\ ab[1] = <<"arenas">>
      /\ Len(hb) = 2 /\ hb[1] = <<"huge">> /\ hb[2] = <<"base">>
  OBVIOUS
<1>4. p = g \o ab
  BY DEF PostforkLocks
<1> HIDE DEF ls, p, ab, hb, n
<1> HIDE DEF g
<1>41. /\ g \in Seq(Locks) /\ Len(ls) \in Nat
       /\ Len(g) = Len(hb) + Len(ls)
       /\ \A k \in 1 .. Len(hb) : g[k] = hb[k]
       /\ \A k \in 1 .. Len(hb) + Len(ls) : k \in 1 .. Len(hb) \/ k - Len(hb) \in 1 .. Len(ls)
       /\ \A k \in 1 .. Len(hb) + Len(ls) : k - Len(hb) \in 1 .. Len(ls) => g[k] = ls[k - Len(hb)]
  BY <1>1, <1>2, Joined DEF g
<1>5. /\ g \in Seq(Locks) /\ n \in Nat /\ Len(g) = 2 + n
      /\ \A k \in 1 .. 2 : g[k] = hb[k]
      /\ \A k \in 1 .. 2 + n : k \in 1 .. 2 \/ k - 2 \in 1 .. n
      /\ \A k \in 1 .. 2 + n : k - 2 \in 1 .. n => g[k] = ls[k - 2]
  BY <1>3, <1>41 DEF n
<1>50. g \in Seq(Locks)
  BY <1>5
<1>51. /\ p \in Seq(Locks) /\ Len(p) = Len(g) + Len(ab)
       /\ \A k \in 1 .. Len(g) : p[k] = g[k]
       /\ \A k \in 1 .. Len(ab) : p[Len(g) + k] = ab[k]
       /\ \A k \in 1 .. Len(g) + Len(ab) : k \in 1 .. Len(g) \/ k - Len(g) \in 1 .. Len(ab)
  BY <1>2, <1>4, <1>50, Joined
<1>6. /\ p \in Seq(Locks) /\ Len(p) = (2 + n) + 1
      /\ \A k \in 1 .. 2 + n : p[k] = g[k]
      /\ p[(2 + n) + 1] = <<"arenas">>
      /\ \A k \in 1 .. (2 + n) + 1 : k \in 1 .. 2 + n \/ k - (2 + n) \in 1 .. 1
  BY <1>3, <1>5, <1>51
<1> DEFINE Place(k) == \/ k = 1 /\ p[k] = <<"huge">>
                       \/ k = 2 /\ p[k] = <<"base">>
                       \/ k = n + 3 /\ p[k] = <<"arenas">>
                       \/ k - 2 \in 1 .. n /\ p[k] = ls[k - 2]
<1>7. \A k \in 1 .. Len(p) : Place(k)
  <2> TAKE k \in 1 .. Len(p)
  <2>1. CASE k \in 1 .. 2 + n
    <3>1. p[k] = g[k]
      BY <2>1, <1>6
    <3>2. CASE k \in 1 .. 2
      BY <3>1, <3>2, <1>3, <1>5
    <3>3. CASE k - 2 \in 1 .. n
      BY <3>1, <3>3, <2>1, <1>5
    <3> QED  BY <2>1, <3>2, <3>3, <1>5
  <2>2. CASE k - (2 + n) \in 1 .. 1
    <3>1. k = n + 3 /\ (2 + n) + 1 = n + 3
      BY <2>2, <1>5, <1>6
    <3> QED  BY <3>1, <1>6
  <2> QED  BY <2>1, <2>2, <1>6
<1>8. \A k \in 1 .. n : \E a \in as : a \in Arenas /\ ls[k] = ArenaLock(a)
  BY <1>1
<1>9. \A k \in 1 .. Len(p) : p[k] \in ForkSet(as)
  BY <1>7, <1>8 DEF ForkSet
<1>10. ASSUME NEW j \in 1 .. Len(p), NEW k \in 1 .. Len(p), p[j] = p[k] PROVE j = k
  <2>1. Place(j) /\ Place(k)
    BY <1>7
  <2>2. CASE j - 2 \in 1 .. n /\ p[j] = ls[j - 2]
    <3>1. k - 2 \in 1 .. n /\ p[k] = ls[k - 2]
      BY <2>1, <2>2, <1>8, <1>10, LocksDiffer
    <3>2. j - 2 = k - 2
      BY <3>1, <2>2, <1>1, <1>10
    <3>3. j \in Int /\ k \in Int
      OBVIOUS
    <3> QED  BY <3>2, <3>3
  <2>3. CASE ~(j - 2 \in 1 .. n /\ p[j] = ls[j - 2])
    <3>1. ~(k - 2 \in 1 .. n /\ p[k] = ls[k - 2])
      BY <2>1, <2>3, <1>8, <1>10, LocksDiffer
    <3> QED  BY <2>1, <2>3, <3>1, <1>10, LocksDiffer
  <2> QED  BY <2>2, <2>3
<1> QED  BY <1>6, <1>9, <1>10 DEF p

-----------------------------------------------------------------------------
(* Tasks, and what a step makes of those of a thread.                      *)

LEMMA TaskTypes ==
  /\ \A op \in Ops : Do(op, Null) \in Tasks
  /\ \A op \in {"lock", "unlock"}, l \in Locks : Do(op, l) \in Tasks
  /\ \A op, l : Do(op, l).op = op /\ Do(op, l).l = l
  /\ \A x \in Tasks : x.op \in {"lock", "unlock"} => x.l \in Locks
BY DEF Tasks, Ops, Do

(* v is X, and then what is behind the first task of w. *)
Follows(v, X, w) ==
  /\ v \in Seq(Tasks) /\ Len(X) \in Nat /\ Len(w) \in Nat \ {0}
  /\ Len(v) = Len(X) + Len(w) - 1
  /\ \A k \in 1 .. Len(X) : v[k] = X[k]
  /\ \A k \in 1 .. Len(v) : k > Len(X) => v[k] = w[k - Len(X) + 1]

LEMMA TailFollows ==
  ASSUME NEW w \in Seq(Tasks), w # <<>>
  PROVE  Follows(Tail(w), <<>>, w)
<1>1. /\ Tail(w) \in Seq(Tasks) /\ Len(Tail(w)) = Len(w) - 1
      /\ \A i \in 1 .. Len(Tail(w)) : Tail(w)[i] = w[i + 1]
      /\ Len(w) \in Nat \ {0}
  BY HeadTailProperties, EmptySeq
<1>2. Len(<<>>) = 0
  OBVIOUS
<1> QED  BY <1>1, <1>2 DEF Follows

LEMMA JoinFollows ==
  ASSUME NEW w \in Seq(Tasks), w # <<>>, NEW X \in Seq(Tasks)
  PROVE  Follows(X \o Tail(w), X, w)
<1> DEFINE m == Len(X)
           n == Len(w)
           v == X \o Tail(w)
           tl == Tail(w)
<1>1. /\ tl \in Seq(Tasks) /\ Len(tl) = n - 1
      /\ \A i \in 1 .. n - 1 : tl[i] = w[i + 1]
      /\ n \in Nat \ {0}
  BY HeadTailProperties, EmptySeq
<1>2. v = X \o tl
  OBVIOUS
<1> HIDE DEF tl, v, m, n
<1>21. tl \in Seq(Tasks)
  BY <1>1
<1>22. /\ v \in Seq(Tasks) /\ Len(X) \in Nat /\ Len(v) = Len(X) + Len(tl)
       /\ \A k \in 1 .. Len(X) : v[k] = X[k]
       /\ \A k \in 1 .. Len(tl) : v[Len(X) + k] = tl[k]
  BY <1>21, <1>2, Joined
<1>3. /\ v \in Seq(Tasks) /\ m \in Nat /\ Len(v) = m + Len(tl)
      /\ \A k \in 1 .. m : v[k] = X[k]
      /\ \A k \in 1 .. Len(tl) : v[m + k] = tl[k]
  BY <1>22 DEF m
<1>4. ASSUME NEW k \in 1 .. Len(v), k > m PROVE v[k] = w[k - m + 1]
  <2>1. k - m \in 1 .. n - 1 /\ m + (k - m) = k
    BY <1>1, <1>3, <1>4
  <2>2. v[m + (k - m)] = tl[k - m]
    BY <1>1, <1>3, <2>1
  <2> QED  BY <1>1, <2>1, <2>2
<1>5. Len(v) = m + n - 1
  BY <1>1, <1>3
<1> QED  BY <1>1, <1>3, <1>4, <1>5 DEF Follows, m, n, v, tl

(* X, where it is put in front of the tasks behind the first of w. *)
Prefix(X, w) ==
  /\ Len(X) = 0 \/ w[1].op \notin {"lock", "unlock"}
  /\ w[1].op = "prefork" => \A i \in 1 .. Len(X) : X[i].op = "lock"
  /\ \A k \in 1 .. Len(X) :
       /\ X[k].op = "unlock" =>
            \A i \in 1 .. k - 1 :
              /\ X[i].op \in {"lock", "unlock"}
              /\ Is(X[i], "unlock", X[k].l) => \E j \in i + 1 .. k - 1 : Is(X[j], "lock", X[k].l)
       /\ X[k].op \in {"init", "spin", "boot", "ncpus", "first"} => k = 1
       /\ X[k].op \in {"choose", "extend"} =>
            \A i \in 1 .. k - 1 :
              X[i].op = "lock" \/ Is(X[i], "unlock", <<"base">>)
       /\ X[k].op = "array" => k = Len(X) /\ Len(w) = 2 /\ w[2].op = "alloc"
       /\ X[k].op \notin {"fork", "prefork"}

LEMMA ShapeFollows ==
  ASSUME NEW v, NEW X, NEW w, Follows(v, X, w), Shape(w), Prefix(X, w)
  PROVE  Shape(v)
<1> DEFINE m == Len(X)
           n == Len(w)
<1>1. /\ m \in Nat /\ n \in Nat \ {0} /\ Len(v) = m + n - 1
      /\ \A k \in 1 .. m : v[k] = X[k]
      /\ \A k \in 1 .. Len(v) : k > m => v[k] = w[k - m + 1]
  BY DEF Follows
<1> HIDE DEF m, n
<1>2. ASSUME NEW k \in 1 .. Len(v), k > m
      PROVE  k - m + 1 \in 2 .. n /\ v[k] = w[k - m + 1]
  BY <1>1, <1>2
<1>3. ASSUME NEW k \in 1 .. Len(v), ~(k > m)
      PROVE  k \in 1 .. m /\ v[k] = X[k] /\ \A i \in 1 .. k - 1 : i \in 1 .. m /\ v[i] = X[i]
  BY <1>1, <1>3
<1> SUFFICES ASSUME NEW k \in 1 .. Len(v)
             PROVE  Shape(v)!(k)
  BY DEF Shape
<1>4. v[k].op = "unlock" =>
         \A i \in 1 .. k - 1 :
           /\ v[i].op \in {"lock", "unlock"}
           /\ Is(v[i], "unlock", v[k].l) => \E j \in i + 1 .. k - 1 : Is(v[j], "lock", v[k].l)
  <2> SUFFICES ASSUME v[k].op = "unlock", NEW i \in 1 .. k - 1
               PROVE  /\ v[i].op \in {"lock", "unlock"}
                      /\ Is(v[i], "unlock", v[k].l) =>
                           \E j \in i + 1 .. k - 1 : Is(v[j], "lock", v[k].l)
    OBVIOUS
  <2>1. CASE k > m
    <3> DEFINE kk == k - m + 1
    <3>1. kk \in 2 .. n /\ v[k] = w[kk]
      BY <2>1, <1>2
    <3>2. 1 \in 1 .. kk - 1 /\ kk \in 1 .. n
      BY <1>1, <3>1
    <3>3. w[1].op \in {"lock", "unlock"}
      BY <3>1, <3>2 DEF Shape, n
    <3>4. m = 0
      BY <3>3 DEF Prefix, m
    <3>5. kk = k + 1 /\ i + 1 \in 1 .. kk - 1 /\ i \in 1 .. Len(v) /\ i > m
      BY <3>4, <1>1
    <3>6. v[i] = w[i + 1]
      BY <3>4, <3>5, <1>1
    <3>7. w[i + 1].op \in {"lock", "unlock"}
      BY <3>1, <3>2, <3>5 DEF Shape, n
    <3>8. ASSUME Is(w[i + 1], "unlock", w[kk].l)
          PROVE  \E j \in i + 1 .. k - 1 : Is(v[j], "lock", v[k].l)
      <4>1. PICK j \in (i + 1) + 1 .. kk - 1 : Is(w[j], "lock", w[kk].l)
        BY <3>1, <3>2, <3>5, <3>8 DEF Shape, n
      <4>2. j - 1 \in i + 1 .. k - 1 /\ j - 1 \in 1 .. Len(v) /\ j - 1 > m
        BY <3>4, <3>5, <1>1
      <4>3. v[j - 1] = w[j]
        BY <3>4, <4>2, <1>1
      <4> QED  BY <4>1, <4>2, <4>3, <3>1
    <3> QED  BY <3>1, <3>6, <3>7, <3>8
  <2>2. CASE ~(k > m)
    <3>1. k \in 1 .. m /\ v[k] = X[k] /\ i \in 1 .. m /\ v[i] = X[i]
          /\ \A j \in i + 1 .. k - 1 : v[j] = X[j]
      BY <2>2, <1>3, <1>1
    <3>2. X[i].op \in {"lock", "unlock"}
      BY <3>1 DEF Prefix, m
    <3>3. Is(X[i], "unlock", X[k].l) => \E j \in i + 1 .. k - 1 : Is(X[j], "lock", X[k].l)
      BY <3>1 DEF Prefix, m
    <3> QED  BY <3>1, <3>2, <3>3
  <2> QED  BY <2>1, <2>2
<1>5. v[k].op \in {"init", "spin", "boot", "ncpus", "first"} => k = 1
  <2>1. CASE k > m
    <3>1. k - m + 1 \in 2 .. n /\ v[k] = w[k - m + 1] /\ k - m + 1 \in 1 .. n /\ k - m + 1 # 1
      BY <2>1, <1>2, <1>1
    <3> QED  BY <3>1 DEF Shape, n
  <2>2. CASE ~(k > m)
    BY <2>2, <1>3 DEF Prefix, m
  <2> QED  BY <2>1, <2>2
<1>6. v[k].op \in {"choose", "extend"} =>
         \A i \in 1 .. k - 1 : v[i].op = "lock" \/ Is(v[i], "unlock", <<"base">>)
  <2> SUFFICES ASSUME v[k].op \in {"choose", "extend"}, NEW i \in 1 .. k - 1
               PROVE  v[i].op = "lock" \/ Is(v[i], "unlock", <<"base">>)
    OBVIOUS
  <2>1. CASE k > m
    <3> DEFINE kk == k - m + 1
    <3>1. kk \in 2 .. n /\ v[k] = w[kk] /\ 1 \in 1 .. kk - 1 /\ kk \in 1 .. n
      BY <2>1, <1>2, <1>1
    <3>2. w[1].op = "lock" \/ w[1].op = "unlock"
      BY <3>1 DEF Shape, n, Is
    <3>3. m = 0
      BY <3>2 DEF Prefix, m
    <3>4. kk = k + 1 /\ i + 1 \in 1 .. kk - 1 /\ i \in 1 .. Len(v) /\ i > m
      BY <3>3, <1>1
    <3>5. v[i] = w[i + 1]
      BY <3>3, <3>4, <1>1
    <3> QED  BY <3>1, <3>4, <3>5 DEF Shape, n
  <2>2. CASE ~(k > m)
    BY <2>2, <1>3 DEF Prefix, m
  <2> QED  BY <2>1, <2>2
<1>7. v[k].op = "array" => k + 1 = Len(v) /\ v[k + 1].op = "alloc"
  <2>1. CASE k > m
    <3> DEFINE kk == k - m + 1
    <3>1. kk \in 2 .. n /\ v[k] = w[kk] /\ kk \in 1 .. n
      BY <2>1, <1>2, <1>1
    <3>2. ASSUME w[kk].op = "array" PROVE k + 1 = Len(v) /\ v[k + 1] = w[kk + 1]
      <4>1. kk + 1 = n
        BY <3>1, <3>2 DEF Shape, n
      <4>2. k + 1 = Len(v) /\ k + 1 \in 1 .. Len(v) /\ k + 1 > m /\ (k + 1) - m + 1 = kk + 1
        BY <4>1, <2>1, <1>1
      <4> QED  BY <4>2, <1>1
    <3> QED  BY <3>1, <3>2 DEF Shape, n
  <2>2. CASE ~(k > m)
    <3>1. k \in 1 .. m /\ v[k] = X[k]
      BY <2>2, <1>3
    <3>2. ASSUME X[k].op = "array" PROVE k + 1 = Len(v) /\ v[k + 1].op = "alloc"
      <4>1. k = m /\ n = 2 /\ w[2].op = "alloc"
        BY <3>1, <3>2 DEF Prefix, m, n
      <4>2. k + 1 = Len(v) /\ k + 1 \in 1 .. Len(v) /\ k + 1 > m /\ (k + 1) - m + 1 = 2
        BY <4>1, <1>1
      <4> QED  BY <4>1, <4>2, <1>1
    <3> QED  BY <3>1, <3>2
  <2> QED  BY <2>1, <2>2
<1>8. v[k].op = "fork" => k = Len(v) /\ \A i \in 1 .. k - 1 : v[i].op \in {"lock", "prefork"}
  <2> SUFFICES ASSUME v[k].op = "fork"
               PROVE  k = Len(v) /\ \A i \in 1 .. k - 1 : v[i].op \in {"lock", "prefork"}
    OBVIOUS
  <2>1. CASE k > m
    <3> DEFINE kk == k - m + 1
    <3>1. kk \in 2 .. n /\ v[k] = w[kk] /\ 1 \in 1 .. kk - 1 /\ kk \in 1 .. n
      BY <2>1, <1>2, <1>1
    <3>2. kk = n /\ \A i \in 1 .. kk - 1 : w[i].op \in {"lock", "prefork"}
      BY <3>1 DEF Shape, n
    <3>3. k = Len(v)
      BY <3>2, <1>1, <2>1
    <3>4. m = 0 \/ w[1].op = "prefork"
      BY <3>1, <3>2 DEF Prefix, m
    <3>5. \A i \in 1 .. m : X[i].op = "lock"
      BY <3>4, <1>1 DEF Prefix, m
    <3>6. ASSUME NEW i \in 1 .. k - 1 PROVE v[i].op \in {"lock", "prefork"}
      <4>0. i \in 1 .. Len(v)
        BY <3>3
      <4>1. CASE i > m
        <5>1. i - m + 1 \in 1 .. kk - 1 /\ v[i] = w[i - m + 1]
          BY <4>0, <4>1, <1>1
        <5> QED  BY <5>1, <3>2
      <4>2. CASE ~(i > m)
        BY <4>0, <4>2, <3>5, <1>3
      <4> QED  BY <4>1, <4>2
    <3> QED  BY <3>3, <3>6
  <2>2. CASE ~(k > m)
    BY <2>2, <1>3 DEF Prefix, m
  <2> QED  BY <2>1, <2>2
<1>9. v[k].op = "prefork" => v[Len(v)].op = "fork"
  <2>1. CASE k > m
    <3> DEFINE kk == k - m + 1
    <3>1. kk \in 2 .. n /\ v[k] = w[kk] /\ kk \in 1 .. n
      BY <2>1, <1>2, <1>1
    <3>2. Len(v) \in 1 .. Len(v) /\ Len(v) > m /\ Len(v) - m + 1 = n
      BY <2>1, <1>1
    <3>3. v[Len(v)] = w[n]
      BY <3>2, <1>1
    <3> QED  BY <3>1, <3>3 DEF Shape, n
  <2>2. CASE ~(k > m)
    BY <2>2, <1>3 DEF Prefix, m
  <2> QED  BY <2>1, <2>2
<1> QED  BY <1>4, <1>5, <1>6, <1>7, <1>8, <1>9

-----------------------------------------------------------------------------
(* What steps that boot nothing have in common.                            *)

Own(t) ==
  /\ Shape(work[t]) /\ UnlocksOwn(t) /\ BootHasLock(t) /\ ArrayOnce(t)
  /\ ChooseLocked(t) /\ FirstOnly(t) /\ ArenaTasks(t) /\ Forking(t)

(* Arenas are made by who holds arenas_lock, and kept. *)
ArenasGrow(t) ==
  \/ UNCHANGED arenas
  \/ /\ initialized /\ lock[<<"arenas">>] = t
     /\ arenas' \in SUBSET Arenas /\ arenas \subseteq arenas'

NotBooting == UNCHANGED <<initialized, initializer, handlers>>

(* What one thread does leaves to the others what they rely on. *)
LEMMA OthersStay ==
  ASSUME IInv, NEW t \in Threads, NEW u \in Threads, u # t,
         work'[u] = work[u], arena_of'[u] = arena_of[u],
         NotBooting, ArenasGrow(t),
         \A l \in Locks : lock[l] = u => lock'[l] = u
  PROVE  Own(u)'
<1>0. PICK w \in Seq(Tasks) : w = work[u]
  BY DEF IInv, TypeOK
<1>1. Own(u) /\ work[u] = w /\ work'[u] = w
  BY <1>0 DEF IInv, WorkInv, Own
<1>2. \A k \in 1 .. Len(w) : w[k] \in Tasks
  BY <1>1
<1>3. u # Null /\ (\A as \in SUBSET Arenas : as # Null)
  BY BootAssumption DEF Arenas
<1>4. initialized => arenas \in SUBSET Arenas
  BY DEF IInv, BootInv
<1>5. \A a \in Arenas : ArenaLock(a) \in Locks
  BY LocksDiffer
<1>6. Shape(work[u])'
  BY <1>1 DEF Own
<1>7. UnlocksOwn(u)'
  <2>1. \A k \in 1 .. Len(w) : w[k].op = "unlock" => w[k].l \in Locks
    BY <1>2, TaskTypes
  <2>2. \A k \in 1 .. Len(w) : w[k].op = "unlock" =>
          lock[w[k].l] = u \/ \E j \in 1 .. k - 1 : Is(w[j], "lock", w[k].l)
    BY <1>1 DEF Own, UnlocksOwn
  <2>3. \A k \in 1 .. Len(w) : w[k].op = "unlock" =>
          lock'[w[k].l] = u \/ \E j \in 1 .. k - 1 : Is(w[j], "lock", w[k].l)
    BY <2>1, <2>2
  <2> QED  BY <2>3, <1>1 DEF UnlocksOwn
<1>8. BootHasLock(u)'
  BY <1>1, LocksDiffer DEF Own, BootHasLock, NotBooting
<1>9. ArrayOnce(u)'
  BY <1>1, <1>3, <1>4 DEF Own, ArrayOnce, NotBooting, ArenasGrow
<1>10. ChooseLocked(u)'
  BY <1>1, LocksDiffer DEF Own, ChooseLocked, NotBooting
<1>11. FirstOnly(u)'
  BY <1>1 DEF Own, FirstOnly, NotBooting
<1>12. ArenaTasks(u)'
  <2>1. CASE UNCHANGED arenas
    BY <1>1, <2>1 DEF Own, ArenaTasks
  <2>2. CASE initialized /\ arenas' \in SUBSET Arenas /\ arenas \subseteq arenas'
    <3>1. arenas # Null
      BY <2>2, <1>3, <1>4
    <3> QED  BY <1>1, <2>2, <3>1 DEF Own, ArenaTasks
  <2> QED  BY <2>1, <2>2 DEF ArenasGrow
<1>13. Forking(u)'
  <2> SUFFICES ASSUME NEW k \in 1 .. Len(w), w[k].op = "fork"
               PROVE  (initialized /\ (NotStarted(w) \/ Started(u, w)))'
    BY <1>1 DEF Forking
  <2>1. initialized /\ (NotStarted(w) \/ Started(u, w))
    BY <1>1 DEF Own, Forking
  <2>2. initialized' /\ (NotStarted(w) => NotStarted(w)')
    BY <2>1 DEF NotStarted, NotBooting
  <2>3. ASSUME Started(u, w) PROVE Started(u, w)'
    <3>1. lock[<<"arenas">>] = u /\ <<"arenas">> \in Locks
      BY <2>3, LocksDiffer DEF Started
    <3>2. arenas' = arenas /\ arenas \in SUBSET Arenas
      BY <2>1, <1>4, <3>1 DEF ArenasGrow
    <3>3. ForkSet(arenas) \subseteq Locks
      BY <3>2, <1>5, LocksDiffer DEF ForkSet
    <3>4. \A l \in ForkSet(arenas) : lock[l] = u \/ \E j \in 1 .. Len(w) - 1 : Is(w[j], "lock", l)
      BY <2>3 DEF Started
    <3>5. \A l \in ForkSet(arenas) : lock'[l] = u \/ \E j \in 1 .. Len(w) - 1 : Is(w[j], "lock", l)
      BY <3>3, <3>4
    <3>6. \A l \in ForkSet(arenas') : lock'[l] = u \/ \E j \in 1 .. Len(w) - 1 : Is(w[j], "lock", l)
      BY <3>2, <3>5
    <3>7. handlers' = handlers /\ lock'[<<"arenas">>] = u
      BY <3>1 DEF NotBooting
    <3> QED  BY <2>3, <3>6, <3>7 DEF Started
  <2> QED  BY <2>1, <2>2, <2>3
<1> QED  BY <1>6, <1>7, <1>8, <1>9, <1>10, <1>11, <1>12, <1>13 DEF Own

(* What a thread may be given to do next, as to locks and arenas. *)
Backed(t, X) ==
  \A k \in 1 .. Len(X) :
    /\ X[k].op # "array"
    /\ X[k].op = "unlock" => lock'[X[k].l] = t \/ \E j \in 1 .. k - 1 : Is(X[j], "lock", X[k].l)
    /\ X[k].op = "boot" => lock'[<<"init">>] = t /\ initializer = Null
    /\ X[k].op \in {"choose", "extend"} =>
         /\ initialized /\ NArenas > 1 /\ arena_of'[t] = Null
         /\ lock'[<<"arenas">>] = t \/ (k = 2 /\ Is(X[1], "lock", <<"arenas">>))
    /\ X[k].op = "first" => NArenas = 1 /\ initialized
    /\ \A a \in Arenas : arenas' # Null /\ Is(X[k], "lock", ArenaLock(a)) => a \in arenas'

LEMMA OwnStep ==
  ASSUME IInv, NEW t \in Threads, NEW v, NEW X, NEW w,
         work[t] = w, work'[t] = v, Follows(v, X, w), Prefix(X, w), Backed(t, X),
         w[1].op \notin {"prefork", "array"},
         NotBooting, ArenasGrow(t),
         \A l \in Locks : lock[l] = t => lock'[l] = t \/ Is(w[1], "unlock", l),
         w[1].op = "lock" => lock'[w[1].l] = t /\ UNCHANGED arenas,
         w[1].op \in {"lock", "unlock"} => arena_of'[t] = arena_of[t],
         arena_of'[t] # Null /\ arenas' # Null => arena_of'[t] \in arenas'
  PROVE  Own(t)'
<1>0. PICK m, n : m = Len(X) /\ n = Len(w)
  OBVIOUS
<1>1. /\ m \in Nat /\ n \in Nat \ {0} /\ Len(v) = m + n - 1
      /\ \A k \in 1 .. m : v[k] = X[k]
      /\ \A k \in 1 .. Len(v) : k > m => v[k] = w[k - m + 1]
  BY <1>0 DEF Follows
<1>2. Own(t) /\ w \in Seq(Tasks)
  BY DEF IInv, WorkInv, Own, TypeOK
<1>3. Shape(w)
  BY <1>2 DEF Own
<1>4. \A k \in 1 .. n : w[k] \in Tasks
  BY <1>0, <1>2
<1>5. \A as \in SUBSET Arenas : as # Null
  BY BootAssumption DEF Arenas
<1>6. initialized => arenas \in SUBSET Arenas
  BY DEF IInv, BootInv
<1>7. \A a \in Arenas : ArenaLock(a) \in Locks
  BY LocksDiffer
<1>8. ASSUME NEW k \in 1 .. Len(v)
      PROVE  \/ k \in 1 .. m /\ v[k] = X[k]
             \/ k > m /\ k - m + 1 \in 2 .. n /\ k - m + 1 \in 1 .. n /\ v[k] = w[k - m + 1]
  BY <1>1
<1>9. Shape(v)
  BY <1>3, ShapeFollows
<1>10. UnlocksOwn(t)'
  <2> SUFFICES ASSUME NEW k \in 1 .. Len(v), v[k].op = "unlock"
               PROVE  lock'[v[k].l] = t \/ \E j \in 1 .. k - 1 : Is(v[j], "lock", v[k].l)
    BY DEF UnlocksOwn
  <2>1. CASE k \in 1 .. m /\ v[k] = X[k]
    <3>1. lock'[v[k].l] = t \/ \E j \in 1 .. k - 1 : Is(X[j], "lock", v[k].l)
      BY <2>1, <1>0 DEF Backed
    <3>2. \A j \in 1 .. k - 1 : v[j] = X[j]
      BY <2>1, <1>1
    <3> QED  BY <3>1, <3>2
  <2>2. CASE k > m /\ k - m + 1 \in 2 .. n /\ k - m + 1 \in 1 .. n /\ v[k] = w[k - m + 1]
    <3> DEFINE kk == k - m + 1
    <3>1. w[1].op \in {"lock", "unlock"}
      <4>1. 1 \in 1 .. kk - 1 /\ kk \in 1 .. n
        BY <2>2
      <4> QED  BY <4>1, <2>2, <1>3, <1>0 DEF Shape
    <3>2. m = 0
      BY <3>1, <1>0 DEF Prefix
    <3>3. kk = k + 1 /\ v[k] = w[k + 1] /\ k + 1 \in 2 .. n
      BY <3>2, <2>2
    <3>4. lock[w[k + 1].l] = t \/ \E j \in 1 .. k : Is(w[j], "lock", w[k + 1].l)
      <4>1. (k + 1) - 1 = k /\ k + 1 \in 1 .. n
        BY <3>3
      <4> QED  BY <4>1, <3>3, <1>2, <1>0 DEF Own, UnlocksOwn
    <3>5. w[k + 1].l \in Locks
      BY <3>3, <1>4, TaskTypes
    <3>6. \A j \in 2 .. k : j - 1 \in 1 .. k - 1 /\ v[j - 1] = w[j]
      <4> TAKE j \in 2 .. k
      <4>1. j - 1 \in 1 .. k - 1 /\ j - 1 \in 1 .. Len(v) /\ j - 1 > 0
        OBVIOUS
      <4> QED  BY <4>1, <3>2, <1>1
    <3>7. ASSUME NEW j \in 2 .. k, Is(w[j], "lock", w[k + 1].l)
          PROVE  \E i \in 1 .. k - 1 : Is(v[i], "lock", v[k].l)
      <4>1. j - 1 \in 1 .. k - 1 /\ Is(v[j - 1], "lock", v[k].l)
        BY <3>6, <3>7, <3>3
      <4> QED  BY <4>1
    <3>8. CASE lock[w[k + 1].l] = t
      <4>1. CASE Is(w[1], "unlock", w[k + 1].l)
        <5>1. 1 \in 1 .. (k + 1) - 1 /\ k + 1 \in 1 .. n /\ (k + 1) - 1 = k /\ 1 + 1 = 2
          BY <3>3
        <5>2. PICK j \in 2 .. k : Is(w[j], "lock", w[k + 1].l)
          BY <5>1, <4>1, <3>3, <1>3, <1>0 DEF Shape
        <5> QED  BY <5>2, <3>7
      <4>2. CASE ~Is(w[1], "unlock", w[k + 1].l)
        BY <4>2, <3>8, <3>5, <3>3
      <4> QED  BY <4>1, <4>2
    <3>9. CASE Is(w[1], "lock", w[k + 1].l)
      BY <3>9, <3>3 DEF Is
    <3>10. \A j \in 1 .. k : j = 1 \/ j \in 2 .. k
      OBVIOUS
    <3> QED  BY <3>4, <3>7, <3>8, <3>9, <3>10
  <2> QED  BY <2>1, <2>2, <1>8
<1>11. BootHasLock(t)'
  <2> SUFFICES ASSUME NEW k \in 1 .. Len(v), v[k].op = "boot"
               PROVE  lock'[<<"init">>] = t /\ initializer' = Null
    BY DEF BootHasLock
  <2>1. k \in 1 .. m /\ v[k] = X[k]
    <3>1. k - m + 1 \in 1 .. n /\ v[k] = w[k - m + 1] => k - m + 1 = 1
      BY <1>3, <1>0 DEF Shape
    <3> QED  BY <3>1, <1>8, <1>1
  <2> QED  BY <2>1, <1>0 DEF Backed, NotBooting
<1>12. ArrayOnce(t)'
  <2> SUFFICES ASSUME NEW k \in 1 .. Len(v), v[k].op = "array"
               PROVE  ~initialized' /\ initializer' = t /\ arenas' # Null
    BY DEF ArrayOnce
  <2>1. k - m + 1 \in 1 .. n /\ v[k] = w[k - m + 1]
    BY <1>8, <1>0 DEF Backed
  <2>2. ~initialized /\ initializer = t /\ arenas # Null
    BY <2>1, <1>2, <1>0 DEF Own, ArrayOnce
  <2> QED  BY <2>2 DEF NotBooting, ArenasGrow
<1>13. ChooseLocked(t)'
  <2> SUFFICES ASSUME NEW k \in 1 .. Len(v), v[k].op \in {"choose", "extend"}
               PROVE  /\ initialized' /\ NArenas > 1 /\ arena_of'[t] = Null
                      /\ lock'[<<"arenas">>] = t \/ (k = 2 /\ Is(v[1], "lock", <<"arenas">>))
    BY DEF ChooseLocked
  <2>1. CASE k \in 1 .. m /\ v[k] = X[k]
    <3>1. k = 2 => v[1] = X[1]
      BY <2>1, <1>1
    <3> QED  BY <2>1, <3>1, <1>0 DEF Backed, NotBooting
  <2>2. CASE k > m /\ k - m + 1 \in 2 .. n /\ k - m + 1 \in 1 .. n /\ v[k] = w[k - m + 1]
    <3> DEFINE kk == k - m + 1
    <3>1. w[1].op = "lock" \/ Is(w[1], "unlock", <<"base">>)
      <4>1. 1 \in 1 .. kk - 1 /\ kk \in 1 .. n
        BY <2>2
      <4> QED  BY <4>1, <2>2, <1>3, <1>0 DEF Shape
    <3>2. /\ initialized /\ NArenas > 1 /\ arena_of[t] = Null
          /\ lock[<<"arenas">>] = t \/ Is(w[1], "lock", <<"arenas">>)
      BY <2>2, <1>2, <1>0 DEF Own, ChooseLocked
    <3>3. lock'[<<"arenas">>] = t
      BY <3>1, <3>2, LocksDiffer DEF Is
    <3>4. arena_of'[t] = Null
      BY <3>1, <3>2 DEF Is
    <3> QED  BY <3>2, <3>3, <3>4 DEF NotBooting
  <2> QED  BY <2>1, <2>2, <1>8
<1>14. FirstOnly(t)'
  <2> SUFFICES ASSUME NEW k \in 1 .. Len(v), v[k].op = "first"
               PROVE  NArenas = 1 /\ initialized'
    BY DEF FirstOnly
  <2>1. CASE k \in 1 .. m /\ v[k] = X[k]
    BY <2>1, <1>0 DEF Backed, NotBooting
  <2>2. CASE k - m + 1 \in 1 .. n /\ v[k] = w[k - m + 1]
    BY <2>2, <1>2, <1>0 DEF Own, FirstOnly, NotBooting
  <2> QED  BY <2>1, <2>2, <1>8
<1>15. ArenaTasks(t)'
  <2> SUFFICES ASSUME NEW k \in 1 .. Len(v), NEW a \in Arenas,
                      arenas' # Null, Is(v[k], "lock", ArenaLock(a))
               PROVE  a \in arenas'
    BY DEF ArenaTasks
  <2>1. CASE k \in 1 .. m /\ v[k] = X[k]
    BY <2>1, <1>0 DEF Backed
  <2>2. CASE k - m + 1 \in 1 .. n /\ v[k] = w[k - m + 1]
    <3>1. arenas # Null /\ (a \in arenas => a \in arenas')
      BY <1>5, <1>6 DEF ArenasGrow
    <3> QED  BY <3>1, <2>2, <1>2, <1>0 DEF Own, ArenaTasks
  <2> QED  BY <2>1, <2>2, <1>8
<1>16. Forking(t)'
  <2> SUFFICES ASSUME NEW k \in 1 .. Len(v), v[k].op = "fork"
               PROVE  (initialized /\ Started(t, v))'
    BY DEF Forking
  <2>1. k > m /\ k - m + 1 \in 2 .. n /\ k - m + 1 \in 1 .. n /\ v[k] = w[k - m + 1]
    BY <1>8, <1>0 DEF Prefix
  <2>2. k - m + 1 = n /\ w[1].op = "lock"
    <3>1. 1 \in 1 .. (k - m + 1) - 1
      BY <2>1
    <3> QED  BY <3>1, <2>1, <1>3, <1>0 DEF Shape
  <2>3. m = 0 /\ k = n - 1 /\ n > 1 /\ Len(v) = n - 1
    <3>1. m = 0
      BY <2>2, <1>0 DEF Prefix
    <3> QED  BY <3>1, <2>1, <2>2, <1>1
  <2>4. initialized /\ (NotStarted(w) \/ Started(t, w))
    BY <2>1, <2>2, <1>2, <1>0 DEF Own, Forking
  <2>5. ~NotStarted(w)
    <3>1. 1 \in 1 .. n - 1
      BY <2>3
    <3> QED  BY <3>1, <2>2, <1>0 DEF NotStarted
  <2>6. /\ lock[<<"arenas">>] = t
        /\ handlers >= 1 /\ n >= handlers
        /\ \A i \in n - handlers + 1 .. n - 1 : w[i].op = "prefork"
        /\ \A l \in ForkSet(arenas) : lock[l] = t \/ \E j \in 1 .. n - 1 : Is(w[j], "lock", l)
    BY <2>4, <2>5, <1>0 DEF Started
  <2>7. handlers \in Nat /\ handlers' = handlers /\ initialized'
    BY <2>4 DEF IInv, TypeOK, NotBooting
  <2>8. n - 1 >= handlers
    <3>1. n = handlers => 1 \in n - handlers + 1 .. n - 1
      BY <2>3, <2>7
    <3>2. n # handlers
      BY <3>1, <2>2, <2>6
    <3> QED  BY <3>2, <2>6, <2>7, <1>1
  <2>9. \A j \in 1 .. n - 1 : v[j] = w[j + 1]
    BY <2>3, <1>1
  <2>10. \A i \in (n - 1) - handlers + 1 .. (n - 1) - 1 : v[i].op = "prefork"
    <3> TAKE i \in (n - 1) - handlers + 1 .. (n - 1) - 1
    <3>1. i \in 1 .. n - 1 /\ i + 1 \in n - handlers + 1 .. n - 1
      BY <2>7, <2>8, <1>1
    <3> QED  BY <3>1, <2>6, <2>9
  <2>11. arenas' = arenas /\ arenas \in SUBSET Arenas /\ lock'[<<"arenas">>] = t
         /\ \A l \in Locks : lock[l] = t => lock'[l] = t
    <3>1. \A l \in Locks : lock[l] = t => lock'[l] = t
      BY <2>2 DEF Is
    <3>2. arenas' = arenas
      BY <2>2
    <3> QED  BY <3>1, <3>2, <2>4, <2>6, <1>6, LocksDiffer
  <2>12. ASSUME NEW l \in ForkSet(arenas)
         PROVE  lock'[l] = t \/ \E j \in 1 .. (n - 1) - 1 : Is(v[j], "lock", l)
    <3>1. l \in Locks
      BY <2>11, <1>7, LocksDiffer DEF ForkSet
    <3>2. CASE lock[l] = t
      BY <3>1, <3>2, <2>11
    <3>3. ASSUME NEW j \in 1 .. n - 1, Is(w[j], "lock", l)
          PROVE  lock'[l] = t \/ \E i \in 1 .. (n - 1) - 1 : Is(v[i], "lock", l)
      <4>1. CASE j = 1
        BY <4>1, <3>3, <2>2 DEF Is
      <4>2. CASE j # 1
        <5>1. j - 1 \in 1 .. (n - 1) - 1 /\ j - 1 \in 1 .. n - 1 /\ (j - 1) + 1 = j
          BY <4>2, <1>1
        <5>2. Is(v[j - 1], "lock", l)
          BY <5>1, <3>3, <2>9
        <5> QED  BY <5>1, <5>2
      <4> QED  BY <4>1, <4>2
    <3> QED  BY <3>2, <3>3, <2>6
  <2>13. \A l \in ForkSet(arenas') : lock'[l] = t \/ \E j \in 1 .. Len(v) - 1 : Is(v[j], "lock", l)
    BY <2>3, <2>11, <2>12
  <2> QED  BY <2>3, <2>6, <2>7, <2>8, <2>10, <2>11, <2>13 DEF Started
<1> QED  BY <1>9, <1>10, <1>11, <1>12, <1>13, <1>14, <1>15, <1>16 DEF Own

HasArray(w) == \E k \in 1 .. Len(w) : w[k].op = "array"

(* A step that neither boots nor forks keeps the invariant, if it keeps    *)
(* what there is to say of the thread that takes it.                       *)
LEMMA PlainStep ==
  ASSUME IInv, NEW t \in alive, NEW v,
         work' = [work EXCEPT ![t] = v], TypeOK', Own(t)',
         NotBooting, ArenasGrow(t), UNCHANGED alive,
         \A u \in Threads \ {t} : arena_of'[u] = arena_of[u],
         \A l \in Locks : lock'[l] = lock[l] \/ (lock[l] \in {Null, t} /\ lock'[l] \in {Null, t}),
         \A a \in Arenas : arenas' # Null /\ lock'[ArenaLock(a)] # Null => a \in arenas',
         ~initialized => arena_of' = arena_of /\ UNCHANGED next_arena,
         ~initialized /\ t # initializer => Waits(v),
         HasArray(work[t]) => HasArray(v)
  PROVE  IInv'
<1>1. /\ t \in Threads /\ alive \subseteq Threads
      /\ work'[t] = v /\ \A u \in Threads \ {t} : work'[u] = work[u]
  BY DEF IInv, TypeOK
<1>2. WorkInv'
  <2>1. ASSUME NEW u \in Threads, u # t PROVE Own(u)'
    <3>1. u \notin {Null, t}
      BY <2>1, BootAssumption
    <3>2. \A l \in Locks : lock[l] = u => lock'[l] = u
      BY <3>1
    <3> QED  BY <1>1, <2>1, <3>2, OthersStay
  <2>2. \A u \in Threads : Own(u)'
    BY <2>1
  <2> QED  BY <2>2 DEF WorkInv, Own
<1>3. BootInv'
  <2>1. BootInv
    BY DEF IInv
  <2>2. CASE initialized
    BY <2>1, <2>2 DEF BootInv, NotBooting, ArenasGrow
  <2>3. CASE ~initialized
    <3>1. UNCHANGED <<arenas, next_arena, arena_of, initialized, initializer>>
      BY <2>3 DEF ArenasGrow, NotBooting
    <3>2. \A u \in Threads : u # initializer => Waits(work'[u])
      BY <2>1, <2>3, <1>1 DEF BootInv
    <3>3. ASSUME initializer # Null, HasArray(work[initializer]) PROVE HasArray(work'[initializer])
      <4>1. initializer \in Threads
        BY <3>3 DEF IInv, TypeOK
      <4> QED  BY <4>1, <3>3, <1>1
    <3>4. initializer # Null /\ HasArray(work[initializer]) => HasArray(work'[initializer])
      BY <3>3
    <3> QED  BY <2>1, <2>3, <3>1, <3>2, <3>4 DEF BootInv, HasArray
  <2> QED  BY <2>2, <2>3
<1>4. ArenaLocksMade'
  BY DEF ArenaLocksMade
<1>5. ChildInv'
  <2>1. ChildInv
    BY DEF IInv
  <2>2. Child' = Child /\ handlers' = handlers /\ initialized' = initialized
    BY DEF Child, NotBooting
  <2>3. \A l \in Locks : lock'[l] \in Threads \ alive => lock'[l] = lock[l]
    BY BootAssumption
  <2> QED  BY <2>1, <2>2, <2>3 DEF ChildInv, ChildLocksFree
<1> QED  BY <1>2, <1>3, <1>4, <1>5 DEF IInv

(* A thread that stands before no task of the boot has come past it. *)
LEMMA PastBoot ==
  ASSUME IInv, NEW t \in Threads, work[t] # <<>>,
         work[t][1].op \notin {"init", "spin", "boot"}
  PROVE  initialized \/ t = initializer
BY DEF IInv, BootInv, Waits

LEMMA HeadTyped ==
  ASSUME IInv, NEW t \in Threads, NEW op, Task(t, op)
  PROVE  /\ work[t] \in Seq(Tasks) /\ work[t] # <<>> /\ Len(work[t]) \in Nat \ {0}
         /\ work[t][1] \in Tasks /\ work[t][1].op = op /\ 1 \in 1 .. Len(work[t])
<1>1. work[t] \in Seq(Tasks) /\ work[t] # <<>> /\ work[t][1].op = op
  BY DEF IInv, TypeOK, Task, Idle
<1>2. Len(work[t]) \in Nat \ {0}
  BY <1>1, EmptySeq
<1>3. 1 \in 1 .. Len(work[t])
  BY <1>2
<1> QED  BY <1>1, <1>2, <1>3, ElementOfSeq

LEMMA ArrayStays ==
  ASSUME NEW v, NEW X, NEW w, Follows(v, X, w), HasArray(w), w[1].op # "array"
  PROVE  HasArray(v)
<1>1. PICK k \in 1 .. Len(w) : w[k].op = "array"
  BY DEF HasArray
<1>2. k # 1
  BY <1>1
<1>3. PICK m, n : m = Len(X) /\ n = Len(w)
  OBVIOUS
<1>4. m \in Nat /\ n \in Nat \ {0} /\ Len(v) = m + n - 1
      /\ \A i \in 1 .. Len(v) : i > m => v[i] = w[i - m + 1]
  BY <1>3 DEF Follows
<1>5. m + k - 1 \in 1 .. Len(v) /\ m + k - 1 > m /\ (m + k - 1) - m + 1 = k
  BY <1>1, <1>2, <1>3, <1>4
<1>6. v[m + k - 1] = w[k]
  BY <1>4, <1>5
<1> QED  BY <1>1, <1>5, <1>6 DEF HasArray

(* A step that takes a task, and puts X in its place. *)
LEMMA TaskStep ==
  ASSUME IInv, NEW t \in alive, NEW v, NEW X, NEW w, work[t] = w, w # <<>>,
         work' = [work EXCEPT ![t] = v],
         Follows(v, X, w), Prefix(X, w), Backed(t, X),
         w[1].op \notin {"prefork", "array"},
         NotBooting, ArenasGrow(t), UNCHANGED <<alive, calls>>,
         lock' \in [Locks -> Threads \cup {Null}],
         arenas' = Null \/ arenas' \in SUBSET Arenas,
         next_arena' \in NextArenas, punted' \in BOOLEAN,
         arena_of' \in [Threads -> Arenas \cup {Null}],
         \A u \in Threads \ {t} : arena_of'[u] = arena_of[u],
         \A l \in Locks : \/ lock'[l] = lock[l]
                          \/ lock[l] = Null /\ lock'[l] = t
                          \/ lock[l] = t /\ lock'[l] = Null /\ Is(w[1], "unlock", l),
         w[1].op = "lock" => lock'[w[1].l] = t /\ UNCHANGED arenas,
         w[1].op \in {"lock", "unlock"} => arena_of'[t] = arena_of[t],
         arena_of'[t] # Null /\ arenas' # Null => arena_of'[t] \in arenas',
         \A a \in Arenas : arenas' # Null /\ lock'[ArenaLock(a)] # Null => a \in arenas',
         ~initialized => arena_of' = arena_of /\ UNCHANGED next_arena,
         ~initialized /\ t # initializer => Waits(v)
  PROVE  IInv'
<1>1. t \in Threads /\ v \in Seq(Tasks)
  BY DEF IInv, TypeOK, Follows
<1>2. work'[t] = v
  BY <1>1 DEF IInv, TypeOK
<1>3. TypeOK'
  BY <1>1 DEF IInv, TypeOK, NotBooting
<1>4. t # Null
  BY <1>1, BootAssumption
<1>5. Own(t)'
  BY <1>1, <1>2, <1>4, OwnStep
<1>6. HasArray(work[t]) => HasArray(v)
  BY ArrayStays
<1>7. \A l \in Locks : lock'[l] = lock[l] \/ (lock[l] \in {Null, t} /\ lock'[l] \in {Null, t})
  OBVIOUS
<1> QED  BY <1>3, <1>5, <1>6, <1>7, PlainStep

(* Nothing but the head of the tasks goes. *)
LEMMA NoPrefix ==
  ASSUME NEW t, NEW w
  PROVE  Prefix(<<>>, w) /\ Backed(t, <<>>)
BY DEF Prefix, Backed

LEMMA LockStep ==
  ASSUME IInv, NEW t \in alive, Lock(t) \/ Unlock(t)
  PROVE  IInv'
<1>1. t \in Threads /\ t # Null
  BY BootAssumption DEF IInv, TypeOK
<1>2. Task(t, "lock") \/ Task(t, "unlock")
  BY DEF Lock, Unlock
<1>3. PICK w \in Seq(Tasks) :
        /\ w = work[t] /\ w # <<>> /\ w[1] \in Tasks /\ w[1].op \in {"lock", "unlock"}
        /\ 1 \in 1 .. Len(w)
  BY <1>1, <1>2, HeadTyped
<1>4. w[1].l \in Locks
  BY <1>3, TaskTypes
<1>5. PICK l \in Locks : l = w[1].l
  BY <1>4
<1>6. Follows(Tail(w), <<>>, w)
  BY <1>3, TailFollows
<1>7. work' = [work EXCEPT ![t] = Tail(w)] /\ UNCHANGED <<state, calls, alive>>
  BY <1>3 DEF Lock, Unlock, Continues, Does
<1>8. Own(t)
  BY <1>1 DEF IInv, WorkInv, Own
<1>9. \/ w[1].op = "lock" /\ lock[l] = Null /\ lock' = [lock EXCEPT ![l] = t]
      \/ w[1].op = "unlock" /\ lock[l] = t /\ lock' = [lock EXCEPT ![l] = Null]
  <2>1. CASE Lock(t)
    BY <2>1, <1>3, <1>5 DEF Lock, Task
  <2>2. CASE Unlock(t)
    <3>1. w[1].op = "unlock" /\ lock' = [lock EXCEPT ![l] = Null]
      BY <2>2, <1>3, <1>5 DEF Unlock, Task
    <3>2. lock[l] = t \/ \E j \in 1 .. 1 - 1 : Is(w[j], "lock", l)
      BY <3>1, <1>8, <1>3, <1>5 DEF Own, UnlocksOwn
    <3> QED  BY <3>1, <3>2
  <2> QED  BY <2>1, <2>2
<1>10. lock \in [Locks -> Threads \cup {Null}] /\ lock' \in [Locks -> Threads \cup {Null}]
  BY <1>1, <1>9 DEF IInv, TypeOK
<1>11. \A k \in Locks : \/ lock'[k] = lock[k]
                        \/ lock[k] = Null /\ lock'[k] = t
                        \/ lock[k] = t /\ lock'[k] = Null /\ Is(w[1], "unlock", k)
  BY <1>5, <1>9, <1>10 DEF Is
<1>12. w[1].op = "lock" => lock'[w[1].l] = t
  BY <1>5, <1>9, <1>10
<1>13. ASSUME NEW a \in Arenas, arenas # Null, lock'[ArenaLock(a)] # Null PROVE a \in arenas
  <2>1. CASE lock[ArenaLock(a)] # Null
    BY <2>1, <1>13 DEF IInv, ArenaLocksMade
  <2>2. CASE lock[ArenaLock(a)] = Null
    <3>1. Is(w[1], "lock", ArenaLock(a))
      BY <2>2, <1>13, <1>5, <1>9, <1>10, LocksDiffer DEF Is
    <3> QED  BY <3>1, <1>3, <1>8, <1>13 DEF Own, ArenaTasks
  <2> QED  BY <2>1, <2>2
<1>14. arena_of[t] # Null /\ arenas # Null => arena_of[t] \in arenas
  BY <1>8 DEF Own, ArenaTasks
<1>15. initialized \/ t = initializer
  BY <1>1, <1>3, PastBoot
<1>16. NotBooting /\ ArenasGrow(t) /\ UNCHANGED <<arenas, next_arena, punted, arena_of, calls, alive>>
  BY <1>7 DEF state, NotBooting, ArenasGrow
<1>17. /\ arenas' = Null \/ arenas' \in SUBSET Arenas
       /\ next_arena' \in NextArenas /\ punted' \in BOOLEAN
       /\ arena_of' \in [Threads -> Arenas \cup {Null}]
  BY <1>16 DEF IInv, TypeOK
<1>18. Prefix(<<>>, w) /\ Backed(t, <<>>)
  BY NoPrefix
<1>19. /\ arena_of'[t] # Null /\ arenas' # Null => arena_of'[t] \in arenas'
       /\ \A a \in Arenas : arenas' # Null /\ lock'[ArenaLock(a)] # Null => a \in arenas'
  BY <1>13, <1>14, <1>16
<1> QED
  BY <1>3, <1>6, <1>7, <1>10, <1>11, <1>12, <1>15, <1>16, <1>17, <1>18, <1>19, TaskStep

(* What holds of the arena of a thread and of the locks of arenas. *)
LEMMA ArenasKnown ==
  ASSUME IInv, NEW t \in Threads
  PROVE  /\ arena_of[t] # Null /\ arenas # Null => arena_of[t] \in arenas
         /\ \A a \in Arenas : arenas # Null /\ lock[ArenaLock(a)] # Null => a \in arenas
         /\ lock \in [Locks -> Threads \cup {Null}]
         /\ arenas = Null \/ arenas \in SUBSET Arenas
         /\ next_arena \in NextArenas /\ punted \in BOOLEAN
         /\ arena_of \in [Threads -> Arenas \cup {Null}]
BY DEF IInv, WorkInv, ArenaTasks, ArenaLocksMade, TypeOK

(* A step that takes no lock and changes no arena. *)
LEMMA QuietStep ==
  ASSUME IInv, NEW t \in alive, NEW v, NEW X, NEW w, work[t] = w, w # <<>>,
         work' = [work EXCEPT ![t] = v], UNCHANGED <<lock, state, calls, alive>>,
         Follows(v, X, w), Prefix(X, w), Backed(t, X),
         w[1].op \notin {"lock", "unlock", "prefork", "array"},
         ~initialized /\ t # initializer => Waits(v)
  PROVE  IInv'
<1>1. t \in Threads
  BY DEF IInv, TypeOK
<1>2. NotBooting /\ ArenasGrow(t) /\ UNCHANGED <<lock, arenas, next_arena, punted, arena_of, calls, alive>>
  BY DEF state, NotBooting, ArenasGrow
<1>3. /\ arenas' = Null \/ arenas' \in SUBSET Arenas
      /\ next_arena' \in NextArenas /\ punted' \in BOOLEAN
      /\ arena_of' \in [Threads -> Arenas \cup {Null}]
      /\ lock' \in [Locks -> Threads \cup {Null}]
      /\ arena_of'[t] # Null /\ arenas' # Null => arena_of'[t] \in arenas'
      /\ \A a \in Arenas : arenas' # Null /\ lock'[ArenaLock(a)] # Null => a \in arenas'
  BY <1>1, <1>2, ArenasKnown
<1> QED  BY <1>2, <1>3, TaskStep

LEMMA OneTask ==
  ASSUME NEW op \in Ops, NEW l \in {Null}
  PROVE  /\ <<Do(op, l)>> \in Seq(Tasks) /\ Len(<<Do(op, l)>>) = 1
         /\ \A k \in 1 .. 1 : k = 1 /\ <<Do(op, l)>>[k].op = op
BY TaskTypes

LEMMA InitStep ==
  ASSUME IInv, NEW t \in alive, EnterInit(t) \/ Spin(t)
  PROVE  IInv'
<1>1. t \in Threads /\ t # Null
  BY BootAssumption DEF IInv, TypeOK
<1>2. Task(t, "init") \/ Task(t, "spin")
  BY DEF EnterInit, Spin
<1>3. PICK w \in Seq(Tasks) :
        /\ w = work[t] /\ w # <<>> /\ w[1] \in Tasks /\ w[1].op \in {"init", "spin"}
        /\ 1 \in 1 .. Len(w) /\ Len(w) \in Nat \ {0}
  BY <1>1, <1>2, HeadTyped
<1>4. ~initialized /\ t # initializer => Len(w) = 2 /\ w[2].op = "alloc" /\ w[1].op = "init"
  BY <1>1, <1>3, EmptySeq DEF IInv, BootInv, Waits, Spin, EnterInit, Task
<1>5. Follows(Tail(w), <<>>, w)
  BY <1>3, TailFollows
<1>6. CASE initialized \/ t = initializer
  <2>1. work' = [work EXCEPT ![t] = Tail(w)] /\ UNCHANGED <<lock, state, calls, alive>>
    BY <1>3, <1>6 DEF EnterInit, Spin, Continues, Does, Reenters
  <2> QED  BY <2>1, <1>3, <1>5, <1>6, NoPrefix, QuietStep
<1>7. CASE ~initialized /\ t # initializer /\ initializer # Null
  <2> DEFINE X == <<Do("spin", Null)>>
             v == X \o Tail(w)
  <2>1. work' = [work EXCEPT ![t] = v] /\ UNCHANGED <<lock, state, calls, alive>>
    BY <1>3, <1>7 DEF EnterInit, Spin, Does, Reenters
  <2>2. X \in Seq(Tasks) /\ Len(X) = 1 /\ \A k \in 1 .. 1 : k = 1 /\ X[k].op = "spin"
    BY OneTask DEF Ops
  <2>3. Follows(v, X, w)
    BY <1>3, <2>2, JoinFollows
  <2> HIDE DEF X, v
  <2>4. Prefix(X, w) /\ Backed(t, X)
    BY <2>2, <1>3 DEF Prefix, Backed, Is
  <2>5. Waits(v)
    <3>1. Len(v) = 2 /\ v[1] = X[1] /\ v[2] = w[2]
      BY <2>2, <2>3, <1>4, <1>7 DEF Follows
    <3> QED  BY <3>1, <2>2, <1>4, <1>7 DEF Waits
  <2> QED  BY <1>3, <2>1, <2>3, <2>4, <2>5, QuietStep
<1>8. CASE ~initialized /\ t # initializer /\ initializer = Null
  <2> DEFINE X == <<Do("boot", Null)>>
             v == X \o Tail(w)
  <2>1. /\ work' = [work EXCEPT ![t] = v] /\ UNCHANGED <<state, calls, alive>>
        /\ lock[<<"init">>] = Null /\ lock' = [lock EXCEPT ![<<"init">>] = t]
    BY <1>1, <1>3, <1>8 DEF EnterInit, Spin, Does, Reenters
  <2>2. X \in Seq(Tasks) /\ Len(X) = 1 /\ \A k \in 1 .. 1 : k = 1 /\ X[k].op = "boot"
    BY OneTask DEF Ops
  <2>3. Follows(v, X, w)
    BY <1>3, <2>2, JoinFollows
  <2> HIDE DEF X, v
  <2>4. /\ lock \in [Locks -> Threads \cup {Null}] /\ <<"init">> \in Locks
        /\ lock' \in [Locks -> Threads \cup {Null}]
        /\ lock'[<<"init">>] = t /\ \A k \in Locks : k # <<"init">> => lock'[k] = lock[k]
    BY <1>1, <2>1, LocksDiffer DEF IInv, TypeOK
  <2>5. Prefix(X, w) /\ Backed(t, X)
    BY <2>2, <2>4, <1>3, <1>8 DEF Prefix, Backed, Is
  <2>6. Waits(v)
    <3>1. Len(v) = 2 /\ v[1] = X[1] /\ v[2] = w[2]
      BY <2>2, <2>3, <1>4, <1>8 DEF Follows
    <3> QED  BY <3>1, <2>2, <1>4, <1>8 DEF Waits
  <2>7. NotBooting /\ ArenasGrow(t) /\ UNCHANGED <<arenas, next_arena, punted, arena_of, calls, alive>>
    BY <2>1 DEF state, NotBooting, ArenasGrow
  <2>8. /\ arenas' = Null \/ arenas' \in SUBSET Arenas
        /\ next_arena' \in NextArenas /\ punted' \in BOOLEAN
        /\ arena_of' \in [Threads -> Arenas \cup {Null}]
        /\ arena_of'[t] # Null /\ arenas' # Null => arena_of'[t] \in arenas'
    BY <1>1, <2>7, ArenasKnown
  <2>9. ASSUME NEW a \in Arenas, arenas' # Null, lock'[ArenaLock(a)] # Null PROVE a \in arenas'
    <3>1. lock'[ArenaLock(a)] = lock[ArenaLock(a)]
      BY <2>4, LocksDiffer
    <3> QED  BY <1>1, <3>1, <2>7, <2>9, ArenasKnown
  <2>10. \A l \in Locks : \/ lock'[l] = lock[l]
                          \/ lock[l] = Null /\ lock'[l] = t
                          \/ lock[l] = t /\ lock'[l] = Null /\ Is(w[1], "unlock", l)
    BY <2>1, <2>4
  <2> QED  BY <1>3, <2>1, <2>3, <2>4, <2>5, <2>6, <2>7, <2>8, <2>9, <2>10, TaskStep
<1> QED  BY <1>6, <1>7, <1>8

LEMMA NcpusStep ==
  ASSUME IInv, NEW t \in alive, CountCpus(t)
  PROVE  IInv'
<1>1. t \in Threads
  BY DEF IInv, TypeOK
<1>2. PICK w \in Seq(Tasks) :
        w = work[t] /\ w # <<>> /\ w[1].op = "ncpus" /\ 1 \in 1 .. Len(w) /\ Len(w) \in Nat \ {0}
  BY <1>1, HeadTyped DEF CountCpus
<1>3. initialized \/ t = initializer
  BY <1>1, <1>2, PastBoot
<1>4. CASE work' = [work EXCEPT ![t] = Tail(w)]
  <2>1. Follows(Tail(w), <<>>, w)
    BY <1>2, TailFollows
  <2> QED  BY <2>1, <1>2, <1>3, <1>4, NoPrefix, QuietStep DEF CountCpus
<1>5. CASE work' = [work EXCEPT ![t] = <<Do("init", Null), Do("alloc", Null)>> \o Tail(w)]
  <2> DEFINE X == <<Do("init", Null), Do("alloc", Null)>>
  <2>1. X \in Seq(Tasks) /\ Len(X) = 2 /\ \A k \in 1 .. 2 :
          (k = 1 /\ X[k].op = "init") \/ (k = 2 /\ X[k].op = "alloc")
    BY TaskTypes DEF Ops
  <2>2. Follows(X \o Tail(w), X, w)
    BY <1>2, <2>1, JoinFollows
  <2>3. Prefix(X, w) /\ Backed(t, X)
    <3> HIDE DEF X
    <3> QED  BY <2>1, <1>2 DEF Prefix, Backed, Is
  <2> HIDE DEF X
  <2>4. work' = [work EXCEPT ![t] = X \o Tail(w)]
    BY <1>5 DEF X
  <2> QED  BY <1>2, <1>3, <2>2, <2>3, <2>4, QuietStep DEF CountCpus
<1> QED  BY <1>2, <1>4, <1>5 DEF CountCpus, Continues, Does

(* Locks taken and given back, none of an arena but a. *)
Held(X, a) ==
  /\ X \in Seq(Tasks)
  /\ \A k \in 1 .. Len(X) :
       /\ X[k].op \in {"lock", "unlock"}
       /\ X[k].op = "unlock" => k - 1 \in 1 .. Len(X) /\ Is(X[k - 1], "lock", X[k].l)
       /\ \A b \in Arenas : Is(X[k], "lock", ArenaLock(b)) => b = a

LEMMA HoldingHeld ==
  ASSUME NEW a, NEW l \in Locks, \A b \in Arenas : l = ArenaLock(b) => b = a
  PROVE  Held(Holding(l), a) /\ Len(Holding(l)) = 2
<1> DEFINE X == Holding(l)
<1>1. /\ X \in Seq(Tasks) /\ Len(X) = 2
      /\ X[1] = Do("lock", l) /\ X[2] = Do("unlock", l)
  BY TaskTypes DEF Holding
<1> HIDE DEF X
<1>2. ASSUME NEW k \in 1 .. 2
      PROVE  /\ X[k].op \in {"lock", "unlock"} /\ X[k].l = l
             /\ X[k].op = "unlock" => k - 1 \in 1 .. 2 /\ Is(X[k - 1], "lock", X[k].l)
  <2>1. k = 1 \/ (k = 2 /\ k - 1 = 1)
    OBVIOUS
  <2> QED  BY <2>1, <1>1, TaskTypes DEF Is
<1>3. \A k \in 1 .. 2, b \in Arenas : Is(X[k], "lock", ArenaLock(b)) => b = a
  BY <1>2 DEF Is
<1> QED  BY <1>1, <1>2, <1>3 DEF Held, X

LEMMA JoinHeld ==
  ASSUME NEW a, NEW X, NEW Y, Held(X, a), Held(Y, a)
  PROVE  Held(X \o Y, a)
<1> DEFINE Z == X \o Y
<1>0. PICK m, n : m = Len(X) /\ n = Len(Y)
  OBVIOUS
<1>1. X \in Seq(Tasks) /\ Y \in Seq(Tasks)
  BY DEF Held
<1>2. /\ Z \in Seq(Tasks) /\ m \in Nat /\ n \in Nat /\ Len(Z) = m + n
      /\ \A k \in 1 .. m : Z[k] = X[k]
      /\ \A k \in 1 .. m + n : k - m \in 1 .. n => Z[k] = Y[k - m]
      /\ \A k \in 1 .. m + n : k \in 1 .. m \/ k - m \in 1 .. n
  BY <1>0, <1>1, Joined
<1> HIDE DEF Z
<1>3. ASSUME NEW k \in 1 .. Len(Z)
      PROVE  /\ Z[k].op \in {"lock", "unlock"}
             /\ Z[k].op = "unlock" => k - 1 \in 1 .. Len(Z) /\ Is(Z[k - 1], "lock", Z[k].l)
             /\ \A b \in Arenas : Is(Z[k], "lock", ArenaLock(b)) => b = a
  <2>1. CASE k \in 1 .. m
    <3>1. Z[k] = X[k] /\ (k - 1 \in 1 .. m => k - 1 \in 1 .. Len(Z) /\ Z[k - 1] = X[k - 1])
      BY <2>1, <1>2
    <3> QED  BY <3>1, <2>1, <1>0 DEF Held
  <2>2. CASE k - m \in 1 .. n
    <3>1. Z[k] = Y[k - m]
      BY <2>2, <1>2
    <3>2. (k - m) - 1 \in 1 .. n => k - 1 \in 1 .. Len(Z) /\ Z[k - 1] = Y[(k - m) - 1]
      <4> SUFFICES ASSUME (k - m) - 1 \in 1 .. n
                   PROVE  k - 1 \in 1 .. Len(Z) /\ Z[k - 1] = Y[(k - m) - 1]
        OBVIOUS
      <4>1. k - 1 \in 1 .. m + n /\ (k - 1) - m = (k - m) - 1
        BY <1>2
      <4> QED  BY <4>1, <1>2
    <3> QED  BY <3>1, <3>2, <2>2, <1>0 DEF Held
  <2> QED  BY <2>1, <2>2, <1>2
<1> QED  BY <1>2, <1>3 DEF Held, Z

LEMMA TakesHeld ==
  ASSUME NEW a \in Arenas, NEW X \in Takes(a)
  PROVE  Held(X, a)
<1>1. Held(Holding(BinLock(a)), a)
  BY LocksDiffer, HoldingHeld
<1>2. Held(Holding(ArenaLock(a)), a)
  BY LocksDiffer, HoldingHeld
<1>3. Held(Holding(<<"base">>), a)
  BY LocksDiffer, HoldingHeld
<1>4. Held(Holding(<<"huge">>), a)
  BY LocksDiffer, HoldingHeld
<1>5. Held(Holding(BinLock(a)) \o Holding(ArenaLock(a)), a)
  BY <1>1, <1>2, JoinHeld
<1>6. Held((Holding(BinLock(a)) \o Holding(ArenaLock(a))) \o Holding(BinLock(a)), a)
  BY <1>1, <1>5, JoinHeld
<1>7. Held(Holding(<<"base">>) \o Holding(<<"huge">>), a)
  BY <1>3, <1>4, JoinHeld
<1> QED  BY <1>1, <1>2, <1>6, <1>7 DEF Takes

(* Such tasks may be put in front of what is left after any other task. *)
LEMMA HeldPrefix ==
  ASSUME NEW a, NEW X, NEW w, NEW t, Held(X, a),
         w[1].op \notin {"lock", "unlock", "prefork"}, arenas' # Null => a \in arenas'
  PROVE  Prefix(X, w) /\ Backed(t, X)
<1>1. PICK m : m = Len(X) /\ m \in Nat
  BY LenProperties DEF Held
<1>2. ASSUME NEW k \in 1 .. m, X[k].op = "unlock", NEW i \in 1 .. k - 1
      PROVE  /\ X[i].op \in {"lock", "unlock"}
             /\ Is(X[i], "unlock", X[k].l) => \E j \in i + 1 .. k - 1 : Is(X[j], "lock", X[k].l)
  <2>1. i \in 1 .. m
    BY <1>1
  <2>2. X[i].op \in {"lock", "unlock"} /\ Is(X[k - 1], "lock", X[k].l)
    BY <2>1, <1>1, <1>2 DEF Held
  <2>3. i = k - 1 \/ k - 1 \in i + 1 .. k - 1
    OBVIOUS
  <2> QED  BY <2>2, <2>3 DEF Is
<1>3. Prefix(X, w)
  BY <1>1, <1>2 DEF Prefix, Held
<1>4. ASSUME NEW k \in 1 .. m, X[k].op = "unlock"
      PROVE  \E j \in 1 .. k - 1 : Is(X[j], "lock", X[k].l)
  <2>1. k - 1 \in 1 .. m /\ Is(X[k - 1], "lock", X[k].l)
    BY <1>1, <1>4 DEF Held
  <2>2. k - 1 \in 1 .. k - 1
    BY <2>1, <1>1
  <2> QED  BY <2>1, <2>2
<1>5. Backed(t, X)
  BY <1>1, <1>4 DEF Backed, Held
<1> QED  BY <1>3, <1>5

(* Tasks put in front of all of w. *)
LEMMA PushFollows ==
  ASSUME NEW w \in Seq(Tasks), w # <<>>, NEW X \in Seq(Tasks), NEW Y \in Seq(Tasks),
         Len(Y) = Len(X) + 1, \A k \in 1 .. Len(X) : Y[k] = X[k], Y[Len(X) + 1] = w[1]
  PROVE  Follows(X \o w, Y, w)
<1> DEFINE v == X \o w
<1>0. PICK m, n : m = Len(X) /\ n = Len(w)
  OBVIOUS
<1>1. /\ v \in Seq(Tasks) /\ m \in Nat /\ n \in Nat /\ Len(v) = m + n
      /\ \A k \in 1 .. m : v[k] = X[k]
      /\ \A k \in 1 .. m + n : k - m \in 1 .. n => v[k] = w[k - m]
      /\ \A k \in 1 .. m + n : k \in 1 .. m \/ k - m \in 1 .. n
  BY <1>0, Joined
<1>2. n # 0
  BY <1>0, EmptySeq
<1> HIDE DEF v
<1>3. ASSUME NEW k \in 1 .. m + 1 PROVE v[k] = Y[k]
  <2>1. CASE k = m + 1
    <3>1. k \in 1 .. m + n /\ k - m = 1 /\ 1 \in 1 .. n
      BY <2>1, <1>1, <1>2
    <3> QED  BY <3>1, <2>1, <1>0, <1>1
  <2>2. CASE k # m + 1
    <3>1. k \in 1 .. m
      BY <2>2, <1>1
    <3> QED  BY <3>1, <1>0, <1>1
  <2> QED  BY <2>1, <2>2
<1>4. ASSUME NEW k \in 1 .. Len(v), k > m + 1 PROVE v[k] = w[k - (m + 1) + 1]
  <2>1. k \in 1 .. m + n /\ k - m \in 1 .. n /\ k - (m + 1) + 1 = k - m
    BY <1>1, <1>4
  <2> QED  BY <2>1, <1>1
<1>5. Len(Y) = m + 1 /\ Len(v) = (m + 1) + n - 1 /\ m + 1 \in Nat /\ n \in Nat \ {0}
  BY <1>0, <1>1, <1>2
<1> QED  BY <1>0, <1>1, <1>3, <1>4, <1>5 DEF Follows, v

LEMMA AllocStep ==
  ASSUME IInv, NEW t \in alive, Alloc(t)
  PROVE  IInv'
<1>1. t \in Threads /\ t # Null
  BY BootAssumption DEF IInv, TypeOK
<1>2. PICK w \in Seq(Tasks) :
        /\ w = work[t] /\ w # <<>> /\ w[1].op = "alloc" /\ w[1] \in Tasks
        /\ 1 \in 1 .. Len(w) /\ Len(w) \in Nat \ {0}
  BY <1>1, HeadTyped DEF Alloc
<1>3. initialized \/ t = initializer
  BY <1>1, <1>2, PastBoot
<1>4. UNCHANGED <<lock, state, calls, alive>>
  BY DEF Alloc
<1>5. CASE arena_of[t] = Null /\ NArenas > 1
  <2> DEFINE X == <<Do("lock", <<"arenas">>), Do("choose", Null)>>
             Y == <<Do("lock", <<"arenas">>), Do("choose", Null), w[1]>>
  <2>1. work' = [work EXCEPT ![t] = X \o w]
    BY <1>2, <1>5 DEF Alloc, Does
  <2>2. initialized
    BY <1>1, <1>3, <1>5, BootAssumption DEF IInv, BootInv, Arenas
  <2>3. Do("lock", <<"arenas">>) \in Tasks /\ Do("choose", Null) \in Tasks
    BY TaskTypes, LocksDiffer DEF Ops
  <2>4. /\ X \in Seq(Tasks) /\ Len(X) = 2
        /\ Y \in Seq(Tasks) /\ Len(Y) = 3 /\ Y[1] = X[1] /\ Y[2] = X[2] /\ Y[3] = w[1]
        /\ Y[1].op = "lock" /\ Y[1].l = <<"arenas">> /\ Y[2].op = "choose"
    BY <2>3, <1>2, TaskTypes
  <2> HIDE DEF X, Y
  <2>5. Follows(X \o w, Y, w)
    <3>1. Len(Y) = Len(X) + 1 /\ (\A k \in 1 .. Len(X) : Y[k] = X[k]) /\ Y[Len(X) + 1] = w[1]
      BY <2>4
    <3> QED  BY <3>1, <2>4, <1>2, PushFollows
  <2>6. Prefix(Y, w)
    BY <2>4, <1>2 DEF Prefix, Is
  <2>7. arena_of'[t] = Null
    BY <1>4, <1>5 DEF state
  <2>8. Backed(t, Y)
    <3>1. \A k \in 1 .. 3, a \in Arenas : ~Is(Y[k], "lock", ArenaLock(a))
      BY <2>4, <1>2, LocksDiffer DEF Is
    <3>2. \A k \in 1 .. 3 : k = 1 \/ k = 2 \/ k = 3
      OBVIOUS
    <3>3. Is(Y[1], "lock", <<"arenas">>)
      BY <2>4 DEF Is
    <3> QED  BY <3>1, <3>2, <3>3, <2>2, <2>4, <2>7, <1>2, <1>5 DEF Backed
  <2> QED  BY <2>1, <2>2, <2>5, <2>6, <2>8, <1>2, <1>4, QuietStep
<1>6. CASE arena_of[t] = Null /\ ~(NArenas > 1)
  <2> DEFINE X == <<Do("first", Null)>>
             Y == <<Do("first", Null), w[1]>>
  <2>1. work' = [work EXCEPT ![t] = X \o w]
    BY <1>2, <1>6 DEF Alloc, Does
  <2>2. initialized /\ NArenas = 1
    BY <1>1, <1>3, <1>6, BootAssumption DEF IInv, BootInv, Arenas
  <2>3. Do("first", Null) \in Tasks
    BY TaskTypes DEF Ops
  <2>4. /\ X \in Seq(Tasks) /\ Len(X) = 1
        /\ Y \in Seq(Tasks) /\ Len(Y) = 2 /\ Y[1] = X[1] /\ Y[2] = w[1] /\ Y[1].op = "first"
    BY <2>3, <1>2, TaskTypes
  <2> HIDE DEF X, Y
  <2>5. Follows(X \o w, Y, w)
    <3>1. Len(Y) = Len(X) + 1 /\ (\A k \in 1 .. Len(X) : Y[k] = X[k]) /\ Y[Len(X) + 1] = w[1]
      BY <2>4
    <3> QED  BY <3>1, <2>4, <1>2, PushFollows
  <2>6. Prefix(Y, w)
    BY <2>4, <1>2 DEF Prefix, Is
  <2>8. Backed(t, Y)
    BY <2>2, <2>4, <1>2 DEF Backed, Is
  <2> QED  BY <2>1, <2>2, <2>5, <2>6, <2>8, <1>2, <1>4, QuietStep
<1>7. CASE arena_of[t] # Null
  <2>1. arena_of[t] \in Arenas
    BY <1>1, <1>7 DEF IInv, TypeOK
  <2>2. PICK X \in Takes(arena_of[t]) : work' = [work EXCEPT ![t] = X \o Tail(w)]
    BY <1>2, <1>7 DEF Alloc, Does
  <2>3. Held(X, arena_of[t]) /\ X \in Seq(Tasks)
    BY <2>1, TakesHeld DEF Held
  <2>4. arenas' # Null => arena_of[t] \in arenas'
    BY <1>1, <1>4, <1>7, ArenasKnown DEF state
  <2>5. Follows(X \o Tail(w), X, w)
    BY <2>3, <1>2, JoinFollows
  <2>6. Prefix(X, w) /\ Backed(t, X)
    BY <2>3, <2>4, <1>2, HeldPrefix
  <2>7. ~initialized /\ t # initializer => Waits(X \o Tail(w))
    BY <1>3
  <2> QED  BY <2>2, <2>5, <2>6, <2>7, <1>2, <1>4, QuietStep
<1> QED  BY <1>5, <1>6, <1>7

(* The arena of a thread that has but one to choose from. *)
LEMMA FirstStep ==
  ASSUME IInv, NEW t \in alive, OnlyArena(t)
  PROVE  IInv'
<1>1. t \in Threads /\ t # Null
  BY BootAssumption DEF IInv, TypeOK
<1>2. PICK w \in Seq(Tasks) :
        /\ w = work[t] /\ w # <<>> /\ w[1].op = "first"
        /\ 1 \in 1 .. Len(w) /\ Len(w) \in Nat \ {0}
  BY <1>1, HeadTyped DEF OnlyArena
<1>3. initialized
  BY <1>1, <1>2 DEF IInv, WorkInv, FirstOnly
<1>4. /\ UNCHANGED <<lock, initialized, initializer, handlers, arenas, next_arena, punted, calls, alive>>
      /\ arena_of' = [arena_of EXCEPT ![t] = 0]
      /\ work' = [work EXCEPT ![t] = Tail(w)]
  BY <1>2 DEF OnlyArena, Continues, Does
<1>5. NotBooting /\ ArenasGrow(t)
  BY <1>4 DEF NotBooting, ArenasGrow
<1>6. 0 \in Arenas
  BY BootAssumption DEF Arenas
<1>7. /\ arena_of' \in [Threads -> Arenas \cup {Null}]
      /\ arena_of'[t] = 0 /\ \A u \in Threads \ {t} : arena_of'[u] = arena_of[u]
  BY <1>1, <1>4, <1>6 DEF IInv, TypeOK
<1>8. arenas' # Null => 0 \in arenas'
  BY <1>3, <1>4 DEF IInv, BootInv
<1>9. /\ lock' \in [Locks -> Threads \cup {Null}]
      /\ arenas' = Null \/ arenas' \in SUBSET Arenas
      /\ next_arena' \in NextArenas /\ punted' \in BOOLEAN
      /\ \A a \in Arenas : arenas' # Null /\ lock'[ArenaLock(a)] # Null => a \in arenas'
  BY <1>1, <1>4, ArenasKnown
<1>10. Follows(Tail(w), <<>>, w) /\ Prefix(<<>>, w) /\ Backed(t, <<>>)
  BY <1>2, TailFollows, NoPrefix
<1>11. arena_of'[t] # Null /\ arenas' # Null => arena_of'[t] \in arenas'
  BY <1>7, <1>8
<1> QED  BY <1>2, <1>3, <1>4, <1>5, <1>7, <1>9, <1>10, <1>11, TaskStep

(* A thread that gives arenas_lock back when it has its arena. *)
LEMMA GivesBack ==
  ASSUME NEW w \in Seq(Tasks), w # <<>>, w[1].op \in {"choose", "extend"}, NEW t,
         lock'[<<"arenas">>] = t
  PROVE  /\ Follows(<<Do("unlock", <<"arenas">>)>> \o Tail(w), <<Do("unlock", <<"arenas">>)>>, w)
         /\ Prefix(<<Do("unlock", <<"arenas">>)>>, w)
         /\ Backed(t, <<Do("unlock", <<"arenas">>)>>)
<1> DEFINE X == <<Do("unlock", <<"arenas">>)>>
<1>1. /\ X \in Seq(Tasks) /\ Len(X) = 1
      /\ \A k \in 1 .. 1 : k = 1 /\ X[k].op = "unlock" /\ X[k].l = <<"arenas">>
  BY TaskTypes, LocksDiffer
<1> HIDE DEF X
<1>2. Follows(X \o Tail(w), X, w)
  BY <1>1, JoinFollows
<1>3. Prefix(X, w) /\ Backed(t, X)
  BY <1>1 DEF Prefix, Backed, Is
<1> QED  BY <1>2, <1>3 DEF X

(* (next_arena + 1) % NArenas, while there are arenas to choose from. *)
LEMMA NextArena ==
  ASSUME NArenas > 1, NEW n \in NextArenas
  PROVE  n \in Arenas /\ (n + 1) % NArenas \in Arenas /\ (n + 1) % NArenas \in NextArenas
BY BootAssumption DEF NextArenas, Arenas, SecondArena

(* What the thread has that comes to choose an arena, or to make one. *)
LEMMA Choosing ==
  ASSUME IInv, NEW t \in Threads, Task(t, "choose") \/ Task(t, "extend")
  PROVE  /\ initialized /\ NArenas > 1 /\ arena_of[t] = Null /\ lock[<<"arenas">>] = t
         /\ \E w \in Seq(Tasks) :
              /\ w = work[t] /\ w # <<>> /\ w[1].op \in {"choose", "extend"}
              /\ 1 \in 1 .. Len(w) /\ Len(w) \in Nat \ {0}
<1>1. PICK w \in Seq(Tasks) :
        /\ w = work[t] /\ w # <<>> /\ w[1].op \in {"choose", "extend"}
        /\ 1 \in 1 .. Len(w) /\ Len(w) \in Nat \ {0}
  BY HeadTyped
<1>2. ChooseLocked(t)
  BY DEF IInv, WorkInv
<1> QED  BY <1>1, <1>2 DEF ChooseLocked

LEMMA TwoAndOne ==
  ASSUME NEW x \in Tasks, NEW y \in Tasks, NEW z \in Tasks
  PROVE  /\ <<x, y>> \o <<z>> \in Seq(Tasks) /\ Len(<<x, y>> \o <<z>>) = 3
         /\ (<<x, y>> \o <<z>>)[1] = x /\ (<<x, y>> \o <<z>>)[2] = y
         /\ (<<x, y>> \o <<z>>)[3] = z
<1>1. <<x, y>> \in Seq(Tasks) /\ <<z>> \in Seq(Tasks)
  OBVIOUS
<1>2. PICK u \in Seq(Tasks), e \in Seq(Tasks) : u = <<x, y>> /\ e = <<z>>
  BY <1>1
<1>3. Len(u) = 2 /\ u[1] = x /\ u[2] = y /\ Len(e) = 1 /\ e[1] = z
  BY <1>2
<1>4. /\ u \o e \in Seq(Tasks) /\ Len(u \o e) = Len(u) + Len(e)
      /\ \A k \in 1 .. Len(u) : (u \o e)[k] = u[k]
      /\ \A k \in 1 .. Len(e) : (u \o e)[Len(u) + k] = e[k]
  BY Joined
<1>5. u \o e \in Seq(Tasks) /\ Len(u \o e) = 3 /\ (u \o e)[1] = x /\ (u \o e)[2] = y
      /\ (u \o e)[3] = z
  BY <1>3, <1>4
<1> QED  BY <1>2, <1>5

LEMMA ChooseStep ==
  ASSUME IInv, NEW t \in alive, Choose(t)
  PROVE  IInv'
<1>1. t \in Threads /\ t # Null
  BY BootAssumption DEF IInv, TypeOK
<1>2. initialized /\ NArenas > 1 /\ arena_of[t] = Null /\ lock[<<"arenas">>] = t
  BY <1>1, Choosing DEF Choose
<1>3. PICK w \in Seq(Tasks) :
        /\ w = work[t] /\ w # <<>> /\ w[1].op \in {"choose", "extend"}
        /\ 1 \in 1 .. Len(w) /\ Len(w) \in Nat \ {0}
  BY <1>1, Choosing DEF Choose
<1>4. UNCHANGED <<lock, initialized, initializer, handlers, arenas, punted, calls, alive>>
  BY DEF Choose
<1>5. CASE next_arena \in arenas
  <2> DEFINE X == <<Do("unlock", <<"arenas">>)>>
  <2>1. /\ arena_of' = [arena_of EXCEPT ![t] = next_arena]
        /\ next_arena' = (next_arena + 1) % NArenas
        /\ work' = [work EXCEPT ![t] = X \o Tail(w)]
    BY <1>3, <1>5 DEF Choose, Does
  <2>2. Follows(X \o Tail(w), X, w) /\ Prefix(X, w) /\ Backed(t, X)
    BY <1>2, <1>3, <1>4, GivesBack
  <2> HIDE DEF X
  <2>3. NotBooting /\ ArenasGrow(t)
    BY <1>4 DEF NotBooting, ArenasGrow
  <2>4. next_arena \in Arenas /\ next_arena' \in NextArenas
    BY <1>2, <2>1, NextArena DEF IInv, TypeOK
  <2>5. /\ arena_of' \in [Threads -> Arenas \cup {Null}]
        /\ arena_of'[t] = next_arena /\ \A u \in Threads \ {t} : arena_of'[u] = arena_of[u]
    BY <1>1, <2>1, <2>4 DEF IInv, TypeOK
  <2>6. arena_of'[t] # Null /\ arenas' # Null => arena_of'[t] \in arenas'
    BY <2>5, <1>4, <1>5
  <2>7. /\ lock' \in [Locks -> Threads \cup {Null}]
        /\ arenas' = Null \/ arenas' \in SUBSET Arenas
        /\ punted' \in BOOLEAN
        /\ \A a \in Arenas : arenas' # Null /\ lock'[ArenaLock(a)] # Null => a \in arenas'
    BY <1>1, <1>4, ArenasKnown
  <2> QED  BY <1>2, <1>3, <1>4, <2>1, <2>2, <2>3, <2>4, <2>5, <2>6, <2>7, TaskStep
<1>6. CASE next_arena \notin arenas
  <2> DEFINE X == Holding(<<"base">>) \o <<Do("extend", Null)>>
  <2>1. /\ work' = [work EXCEPT ![t] = X \o Tail(w)]
        /\ UNCHANGED <<lock, state, calls, alive>>
    BY <1>3, <1>6 DEF Choose, Does, state, Holding
  <2>2. /\ X \in Seq(Tasks) /\ Len(X) = 3
        /\ X[1].op = "lock" /\ X[1].l = <<"base">>
        /\ X[2].op = "unlock" /\ X[2].l = <<"base">>
        /\ X[3].op = "extend"
    <3>1. /\ Do("lock", <<"base">>) \in Tasks /\ Do("unlock", <<"base">>) \in Tasks
          /\ Do("extend", Null) \in Tasks
      BY TaskTypes, LocksDiffer DEF Ops
    <3>2. /\ X \in Seq(Tasks) /\ Len(X) = 3
          /\ X[1] = Do("lock", <<"base">>) /\ X[2] = Do("unlock", <<"base">>)
          /\ X[3] = Do("extend", Null)
      BY <3>1, TwoAndOne DEF Holding
    <3> HIDE DEF X
    <3> QED  BY <3>2, TaskTypes
  <2> HIDE DEF X
  <2>3. Follows(X \o Tail(w), X, w)
    BY <2>2, <1>3, JoinFollows
  <2>4. \A k \in 1 .. 3 : k = 1 \/ k = 2 \/ k = 3
    OBVIOUS
  <2>5. Prefix(X, w)
    BY <2>2, <2>4, <1>3 DEF Prefix, Is
  <2>6. \A k \in 1 .. 3, a \in Arenas : ~Is(X[k], "lock", ArenaLock(a))
    BY <2>2, <2>4, LocksDiffer DEF Is
  <2>7. Is(X[1], "lock", <<"base">>) /\ 1 \in 1 .. 2 - 1
    BY <2>2 DEF Is
  <2>8. lock'[<<"arenas">>] = t /\ arena_of'[t] = Null
    BY <1>2, <2>1 DEF state
  <2>9. Backed(t, X)
    BY <1>2, <2>2, <2>4, <2>6, <2>7, <2>8 DEF Backed
  <2> QED  BY <1>2, <1>3, <2>1, <2>3, <2>5, <2>9, QuietStep
<1> QED  BY <1>5, <1>6

LEMMA ExtendStep ==
  ASSUME IInv, NEW t \in alive, arenas_extend(t)
  PROVE  IInv'
<1>1. t \in Threads /\ t # Null
  BY BootAssumption DEF IInv, TypeOK
<1>2. initialized /\ NArenas > 1 /\ arena_of[t] = Null /\ lock[<<"arenas">>] = t
  BY <1>1, Choosing DEF arenas_extend
<1>3. PICK w \in Seq(Tasks) :
        /\ w = work[t] /\ w # <<>> /\ w[1].op \in {"choose", "extend"}
        /\ 1 \in 1 .. Len(w) /\ Len(w) \in Nat \ {0}
  BY <1>1, Choosing DEF arenas_extend
<1>4. UNCHANGED <<lock, initialized, initializer, handlers, calls, alive>>
  BY DEF arenas_extend
<1> DEFINE X == <<Do("unlock", <<"arenas">>)>>
<1>5. next_arena' = (next_arena + 1) % NArenas /\ work' = [work EXCEPT ![t] = X \o Tail(w)]
  BY <1>3 DEF arenas_extend, Does
<1>6. PICK made \in BOOLEAN :
        /\ arenas' = IF made THEN arenas \cup {next_arena} ELSE arenas
        /\ arena_of' = [arena_of EXCEPT ![t] = IF made THEN next_arena ELSE 0]
        /\ punted' = (punted \/ ~made)
  BY DEF arenas_extend
<1>7. Follows(X \o Tail(w), X, w) /\ Prefix(X, w) /\ Backed(t, X)
  BY <1>2, <1>3, <1>4, GivesBack
<1> HIDE DEF X
<1>8. next_arena \in Arenas /\ next_arena' \in NextArenas
  BY <1>2, <1>5, NextArena DEF IInv, TypeOK
<1>9. arenas \in SUBSET Arenas /\ 0 \in arenas /\ arenas # Null
  BY <1>2, BootAssumption DEF IInv, BootInv, Arenas
<1>10. arenas' \in SUBSET Arenas /\ arenas \subseteq arenas'
  BY <1>6, <1>8, <1>9
<1>11. NotBooting /\ ArenasGrow(t)
  BY <1>2, <1>4, <1>10 DEF NotBooting, ArenasGrow
<1>12. /\ arena_of' \in [Threads -> Arenas \cup {Null}]
       /\ arena_of'[t] \in arenas' /\ \A u \in Threads \ {t} : arena_of'[u] = arena_of[u]
  BY <1>1, <1>6, <1>8, <1>9 DEF IInv, TypeOK
<1>13. /\ lock' \in [Locks -> Threads \cup {Null}]
       /\ punted' \in BOOLEAN
       /\ \A a \in Arenas : lock'[ArenaLock(a)] # Null => a \in arenas'
  BY <1>1, <1>4, <1>6, <1>9, <1>10, ArenasKnown
<1> QED  BY <1>2, <1>3, <1>4, <1>5, <1>7, <1>8, <1>10, <1>11, <1>12, <1>13, TaskStep

-----------------------------------------------------------------------------
(* Calls, and the two halves of the boot.                                  *)

(* Tasks of a call that has not begun to do anything. *)
Simple(v) ==
  \A k \in 1 .. Len(v) :
    v[k].op \in {"init", "spin", "alloc"} /\ (v[k].op \in {"init", "spin"} => k = 1)

LEMMA SimpleOwn ==
  ASSUME NEW u \in Threads, Simple(work'[u]),
         arena_of'[u] # Null /\ arenas' # Null => arena_of'[u] \in arenas'
  PROVE  Own(u)'
<1>0. PICK v : v = work'[u]
  OBVIOUS
<1>1. \A k \in 1 .. Len(v) :
        v[k].op \in {"init", "spin", "alloc"} /\ (v[k].op \in {"init", "spin"} => k = 1)
  BY <1>0 DEF Simple
<1>2. Shape(v)
  BY <1>1 DEF Shape
<1>3. \A k \in 1 .. Len(v) : \A l : ~Is(v[k], "lock", l)
  BY <1>1 DEF Is
<1>4. ArenaTasks(u)'
  BY <1>0, <1>3 DEF ArenaTasks
<1>5. /\ UnlocksOwn(u)' /\ BootHasLock(u)' /\ ArrayOnce(u)'
      /\ ChooseLocked(u)' /\ FirstOnly(u)' /\ Forking(u)'
  BY <1>0, <1>1 DEF UnlocksOwn, BootHasLock, ArrayOnce, ChooseLocked, FirstOnly, Forking
<1> QED  BY <1>0, <1>2, <1>4, <1>5 DEF Own

LEMMA CallTypes ==
  /\ <<Do("alloc", Null)>> \in Seq(Tasks) /\ Simple(<<Do("alloc", Null)>>)
  /\ <<Do("init", Null), Do("alloc", Null)>> \in Seq(Tasks)
  /\ Simple(<<Do("init", Null), Do("alloc", Null)>>)
  /\ Waits(<<Do("init", Null), Do("alloc", Null)>>)
<1>1. Do("init", Null) \in Tasks /\ Do("alloc", Null) \in Tasks
  BY TaskTypes DEF Ops
<1>2. ASSUME NEW x \in Tasks, NEW y \in Tasks, x.op = "init", y.op = "alloc"
      PROVE  <<y>> \in Seq(Tasks) /\ Simple(<<y>>) /\ <<x, y>> \in Seq(Tasks)
             /\ Simple(<<x, y>>) /\ Waits(<<x, y>>)
  <2>1. <<y>> \in Seq(Tasks) /\ Len(<<y>>) = 1 /\ <<y>>[1] = y
    OBVIOUS
  <2>2. <<x, y>> \in Seq(Tasks) /\ Len(<<x, y>>) = 2 /\ <<x, y>>[1] = x /\ <<x, y>>[2] = y
    OBVIOUS
  <2>3. \A k \in 1 .. 2 : k = 1 \/ k = 2
    OBVIOUS
  <2>4. Simple(<<y>>)
    BY <2>1, <1>2 DEF Simple
  <2>5. Simple(<<x, y>>)
    BY <2>2, <2>3, <1>2 DEF Simple
  <2>6. Waits(<<x, y>>)
    BY <2>2, <1>2 DEF Waits
  <2> QED  BY <2>1, <2>2, <2>4, <2>5, <2>6
<1> QED  BY <1>1, <1>2, TaskTypes

LEMMA MallocStep ==
  ASSUME IInv, NEW t \in alive, malloc(t)
  PROVE  IInv'
<1>1. t \in Threads /\ t # Null
  BY BootAssumption DEF IInv, TypeOK
<1>2. /\ work[t] = <<>> /\ calls' = [calls EXCEPT ![t] = @ + 1]
      /\ UNCHANGED <<lock, state, alive>>
  BY DEF malloc, Idle
<1>3. PICK v \in Seq(Tasks) :
        Simple(v) /\ work' = [work EXCEPT ![t] = v] /\ (~initialized => Waits(v))
  BY CallTypes DEF malloc, Does
<1>4. TypeOK'
  BY <1>1, <1>2, <1>3 DEF IInv, TypeOK, state
<1>5. NotBooting /\ ArenasGrow(t) /\ UNCHANGED <<lock, arenas, next_arena, arena_of, alive>>
  BY <1>2 DEF state, NotBooting, ArenasGrow
<1>6. work'[t] = v
  BY <1>1, <1>3 DEF IInv, TypeOK
<1>7. Own(t)'
  <2>1. arena_of'[t] # Null /\ arenas' # Null => arena_of'[t] \in arenas'
    BY <1>1, <1>5, ArenasKnown
  <2> QED  BY <1>1, <1>3, <1>6, <2>1, SimpleOwn
<1>8. ~HasArray(work[t])
  BY <1>2 DEF HasArray
<1>9. \A a \in Arenas : arenas' # Null /\ lock'[ArenaLock(a)] # Null => a \in arenas'
  BY <1>5 DEF IInv, ArenaLocksMade
<1> QED  BY <1>3, <1>4, <1>5, <1>7, <1>8, <1>9, PlainStep

(* While the allocator boots, the other threads wait. *)
LEMMA OthersWait ==
  ASSUME IInv, NEW t \in Threads, NEW u \in Threads, u # t, u # initializer, ~initialized,
         lock[<<"init">>] = t \/ initializer # Null,
         work'[u] = work[u], arena_of'[u] = arena_of[u]
  PROVE  Own(u)' /\ Waits(work'[u]) /\ arena_of'[u] = Null
<1>0. PICK w \in Seq(Tasks) : w = work[u]
  BY DEF IInv, TypeOK
<1>1. Waits(w) /\ arena_of[u] = Null
  BY <1>0 DEF IInv, BootInv
<1>2. \A k \in 1 .. Len(w) : w[k].op # "boot"
  BY <1>0 DEF IInv, WorkInv, BootHasLock
<1>3. Simple(w)
  <2>1. CASE w = <<>>
    BY <2>1 DEF Simple
  <2>2. CASE Len(w) = 2 /\ w[1].op \in {"init", "spin", "boot"} /\ w[2].op = "alloc"
    <3>1. \A k \in 1 .. 2 : k = 1 \/ k = 2
      OBVIOUS
    <3> QED  BY <2>2, <3>1, <1>2 DEF Simple
  <2> QED  BY <2>1, <2>2, <1>1 DEF Waits
<1>4. Own(u)'
  BY <1>0, <1>1, <1>3, SimpleOwn
<1> QED  BY <1>0, <1>1, <1>4

LEMMA BootFirstStep ==
  ASSUME IInv, NEW t \in alive, BootFirst(t)
  PROVE  IInv'
<1>1. t \in Threads /\ t # Null
  BY BootAssumption DEF IInv, TypeOK
<1>2. PICK w \in Seq(Tasks) :
        /\ w = work[t] /\ w # <<>> /\ w[1].op = "boot"
        /\ 1 \in 1 .. Len(w) /\ Len(w) \in Nat \ {0}
  BY <1>1, HeadTyped DEF BootFirst
<1>3. lock[<<"init">>] = t /\ initializer = Null
  BY <1>1, <1>2 DEF IInv, WorkInv, BootHasLock
<1>4. /\ arenas = {} /\ next_arena = 0 /\ ~initialized
      /\ \A u \in Threads : Waits(work[u]) /\ arena_of[u] = Null
  BY <1>3, BootAssumption DEF IInv, BootInv
<1>5. Len(w) = 2 /\ w[2].op = "alloc"
  BY <1>1, <1>2, <1>4 DEF Waits
<1>6. UNCHANGED <<initialized, next_arena, punted, calls, alive>> /\ handlers' \in {handlers, handlers + 1}
      /\ lock' = [lock EXCEPT ![<<"init">>] = Null]
  BY DEF BootFirst
<1>7. /\ lock' \in [Locks -> Threads \cup {Null}]
      /\ \A a \in Arenas : lock'[ArenaLock(a)] = Null
  <2>1. \A a \in Arenas : lock[ArenaLock(a)] = Null
    BY <1>4, BootAssumption DEF IInv, ArenaLocksMade
  <2> QED  BY <2>1, <1>6, LocksDiffer DEF IInv, TypeOK
<1>8. ChildInv'
  BY <1>4, <1>6 DEF IInv, ChildInv, ChildLocksFree, Child
<1>9. ArenaLocksMade'
  BY <1>7 DEF ArenaLocksMade
<1>10. CASE Returns(t) /\ UNCHANGED <<arenas, arena_of, initializer>>
  <2>1. work' = [work EXCEPT ![t] = <<>>]
    BY <1>10 DEF Returns, Does
  <2>2. TypeOK'
    BY <1>6, <1>7, <1>10, <2>1 DEF IInv, TypeOK
  <2>3. work'[t] = <<>> /\ \A u \in Threads \ {t} : work'[u] = work[u]
    BY <1>1, <2>1 DEF IInv, TypeOK
  <2>4. Own(t)'
    <3>1. Simple(work'[t])
      BY <2>3 DEF Simple
    <3> QED  BY <3>1, <1>1, <1>4, <1>10, SimpleOwn
  <2>5. \A u \in Threads \ {t} : Own(u)'
    BY <1>1, <1>3, <1>4, <1>10, <2>3, OthersWait, BootAssumption
  <2>6. WorkInv'
    BY <2>4, <2>5 DEF WorkInv, Own
  <2>7. BootInv'
    <3>1. Waits(<<>>)
      BY DEF Waits
    <3>2. \A u \in Threads : Waits(work'[u]) /\ arena_of'[u] = Null
      BY <3>1, <2>3, <1>4, <1>10
    <3> QED  BY <3>2, <1>3, <1>4, <1>6, <1>10 DEF BootInv
  <2> QED  BY <2>2, <2>6, <2>7, <1>8, <1>9 DEF IInv
<1> DEFINE X == <<Do("ncpus", Null), Do("lock", <<"init">>), Do("lock", <<"base">>), Do("array", Null)>>
<1>11. CASE /\ arenas' = {0} /\ arena_of' = [arena_of EXCEPT ![t] = 0]
            /\ initializer' = t /\ work' = [work EXCEPT ![t] = X \o Tail(w)]
  <2>1. /\ Do("ncpus", Null) \in Tasks /\ Do("lock", <<"init">>) \in Tasks
        /\ Do("lock", <<"base">>) \in Tasks /\ Do("array", Null) \in Tasks
    BY TaskTypes, LocksDiffer DEF Ops
  <2>2. /\ X \in Seq(Tasks) /\ Len(X) = 4
        /\ X[1].op = "ncpus" /\ X[2].op = "lock" /\ X[3].op = "lock" /\ X[4].op = "array"
        /\ X[2].l = <<"init">> /\ X[3].l = <<"base">>
    BY <2>1, TaskTypes
  <2> HIDE DEF X
  <2>3. PICK v \in Seq(Tasks) : v = X \o Tail(w) /\ Follows(v, X, w)
    <3>1. Follows(X \o Tail(w), X, w)
      BY <2>2, <1>2, JoinFollows
    <3>2. X \o Tail(w) \in Seq(Tasks)
      BY <3>1 DEF Follows
    <3> QED  BY <3>1, <3>2
  <2>4. /\ Len(v) = 5 /\ v[1].op = "ncpus" /\ v[2].op = "lock" /\ v[3].op = "lock"
        /\ v[4].op = "array" /\ v[5].op = "alloc"
        /\ v[2].l = <<"init">> /\ v[3].l = <<"base">>
    <3>1. Len(v) = 5 /\ (\A k \in 1 .. 4 : v[k] = X[k]) /\ v[5] = w[2]
      BY <2>2, <2>3, <1>5 DEF Follows
    <3> QED  BY <3>1, <2>2, <1>5
  <2>5. \A k \in 1 .. 5 : k = 1 \/ k = 2 \/ k = 3 \/ k = 4 \/ k = 5
    OBVIOUS
  <2>6. 0 \in Arenas
    BY BootAssumption DEF Arenas
  <2>7. /\ work'[t] = v /\ \A u \in Threads \ {t} : work'[u] = work[u] /\ arena_of'[u] = arena_of[u]
    BY <1>1, <1>11, <2>3 DEF IInv, TypeOK
  <2>8. arena_of' \in [Threads -> Arenas \cup {Null}] /\ arena_of'[t] = 0
    BY <1>1, <1>11, <2>6 DEF IInv, TypeOK
  <2>9. TypeOK'
    BY <1>1, <1>6, <1>7, <1>11, <2>3, <2>6, <2>8 DEF IInv, TypeOK
  <2>10. Own(t)'
    <3>1. Shape(v)
      BY <2>4, <2>5 DEF Shape
    <3>2. UnlocksOwn(t)' /\ BootHasLock(t)' /\ ChooseLocked(t)' /\ FirstOnly(t)' /\ Forking(t)'
      BY <2>4, <2>5, <2>7 DEF UnlocksOwn, BootHasLock, ChooseLocked, FirstOnly, Forking
    <3>3. ArrayOnce(t)'
      <4>1. arenas' # Null
        BY <1>11, <2>6, BootAssumption DEF Arenas
      <4> QED  BY <4>1, <1>4, <1>6, <1>11, <2>7 DEF ArrayOnce
    <3>4. ArenaTasks(t)'
      <4>1. \A k \in 1 .. 5, a \in Arenas : ~Is(v[k], "lock", ArenaLock(a))
        <5>1. \A a \in Arenas : <<"init">> # ArenaLock(a) /\ <<"base">> # ArenaLock(a)
          BY LocksDiffer
        <5>2. \A k \in 1 .. 5 : v[k].op = "lock" => v[k].l = <<"init">> \/ v[k].l = <<"base">>
          BY <2>4, <2>5
        <5> QED  BY <5>1, <5>2 DEF Is
      <4>2. arena_of'[t] \in arenas'
        BY <1>11, <2>8
      <4>3. work'[t] = v /\ Len(v) = 5
        BY <2>4, <2>7
      <4> QED  BY <4>1, <4>2, <4>3 DEF ArenaTasks
    <3> QED  BY <3>1, <3>2, <3>3, <3>4, <2>7 DEF Own
  <2>11. ASSUME NEW u \in Threads, u # t PROVE Own(u)' /\ Waits(work'[u]) /\ arena_of'[u] = Null
    BY <1>1, <1>3, <1>4, <2>7, <2>11, OthersWait, BootAssumption
  <2>12. WorkInv'
    BY <2>10, <2>11 DEF WorkInv, Own
  <2>13. BootInv'
    <3>1. 4 \in 1 .. Len(work'[t]) /\ work'[t][4].op = "array"
      <4>1. work'[t] = v
        BY <2>7
      <4>2. 4 \in 1 .. Len(v) /\ v[4].op = "array"
        BY <2>4
      <4> QED  BY <4>1, <4>2
    <3> QED  BY <3>1, <2>8, <2>11, <1>1, <1>4, <1>6, <1>11 DEF BootInv
  <2> QED  BY <2>9, <2>12, <2>13, <1>8, <1>9 DEF IInv
<1> QED  BY <1>2, <1>10, <1>11 DEF BootFirst, Does

LEMMA BootSecondStep ==
  ASSUME IInv, NEW t \in alive, BootSecond(t)
  PROVE  IInv'
<1>1. t \in Threads /\ t # Null
  BY BootAssumption DEF IInv, TypeOK
<1>2. PICK w \in Seq(Tasks) :
        /\ w = work[t] /\ w # <<>> /\ w[1].op = "array"
        /\ 1 \in 1 .. Len(w) /\ Len(w) \in Nat \ {0}
  BY <1>1, HeadTyped DEF BootSecond
<1>3. ~initialized /\ initializer = t /\ arenas # Null
  BY <1>1, <1>2 DEF IInv, WorkInv, ArrayOnce
<1>4. arenas = {0} /\ next_arena = 0 /\ arena_of[t] = 0
  BY <1>1, <1>3 DEF IInv, BootInv
<1>5. Len(w) = 2 /\ w[2].op = "alloc"
  <2>1. Shape(w)
    BY <1>1, <1>2 DEF IInv, WorkInv
  <2>2. 1 + 1 = Len(w) /\ w[1 + 1].op = "alloc"
    BY <2>1, <1>2 DEF Shape
  <2> QED  BY <2>2
<1>6. /\ UNCHANGED <<initializer, handlers, arena_of, punted, calls, alive>>
      /\ lock' = [lock EXCEPT ![<<"base">>] = Null, ![<<"init">>] = Null]
      /\ next_arena' = SecondArena
  BY DEF BootSecond
<1>7. /\ lock' \in [Locks -> Threads \cup {Null}]
      /\ \A a \in Arenas : lock'[ArenaLock(a)] = lock[ArenaLock(a)]
  BY <1>6, LocksDiffer DEF IInv, TypeOK
<1>8. ChildInv'
  BY <1>3, <1>6 DEF IInv, ChildInv, ChildLocksFree, Child
<1>9. next_arena' \in NextArenas
  BY <1>6 DEF NextArenas
<1>10. \A u \in Threads \ {t} : work'[u] = work[u] => Own(u)' /\ Waits(work'[u]) /\ arena_of'[u] = Null
  BY <1>1, <1>3, <1>6, OthersWait
<1>11. CASE arenas' = Null /\ Returns(t) /\ UNCHANGED initialized
  <2>1. work' = [work EXCEPT ![t] = <<>>]
    BY <1>11 DEF Returns, Does
  <2>2. TypeOK'
    <3>1. <<>> \in Seq(Tasks)
      OBVIOUS
    <3>2. work' \in [Threads -> Seq(Tasks)] /\ arenas' = Null
      BY <3>1, <1>11, <2>1 DEF IInv, TypeOK
    <3> QED  BY <3>2, <1>6, <1>7, <1>9, <1>11 DEF IInv, TypeOK
  <2>3. work'[t] = <<>> /\ \A u \in Threads \ {t} : work'[u] = work[u]
    BY <1>1, <2>1 DEF IInv, TypeOK
  <2>4. Own(t)'
    <3>1. Simple(work'[t])
      BY <2>3 DEF Simple
    <3> QED  BY <3>1, <1>1, <1>11, SimpleOwn
  <2>5. WorkInv'
    BY <2>3, <2>4, <1>10 DEF WorkInv, Own
  <2>6. BootInv'
    BY <1>1, <1>3, <1>4, <1>6, <1>10, <1>11, <2>3 DEF BootInv
  <2>7. ArenaLocksMade'
    BY <1>11 DEF ArenaLocksMade
  <2> QED  BY <2>2, <2>5, <2>6, <2>7, <1>8 DEF IInv
<1>12. CASE initialized' = TRUE /\ Continues(t) /\ UNCHANGED arenas
  <2>1. work' = [work EXCEPT ![t] = Tail(w)]
    BY <1>2, <1>12 DEF Continues, Does
  <2>2. PICK v \in Seq(Tasks) : v = Tail(w) /\ Follows(v, <<>>, w)
    BY <1>2, TailFollows DEF Follows
  <2>3. Len(v) = 1 /\ v[1].op = "alloc"
    <3>1. Len(v) = Len(w) - 1 /\ \A i \in 1 .. Len(v) : v[i] = w[i + 1]
      BY <1>2, <2>2, HeadTailProperties
    <3>2. Len(v) = 1
      BY <3>1, <1>5
    <3>3. v[1] = w[1 + 1]
      BY <3>1, <3>2
    <3> QED  BY <3>2, <3>3, <1>5
  <2>4. TypeOK'
    BY <1>6, <1>7, <1>9, <1>12, <2>1, <2>2 DEF IInv, TypeOK
  <2>5. work'[t] = v /\ \A u \in Threads \ {t} : work'[u] = work[u]
    BY <1>1, <2>1, <2>2 DEF IInv, TypeOK
  <2>6. Own(t)'
    <3>0. \A k \in 1 .. Len(v) : k = 1
      BY <2>3
    <3>1. Simple(work'[t])
      BY <3>0, <2>3, <2>5 DEF Simple
    <3> QED  BY <3>1, <1>1, <1>4, <1>6, <1>12, SimpleOwn
  <2>7. WorkInv'
    BY <2>5, <2>6, <1>10 DEF WorkInv, Own
  <2>8. BootInv'
    <3>1. 0 \in Arenas
      BY BootAssumption DEF Arenas
    <3> QED  BY <3>1, <1>1, <1>3, <1>4, <1>6, <1>12 DEF BootInv
  <2>9. ArenaLocksMade'
    BY <1>7, <1>12 DEF IInv, ArenaLocksMade
  <2> QED  BY <2>4, <2>7, <2>8, <2>9, <1>8 DEF IInv
<1> QED  BY <1>11, <1>12 DEF BootSecond

-----------------------------------------------------------------------------
(* fork.                                                                   *)

(* Tasks that neither choose an arena nor boot: what there is to say of    *)
(* them is about their locks.                                              *)
ForkTasks(v) == \A k \in 1 .. Len(v) : v[k].op \in {"lock", "unlock", "prefork", "fork"}

LEMMA ForkOwn ==
  ASSUME IInv, NEW t \in Threads, NEW v, work'[t] = v, ForkTasks(v), Shape(v),
         UNCHANGED <<state>>,
         \A k \in 1 .. Len(v) : v[k].op = "unlock" => lock'[v[k].l] = t,
         \A k \in 1 .. Len(v) : v[k].op = "lock" => v[k].l \in ForkSet(arenas),
         arenas # Null,
         \A k \in 1 .. Len(v) : v[k].op = "fork" =>
           initialized /\ (NotStarted(v) \/ Started(t, v)')
  PROVE  Own(t)'
<1>1. /\ BootHasLock(t)' /\ ArrayOnce(t)' /\ ChooseLocked(t)' /\ FirstOnly(t)'
  BY DEF ForkTasks, BootHasLock, ArrayOnce, ChooseLocked, FirstOnly
<1>2. UnlocksOwn(t)'
  BY DEF UnlocksOwn
<1>3. ArenaTasks(t)'
  <2>1. ASSUME NEW k \in 1 .. Len(v), NEW a \in Arenas, Is(v[k], "lock", ArenaLock(a))
        PROVE  a \in arenas
    <3>1. ArenaLock(a) \in ForkSet(arenas) /\ arenas \in SUBSET Arenas
      BY <2>1, ArenasKnown DEF Is
    <3>2. PICK b \in arenas : ArenaLock(a) = ArenaLock(b)
      BY <3>1, LocksDiffer DEF ForkSet
    <3> QED  BY <3>1, <3>2, LocksDiffer
  <2>2. arena_of[t] # Null => arena_of[t] \in arenas
    BY ArenasKnown
  <2> QED  BY <2>1, <2>2 DEF ArenaTasks, state
<1>4. Forking(t)'
  <2>1. \A k \in 1 .. Len(v) : v[k].op = "fork" =>
          initialized' /\ (NotStarted(v)' \/ Started(t, v)')
    BY DEF NotStarted, state
  <2> QED  BY <2>1 DEF Forking
<1> QED  BY <1>1, <1>2, <1>3, <1>4 DEF Own

LEMMA CallForkStep ==
  ASSUME IInv, NEW t \in alive, CallFork(t)
  PROVE  IInv'
<1>1. t \in Threads /\ t # Null
  BY BootAssumption DEF IInv, TypeOK
<1>2. /\ work[t] = <<>> /\ arena_of[t] # Null /\ arenas # Null
      /\ calls' = [calls EXCEPT ![t] = @ + 1]
      /\ UNCHANGED <<lock, state, alive>>
  BY DEF CallFork, Idle
<1>3. initialized
  <2>1. Len(work[t]) = 0
    BY <1>2
  <2> QED  BY <2>1, <1>1, <1>2 DEF IInv, BootInv
<1> DEFINE X == [k \in 1 .. handlers |-> Do("prefork", Null)]
           Y == <<Do("fork", Null)>>
<1>4. PICK n \in Nat : n = handlers
  BY DEF IInv, TypeOK
<1>5. X \in Seq(Tasks) /\ Len(X) = n /\ \A k \in 1 .. n : X[k].op = "prefork"
  <2>1. Do("prefork", Null) \in Tasks /\ Do("prefork", Null).op = "prefork"
    BY TaskTypes DEF Ops
  <2>2. X \in [1 .. n -> Tasks]
    BY <1>4, <2>1
  <2> QED  BY <1>4, <2>1, <2>2, SeqDef
<1>6. Y \in Seq(Tasks) /\ Len(Y) = 1 /\ Y[1].op = "fork"
  BY OneTask DEF Ops
<1> HIDE DEF X, Y
<1>7. PICK v : v = X \o Y
  OBVIOUS
<1>8. /\ v \in Seq(Tasks) /\ Len(v) = n + 1
      /\ \A k \in 1 .. n : v[k].op = "prefork"
      /\ v[n + 1].op = "fork"
  <2>1. /\ v \in Seq(Tasks) /\ Len(v) = Len(X) + Len(Y)
        /\ \A k \in 1 .. Len(X) : v[k] = X[k]
        /\ \A k \in 1 .. Len(Y) : v[Len(X) + k] = Y[k]
    BY <1>5, <1>6, <1>7, Joined
  <2> QED  BY <2>1, <1>5, <1>6
<1>9. work' = [work EXCEPT ![t] = v]
  BY <1>7 DEF CallFork, Does, X, Y
<1>10. work'[t] = v
  BY <1>1, <1>9 DEF IInv, TypeOK
<1>11. \A k \in 1 .. Len(v) : \/ k \in 1 .. n /\ v[k].op = "prefork"
                              \/ k = n + 1 /\ v[k].op = "fork"
  BY <1>8
<1>12. Own(t)'
  <2>1. Shape(v)
    BY <1>8, <1>11 DEF Shape
  <2>2. ForkTasks(v)
    BY <1>11 DEF ForkTasks
  <2>3. NotStarted(v)
    BY <1>4, <1>8, <1>11 DEF NotStarted
  <2>4. UNCHANGED state
    BY <1>2
  <2> QED  BY <1>1, <1>2, <1>3, <1>10, <1>11, <2>1, <2>2, <2>3, <2>4, ForkOwn
<1>13. TypeOK'
  BY <1>1, <1>2, <1>8, <1>9 DEF IInv, TypeOK, state
<1>14. NotBooting /\ ArenasGrow(t) /\ UNCHANGED <<lock, arenas, next_arena, arena_of, alive>>
  BY <1>2 DEF state, NotBooting, ArenasGrow
<1>15. ~HasArray(work[t])
  BY <1>2 DEF HasArray
<1>16. \A a \in Arenas : arenas' # Null /\ lock'[ArenaLock(a)] # Null => a \in arenas'
  BY <1>14 DEF IInv, ArenaLocksMade
<1> QED  BY <1>3, <1>9, <1>12, <1>13, <1>14, <1>15, <1>16, PlainStep

(* A list of locks, as tasks. *)
LEMMA EachTyped ==
  ASSUME NEW op \in {"lock", "unlock"}, NEW ls \in Seq(Locks)
  PROVE  /\ Each(op, ls) \in Seq(Tasks) /\ Len(Each(op, ls)) = Len(ls)
         /\ \A k \in 1 .. Len(ls) : Each(op, ls)[k].op = op /\ Each(op, ls)[k].l = ls[k]
<1> DEFINE X == Each(op, ls)
<1>1. PICK n \in Nat : n = Len(ls)
  OBVIOUS
<1>2. DOMAIN ls = 1 .. n /\ \A k \in 1 .. n : ls[k] \in Locks
  BY <1>1
<1>3. X = [k \in 1 .. n |-> Do(op, ls[k])]
  BY <1>2 DEF Each
<1> HIDE DEF X
<1>4. \A k \in 1 .. n : X[k] \in Tasks /\ X[k].op = op /\ X[k].l = ls[k]
  BY <1>2, <1>3, TaskTypes
<1>5. X \in Seq(Tasks) /\ Len(X) = n
  BY <1>3, <1>4, SeqDef
<1> QED  BY <1>1, <1>4, <1>5 DEF X

LEMMA PreforkStep ==
  ASSUME IInv, NEW t \in alive, Prefork(t)
  PROVE  IInv'
<1>1. t \in Threads /\ t # Null
  BY BootAssumption DEF IInv, TypeOK
<1>2. PICK w \in Seq(Tasks) :
        /\ w = work[t] /\ w # <<>> /\ w[1].op = "prefork"
        /\ 1 \in 1 .. Len(w) /\ Len(w) \in Nat \ {0}
  BY <1>1, HeadTyped DEF Prefork
<1>3. UNCHANGED <<state, calls, alive>>
  BY DEF Prefork
<1>4. Shape(w) /\ Forking(t)
  BY <1>1, <1>2 DEF IInv, WorkInv
<1>5. w[Len(w)].op = "fork" /\ Len(w) \in 1 .. Len(w)
  BY <1>2, <1>4 DEF Shape
<1>6. initialized /\ (NotStarted(w) \/ Started(t, w))
  BY <1>2, <1>4, <1>5 DEF Forking
<1>7. arenas \in SUBSET Arenas /\ arenas # Null
  BY <1>6, BootAssumption DEF IInv, BootInv, Arenas
<1>8. PICK f \in Seq(Locks) :
        /\ f = ForkLocks(arenas) /\ Len(f) \in Nat /\ Len(f) >= 3
        /\ f[1] = <<"arenas">>
        /\ \A k \in 1 .. Len(f) : f[k] \in ForkSet(arenas)
        /\ \A l \in ForkSet(arenas) : l = <<"arenas">> \/ \E k \in 2 .. Len(f) : f[k] = l
  BY <1>7, PreforkList
<1>9. PICK g \in Seq(Locks) :
        g = Tail(f) /\ Len(g) = Len(f) - 1 /\ \A k \in 1 .. Len(f) - 1 : g[k] = f[k + 1]
  <2>1. f # <<>>
    BY <1>8
  <2>2. /\ Tail(f) \in Seq(Locks) /\ Len(Tail(f)) = Len(f) - 1
        /\ \A i \in 1 .. Len(Tail(f)) : Tail(f)[i] = f[i + 1]
    BY <2>1, HeadTailProperties
  <2> QED  BY <2>2
<1>10. PICK X \in Seq(Tasks) :
         /\ X = Each("lock", g) /\ Len(X) = Len(g)
         /\ \A k \in 1 .. Len(g) : X[k].op = "lock" /\ X[k].l = g[k]
  BY EachTyped
<1>11. /\ lock[<<"arenas">>] = Null /\ lock' = [lock EXCEPT ![<<"arenas">>] = t]
       /\ work' = [work EXCEPT ![t] = X \o Tail(w)]
  BY <1>2, <1>8, <1>9, <1>10 DEF Prefork, Does
<1>12. NotStarted(w)
  BY <1>1, <1>6, <1>11 DEF Started
<1>13. PICK n \in Nat \ {0} : n = handlers /\ Len(w) = n + 1 /\ \A i \in 1 .. n : w[i].op = "prefork"
  <2>1. handlers \in Nat
    BY DEF IInv, TypeOK
  <2>2. Len(w) = handlers + 1 /\ \A i \in 1 .. Len(w) - 1 : w[i].op = "prefork"
    BY <1>12 DEF NotStarted
  <2>3. handlers # 0
    BY <2>2, <1>2, <1>5
  <2> QED  BY <2>1, <2>2, <2>3
<1>14. PICK v \in Seq(Tasks) : v = X \o Tail(w) /\ Follows(v, X, w)
  <2>1. Follows(X \o Tail(w), X, w)
    BY <1>2, JoinFollows
  <2> QED  BY <2>1 DEF Follows
<1>15. PICK m \in Nat : m = Len(X) /\ m = Len(g) /\ m + 1 = Len(f) /\ m >= 2
  <2>1. Len(f) \in Nat /\ Len(f) >= 3
    BY <1>8
  <2>2. Len(X) = Len(g) /\ Len(g) = Len(f) - 1
    BY <1>9, <1>10
  <2> QED  BY <2>1, <2>2
<1>16. /\ Len(v) = m + n
       /\ \A k \in 1 .. m : v[k].op = "lock" /\ v[k].l = f[k + 1]
       /\ \A k \in 1 .. m + n : k > m => v[k] = w[k - m + 1]
  <2>1. /\ Len(v) = Len(X) + Len(w) - 1
        /\ \A k \in 1 .. Len(X) : v[k] = X[k]
        /\ \A k \in 1 .. Len(v) : k > Len(X) => v[k] = w[k - Len(X) + 1]
    BY <1>14 DEF Follows
  <2>2. Len(X) = m /\ Len(w) = n + 1
    BY <1>13, <1>15
  <2>3. Len(v) = m + n
    BY <2>1, <2>2
  <2>4. ASSUME NEW k \in 1 .. m PROVE v[k].op = "lock" /\ v[k].l = f[k + 1]
    <3>1. k \in 1 .. Len(g) /\ k \in 1 .. Len(f) - 1
      BY <1>15
    <3>2. X[k].op = "lock" /\ X[k].l = g[k]
      BY <3>1, <1>10
    <3>3. g[k] = f[k + 1]
      BY <3>1, <1>9
    <3> QED  BY <3>2, <3>3, <2>1, <2>2
  <2> QED  BY <2>1, <2>2, <2>3, <2>4
<1>17. ASSUME NEW k \in 1 .. m + n
       PROVE  \/ k \in 1 .. m /\ v[k].op = "lock" /\ v[k].l \in ForkSet(arenas)
              \/ k \in m + 1 .. m + n - 1 /\ v[k].op = "prefork"
              \/ k = m + n /\ v[k].op = "fork"
  <2>1. CASE k \in 1 .. m
    <3>1. k + 1 \in 1 .. Len(f)
      BY <2>1, <1>15
    <3> QED  BY <2>1, <3>1, <1>8, <1>16
  <2>2. CASE k \in m + 1 .. m + n - 1
    <3>1. k - m + 1 \in 1 .. n /\ k > m
      BY <2>2
    <3> QED  BY <2>2, <3>1, <1>13, <1>16
  <2>3. CASE k = m + n
    <3>1. k - m + 1 = Len(w) /\ k > m
      BY <2>3, <1>13
    <3> QED  BY <2>3, <3>1, <1>5, <1>16
  <2> QED  BY <2>1, <2>2, <2>3
<1>18. /\ lock' \in [Locks -> Threads \cup {Null}]
       /\ lock'[<<"arenas">>] = t /\ \A l \in Locks : l # <<"arenas">> => lock'[l] = lock[l]
  BY <1>1, <1>11, LocksDiffer DEF IInv, TypeOK
<1>19. work' = [work EXCEPT ![t] = v]
  BY <1>11, <1>14
<1>20. work'[t] = v
  BY <1>1, <1>19 DEF IInv, TypeOK
<1>21. Shape(v)
  <2>1. Prefix(X, w)
    BY <1>2, <1>9, <1>10 DEF Prefix
  <2> QED  BY <2>1, <1>4, <1>14, ShapeFollows
<1>22. Started(t, v)'
  <2>1. ASSUME NEW i \in m + 1 .. m + n - 1 PROVE v[i].op = "prefork"
    <3>1. i \in 1 .. m + n /\ i \notin 1 .. m /\ i # m + n
      BY <2>1
    <3> QED  BY <3>1, <1>17
  <2>2. ASSUME NEW l \in ForkSet(arenas)
        PROVE  lock'[l] = t \/ \E j \in 1 .. m + n - 1 : Is(v[j], "lock", l)
    <3>1. CASE l = <<"arenas">>
      BY <3>1, <1>18
    <3>2. ASSUME NEW k \in 2 .. Len(f), f[k] = l
          PROVE  \E j \in 1 .. m + n - 1 : Is(v[j], "lock", l)
      <4>1. k - 1 \in 1 .. m /\ k - 1 \in 1 .. m + n - 1 /\ (k - 1) + 1 = k
        BY <3>2, <1>15
      <4>2. v[k - 1].op = "lock" /\ v[k - 1].l = f[k]
        BY <4>1, <1>16
      <4>3. Is(v[k - 1], "lock", l)
        BY <4>2, <3>2 DEF Is
      <4> QED  BY <4>1, <4>3
    <3> QED  BY <3>1, <3>2, <1>8
  <2>3. arenas' = arenas /\ handlers' = n
    BY <1>3, <1>13 DEF state
  <2>4. \A l \in ForkSet(arenas') : lock'[l] = t \/ \E j \in 1 .. Len(v) - 1 : Is(v[j], "lock", l)
    BY <2>2, <2>3, <1>16
  <2>5. \A i \in Len(v) - handlers' + 1 .. Len(v) - 1 : v[i].op = "prefork"
    <3>1. Len(v) - handlers' + 1 = m + 1
      BY <2>3, <1>16
    <3> QED  BY <2>1, <3>1, <1>16
  <2>6. handlers' >= 1 /\ Len(v) >= handlers'
    BY <2>3, <1>13, <1>16
  <2> QED  BY <2>4, <2>5, <2>6, <1>18 DEF Started
<1>23. Own(t)'
  <2>1. ForkTasks(v)
    BY <1>16, <1>17 DEF ForkTasks
  <2>2. \A k \in 1 .. Len(v) : v[k].op # "unlock" /\ (v[k].op = "lock" => v[k].l \in ForkSet(arenas))
    BY <1>16, <1>17
  <2>3. UNCHANGED state
    BY <1>3
  <2> QED  BY <2>1, <2>2, <2>3, <1>1, <1>6, <1>7, <1>20, <1>21, <1>22, ForkOwn
<1>24. NotBooting /\ ArenasGrow(t) /\ UNCHANGED <<arenas, next_arena, arena_of, punted, calls, alive>>
  BY <1>3 DEF state, NotBooting, ArenasGrow
<1>25. TypeOK'
  BY <1>1, <1>18, <1>19, <1>24 DEF IInv, TypeOK, NotBooting
<1>26. ~HasArray(work[t])
  <2>1. \A k \in 1 .. Len(w) : k \in 1 .. n \/ k = Len(w)
    BY <1>13
  <2> QED  BY <2>1, <1>2, <1>5, <1>13 DEF HasArray
<1>27. \A a \in Arenas : arenas' # Null /\ lock'[ArenaLock(a)] # Null => a \in arenas'
  <2>1. \A a \in Arenas : lock'[ArenaLock(a)] = lock[ArenaLock(a)]
    BY <1>18, LocksDiffer
  <2> QED  BY <2>1, <1>24 DEF IInv, ArenaLocksMade
<1>28. \A l \in Locks : lock'[l] = lock[l] \/ (lock[l] \in {Null, t} /\ lock'[l] \in {Null, t})
  BY <1>11, <1>18
<1> QED  BY <1>6, <1>19, <1>23, <1>24, <1>25, <1>26, <1>27, <1>28, PlainStep

LEMMA ForkStep ==
  ASSUME IInv, NEW t \in alive, Fork(t)
  PROVE  IInv'
<1>1. t \in Threads /\ t # Null
  BY BootAssumption DEF IInv, TypeOK
<1>2. PICK w \in Seq(Tasks) :
        /\ w = work[t] /\ w # <<>> /\ w[1].op = "fork"
        /\ 1 \in 1 .. Len(w) /\ Len(w) \in Nat \ {0}
  BY <1>1, HeadTyped DEF Fork
<1>3. UNCHANGED <<lock, state, calls>> /\ alive' \in {Threads, {t}}
  BY DEF Fork
<1>4. Shape(w) /\ Forking(t)
  BY <1>1, <1>2 DEF IInv, WorkInv
<1>5. Len(w) = 1
  BY <1>2, <1>4 DEF Shape
<1>6. initialized /\ (NotStarted(w) \/ Started(t, w))
  BY <1>2, <1>4 DEF Forking
<1>7. arenas \in SUBSET Arenas /\ arenas # Null
  BY <1>6, BootAssumption DEF IInv, BootInv, Arenas
<1>8. handlers \in Nat
  BY DEF IInv, TypeOK
<1>9. ASSUME handlers # 0 PROVE \A l \in ForkSet(arenas) : lock[l] = t
  <2>1. Started(t, w)
    BY <1>5, <1>6, <1>8, <1>9 DEF NotStarted
  <2>2. \A j \in 1 .. Len(w) - 1 : FALSE
    BY <1>5
  <2> QED  BY <2>1, <2>2 DEF Started
<1>10. PICK v \in Seq(Tasks) :
         work' = [work EXCEPT ![t] = v] /\ ForkTasks(v) /\ Shape(v)
         /\ \A k \in 1 .. Len(v) : v[k].op = "unlock" /\ lock[v[k].l] = t
  <2>1. CASE handlers = 0
    <3>1. work' = [work EXCEPT ![t] = <<>>]
      BY <2>1 DEF Fork, Returns, Does
    <3>2. \A k \in 1 .. Len(<<>>) : FALSE
      OBVIOUS
    <3>3. <<>> \in Seq(Tasks) /\ ForkTasks(<<>>) /\ Shape(<<>>)
      BY <3>2 DEF ForkTasks, Shape
    <3> QED  BY <3>1, <3>2, <3>3
  <2>2. CASE handlers # 0
    <3>1. PICK p \in Seq(Locks) :
            /\ p = PostforkLocks(arenas)
            /\ \A k \in 1 .. Len(p) : p[k] \in ForkSet(arenas)
            /\ \A j, k \in 1 .. Len(p) : p[j] = p[k] => j = k
      BY <1>7, PostforkList
    <3>2. PICK v \in Seq(Tasks) :
            /\ v = Each("unlock", p) /\ Len(v) = Len(p)
            /\ \A k \in 1 .. Len(p) : v[k].op = "unlock" /\ v[k].l = p[k]
      BY EachTyped
    <3>3. work' = [work EXCEPT ![t] = v]
      BY <2>2, <3>1, <3>2 DEF Fork, Does
    <3>4. ForkTasks(v)
      BY <3>2 DEF ForkTasks
    <3>5. \A k \in 1 .. Len(v) : v[k].op = "unlock" /\ lock[v[k].l] = t
      BY <1>9, <2>2, <3>1, <3>2
    <3>6. Shape(v)
      <4>1. \A k \in 1 .. Len(v) : \A i \in 1 .. k - 1 :
              i \in 1 .. Len(v) /\ i # k /\ v[i].op = "unlock" /\ v[i].l # v[k].l
        <5> SUFFICES ASSUME NEW k \in 1 .. Len(v), NEW i \in 1 .. k - 1
                     PROVE  i \in 1 .. Len(v) /\ i # k /\ v[i].op = "unlock" /\ v[i].l # v[k].l
          OBVIOUS
        <5>1. i \in 1 .. Len(v) /\ i # k
          BY LenProperties
        <5> QED  BY <5>1, <3>1, <3>2
      <4> QED  BY <4>1, <3>2 DEF Shape, Is
    <3> QED  BY <3>3, <3>4, <3>5, <3>6
  <2> QED  BY <2>1, <2>2
<1>11. work'[t] = v /\ \A u \in Threads \ {t} : work'[u] = work[u]
  BY <1>1, <1>10 DEF IInv, TypeOK
<1>12. Own(t)'
  <2>1. UNCHANGED state
    BY <1>3
  <2>2. \A k \in 1 .. Len(v) : v[k].op = "unlock" /\ lock'[v[k].l] = t
    BY <1>3, <1>10
  <2> QED  BY <1>1, <1>7, <1>10, <1>11, <2>1, <2>2, ForkOwn
<1>13. NotBooting /\ ArenasGrow(t) /\ UNCHANGED <<arenas, next_arena, arena_of, punted, calls, lock>>
  BY <1>3 DEF state, NotBooting, ArenasGrow
<1>14. TypeOK'
  BY <1>1, <1>3, <1>10, <1>13 DEF IInv, TypeOK, NotBooting
<1>15. WorkInv'
  <2>1. \A u \in Threads \ {t} : Own(u)'
    BY <1>1, <1>11, <1>13, OthersStay
  <2> QED  BY <2>1, <1>12 DEF WorkInv, Own
<1>16. BootInv' /\ ArenaLocksMade'
  BY <1>6, <1>13 DEF IInv, BootInv, ArenaLocksMade, NotBooting
<1>17. ChildInv'
  <2>1. Child' => initialized'
    BY <1>6, <1>13 DEF NotBooting
  <2>2. ASSUME Child', handlers' > 0, NEW l \in Locks, lock'[l] \in Threads \ alive'
        PROVE  l \in BinLocks \cup {<<"init">>}
    <3>1. alive' = {t}
      BY <1>3, <2>2 DEF Child
    <3>2. lock[l] # t /\ lock[l] # Null /\ handlers # 0
      BY <1>13, <2>2, <3>1, <1>8, BootAssumption DEF NotBooting
    <3>3. l \notin ForkSet(arenas)
      BY <1>9, <3>2
    <3>4. ASSUME NEW a \in Arenas, l = ArenaLock(a) PROVE FALSE
      <4>1. a \in arenas
        BY <3>2, <3>4, <1>7 DEF IInv, ArenaLocksMade
      <4> QED  BY <4>1, <3>3, <3>4 DEF ForkSet
    <3> QED  BY <3>3, <3>4 DEF Locks, ForkSet
  <2> QED  BY <2>1, <2>2 DEF ChildInv, ChildLocksFree
<1> QED  BY <1>14, <1>15, <1>16, <1>17 DEF IInv

-----------------------------------------------------------------------------
LEMMA InitInv == Init => IInv
<1> SUFFICES ASSUME Init PROVE IInv
  OBVIOUS
<1>1. TypeOK
  <2>1. <<>> \in Seq(Tasks) /\ {} \in SUBSET Arenas /\ 0 \in NextArenas
    BY BootAssumption DEF NextArenas, Arenas
  <2> QED  BY <2>1 DEF Init, TypeOK
<1>2. \A t \in Threads : work[t] = <<>> /\ arena_of[t] = Null /\ Len(work[t]) = 0
  BY DEF Init
<1>3. WorkInv
  <2> SUFFICES ASSUME NEW t \in Threads PROVE Own(t)
    BY DEF WorkInv, Own
  <2>1. work[t] = <<>> /\ arena_of[t] = Null
    BY <1>2
  <2> QED  BY <2>1 DEF Own, Shape, UnlocksOwn, BootHasLock, ArrayOnce, ChooseLocked, FirstOnly,
                       ArenaTasks, Forking
<1>4. BootInv
  BY <1>2 DEF BootInv, Waits, Init
<1>5. ArenaLocksMade
  BY LocksDiffer DEF ArenaLocksMade, Init
<1>6. ChildInv
  BY DEF ChildInv, ChildLocksFree, Child, Init
<1> QED  BY <1>1, <1>3, <1>4, <1>5, <1>6 DEF IInv

LEMMA NextInv == IInv /\ [Next]_vars => IInv'
<1> SUFFICES ASSUME IInv, [Next]_vars PROVE IInv'
  OBVIOUS
<1>1. CASE UNCHANGED vars
  <2>1. TypeOK'
    BY <1>1 DEF vars, IInv, TypeOK
  <2>2. ASSUME NEW t \in Threads PROVE Own(t)'
    <3>1. Own(t)
      BY DEF IInv, WorkInv, Own
    <3>2. Shape(work[t])' /\ UnlocksOwn(t)' /\ BootHasLock(t)' /\ ArrayOnce(t)'
      BY <1>1, <3>1 DEF vars, Own, UnlocksOwn, BootHasLock, ArrayOnce
    <3>3. ChooseLocked(t)' /\ FirstOnly(t)' /\ ArenaTasks(t)'
      BY <1>1, <3>1 DEF vars, Own, ChooseLocked, FirstOnly, ArenaTasks
    <3>4. Forking(t)'
      BY <1>1, <3>1 DEF vars, Own, Forking, NotStarted, Started
    <3> QED  BY <3>2, <3>3, <3>4 DEF Own
  <2>3. WorkInv'
    BY <2>2 DEF WorkInv, Own
  <2>4. BootInv'
    BY <1>1 DEF vars, IInv, BootInv
  <2>5. ArenaLocksMade' /\ ChildInv'
    BY <1>1 DEF vars, IInv, ArenaLocksMade, ChildInv, ChildLocksFree, Child
  <2> QED  BY <2>1, <2>3, <2>4, <2>5 DEF IInv
<1>2. ASSUME NEW t \in alive, malloc(t) \/ CallFork(t) \/ Step(t) PROVE IInv'
  BY <1>2, MallocStep, CallForkStep, LockStep, InitStep, BootFirstStep, NcpusStep, BootSecondStep,
     AllocStep, FirstStep, ChooseStep, ExtendStep, PreforkStep, ForkStep DEF Step
<1> QED  BY <1>1, <1>2 DEF Next

(* What a thread has left to do, which locks it holds or is about to take, *)
(* and how far the boot is fit together in every state that                *)
(* malloc_init_hard, choose_arena_hard and fork reach.                     *)
THEOREM Inductive == Spec => []IInv
<1>1. Init => IInv
  BY InitInv
<1>2. IInv /\ [Next]_vars => IInv'
  BY NextInv
<1> QED  BY <1>1, <1>2, PTL DEF Spec

(* The variables of the boot, of the locks and of the calls keep their     *)
(* types: no task is left undone that the code does not have.              *)
THEOREM TypeCorrect == Spec => []TypeOK
<1>1. IInv => TypeOK
  BY DEF IInv
<1> QED  BY <1>1, Inductive, PTL

(* In the child no lock that jemalloc_prefork takes stays with a thread    *)
(* that is not there, for any number of arenas and of threads that         *)
(* allocate while fork runs.                                               *)
THEOREM ChildCanAllocate == Spec => []ChildLocksFree
<1>1. IInv => ChildLocksFree
  BY DEF IInv, ChildInv
<1> QED  BY <1>1, Inductive, PTL

-----------------------------------------------------------------------------
(* Round robin.                                                            *)

LEMMA OfFinite ==
  ASSUME NEW a PROVE IsFiniteSet(Of(a)) /\ Cardinality(Of(a)) \in Nat
<1>1. Of(a) \subseteq Threads
  BY DEF Of
<1> QED  BY <1>1, BootAssumption, FS_Subset, FS_CardinalityType

(* One more thread has the next arena. *)
LEMMA Dealt ==
  ASSUME IInv, RoundRobin, initialized, ~punted, NArenas > 1,
         NEW t \in Threads, arena_of[t] = Null,
         arena_of' = [arena_of EXCEPT ![t] = next_arena],
         next_arena' = (next_arena + 1) % NArenas
  PROVE  RoundRobin'
<1>1. PICK N \in Nat : N = NArenas /\ N > 1 /\ Arenas = 0 .. N - 1
  BY BootAssumption DEF Arenas
<1>2. PICK na \in 0 .. N - 1 : na = next_arena
  BY <1>1 DEF RoundRobin
<1>3. PICK n \in Nat : \A a \in Arenas : Cardinality(Of(a)) = IF a < na THEN n + 1 ELSE n
  BY <1>2 DEF RoundRobin
<1>4. \A u \in Threads : arena_of'[u] = IF u = t THEN na ELSE arena_of[u]
  BY <1>2 DEF IInv, TypeOK
<1>5. \A a \in Arenas : a # Null
  BY BootAssumption DEF Arenas
<1>6. ASSUME NEW a \in Arenas
      PROVE  Cardinality(Of(a)') = IF a = na THEN Cardinality(Of(a)) + 1 ELSE Cardinality(Of(a))
  <2>1. CASE a = na
    <3>1. Of(a)' = Of(a) \cup {t} /\ t \notin Of(a)
      BY <1>4, <1>5, <2>1 DEF Of
    <3> QED  BY <2>1, <3>1, OfFinite, FS_AddElement
  <2>2. CASE a # na
    <3>1. Of(a)' = Of(a)
      BY <1>4, <1>5, <2>2 DEF Of
    <3> QED  BY <2>2, <3>1
  <2> QED  BY <2>1, <2>2
<1>7. \/ na + 1 < N /\ next_arena' = na + 1
      \/ na + 1 = N /\ next_arena' = 0
  BY <1>1, <1>2
<1>8. CASE na + 1 < N /\ next_arena' = na + 1
  <2>1. \A a \in Arenas : Cardinality(Of(a)') = IF a < na + 1 THEN n + 1 ELSE n
    <3> TAKE a \in Arenas
    <3>1. a \in Int /\ na \in Int
      BY <1>1
    <3> QED  BY <3>1, <1>3, <1>6
  <2>2. na + 1 \in Arenas
    BY <1>1, <1>8
  <2> QED  BY <2>1, <2>2, <1>8 DEF RoundRobin
<1>9. CASE na + 1 = N /\ next_arena' = 0
  <2>1. \A a \in Arenas : Cardinality(Of(a)') = IF a < 0 THEN (n + 1) + 1 ELSE n + 1
    <3> TAKE a \in Arenas
    <3>1. a \in 0 .. na
      BY <1>1, <1>9
    <3> QED  BY <3>1, <1>3, <1>6
  <2>2. 0 \in Arenas /\ n + 1 \in Nat
    BY <1>1
  <2> QED  BY <2>1, <2>2, <1>9 DEF RoundRobin
<1> QED  BY <1>7, <1>8, <1>9

LEMMA RoundRobinStep ==
  ASSUME IInv, RoundRobin, [Next]_vars
  PROVE  RoundRobin'
<1>1. CASE UNCHANGED state
  BY <1>1 DEF state, RoundRobin, Of
<1>2. ASSUME NEW t \in alive, BootFirst(t) \/ BootSecond(t) \/ OnlyArena(t) \/ Choose(t) \/ arenas_extend(t)
      PROVE  RoundRobin'
  <2>1. t \in Threads
    BY DEF IInv, TypeOK
  <2>2. CASE BootFirst(t)
    <3>1. initializer = Null
      BY <2>1, <2>2, HeadTyped DEF BootFirst, IInv, WorkInv, BootHasLock
    <3> QED  BY <2>2, <3>1 DEF IInv, BootInv, BootFirst, RoundRobin
  <2>3. CASE BootSecond(t)
    <3>1. ~initialized /\ initializer = t /\ arenas # Null
      BY <2>1, <2>3, HeadTyped DEF BootSecond, IInv, WorkInv, ArrayOnce
    <3>2. /\ arena_of[t] = 0 /\ \A u \in Threads : u # t => arena_of[u] = Null
      BY <2>1, <3>1, BootAssumption DEF IInv, BootInv
    <3>3. next_arena' = 1 /\ arena_of' = arena_of
      BY <2>3 DEF BootSecond, SecondArena
    <3>4. \A a \in Arenas : Of(a)' = IF a = 0 THEN {t} ELSE {}
      BY <2>1, <3>2, <3>3, BootAssumption DEF Of, Arenas
    <3>5. Cardinality({t}) = 1 /\ Cardinality({}) = 0
      BY FS_EmptySet, FS_Singleton
    <3>6. ASSUME NEW a \in Arenas PROVE Cardinality(Of(a)') = IF a < 1 THEN 0 + 1 ELSE 0
      <4>1. a \in Nat
        BY DEF Arenas
      <4> QED  BY <4>1, <3>4, <3>5
    <3>7. NArenas > 1 => 1 \in Arenas
      BY BootAssumption DEF Arenas
    <3> QED  BY <3>3, <3>6, <3>7 DEF RoundRobin
  <2>4. CASE OnlyArena(t)
    <3>1. NArenas = 1
      BY <2>1, <2>4, HeadTyped DEF OnlyArena, IInv, WorkInv, FirstOnly
    <3> QED  BY <3>1 DEF RoundRobin
  <2>5. CASE Choose(t)
    <3>1. initialized /\ NArenas > 1 /\ arena_of[t] = Null /\ UNCHANGED <<initialized, punted>>
      BY <2>1, <2>5, Choosing DEF Choose
    <3>2. CASE next_arena \in arenas
      BY <2>1, <2>5, <3>1, <3>2, Dealt DEF Choose, RoundRobin
    <3>3. CASE next_arena \notin arenas
      BY <2>5, <3>1, <3>3 DEF Choose, RoundRobin, Of
    <3> QED  BY <3>2, <3>3
  <2>6. CASE arenas_extend(t)
    <3>1. initialized /\ NArenas > 1 /\ arena_of[t] = Null /\ UNCHANGED <<initialized>>
      BY <2>1, <2>6, Choosing DEF arenas_extend
    <3>2. CASE punted'
      BY <3>2 DEF RoundRobin
    <3>3. CASE ~punted'
      <4>1. ~punted /\ arena_of' = [arena_of EXCEPT ![t] = next_arena]
            /\ next_arena' = (next_arena + 1) % NArenas
        BY <2>6, <3>3 DEF arenas_extend
      <4> QED  BY <2>1, <3>1, <4>1, Dealt
    <3> QED  BY <3>2, <3>3
  <2> QED  BY <1>2, <2>2, <2>3, <2>4, <2>5, <2>6
<1>3. ASSUME NEW t \in alive, malloc(t) \/ CallFork(t) \/ Step(t)
      PROVE  \/ UNCHANGED state
             \/ BootFirst(t) \/ BootSecond(t) \/ OnlyArena(t) \/ Choose(t) \/ arenas_extend(t)
  BY <1>3 DEF Step, malloc, CallFork, Lock, Unlock, EnterInit, Spin, CountCpus, Alloc, Prefork, Fork, state
<1>4. UNCHANGED vars => UNCHANGED state
  BY DEF vars, state
<1> QED  BY <1>1, <1>2, <1>3, <1>4 DEF Next

(* choose_arena_hard deals the arenas out in turn: those before next_arena *)
(* have one thread more than the others, and so no two of them differ by   *)
(* more than one thread, however many threads and arenas there are.        *)
THEOREM ArenasShared == Spec => []SpreadEvenly
<1>1. Init => RoundRobin
  BY DEF Init, RoundRobin
<1>2. IInv /\ RoundRobin => SpreadEvenly
  <2> SUFFICES ASSUME IInv, RoundRobin, initialized, ~punted, NEW a \in Arenas, NEW b \in Arenas
               PROVE  Cardinality(Of(a)) <= 1 + Cardinality(Of(b))
    BY DEF SpreadEvenly, Of
  <2>1. CASE NArenas > 1
    <3>1. PICK n \in Nat : \A c \in Arenas : Cardinality(Of(c)) = IF c < next_arena THEN n + 1 ELSE n
      BY <2>1 DEF RoundRobin
    <3>2. Cardinality(Of(a)) \in {n, n + 1} /\ Cardinality(Of(b)) \in {n, n + 1}
      BY <3>1
    <3> QED  BY <3>2
  <2>2. CASE ~(NArenas > 1)
    <3>1. a = b
      BY <2>2, BootAssumption DEF Arenas
    <3> QED  BY <3>1, OfFinite
  <2> QED  BY <2>1, <2>2
<1>3. Init => IInv
  BY InitInv
<1>4. IInv /\ RoundRobin /\ [Next]_vars => (IInv /\ RoundRobin)'
  BY NextInv, RoundRobinStep
<1> QED  BY <1>1, <1>2, <1>3, <1>4, PTL DEF Spec

=============================================================================
