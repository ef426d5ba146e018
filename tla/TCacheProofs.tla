---------------------------- MODULE TCacheProofs ----------------------------
(***************************************************************************)
(* Proofs about TCache: an object is in one place at any time, the counts  *)
(* of a cache agree with its chains, a bin no longer used drains, and a    *)
(* thread that is gone leaves nothing in a cache, for any number of        *)
(* threads, arenas and objects.                                            *)
(*                                                                         *)
(* A step of a thread changes no other thread's cache and work, so that    *)
(* the inductive invariant is one of each thread by itself: what its work  *)
(* can be (Shape), how a bin agrees with a flush of it that is under way   *)
(* (Agrees), and how its cache, tcache_tls and the key go together (Life). *)
(***************************************************************************)
EXTENDS TCache, FiniteSetTheorems, SequenceTheorems, WellFoundedInduction, TLAPS

Flushes ==
  [op : {"flush"}, arg : Bins, list : Seq(Objects), n : Nat, rem : Nat, first : BOOLEAN]

Tasks ==
  [op : {"malloc", "direct_malloc", "easy", "collected", "empty"}, arg : Bins]
  \cup [op : {"free", "direct_free"}, arg : Objects]
  \cup [op : {"release"}, arg : {"null", "1"}]
  \cup [op : {"thread_arena"}, arg : {Null}]
  \cup Flushes

Marks == {"null", "1", "2", "cache"}

TypeOK ==
  /\ free \in [Arenas -> SUBSET Objects] /\ held \in SUBSET Objects
  /\ arenas \in SUBSET Arenas /\ next_arena \in Arenas
  /\ arena_of \in [Threads -> Arenas \cup {Null}]
  /\ isthreaded \in BOOLEAN
  /\ tls \in [Threads -> Marks] /\ key \in [Threads -> Marks]
  /\ cache \in [Threads -> Caches \cup {Null}]
  /\ work \in [Threads -> Seq(Tasks)]
  /\ round \in [Threads -> Nat] /\ visited \in [Threads -> BOOLEAN]
  /\ cleaned \in SUBSET Threads
  /\ uses \in Programs

-----------------------------------------------------------------------------
(* What a thread has left to do: one task, the last of a destroyed cache,  *)
(* or a flush and then the task that called for it.                        *)

Flushing(w) == w # <<>> /\ w[1].op = "flush"
Rest(w) == IF Flushing(w) THEN Tail(w) ELSE w

Collecting == {<<Do("collected", b)>> : b \in Bins}
Leaving(x) == {Destroy(x), <<Do("empty", "large"), Do("release", x)>>, <<Do("release", x)>>}

(* Tasks that no flush comes before, those at the start of a call.         *)
Calling ==
  {<<>>, <<Do("easy", "small")>>, <<Do("thread_arena", Null)>>}
  \cup {<<Do(op, b)>> : op \in {"malloc", "direct_malloc"}, b \in Bins}
  \cup {<<Do("direct_free", o)>> : o \in Objects}

Freeing == {<<Do("free", o)>> : o \in Objects}

Whole == Calling \cup Freeing \cup Collecting \cup Leaving("null") \cup Leaving("1")

(* The bin that is flushed is the one the next task is about.              *)
After(b) ==
  {<<Do("collected", b)>>} \cup {<<Do("free", o)>> : o \in {p \in Objects : BinOf(p) = b}}
  \cup {IF b = "small" THEN <<Do("empty", "large"), Do("release", x)>> ELSE <<Do("release", x)>> :
          x \in {"null", "1"}}

Shape(w) ==
  /\ Rest(w) \in Whole
  /\ Flushing(w) => w[1] \in Flushes /\ Rest(w) \in After(w[1].arg)

-----------------------------------------------------------------------------
(* The bin b, v, of a thread whose work is w.                              *)
Agrees(w, v, b) ==
  /\ v.low <= v.ncached /\ v.ncached <= CachedMax[b]
  /\ IF Flushing(w) /\ w[1].arg = b
     THEN /\ w[1].rem <= v.ncached
          /\ w[1].first =>
               w[1].list = v.avail /\ v.ncached = Len(v.avail) /\ w[1].n = v.ncached - w[1].rem
          /\ ~w[1].first => Len(v.avail) = w[1].rem /\ w[1].n = Len(w[1].list)
     ELSE \/ v.ncached = Len(v.avail)
          \/ (* arena_tcache_fill_small is under way. *)
             /\ b = "small" /\ w = <<Do("malloc", "small")>>
             /\ v.ncached = 0 /\ Len(v.avail) <= CachedMax[b]

(* The cache c is destroyed: what comes before its release is empty.       *)
Emptied(w, c) ==
  \A x \in {"null", "1"} :
    /\ Flushing(w) /\ Rest(w) \in Leaving(x) => w[1].rem = 0
    /\ Rest(w) = <<Do("release", x)>> => c.bins["small"].avail = <<>>
    /\ w = <<Do("empty", "large"), Do("release", x)>> => c.bins["small"].avail = <<>>
    /\ w = <<Do("release", x)>> => c.bins["large"].avail = <<>>

Kept(w, c) ==
  /\ c.ev_cnt < GcIncr \/ Rest(w) \in Collecting
  /\ \A b \in Bins : Agrees(w, c.bins[b], b)
  /\ Emptied(w, c)

-----------------------------------------------------------------------------
(* How cache, tcache_tls, the key and the rounds of a thread agree.        *)
NeedCache == {"flush", "easy", "collected", "empty", "release"}

Lives(t, w, c, mark, k) ==
  /\ c # Null <=> mark = "cache"
  /\ mark # "null" => isthreaded
  /\ w # <<>> /\ w[1].op \in NeedCache => mark = "cache"
  /\ k = mark \/ (k = "null" /\ (mark = "1" \/ Rest(w) \in Leaving("1")))
  /\ t \in cleaned =>
       /\ round[t] > 0 /\ Rest(w) \notin Leaving("null")
       /\ mark \in {"1", "2"} \/ Rest(w) \in Leaving("1")
  /\ round[t] <= Rounds + 1
  /\ c # Null /\ visited[t] /\ k = "cache" /\ round[t] > 0 => c.born = round[t]
  /\ Dead(t) => w = <<>> /\ (c # Null => t \notin cleaned /\ c.born = Rounds)

Life(t) == Lives(t, work[t], cache[t], tls[t], key[t])

Fits(t) ==
  /\ Shape(work[t])
  /\ cache[t] # Null => Kept(work[t], cache[t])
  /\ Life(t)

IInv == TypeOK /\ \A t \in Threads : Fits(t)

(* Every object has one place.                                             *)
Unique == \A o \in Objects : \E p \in Places : \A q \in Places : o \in In(q) <=> q = p

AtHome == \A a \in Arenas : \A o \in free[a] : Home(o) = a

Simple(t) ==
  /\ cache[t] # Null => \A b \in Bins : IsInjective(cache[t].bins[b].avail)
  /\ Flushing(work[t]) => IsInjective(work[t][1].list)

Partition == Unique /\ AtHome /\ \A t \in Threads : Simple(t)

-----------------------------------------------------------------------------
(* Sequences of tasks.                                                     *)

LEMMA PutFirst ==
  ASSUME NEW S, NEW x \in S, NEW s \in Seq(S)
  PROVE  /\ <<x>> \o s \in Seq(S) /\ <<x>> \o s # <<>>
         /\ Len(<<x>> \o s) = Len(s) + 1
         /\ (<<x>> \o s)[1] = x /\ Tail(<<x>> \o s) = s
         /\ \A k \in 1 .. Len(s) : (<<x>> \o s)[k + 1] = s[k]
<1>0. <<x>> \in Seq(S) /\ Len(<<x>>) = 1 /\ <<x>>[1] = x
  OBVIOUS
<1>1. PICK h \in Seq(S) : h = <<x>> /\ Len(h) = 1 /\ h[1] = x
  BY <1>0
<1>2. PICK w : w = h \o s
  OBVIOUS
<1>3. w \in Seq(S) /\ Len(w) = Len(s) + 1
      /\ \A i \in 1 .. Len(s) + 1 : w[i] = IF i <= 1 THEN h[1] ELSE s[i - 1]
  BY <1>1, <1>2, ConcatProperties
<1>4. Len(s) \in Nat
  OBVIOUS
<1>5. w # <<>> /\ w[1] = x
  BY <1>1, <1>3, <1>4
<1>6. \A k \in 1 .. Len(s) : w[k + 1] = s[k]
  BY <1>3, <1>4
<1>7. Tail(w) \in Seq(S) /\ Len(Tail(w)) = Len(s) /\ \A i \in 1 .. Len(Tail(w)) : Tail(w)[i] = w[i + 1]
  BY <1>3, <1>4, <1>5, HeadTailProperties
<1>8. Tail(w) = s
  BY <1>6, <1>7, SeqEqual
<1> QED  BY <1>1, <1>2, <1>3, <1>5, <1>6, <1>8

LEMMA Tuples ==
  ASSUME NEW S, NEW x \in S, NEW y \in S, NEW z \in S
  PROVE  /\ <<x>> \in Seq(S) /\ <<x, y>> \in Seq(S) /\ <<x, y, z>> \in Seq(S)
         /\ Tail(<<x>>) = <<>> /\ Tail(<<x, y>>) = <<y>> /\ Tail(<<x, y, z>>) = <<y, z>>
         /\ <<x>> # <<>> /\ <<x, y>> # <<>> /\ <<x, y, z>> # <<>>
<1>1. <<x>> \in Seq(S) /\ <<x, y>> \in Seq(S) /\ <<x, y, z>> \in Seq(S)
  OBVIOUS
<1>2. Tail(<<x>>) = <<>> /\ Tail(<<x, y>>) = <<y>>
  OBVIOUS
<1>3. Tail(<<x, y, z>>) = <<y, z>>
  OBVIOUS
<1>4. <<x>> # <<>> /\ <<x, y>> # <<>> /\ <<x, y, z>> # <<>>
  OBVIOUS
<1> QED  BY <1>1, <1>2, <1>3, <1>4

LEMMA One ==
  ASSUME NEW op, NEW arg
  PROVE  /\ <<Do(op, arg)>> # <<>>
         /\ <<Do(op, arg)>>[1].op = op /\ <<Do(op, arg)>>[1].arg = arg
BY DEF Do

LEMMA DoTasks ==
  /\ \A op \in {"malloc", "direct_malloc", "easy", "collected", "empty"}, b \in Bins :
       Do(op, b) \in Tasks
  /\ \A op \in {"free", "direct_free"}, o \in Objects : Do(op, o) \in Tasks
  /\ \A x \in {"null", "1"} : Do("release", x) \in Tasks
  /\ Do("thread_arena", Null) \in Tasks
  /\ Flushes \subseteq Tasks
BY DEF Tasks, Do

(* What the first task of a thread says of the others.                     *)
LEMMA Heads ==
  ASSUME NEW w \in Whole, w # <<>>
  PROVE  /\ w \in Seq(Tasks) /\ w[1].op # "flush"
         /\ w[1].op \in {"malloc", "direct_malloc", "collected"} =>
              w[1].arg \in Bins /\ w = <<Do(w[1].op, w[1].arg)>>
         /\ w[1].op \in {"free", "direct_free"} =>
              w[1].arg \in Objects /\ w = <<Do(w[1].op, w[1].arg)>>
         /\ w[1].op = "easy" => w = <<Do("easy", "small")>>
         /\ w[1].op = "thread_arena" => w = <<Do("thread_arena", Null)>>
         /\ w[1].op = "release" =>
              w[1].arg \in {"null", "1"} /\ w = <<Do("release", w[1].arg)>>
         /\ w[1].op = "empty" =>
              \E x \in {"null", "1"} : \/ w[1].arg = "small" /\ w = Destroy(x)
                                       \/ /\ w[1].arg = "large"
                                          /\ w = <<Do("empty", "large"), Do("release", x)>>
<1>1. ASSUME NEW op \in {"malloc", "direct_malloc", "collected"}, NEW b \in Bins, w = <<Do(op, b)>>
      PROVE  /\ w \in Seq(Tasks) /\ w[1].op = op /\ w[1].arg \in Bins
             /\ w = <<Do(w[1].op, w[1].arg)>>
  <2>1. Do(op, b) \in Tasks
    BY DoTasks
  <2> QED  BY <1>1, <2>1, One
<1>2. ASSUME NEW op \in {"free", "direct_free"}, NEW o \in Objects, w = <<Do(op, o)>>
      PROVE  /\ w \in Seq(Tasks) /\ w[1].op = op /\ w[1].arg \in Objects
             /\ w = <<Do(w[1].op, w[1].arg)>>
  <2>1. Do(op, o) \in Tasks
    BY DoTasks
  <2> QED  BY <1>2, <2>1, One
<1>3. ASSUME w = <<Do("easy", "small")>>
      PROVE  w \in Seq(Tasks) /\ w[1].op = "easy"
  <2>1. Do("easy", "small") \in Tasks
    BY DoTasks DEF Bins
  <2> QED  BY <1>3, <2>1, One
<1>4. ASSUME w = <<Do("thread_arena", Null)>>
      PROVE  w \in Seq(Tasks) /\ w[1].op = "thread_arena"
  <2>1. Do("thread_arena", Null) \in Tasks
    BY DoTasks
  <2> QED  BY <1>4, <2>1, One
<1>5. ASSUME NEW x \in {"null", "1"}, w = <<Do("release", x)>>
      PROVE  w \in Seq(Tasks) /\ w[1].op = "release" /\ w[1].arg = x
  <2>1. Do("release", x) \in Tasks
    BY DoTasks
  <2> QED  BY <1>5, <2>1, One
<1>6. ASSUME NEW x \in {"null", "1"}, w = <<Do("empty", "large"), Do("release", x)>>
      PROVE  w \in Seq(Tasks) /\ w[1].op = "empty" /\ w[1].arg = "large"
  <2>1. Do("release", x) \in Tasks /\ Do("empty", "large") \in Tasks
    BY DoTasks DEF Bins
  <2>2. w[1] = Do("empty", "large") /\ w \in Seq(Tasks)
    BY <1>6, <2>1
  <2> QED  BY <2>2 DEF Do
<1>7. ASSUME NEW x \in {"null", "1"}, w = Destroy(x)
      PROVE  w \in Seq(Tasks) /\ w[1].op = "empty" /\ w[1].arg = "small"
  <2>1. Do("release", x) \in Tasks /\ Do("empty", "large") \in Tasks /\ Do("empty", "small") \in Tasks
    BY DoTasks DEF Bins
  <2>2. w[1] = Do("empty", "small") /\ w \in Seq(Tasks)
    BY <1>7, <2>1 DEF Destroy
  <2> QED  BY <2>2 DEF Do
<1>8. CASE \E op \in {"malloc", "direct_malloc", "collected"}, b \in Bins : w = <<Do(op, b)>>
  BY <1>1, <1>8
<1>9. CASE \E op \in {"free", "direct_free"}, o \in Objects : w = <<Do(op, o)>>
  BY <1>2, <1>9
<1>10. CASE w = <<Do("easy", "small")>>
  BY <1>3, <1>10
<1>11. CASE w = <<Do("thread_arena", Null)>>
  BY <1>4, <1>11
<1>12. ASSUME NEW x \in {"null", "1"}, w \in Leaving(x)
       PROVE  \/ w = <<Do("release", x)>>
              \/ w = <<Do("empty", "large"), Do("release", x)>> \/ w = Destroy(x)
  BY <1>12 DEF Leaving
<1>13. CASE \E x \in {"null", "1"} : w = <<Do("release", x)>>
  BY <1>5, <1>13
<1>14. CASE \E x \in {"null", "1"} : w = <<Do("empty", "large"), Do("release", x)>>
  BY <1>6, <1>14
<1>15. CASE \E x \in {"null", "1"} : w = Destroy(x)
  BY <1>7, <1>15
<1>16. CASE w \in Leaving("null") \/ w \in Leaving("1")
  BY <1>12, <1>13, <1>14, <1>15, <1>16
<1>17. CASE w \in Calling \cup Freeing \cup Collecting
  BY <1>8, <1>9, <1>10, <1>11, <1>17 DEF Calling, Freeing, Collecting
<1> QED  BY <1>16, <1>17 DEF Whole

LEMMA AfterWhole ==
  ASSUME NEW b \in Bins, NEW r \in After(b)
  PROVE  r \in Whole /\ r # <<>>
<1>1. CASE r = <<Do("collected", b)>>
  BY <1>1 DEF Whole, Collecting
<1>2. CASE r \in {<<Do("free", o)>> : o \in {p \in Objects : BinOf(p) = b}}
  BY <1>2 DEF Whole, Freeing
<1>3. ASSUME NEW x \in {"null", "1"}, r \in Leaving(x) 
      PROVE  r \in Whole /\ r # <<>>
  BY <1>3 DEF Whole, Leaving, Destroy
<1>4. CASE \E x \in {"null", "1"} :
             r = IF b = "small" THEN <<Do("empty", "large"), Do("release", x)>>
                 ELSE <<Do("release", x)>>
  BY <1>3, <1>4 DEF Leaving
<1> QED  BY <1>1, <1>2, <1>4 DEF After

LEMMA WholeShape ==
  ASSUME NEW w \in Whole
  PROVE  w \in Seq(Tasks) /\ ~Flushing(w) /\ Rest(w) = w /\ Shape(w)
<1>1. <<>> \in Seq(Tasks)
  OBVIOUS
<1>2. w \in Seq(Tasks) /\ ~Flushing(w)
  BY <1>1, Heads DEF Flushing
<1> QED  BY <1>2 DEF Rest, Shape

LEMMA FlushShape ==
  ASSUME NEW f \in Flushes, NEW r \in After(f.arg)
  PROVE  /\ <<f>> \o r \in Seq(Tasks) /\ <<f>> \o r # <<>> /\ (<<f>> \o r)[1] = f
         /\ Flushing(<<f>> \o r) /\ Rest(<<f>> \o r) = r /\ Shape(<<f>> \o r)
         /\ r \in Whole
<1>1. f.arg \in Bins /\ f \in Tasks /\ f.op = "flush"
  BY DEF Flushes, Tasks
<1>2. r \in Whole /\ r \in Seq(Tasks)
  BY <1>1, AfterWhole, WholeShape
<1>3. /\ <<f>> \o r \in Seq(Tasks) /\ <<f>> \o r # <<>> /\ (<<f>> \o r)[1] = f
      /\ Tail(<<f>> \o r) = r
  BY <1>1, <1>2, PutFirst
<1> QED  BY <1>1, <1>2, <1>3 DEF Flushing, Rest, Shape

(* The last tasks differ in their first.                                   *)
LEMMA LastTasks ==
  ASSUME NEW w
  PROVE  /\ w \in Collecting => w # <<>> /\ w[1].op = "collected"
         /\ \A x \in {"null", "1"} :
              w \in Leaving(x) => w # <<>> /\ w[1].op \in {"empty", "release"}
         /\ ~(w \in Leaving("null") /\ w \in Leaving("1"))
<1>1. w \in Collecting => w # <<>> /\ w[1].op = "collected"
  BY DEF Collecting, Do
<1>2. \A x \in {"null", "1"} : w \in Leaving(x) => w # <<>> /\ w[1].op \in {"empty", "release"}
  BY DEF Leaving, Do, Destroy
<1>3. ASSUME NEW x, w \in Leaving(x) PROVE w[Len(w)].arg = x
  <2>1. CASE w = Destroy(x)
    BY <2>1 DEF Destroy, Do
  <2>2. CASE w = <<Do("empty", "large"), Do("release", x)>>
    BY <2>2 DEF Do
  <2>3. CASE w = <<Do("release", x)>>
    BY <2>3 DEF Do
  <2> QED  BY <1>3, <2>1, <2>2, <2>3 DEF Leaving
<1> QED  BY <1>1, <1>2, <1>3

-----------------------------------------------------------------------------
(* The steps of a thread change its own cache, work and marks only.        *)

LEMMA ThreadStep ==
  ASSUME IInv, NEW t \in Threads,
         NEW w \in Seq(Tasks), NEW c \in Caches \cup {Null}, NEW m \in Marks, NEW k \in Marks,
         work' = [work EXCEPT ![t] = w], cache' = [cache EXCEPT ![t] = c],
         tls' = [tls EXCEPT ![t] = m], key' = [key EXCEPT ![t] = k],
         free' \in [Arenas -> SUBSET Objects], held' \in SUBSET Objects,
         arenas' \in SUBSET Arenas, next_arena' \in Arenas,
         arena_of' \in [Threads -> Arenas \cup {Null}],
         UNCHANGED <<isthreaded, uses, rounds>>,
         Shape(w), c # Null => Kept(w, c), Lives(t, w, c, m, k)
  PROVE  IInv'
<1>1. TypeOK'
  <2>1. work' \in [Threads -> Seq(Tasks)] /\ cache' \in [Threads -> Caches \cup {Null}]
        /\ tls' \in [Threads -> Marks] /\ key' \in [Threads -> Marks]
    BY DEF IInv, TypeOK
  <2> QED  BY <2>1 DEF IInv, TypeOK, rounds
<1>2. UNCHANGED <<isthreaded, round, visited, cleaned>>
  BY DEF rounds
<1>3. Fits(t)'
  <2>1. work'[t] = w /\ cache'[t] = c /\ tls'[t] = m /\ key'[t] = k
    BY DEF IInv, TypeOK
  <2>2. Life(t)'
    BY <1>2, <2>1 DEF Life, Lives, Dead
  <2> QED  BY <2>1, <2>2 DEF Fits
<1>4. ASSUME NEW u \in Threads, u # t
      PROVE  Fits(u)'
  <2>1. work'[u] = work[u] /\ cache'[u] = cache[u] /\ tls'[u] = tls[u] /\ key'[u] = key[u]
    BY <1>4 DEF IInv, TypeOK
  <2>2. Fits(u)
    BY DEF IInv
  <2>3. Life(u)'
    BY <1>2, <2>1, <2>2 DEF Fits, Life, Lives, Dead
  <2> QED  BY <2>1, <2>2, <2>3 DEF Fits
<1> QED  BY <1>1, <1>3, <1>4 DEF IInv

LEMMA LocalStep ==
  ASSUME IInv, NEW t \in Threads,
         NEW w \in Seq(Tasks), NEW c \in Caches \cup {Null},
         work' = [work EXCEPT ![t] = w], cache' = [cache EXCEPT ![t] = c],
         free' \in [Arenas -> SUBSET Objects], held' \in SUBSET Objects,
         UNCHANGED <<globals, life>>,
         Shape(w), c # Null => Kept(w, c), Lives(t, w, c, tls[t], key[t])
  PROVE  IInv'
<1>1. UNCHANGED <<arenas, next_arena, arena_of, isthreaded, uses, tls, key, rounds>>
  BY DEF globals, life
<1>2. /\ arenas' \in SUBSET Arenas /\ next_arena' \in Arenas
      /\ arena_of' \in [Threads -> Arenas \cup {Null}]
  BY <1>1 DEF IInv, TypeOK
<1>3. tls[t] \in Marks /\ tls' = [tls EXCEPT ![t] = tls[t]]
  BY <1>1 DEF IInv, TypeOK
<1>4. key[t] \in Marks /\ key' = [key EXCEPT ![t] = key[t]]
  BY <1>1 DEF IInv, TypeOK
<1>5. UNCHANGED <<isthreaded, uses, rounds>>
  BY <1>1
<1> QED  BY <1>2, <1>3, <1>4, <1>5, ThreadStep

LEMMA Facts ==
  ASSUME IInv, NEW t \in Threads
  PROVE  /\ work[t] \in Seq(Tasks) /\ cache[t] \in Caches \cup {Null}
         /\ tls[t] \in Marks /\ key[t] \in Marks
         /\ work' = work => work' = [work EXCEPT ![t] = work[t]]
         /\ cache' = cache => cache' = [cache EXCEPT ![t] = cache[t]]
         /\ UNCHANGED free => free' \in [Arenas -> SUBSET Objects]
         /\ UNCHANGED held => held' \in SUBSET Objects
         /\ Shape(work[t])
         /\ cache[t] # Null => Kept(work[t], cache[t])
         /\ Lives(t, work[t], cache[t], tls[t], key[t])
BY DEF IInv, TypeOK, Fits, Life

(* A task that is no flush is the first of what is left, and stands whole. *)
LEMMA Only ==
  ASSUME IInv, NEW t \in Threads, NEW name, Task(t, name), name # "flush"
  PROVE  /\ work[t] \in Whole /\ work[t] # <<>> /\ Rest(work[t]) = work[t]
         /\ ~Flushing(work[t]) /\ ~Dead(t) /\ work[t][1].op = name
<1>1. work[t] # <<>> /\ work[t][1].op = name
  BY DEF Task, Idle
<1>2. ~Flushing(work[t])
  BY <1>1 DEF Flushing
<1>3. work[t] \in Whole
  BY <1>2, Facts DEF Shape, Rest
<1>4. ~Dead(t)
  BY <1>1, Facts DEF Lives
<1> QED  BY <1>1, <1>2, <1>3, <1>4 DEF Rest

LEMMA SameLife ==
  ASSUME NEW t \in Threads, NEW w, NEW c, NEW m, NEW k, NEW v, NEW d,
         Lives(t, w, c, m, k), ~Dead(t), c # Null <=> d # Null, c # Null => d.born = c.born,
         v # <<>> /\ v[1].op \in NeedCache => m = "cache",
         \A x \in {"null", "1"} : Rest(v) \in Leaving(x) <=> Rest(w) \in Leaving(x)
  PROVE  Lives(t, v, d, m, k)
BY DEF Lives

-----------------------------------------------------------------------------
(* A cache between two calls.                                              *)
Binned == [low : Nat, ncached : Nat, avail : Seq(Objects), most : Nat \cup {Null}]

Counted(c) ==
  \A b \in Bins : /\ c.bins[b].low <= c.bins[b].ncached
                  /\ c.bins[b].ncached <= CachedMax[b]
                  /\ c.bins[b].ncached = Len(c.bins[b].avail)

LEMMA CacheTyped ==
  ASSUME NEW c \in Caches
  PROVE  /\ c # Null /\ c.self \in Objects /\ c.arena \in Arenas /\ c.ev_cnt \in Nat
         /\ c.next_gc_bin \in Bins /\ c.born \in Nat
         /\ \A b \in Bins : c.bins[b] \in Binned
BY TCacheAssumption DEF Caches, Binned

LEMMA BinTyped ==
  ASSUME NEW v \in Binned
  PROVE  v.low \in Nat /\ v.ncached \in Nat /\ v.avail \in Seq(Objects) /\ v.most \in Nat \cup {Null}
         /\ Len(v.avail) \in Nat
BY DEF Binned

LEMMA BinSet ==
  ASSUME NEW c \in Caches, NEW b \in Bins, NEW v \in Binned
  PROVE  /\ [c EXCEPT !.bins[b] = v] \in Caches
         /\ [c EXCEPT !.bins[b] = v].bins[b] = v
         /\ \A e \in Bins \ {b} : [c EXCEPT !.bins[b] = v].bins[e] = c.bins[e]
         /\ [c EXCEPT !.bins[b] = v].ev_cnt = c.ev_cnt
         /\ [c EXCEPT !.bins[b] = v].next_gc_bin = c.next_gc_bin
         /\ [c EXCEPT !.bins[b] = v].born = c.born
         /\ [c EXCEPT !.bins[b] = v].self = c.self
         /\ [c EXCEPT !.bins[b] = v].arena = c.arena
BY DEF Caches, Binned

LEMMA Limits ==
  /\ \A b \in Bins : CachedMax[b] \in Nat /\ CachedMax[b] >= 2
  /\ GcIncr \in Nat /\ GcIncr >= 1 /\ Rounds \in Nat /\ Rounds >= 1
  /\ Null \notin Nat /\ NArenas \in Nat /\ NArenas >= 1
BY TCacheAssumption

LEMMA BinPut ==
  ASSUME NEW c \in Caches, NEW b \in Bins, NEW v \in Binned
  PROVE  \E d \in Caches :
           /\ d = [c EXCEPT !.bins[b] = v] /\ d.bins[b] = v
           /\ \A e \in Bins \ {b} : d.bins[e] = c.bins[e]
           /\ d.ev_cnt = c.ev_cnt /\ d.next_gc_bin = c.next_gc_bin
           /\ d.born = c.born /\ d.self = c.self /\ d.arena = c.arena
<1>1. PICK d : d = [c EXCEPT !.bins[b] = v]
  OBVIOUS
<1>2. /\ d \in Caches /\ d.bins[b] = v /\ \A e \in Bins \ {b} : d.bins[e] = c.bins[e]
      /\ d.ev_cnt = c.ev_cnt /\ d.next_gc_bin = c.next_gc_bin
      /\ d.born = c.born /\ d.self = c.self /\ d.arena = c.arena
  BY <1>1, BinSet
<1> QED  BY <1>1, <1>2

(* The start of a call leaves a cache as the end of the last one left it.  *)
LEMMA Settle ==
  ASSUME NEW c, Counted(c), c.ev_cnt < GcIncr,
         NEW w \in Calling \cup Freeing \cup {Destroy("null"), Destroy("1")}
  PROVE  Kept(w, c) /\ Shape(w) /\ Rest(w) = w /\ w \in Seq(Tasks)
<1>1. w \in Whole
  BY DEF Whole, Leaving
<1>2. ~Flushing(w) /\ Rest(w) = w /\ Shape(w) /\ w \in Seq(Tasks)
  BY <1>1, WholeShape
<1>3. \A b \in Bins : Agrees(w, c.bins[b], b)
  BY <1>2 DEF Agrees, Counted
<1>4. \A x \in {"null", "1"} : w # <<Do("release", x)>> /\ w # <<Do("empty", "large"), Do("release", x)>>
  BY DEF Calling, Freeing, Destroy, Do
<1> QED  BY <1>2, <1>3, <1>4 DEF Kept, Emptied

LEMMA Settled ==
  ASSUME NEW c, NEW w \in Whole, Kept(w, c), w # <<Do("malloc", "small")>>
  PROVE  Counted(c) /\ (w \notin Collecting => c.ev_cnt < GcIncr)
<1>1. ~Flushing(w) /\ Rest(w) = w
  BY WholeShape
<1> QED  BY <1>1 DEF Kept, Agrees, Counted

LEMMA FlushTyped ==
  ASSUME NEW b \in Bins, NEW v \in Binned, NEW rem \in Nat, rem <= v.ncached
  PROVE  /\ Flush(b, v, rem) \in Flushes
         /\ Flush(b, v, rem).arg = b /\ Flush(b, v, rem).list = v.avail
         /\ Flush(b, v, rem).n = v.ncached - rem /\ Flush(b, v, rem).rem = rem
         /\ Flush(b, v, rem).first
<1>1. v.ncached \in Nat /\ v.avail \in Seq(Objects)
  BY BinTyped
<1>2. v.ncached - rem \in Nat
  BY <1>1
<1> QED  BY <1>1, <1>2 DEF Flush, Flushes

(* A flush that begins agrees with its bin, and the other bin is as it was. *)
Then(f, r) == <<f>> \o r

LEMMA FlushBegins ==
  ASSUME NEW b \in Bins, NEW v \in Binned, NEW rem \in Nat, rem <= v.ncached, NEW r \in After(b)
  PROVE  /\ Then(Flush(b, v, rem), r) \in Seq(Tasks) /\ Shape(Then(Flush(b, v, rem), r))
         /\ Flushing(Then(Flush(b, v, rem), r)) /\ Rest(Then(Flush(b, v, rem), r)) = r
         /\ Then(Flush(b, v, rem), r) # <<>>
         /\ Then(Flush(b, v, rem), r)[1] = Flush(b, v, rem)
<1>1. PICK f \in Flushes : f = Flush(b, v, rem) /\ f.arg = b
  BY FlushTyped
<1>2. PICK w : w = <<f>> \o r /\ r \in After(f.arg)
  BY <1>1
<1>3. w \in Seq(Tasks) /\ Shape(w) /\ Flushing(w) /\ Rest(w) = r /\ w # <<>> /\ w[1] = f
  BY <1>2, FlushShape
<1> QED  BY <1>1, <1>2, <1>3 DEF Then

LEMMA FlushAgrees ==
  ASSUME NEW c, Counted(c), NEW b \in Bins, NEW v \in Binned, v = c.bins[b],
         NEW rem \in Nat, rem <= v.ncached,
         NEW w, Flushing(w), w[1] = Flush(b, v, rem)
  PROVE  \A e \in Bins : Agrees(w, c.bins[e], e)
<1>1. /\ w[1].arg = b /\ w[1].list = v.avail
      /\ w[1].n = v.ncached - rem /\ w[1].rem = rem /\ w[1].first
  BY FlushTyped
<1> QED  BY <1>1 DEF Agrees, Counted

LEMMA CountSet ==
  ASSUME NEW c \in Caches, NEW n \in Nat
  PROVE  /\ [c EXCEPT !.ev_cnt = n] \in Caches
         /\ [c EXCEPT !.ev_cnt = n].bins = c.bins
         /\ [c EXCEPT !.ev_cnt = n].born = c.born
         /\ [c EXCEPT !.ev_cnt = n].self = c.self
         /\ [c EXCEPT !.ev_cnt = n].ev_cnt = n
BY DEF Caches

LEMMA CountUp ==
  ASSUME NEW c \in Caches, NEW d, d = [c EXCEPT !.ev_cnt = @ + 1]
  PROVE  /\ d \in Caches /\ d.bins = c.bins /\ d.born = c.born /\ d.self = c.self
         /\ d.ev_cnt = c.ev_cnt + 1
<1>1. c.ev_cnt + 1 \in Nat
  BY CacheTyped
<1> QED  BY <1>1, CountSet

LEMMA KeepBounds ==
  ASSUME NEW v \in Binned, v.low <= v.ncached
  PROVE  Keep(v) \in Nat /\ Keep(v) <= v.ncached
<1>1. v.low \in Nat /\ v.ncached \in Nat
  BY BinTyped
<1>2. v.low \div 4 \in Nat /\ v.low \div 4 <= v.low
  BY <1>1
<1> QED  BY <1>1, <1>2 DEF Keep

(* tcache_event leaves the call ended, or a collection to do.              *)
LEMMA EventStep ==
  ASSUME IInv, NEW t \in Threads, work[t] # <<>>, Rest(work[t]) \notin Leaving("null"),
         Rest(work[t]) \notin Leaving("1"), cache[t] # Null,
         NEW c \in Caches, Counted(c), c.born = cache[t].born, tcache_event(t, c),
         free' \in [Arenas -> SUBSET Objects], held' \in SUBSET Objects,
         UNCHANGED <<globals, life>>
  PROVE  IInv'
<1>1. PICK d : d = [c EXCEPT !.ev_cnt = @ + 1]
  OBVIOUS
<1>2. d \in Caches /\ d.bins = c.bins /\ d.born = c.born /\ d.ev_cnt = c.ev_cnt + 1
  BY <1>1, CountUp
<1>3. Counted(d) /\ d # Null
  BY <1>2, CacheTyped DEF Counted
<1>4. ~Dead(t) /\ Lives(t, work[t], cache[t], tls[t], key[t]) /\ tls[t] = "cache"
  BY Facts DEF Lives
<1>5. ASSUME NEW w, Rest(w) \notin Leaving("null"), Rest(w) \notin Leaving("1")
      PROVE  Lives(t, w, d, tls[t], key[t])
  BY <1>2, <1>3, <1>4, <1>5, SameLife
<1>6. cache' = [cache EXCEPT ![t] = d]
  BY <1>1 DEF tcache_event
<1>7. CASE c.ev_cnt + 1 < GcIncr
  <2>1. work' = [work EXCEPT ![t] = <<>>]
    BY <1>7 DEF tcache_event, Does
  <2>2. <<>> \in Calling
    BY DEF Calling
  <2>3. Kept(<<>>, d) /\ Shape(<<>>) /\ Rest(<<>>) = <<>> /\ <<>> \in Seq(Tasks)
    BY <1>2, <1>3, <1>7, <2>2, Settle
  <2>4. Rest(<<>>) \notin Leaving("null") /\ Rest(<<>>) \notin Leaving("1")
    BY <2>3, LastTasks
  <2> QED  BY <1>2, <1>5, <1>6, <2>1, <2>3, <2>4, LocalStep
<1>8. CASE ~(c.ev_cnt + 1 < GcIncr)
  <2>1. PICK gc \in Bins, v \in Binned : gc = c.next_gc_bin /\ v = c.bins[gc]
    BY CacheTyped
  <2>2. PICK r : r = <<Do("collected", gc)>>
    OBVIOUS
  <2>3. r \in Collecting /\ r \in After(gc) /\ r \in Whole
    BY <2>2 DEF Collecting, After, Whole
  <2>4. work' = [work EXCEPT ![t] = (IF v.low > 0 THEN <<Flush(gc, v, Keep(v))>> ELSE <<>>) \o r]
    BY <1>8, <2>1, <2>2 DEF tcache_event, Does
  <2>5. r \notin Leaving("null") /\ r \notin Leaving("1") /\ r \in Seq(Tasks)
    BY <2>3, LastTasks, WholeShape
  <2>6. \A x \in {"null", "1"} : r # <<Do("release", x)>> /\ r # <<Do("empty", "large"), Do("release", x)>>
    BY <2>5 DEF Leaving
  <2>7. CASE v.low > 0
    <3>1. PICK rem \in Nat : rem = Keep(v) /\ rem <= v.ncached
      BY <2>1, KeepBounds DEF Counted
    <3>2. PICK w : w = Then(Flush(gc, v, rem), r)
      OBVIOUS
    <3>3. /\ \A e \in Bins : Agrees(w, c.bins[e], e)
          /\ w \in Seq(Tasks) /\ Shape(w) /\ Flushing(w) /\ Rest(w) = r
      <4>1. v = c.bins[gc] /\ rem <= v.ncached /\ r \in After(gc)
        BY <2>1, <2>3, <3>1
      <4>2. w \in Seq(Tasks) /\ Shape(w) /\ Flushing(w) /\ Rest(w) = r /\ w[1] = Flush(gc, v, rem)
        BY <4>1, <3>2, FlushBegins
      <4> QED  BY <4>1, <4>2, FlushAgrees
    <3>4. \A x \in {"null", "1"} : w # <<Do("release", x)>> /\ w # <<Do("empty", "large"), Do("release", x)>>
      BY <3>3 DEF Flushing, Do
    <3>5. Emptied(w, d)
      BY <2>5, <2>6, <3>3, <3>4 DEF Emptied
    <3>6. Kept(w, d)
      BY <1>2, <2>3, <3>3, <3>5 DEF Kept
    <3>7. work' = [work EXCEPT ![t] = w]
      BY <2>4, <2>7, <3>1, <3>2 DEF Then
    <3>8. Lives(t, w, d, tls[t], key[t])
      BY <1>5, <2>5, <3>3
    <3> QED  BY <1>2, <1>6, <3>3, <3>6, <3>7, <3>8, LocalStep
  <2>8. CASE ~(v.low > 0)
    <3>1. work' = [work EXCEPT ![t] = r]
      BY <2>4, <2>5, <2>8, ConcatEmptySeq
    <3>2. Shape(r) /\ Rest(r) = r /\ ~Flushing(r)
      BY <2>3, WholeShape
    <3>3. \A b \in Bins : Agrees(r, d.bins[b], b)
      BY <1>3, <3>2 DEF Agrees, Counted
    <3>4. Kept(r, d)
      BY <2>3, <2>5, <2>6, <3>2, <3>3 DEF Kept, Emptied
    <3>5. Lives(t, r, d, tls[t], key[t])
      BY <1>5, <2>5, <3>2
    <3> QED  BY <1>2, <1>6, <2>5, <3>1, <3>2, <3>4, <3>5, LocalStep
  <2> QED  BY <2>7, <2>8
<1> QED  BY <1>7, <1>8

-----------------------------------------------------------------------------
(* The steps, one lemma for each action.                                   *)

LEMMA IdleFacts ==
  ASSUME IInv, NEW t \in Threads, Idle(t)
  PROVE  /\ work[t] = <<>> /\ work[t] \in Whole /\ Rest(work[t]) = work[t]
         /\ Rest(work[t]) \notin Leaving("null") /\ Rest(work[t]) \notin Leaving("1")
         /\ cache[t] # Null => Counted(cache[t]) /\ cache[t].ev_cnt < GcIncr
<1>1. work[t] = <<>>
  BY DEF Idle
<1>2. work[t] \in Whole
  BY <1>1 DEF Whole, Calling
<1>3. Rest(work[t]) = work[t]
  BY <1>2, WholeShape
<1>4. work[t] \notin Leaving("null") /\ work[t] \notin Leaving("1") /\ work[t] \notin Collecting
  BY <1>1, LastTasks
<1>5. ASSUME cache[t] # Null PROVE Counted(cache[t]) /\ cache[t].ev_cnt < GcIncr
  <2>1. Kept(work[t], cache[t])
    BY <1>5, Facts
  <2>2. work[t] # <<Do("malloc", "small")>>
    BY <1>1
  <2> QED  BY <1>2, <1>4, <2>1, <2>2, Settled
<1> QED  BY <1>1, <1>2, <1>3, <1>4, <1>5

LEMMA CallStep ==
  ASSUME IInv, NEW t \in Threads, Idle(t), ~Dead(t),
         NEW w \in Calling \cup Freeing \cup {Destroy("null")}, Does(t, w),
         w # <<>> /\ w[1].op \in NeedCache => tls[t] = "cache",
         w = Destroy("null") => t \notin cleaned,
         held' \in SUBSET Objects,
         UNCHANGED <<free, cache, globals, life>>
  PROVE  IInv'
<1>1. work' = [work EXCEPT ![t] = w]
  BY DEF Does
<1>2. Shape(w) /\ Rest(w) = w /\ w \in Seq(Tasks)
  <2>1. w \in Whole
    BY DEF Whole, Leaving
  <2> QED  BY <2>1, WholeShape
<1>3. cache[t] # Null => Kept(w, cache[t])
  BY IdleFacts, Settle
<1>4. w \notin Leaving("1") /\ (w \in Leaving("null") => w = Destroy("null"))
  <2>1. CASE w = Destroy("null")
    <3>1. w \in Leaving("null")
      BY <2>1 DEF Leaving
    <3> QED  BY <2>1, <3>1, LastTasks
  <2>2. CASE w \in Calling \cup Freeing
    <3>1. w # <<>> => w[1].op # "empty" /\ w[1].op # "release"
      BY <2>2 DEF Calling, Freeing, Do
    <3> QED  BY <3>1, LastTasks
  <2> QED  BY <2>1, <2>2
<1>5. Lives(t, w, cache[t], tls[t], key[t])
  <2>1. Lives(t, work[t], cache[t], tls[t], key[t])
    BY Facts
  <2>2. Rest(work[t]) \notin Leaving("null") /\ Rest(work[t]) \notin Leaving("1")
    BY IdleFacts
  <2> QED  BY <1>2, <1>4, <2>1, <2>2 DEF Lives
<1> QED  BY <1>1, <1>2, <1>3, <1>5, Facts, LocalStep

LEMMA mallocStep ==
  ASSUME IInv, NEW t \in Threads, NEW b \in Bins, malloc(t, b)
  PROVE  IInv'
<1>1. <<Do("malloc", b)>> \in Calling /\ <<Do("malloc", b)>>[1].op = "malloc"
  BY One DEF Calling
<1>2. <<Do("malloc", b)>> # Destroy("null")
  BY DEF Destroy
<1>3. Idle(t) /\ ~Dead(t) /\ Does(t, <<Do("malloc", b)>>) /\ UNCHANGED <<free, held, cache, globals, life>>
  BY DEF malloc, Calls
<1>4. held' \in SUBSET Objects
  BY <1>3 DEF IInv, TypeOK
<1> QED  BY <1>1, <1>2, <1>3, <1>4, CallStep DEF NeedCache

LEMMA FreeObjectStep ==
  ASSUME IInv, NEW t \in Threads, NEW o \in Objects, FreeObject(t, o)
  PROVE  IInv'
<1>1. <<Do("free", o)>> \in Freeing /\ <<Do("free", o)>>[1].op = "free"
  BY One DEF Freeing
<1>2. <<Do("free", o)>> # Destroy("null")
  BY DEF Destroy
<1>3. /\ Idle(t) /\ ~Dead(t) /\ Does(t, <<Do("free", o)>>) /\ held' = held \ {o}
      /\ UNCHANGED <<free, cache, globals, life>>
  BY DEF FreeObject, Calls
<1>4. held' \in SUBSET Objects
  BY <1>3 DEF IInv, TypeOK
<1> QED  BY <1>1, <1>2, <1>3, <1>4, CallStep DEF NeedCache

LEMMA CallThreadArenaStep ==
  ASSUME IInv, NEW t \in Threads, CallThreadArena(t)
  PROVE  IInv'
<1>1. <<Do("thread_arena", Null)>> \in Calling /\ <<Do("thread_arena", Null)>>[1].op = "thread_arena"
  BY One DEF Calling
<1>2. <<Do("thread_arena", Null)>> # Destroy("null")
  BY DEF Destroy
<1>3. /\ Idle(t) /\ ~Dead(t) /\ Does(t, <<Do("thread_arena", Null)>>)
      /\ UNCHANGED <<free, held, cache, globals, life>>
  BY DEF CallThreadArena, Calls
<1>4. held' \in SUBSET Objects
  BY <1>3 DEF IInv, TypeOK
<1> QED  BY <1>1, <1>2, <1>3, <1>4, CallStep DEF NeedCache

LEMMA tcache_flush_ctlStep ==
  ASSUME IInv, NEW t \in Threads, tcache_flush_ctl(t)
  PROVE  IInv'
<1>1. /\ Idle(t) /\ ~Dead(t) /\ Does(t, Destroy("null")) /\ round[t] = 0 /\ tls[t] = "cache"
      /\ UNCHANGED <<free, held, cache, globals, life>>
  BY DEF tcache_flush_ctl, Calls
<1>2. held' \in SUBSET Objects
  BY <1>1 DEF IInv, TypeOK
<1>3. t \notin cleaned
  BY <1>1, Facts DEF Lives
<1> QED  BY <1>1, <1>2, <1>3, CallStep

LEMMA NotLeaving ==
  ASSUME IInv, NEW t \in Threads, NEW name, Task(t, name), name \notin {"flush", "empty", "release"}
  PROVE  Rest(work[t]) \notin Leaving("null") /\ Rest(work[t]) \notin Leaving("1")
BY Only, LastTasks

(* A task that has nothing to do with a cache becomes another, or ends.    *)
LEMMA Turns ==
  ASSUME IInv, NEW t \in Threads, NEW name, Task(t, name),
         name \in {"malloc", "direct_malloc", "free", "direct_free", "thread_arena"},
         work[t] # <<Do("malloc", "small")>> \/ cache[t] = Null,
         NEW w \in Calling, w # <<>> => w[1].op # "easy"
  PROVE  /\ w \in Seq(Tasks) /\ Shape(w) /\ (cache[t] # Null => Kept(w, cache[t]))
         /\ Lives(t, w, cache[t], tls[t], key[t])
<1>1. w \in Whole
  BY DEF Whole
<1>2. Shape(w) /\ Rest(w) = w /\ w \in Seq(Tasks)
  BY <1>1, WholeShape
<1>3. ASSUME cache[t] # Null PROVE Kept(w, cache[t])
  <2>1. work[t] \in Whole /\ Kept(work[t], cache[t])
    BY <1>3, Only, Facts
  <2>2. work[t] \notin Collecting
    BY Only, LastTasks
  <2>3. Counted(cache[t]) /\ cache[t].ev_cnt < GcIncr
    BY <1>3, <2>1, <2>2, Settled
  <2> QED  BY <2>3, Settle
<1>4. w # <<>> => w[1].op \notin NeedCache
  BY One DEF Calling, NeedCache
<1>5. w \notin Leaving("null") /\ w \notin Leaving("1")
  BY <1>4, LastTasks DEF NeedCache
<1>6. Lives(t, w, cache[t], tls[t], key[t])
  <2>1. Lives(t, work[t], cache[t], tls[t], key[t]) /\ ~Dead(t)
    BY Facts, Only
  <2>2. \A x \in {"null", "1"} : Rest(w) \in Leaving(x) <=> Rest(work[t]) \in Leaving(x)
    BY <1>2, <1>5, NotLeaving
  <2> QED  BY <1>4, <2>1, <2>2, SameLife
<1> QED  BY <1>2, <1>3, <1>6

LEMMA EndsAlone ==
  ASSUME IInv, NEW t \in Threads, NEW name, Task(t, name),
         name \in {"malloc", "direct_malloc", "free", "direct_free", "thread_arena"},
         work[t] # <<Do("malloc", "small")>> \/ cache[t] = Null
  PROVE  /\ <<>> \in Seq(Tasks) /\ Shape(<<>>) /\ (cache[t] # Null => Kept(<<>>, cache[t]))
         /\ Lives(t, <<>>, cache[t], tls[t], key[t])
<1>1. PICK w \in Calling : w = <<>>
  BY DEF Calling
<1>2. w # <<>> => w[1].op # "easy"
  BY <1>1
<1>3. /\ w \in Seq(Tasks) /\ Shape(w) /\ (cache[t] # Null => Kept(w, cache[t]))
      /\ Lives(t, w, cache[t], tls[t], key[t])
  BY <1>2, Turns
<1> QED  BY <1>1, <1>3

LEMMA LeastNumber ==
  ASSUME NEW S, S # {}, S \subseteq Nat
  PROVE  \E n \in S : \A m \in S : n <= m
<1>1. PICK k \in S : \A m \in S : ~(<<m, k>> \in OpToRel(<, Nat))
  BY NatLessThanWellFounded, WFMin
<1>2. ASSUME NEW m \in S PROVE k <= m
  <2>1. m \in Nat /\ k \in Nat
    OBVIOUS
  <2>2. ~(m < k)
    BY <1>1, <2>1 DEF OpToRel
  <2> QED  BY <2>1, <2>2
<1> QED  BY <1>2

(* What may be given to an arena, or taken from one.                       *)
LEMMA FreeTyped ==
  ASSUME IInv, NEW a \in Arenas, NEW os \in SUBSET Objects, GivesTo(a, os) \/ \E o : Takes(a, o)
  PROVE  free' \in [Arenas -> SUBSET Objects]
BY DEF IInv, TypeOK, GivesTo, Takes

LEMMA Next1Typed ==
  ASSUME IInv, NEW a \in Arenas, NEW b, NEW o \in Next1(a, b)
  PROVE  o \in free[a] /\ o \in Objects /\ BinOf(o) = b
<1>1. PICK os \in SUBSET Objects : os = {p \in free[a] : BinOf(p) = b}
  BY DEF IInv, TypeOK
<1>2. os # {} /\ o = CHOOSE p \in os : \A q \in os : p[3] <= q[3]
  BY <1>1 DEF Next1
<1>3. \A n \in {p[3] : p \in os} : n \in Nat
  BY <1>1, TCacheAssumption
<1>4. PICK n \in {p[3] : p \in os} : \A m \in {p[3] : p \in os} : n <= m
  <2>1. PICK S : S = {p[3] : p \in os}
    OBVIOUS
  <2>2. S # {} /\ S \subseteq Nat
    BY <1>2, <1>3, <2>1
  <2>3. \E n \in S : \A m \in S : n <= m
    BY <2>2, LeastNumber
  <2> QED  BY <2>1, <2>3
<1>5. \E p \in os : \A q \in os : p[3] <= q[3]
  BY <1>4
<1>6. o \in os
  BY <1>2, <1>5
<1> QED  BY <1>1, <1>6

LEMMA DirectMallocStep ==
  ASSUME IInv, NEW t \in Threads, DirectMalloc(t)
  PROVE  IInv'
<1>1. Task(t, "direct_malloc") /\ work' = [work EXCEPT ![t] = <<>>] /\ UNCHANGED <<cache, globals, life>>
  BY DEF DirectMalloc, Does
<1>2. <<>> \in Calling
  BY DEF Calling
<1>3. work[t] # <<Do("malloc", "small")>>
  BY <1>1, One DEF Task
<1>4. <<>> \in Seq(Tasks) /\ Shape(<<>>) /\ (cache[t] # Null => Kept(<<>>, cache[t]))
      /\ Lives(t, <<>>, cache[t], tls[t], key[t])
  BY <1>1, <1>3, EndsAlone
<1>5. free' \in [Arenas -> SUBSET Objects] /\ held' \in SUBSET Objects
  <2>1. arena_of[t] \in Arenas
    BY DEF IInv, TypeOK, DirectMalloc
  <2>2. CASE UNCHANGED <<free, held>>
    BY <2>2 DEF IInv, TypeOK
  <2>3. ASSUME NEW o \in Next1(arena_of[t], Arg(t)), Takes(arena_of[t], o), held' = held \cup {o}
        PROVE  free' \in [Arenas -> SUBSET Objects] /\ held' \in SUBSET Objects
    <3>1. o \in Objects
      BY <2>1, <2>3, Next1Typed
    <3> QED  BY <2>1, <2>3, <3>1, FreeTyped DEF IInv, TypeOK
  <2> QED  BY <2>2, <2>3 DEF DirectMalloc
<1> QED  BY <1>1, <1>4, <1>5, Facts, LocalStep

LEMMA HomeTyped == \A o \in Objects : Home(o) \in Arenas /\ BinOf(o) \in Bins
BY TCacheAssumption DEF Home, BinOf

LEMMA DirectFreeStep ==
  ASSUME IInv, NEW t \in Threads, DirectFree(t)
  PROVE  IInv'
<1>1. Task(t, "direct_free") /\ work' = [work EXCEPT ![t] = <<>>] /\ UNCHANGED <<held, cache, globals, life>>
      /\ GivesTo(Home(Arg(t)), {Arg(t)})
  BY DEF DirectFree, Does
<1>2. <<>> \in Calling
  BY DEF Calling
<1>3. work[t] # <<Do("malloc", "small")>>
  BY <1>1, One DEF Task
<1>4. <<>> \in Seq(Tasks) /\ Shape(<<>>) /\ (cache[t] # Null => Kept(<<>>, cache[t]))
      /\ Lives(t, <<>>, cache[t], tls[t], key[t])
  BY <1>1, <1>3, EndsAlone
<1>5. Arg(t) \in Objects
  BY <1>1, Only, Heads DEF Arg
<1>6. free' \in [Arenas -> SUBSET Objects] /\ held' \in SUBSET Objects
  BY <1>1, <1>5, HomeTyped, FreeTyped DEF IInv, TypeOK
<1> QED  BY <1>1, <1>4, <1>6, Facts, LocalStep

LEMMA thread_arena_ctlStep ==
  ASSUME IInv, NEW t \in Threads, thread_arena_ctl(t)
  PROVE  IInv'
<1>1. /\ Task(t, "thread_arena") /\ work' = [work EXCEPT ![t] = <<>>]
      /\ UNCHANGED <<free, held, next_arena, isthreaded, cache, uses, tls, key, rounds>>
  BY DEF thread_arena_ctl, Does, life
<1>2. work[t] # <<Do("malloc", "small")>>
  BY <1>1, One DEF Task
<1>3. <<>> \in Seq(Tasks) /\ Shape(<<>>) /\ (cache[t] # Null => Kept(<<>>, cache[t]))
      /\ Lives(t, <<>>, cache[t], tls[t], key[t])
  BY <1>1, <1>2, EndsAlone
<1>4. /\ arenas' \in SUBSET Arenas /\ next_arena' \in Arenas
      /\ arena_of' \in [Threads -> Arenas \cup {Null}]
  <2>1. PICK newind \in Arenas, made \in BOOLEAN :
          /\ arenas' = IF made THEN arenas \cup {newind} ELSE arenas
          /\ arena_of' = [arena_of EXCEPT ![t] = IF made THEN newind ELSE 0]
    BY DEF thread_arena_ctl
  <2>2. 0 \in Arenas
    BY Limits DEF Arenas
  <2> QED  BY <1>1, <2>1, <2>2 DEF IInv, TypeOK
<1>5. tls' = [tls EXCEPT ![t] = tls[t]] /\ key' = [key EXCEPT ![t] = key[t]]
  BY <1>1 DEF IInv, TypeOK
<1>6. UNCHANGED <<isthreaded, uses, rounds>>
  BY <1>1
<1>7. free' \in [Arenas -> SUBSET Objects] /\ held' \in SUBSET Objects
      /\ cache' = [cache EXCEPT ![t] = cache[t]]
  BY <1>1, Facts
<1>8. PICK w \in Seq(Tasks) : w = <<>>
  BY <1>3
<1>9. PICK c \in Caches \cup {Null}, m \in Marks, k \in Marks : c = cache[t] /\ m = tls[t] /\ k = key[t]
  BY Facts
<1>10. work' = [work EXCEPT ![t] = w] /\ cache' = [cache EXCEPT ![t] = c]
       /\ tls' = [tls EXCEPT ![t] = m] /\ key' = [key EXCEPT ![t] = k]
  BY <1>1, <1>5, <1>7, <1>8, <1>9
<1>11. Shape(w) /\ (c # Null => Kept(w, c)) /\ Lives(t, w, c, m, k)
  BY <1>3, <1>8, <1>9
<1> QED  BY <1>4, <1>6, <1>7, <1>10, <1>11, ThreadStep

LEMMA choose_arena_hardStep ==
  ASSUME IInv, NEW t \in Threads, choose_arena_hard(t)
  PROVE  IInv'
<1>1. UNCHANGED <<free, held, isthreaded, cache, work, uses, tls, key, round, visited, cleaned>>
  BY DEF choose_arena_hard, life, rounds
<1>2. arenas' \in SUBSET Arenas /\ arena_of' \in [Threads -> Arenas \cup {Null}]
  <2>1. PICK made \in BOOLEAN :
          /\ arenas' = IF made THEN arenas \cup {next_arena} ELSE arenas
          /\ arena_of' = [arena_of EXCEPT ![t] = IF made THEN next_arena ELSE 0]
    BY DEF choose_arena_hard
  <2>2. 0 \in Arenas
    BY Limits DEF Arenas
  <2> QED  BY <2>1, <2>2 DEF IInv, TypeOK
<1>3. next_arena' \in Arenas
  <2>1. next_arena' = (next_arena + 1) % NArenas /\ next_arena \in Nat
    BY DEF choose_arena_hard, IInv, TypeOK, Arenas
  <2> QED  BY <2>1, Limits DEF Arenas
<1>4. TypeOK'
  BY <1>1, <1>2, <1>3 DEF IInv, TypeOK
<1>5. ASSUME NEW u \in Threads PROVE Fits(u)'
  BY <1>1 DEF IInv, Fits, Life, Lives, Dead
<1> QED  BY <1>4, <1>5 DEF IInv

LEMMA pthread_createStep ==
  ASSUME IInv, NEW t \in Threads, pthread_create(t)
  PROVE  IInv'
<1>1. UNCHANGED <<free, held, arenas, next_arena, arena_of, cache, work, uses, tls, key,
                  round, visited, cleaned>> /\ isthreaded' = TRUE
  BY DEF pthread_create, life, rounds
<1>2. TypeOK'
  BY <1>1 DEF IInv, TypeOK
<1>3. ASSUME NEW u \in Threads PROVE Fits(u)'
  BY <1>1 DEF IInv, Fits, Life, Lives, Dead
<1> QED  BY <1>2, <1>3 DEF IInv

(* A call goes on without a cache.                                         *)
LEMMA UncachedIs ==
  ASSUME IInv, NEW t \in Threads, Task(t, "malloc") \/ Task(t, "free")
  PROVE  \E w \in Calling : w = Uncached(t, work[t]) /\ w # <<>>
                            /\ w[1] = Do(Direct(work[t][1].op), work[t][1].arg)
                            /\ w[1].op \in {"direct_malloc", "direct_free"}
<1>1. PICK op, arg : work[t] = <<Do(op, arg)>> /\ op = work[t][1].op /\ arg = work[t][1].arg
                     /\ \/ op = "malloc" /\ arg \in Bins
                        \/ op = "free" /\ arg \in Objects
  BY Only, Heads
<1>2. PICK w : w = <<Do(Direct(op), arg)>>
  OBVIOUS
<1>3. w \in Calling /\ w # <<>> /\ w[1] = Do(Direct(op), arg) /\ w[1].op \in {"direct_malloc", "direct_free"}
  BY <1>1, <1>2, One DEF Calling, Direct
<1>4. Tail(work[t]) = <<>>
  BY <1>1
<1>5. Uncached(t, work[t]) = w
  <2>1. Uncached(t, work[t]) = w \o <<>>
    BY <1>1, <1>2, <1>4 DEF Uncached
  <2>2. w \in Seq(Tasks)
    BY <1>3, WholeShape DEF Whole
  <2> QED  BY <2>1, <2>2, ConcatEmptySeq
<1> QED  BY <1>1, <1>3, <1>5

LEMMA GoWithoutStep ==
  ASSUME IInv, NEW t \in Threads, GoWithout(t)
  PROVE  IInv'
<1>1. /\ Task(t, "malloc") \/ Task(t, "free")
      /\ ~isthreaded \/ tls[t] \in {"1", "2"}
      /\ UNCHANGED <<free, held, cache, globals, rounds>>
  BY DEF GoWithout
<1>2. PICK w \in Calling : w = Uncached(t, work[t]) /\ w # <<>>
                           /\ w[1].op \in {"direct_malloc", "direct_free"}
  BY <1>1, UncachedIs
<1>3. work' = [work EXCEPT ![t] = w]
  BY <1>2 DEF GoWithout, Does
<1>4. Lives(t, work[t], cache[t], tls[t], key[t])
  BY Facts
<1>5. cache[t] = Null
  BY <1>1, <1>4 DEF Lives
<1>6. Shape(w) /\ w \in Seq(Tasks) /\ Lives(t, w, cache[t], tls[t], key[t])
  BY <1>1, <1>2, <1>5, Turns
<1>7. PICK m \in Marks, k \in Marks :
        /\ tls' = [tls EXCEPT ![t] = m] /\ key' = [key EXCEPT ![t] = k]
        /\ \/ m = tls[t] /\ k = key[t]
           \/ isthreaded /\ tls[t] = "1" /\ m = "2" /\ k = "2"
  <2>1. CASE isthreaded /\ tls[t] = "1"
    <3>1. TCACHE_SET(t, "2")
      BY <2>1 DEF GoWithout
    <3> QED  BY <2>1, <3>1 DEF TCACHE_SET, Marks
  <2>2. CASE ~(isthreaded /\ tls[t] = "1")
    <3>1. UNCHANGED <<tls, key>>
      BY <2>2 DEF GoWithout
    <3> QED  BY <3>1 DEF IInv, TypeOK
  <2> QED  BY <2>1, <2>2
<1>8. Lives(t, w, cache[t], m, k)
  <2>1. CASE m = tls[t] /\ k = key[t]
    BY <1>6, <2>1
  <2>2. CASE isthreaded /\ tls[t] = "1" /\ m = "2" /\ k = "2"
    BY <1>2, <1>5, <1>6, <2>2 DEF Lives, NeedCache
  <2> QED  BY <1>7, <2>1, <2>2
<1>9. /\ arenas' \in SUBSET Arenas /\ next_arena' \in Arenas
      /\ arena_of' \in [Threads -> Arenas \cup {Null}] /\ UNCHANGED <<isthreaded, uses, rounds>>
  BY <1>1 DEF IInv, TypeOK, globals
<1>10. free' \in [Arenas -> SUBSET Objects] /\ held' \in SUBSET Objects
       /\ cache' = [cache EXCEPT ![t] = cache[t]]
  BY <1>1, Facts
<1> QED  BY <1>3, <1>5, <1>6, <1>7, <1>8, <1>9, <1>10, Facts, ThreadStep

LEMMA NewCache ==
  ASSUME NEW o \in Objects, NEW a \in Arenas, NEW n \in Nat, NEW c,
         c = [self |-> o, arena |-> a, ev_cnt |-> 0, next_gc_bin |-> "small",
              bins |-> [b \in Bins |-> NewBin], born |-> n]
  PROVE  /\ c \in Caches /\ Counted(c) /\ c.ev_cnt < GcIncr /\ c.born = n /\ c.self = o
         /\ \A b \in Bins : c.bins[b].avail = <<>>
<1>1. PICK v : v = NewBin
  OBVIOUS
<1>2. v \in Binned /\ v.low = 0 /\ v.ncached = 0 /\ v.avail = <<>> /\ Len(v.avail) = 0
  BY <1>1 DEF NewBin, Binned
<1>3. c = [self |-> o, arena |-> a, ev_cnt |-> 0, next_gc_bin |-> "small",
           bins |-> [b \in Bins |-> v], born |-> n]
  BY <1>1
<1>4. [b \in Bins |-> v] \in [Bins -> Binned]
  BY <1>2
<1>5. c \in Caches
  BY <1>3, <1>4 DEF Caches, Binned, Bins
<1>6. c.ev_cnt = 0 /\ c.born = n /\ c.self = o /\ \A b \in Bins : c.bins[b] = v
  BY <1>3
<1> QED  BY <1>2, <1>5, <1>6, Limits DEF Counted

LEMMA tcache_createStep ==
  ASSUME IInv, NEW t \in Threads, tcache_create(t)
  PROVE  IInv'
<1>1. /\ Task(t, "malloc") \/ Task(t, "free")
      /\ isthreaded /\ tls[t] = "null"
      /\ UNCHANGED <<held, globals, rounds>>
  BY DEF tcache_create, NeedsCache
<1>2. arena_of[t] \in Arenas
  BY DEF tcache_create, IInv, TypeOK
<1>3. Lives(t, work[t], cache[t], tls[t], key[t]) /\ ~Dead(t)
  BY <1>1, Facts, Only
<1>4. cache[t] = Null
  BY <1>1, <1>3 DEF Lives
<1>5. held' \in SUBSET Objects
  BY <1>1, Facts
<1>6. CASE Does(t, Uncached(t, work[t])) /\ UNCHANGED <<free, cache, tls, key>>
  <2>1. PICK w \in Calling : w = Uncached(t, work[t]) /\ w # <<>>
                             /\ w[1].op \in {"direct_malloc", "direct_free"}
    BY <1>1, UncachedIs
  <2>2. work' = [work EXCEPT ![t] = w]
    BY <1>6, <2>1 DEF Does
  <2>3. Shape(w) /\ w \in Seq(Tasks) /\ Lives(t, w, cache[t], tls[t], key[t])
    BY <1>1, <1>4, <2>1, Turns
  <2>4. UNCHANGED <<globals, life>>
    BY <1>1, <1>6 DEF life
  <2>5. free' \in [Arenas -> SUBSET Objects] /\ cache' = [cache EXCEPT ![t] = cache[t]]
    BY <1>6, Facts
  <2> QED  BY <1>4, <1>5, <2>2, <2>3, <2>4, <2>5, Facts, LocalStep
<1>7. ASSUME NEW o \in Next1(arena_of[t], "small"), Takes(arena_of[t], o),
             cache' = [cache EXCEPT ![t] =
               [self |-> o, arena |-> arena_of[t], ev_cnt |-> 0, next_gc_bin |-> "small",
                bins |-> [b \in Bins |-> NewBin], born |-> round[t]]],
             TCACHE_SET(t, "cache"), UNCHANGED work
      PROVE  IInv'
  <2>1. o \in Objects
    BY <1>2, Next1Typed
  <2>2. round[t] \in Nat
    BY DEF IInv, TypeOK
  <2>3. PICK c : c = [self |-> o, arena |-> arena_of[t], ev_cnt |-> 0, next_gc_bin |-> "small",
                      bins |-> [b \in Bins |-> NewBin], born |-> round[t]]
    OBVIOUS
  <2>4. c \in Caches /\ Counted(c) /\ c.ev_cnt < GcIncr /\ c.born = round[t] /\ c # Null
    BY <1>2, <2>1, <2>2, <2>3, NewCache, CacheTyped
  <2>5. work[t] \in Calling \cup Freeing
    <3>1. work[t] \in Whole /\ work[t] # <<>> /\ work[t][1].op \in {"malloc", "free"}
      BY <1>1, Only
    <3> QED  BY <3>1, LastTasks DEF Whole
  <2>6. Kept(work[t], c) /\ Shape(work[t])
    BY <2>4, <2>5, Settle
  <2>7. Lives(t, work[t], c, "cache", "cache")
    <3>1. Rest(work[t]) \notin Leaving("null") /\ Rest(work[t]) \notin Leaving("1")
      BY <1>1, NotLeaving
    <3> QED  BY <1>1, <1>3, <2>4, <3>1 DEF Lives
  <2>8. tls' = [tls EXCEPT ![t] = "cache"] /\ key' = [key EXCEPT ![t] = "cache"]
    BY <1>7 DEF TCACHE_SET
  <2>9. /\ arenas' \in SUBSET Arenas /\ next_arena' \in Arenas
        /\ arena_of' \in [Threads -> Arenas \cup {Null}] /\ UNCHANGED <<isthreaded, uses, rounds>>
    BY <1>1 DEF IInv, TypeOK, globals
  <2>10. free' \in [Arenas -> SUBSET Objects] /\ work' = [work EXCEPT ![t] = work[t]]
    BY <1>2, <1>7, FreeTyped, Facts
  <2>11. cache' = [cache EXCEPT ![t] = c]
    BY <1>7, <2>3
  <2>12. PICK m \in Marks : m = "cache"
    BY DEF Marks
  <2> QED  BY <1>5, <2>4, <2>6, <2>7, <2>8, <2>9, <2>10, <2>11, <2>12, Facts, ThreadStep
<1> QED  BY <1>6, <1>7 DEF tcache_create

(* The rounds of destructors.                                              *)
LEMMA RoundStep ==
  ASSUME IInv, NEW t \in Threads,
         NEW w \in Seq(Tasks), NEW m \in Marks, NEW k \in Marks,
         NEW n \in Nat, NEW v \in BOOLEAN,
         work' = [work EXCEPT ![t] = w],
         tls' = [tls EXCEPT ![t] = m], key' = [key EXCEPT ![t] = k],
         round' = [round EXCEPT ![t] = n], visited' = [visited EXCEPT ![t] = v],
         cleaned' = cleaned \/ cleaned' = cleaned \cup {t},
         UNCHANGED <<free, held, cache, globals>>,
         Shape(w), cache[t] # Null => Kept(w, cache[t]), Life(t)'
  PROVE  IInv'
<1>1. UNCHANGED <<free, held, cache, arenas, next_arena, arena_of, isthreaded, uses>>
  BY DEF globals
<1>2. TypeOK'
  <2>1. work' \in [Threads -> Seq(Tasks)] /\ cleaned' \in SUBSET Threads
        /\ tls' \in [Threads -> Marks] /\ key' \in [Threads -> Marks]
        /\ round' \in [Threads -> Nat] /\ visited' \in [Threads -> BOOLEAN]
    BY DEF IInv, TypeOK
  <2> QED  BY <1>1, <2>1 DEF IInv, TypeOK
<1>3. Fits(t)'
  <2>1. work'[t] = w /\ cache'[t] = cache[t]
    BY <1>1 DEF IInv, TypeOK
  <2> QED  BY <2>1 DEF Fits
<1>4. ASSUME NEW u \in Threads, u # t
      PROVE  Fits(u)'
  <2>1. /\ work'[u] = work[u] /\ cache'[u] = cache[u] /\ tls'[u] = tls[u] /\ key'[u] = key[u]
        /\ round'[u] = round[u] /\ visited'[u] = visited[u] /\ (u \in cleaned' <=> u \in cleaned)
    BY <1>1, <1>4 DEF IInv, TypeOK
  <2>2. Fits(u)
    BY DEF IInv
  <2>3. Life(u)'
    BY <1>1, <2>1, <2>2 DEF Fits, Life, Lives, Dead
  <2> QED  BY <2>1, <2>2, <2>3 DEF Fits
<1> QED  BY <1>2, <1>3, <1>4 DEF IInv

LEMMA NextRoundStep ==
  ASSUME IInv, NEW t \in Threads, NextRound(t)
  PROVE  IInv'
<1>1. /\ Idle(t) /\ ~Dead(t) /\ (round[t] = 0 \/ visited[t])
      /\ round' = [round EXCEPT ![t] = @ + 1] /\ visited' = [visited EXCEPT ![t] = FALSE]
      /\ UNCHANGED <<free, held, cache, work, globals, tls, key, cleaned>>
  BY DEF NextRound
<1>2. PICK n \in Nat : n = round[t] + 1 /\ round[t] \in Nat
  BY DEF IInv, TypeOK
<1>3. round' = [round EXCEPT ![t] = n]
  BY <1>1, <1>2
<1>4. /\ work' = [work EXCEPT ![t] = work[t]]
      /\ tls' = [tls EXCEPT ![t] = tls[t]] /\ key' = [key EXCEPT ![t] = key[t]]
  BY <1>1 DEF IInv, TypeOK
<1>5. Life(t)'
  <2>1. /\ round'[t] = n /\ visited'[t] = FALSE /\ isthreaded' = isthreaded
        /\ UNCHANGED <<cache, work, tls, key, cleaned>>
    BY <1>1, <1>3 DEF IInv, TypeOK, globals
  <2>2. Lives(t, work[t], cache[t], tls[t], key[t])
    BY Facts
  <2>3. Rest(work[t]) \notin Leaving("null") /\ Rest(work[t]) \notin Leaving("1") /\ work[t] = <<>>
    BY <1>1, IdleFacts
  <2>4. ASSUME cache[t] # Null, n > Rounds
        PROVE  t \notin cleaned /\ cache[t].born = Rounds
    <3>1. tls[t] = "cache" /\ key[t] = "cache"
      BY <2>2, <2>3, <2>4 DEF Lives
    <3>2. round[t] = Rounds /\ round[t] > 0 /\ visited[t]
      BY <1>1, <1>2, <2>4, Limits DEF Dead
    <3> QED  BY <2>2, <2>3, <2>4, <3>1, <3>2 DEF Lives
  <2>5. n <= Rounds + 1 /\ n > 0
    BY <1>1, <1>2, Limits DEF Dead
  <2> QED  BY <2>1, <2>2, <2>3, <2>4, <2>5 DEF Life, Lives, Dead
<1>6. UNCHANGED <<free, held, cache, globals>> /\ cleaned' = cleaned
  BY <1>1
<1>7. PICK m \in Marks, k \in Marks : m = tls[t] /\ k = key[t]
  BY Facts
<1>8. tls' = [tls EXCEPT ![t] = m] /\ key' = [key EXCEPT ![t] = k]
  BY <1>4, <1>7
<1>9. PICK v \in BOOLEAN : v = FALSE /\ visited' = [visited EXCEPT ![t] = v]
  BY <1>1
<1> QED  BY <1>3, <1>4, <1>5, <1>6, <1>8, <1>9, Facts, RoundStep

LEMMA EndsStep ==
  ASSUME IInv, NEW t \in Threads, Ends(t)
  PROVE  IInv'
<1>1. /\ Idle(t) /\ round[t] \in 1 .. Rounds /\ visited[t] /\ key[t] = "null"
      /\ round' = [round EXCEPT ![t] = Rounds + 1]
      /\ UNCHANGED <<free, held, cache, work, globals, tls, key, visited, cleaned>>
  BY DEF Ends
<1>2. PICK n \in Nat : n = Rounds + 1
  BY Limits
<1>3. round' = [round EXCEPT ![t] = n]
  BY <1>1, <1>2
<1>4. /\ work' = [work EXCEPT ![t] = work[t]] /\ visited' = [visited EXCEPT ![t] = visited[t]]
      /\ tls' = [tls EXCEPT ![t] = tls[t]] /\ key' = [key EXCEPT ![t] = key[t]]
  BY <1>1 DEF IInv, TypeOK
<1>5. Life(t)'
  <2>1. /\ round'[t] = n /\ isthreaded' = isthreaded
        /\ UNCHANGED <<cache, work, tls, key, cleaned, visited>>
    BY <1>1, <1>3 DEF IInv, TypeOK, globals
  <2>2. Lives(t, work[t], cache[t], tls[t], key[t])
    BY Facts
  <2>3. Rest(work[t]) \notin Leaving("null") /\ Rest(work[t]) \notin Leaving("1") /\ work[t] = <<>>
    BY <1>1, IdleFacts
  <2>4. cache[t] = Null
    BY <1>1, <2>2, <2>3 DEF Lives
  <2>5. n <= Rounds + 1 /\ n > 0
    BY <1>2, Limits
  <2> QED  BY <2>1, <2>2, <2>3, <2>4, <2>5 DEF Life, Lives, Dead
<1>6. UNCHANGED <<free, held, cache, globals>> /\ cleaned' = cleaned
  BY <1>1
<1>7. PICK m \in Marks, k \in Marks : m = tls[t] /\ k = key[t]
  BY Facts
<1>8. tls' = [tls EXCEPT ![t] = m] /\ key' = [key EXCEPT ![t] = k]
  BY <1>4, <1>7
<1>9. PICK v \in BOOLEAN : v = visited[t] /\ visited' = [visited EXCEPT ![t] = v]
  BY <1>4 DEF IInv, TypeOK
<1>10. PICK w \in Seq(Tasks) : /\ w = work[t] /\ work' = [work EXCEPT ![t] = w] /\ Shape(w)
                               /\ cache[t] # Null => Kept(w, cache[t])
  BY <1>4, Facts
<1> QED  BY <1>3, <1>5, <1>6, <1>8, <1>9, <1>10, RoundStep

LEMMA tcache_thread_cleanupStep ==
  ASSUME IInv, NEW t \in Threads, tcache_thread_cleanup(t)
  PROVE  IInv'
<1>1. /\ Idle(t) /\ round[t] \in 1 .. Rounds
      /\ visited' = [visited EXCEPT ![t] = TRUE]
      /\ cleaned' = IF key[t] = "cache" THEN cleaned \cup {t} ELSE cleaned
      /\ UNCHANGED <<free, held, cache, globals, round>>
  BY DEF tcache_thread_cleanup
<1>2. Lives(t, work[t], cache[t], tls[t], key[t]) /\ work[t] = <<>>
      /\ Rest(work[t]) \notin Leaving("null") /\ Rest(work[t]) \notin Leaving("1")
  BY <1>1, Facts, IdleFacts
<1>3. PICK w \in Calling \cup {Destroy("1")}, m \in Marks, k \in Marks :
        /\ work' = [work EXCEPT ![t] = w] /\ tls' = [tls EXCEPT ![t] = m]
        /\ key' = [key EXCEPT ![t] = k]
        /\ \/ key[t] = "cache" /\ w = Destroy("1") /\ m = tls[t] /\ k = "null"
           \/ key[t] = "2" /\ w = <<>> /\ m = "1" /\ k = "1"
           \/ key[t] \notin {"cache", "2"} /\ w = <<>> /\ m = tls[t] /\ k = "null"
  <2>1. <<>> \in Calling
    BY DEF Calling
  <2>2. CASE key[t] = "cache"
    <3>1. /\ key' = [key EXCEPT ![t] = "null"] /\ work' = [work EXCEPT ![t] = Destroy("1")]
          /\ UNCHANGED tls
      BY <2>2 DEF tcache_thread_cleanup, Does, AfterCleanup
    <3>2. tls' = [tls EXCEPT ![t] = tls[t]] /\ tls[t] \in Marks /\ "null" \in Marks
      BY <3>1 DEF IInv, TypeOK, Marks
    <3> QED  BY <2>2, <3>1, <3>2
  <2>3. CASE key[t] = "2"
    <3>1. tls' = [tls EXCEPT ![t] = "1"] /\ key' = [key EXCEPT ![t] = "1"] /\ UNCHANGED work
      BY <2>3 DEF tcache_thread_cleanup, TCACHE_SET, AfterCleanup
    <3>2. work' = [work EXCEPT ![t] = <<>>] /\ "1" \in Marks
      BY <1>2, <3>1 DEF IInv, TypeOK, Marks
    <3> QED  BY <2>1, <2>3, <3>1, <3>2
  <2>4. CASE key[t] \notin {"cache", "2"}
    <3>1. key' = [key EXCEPT ![t] = "null"] /\ UNCHANGED <<tls, work>>
      BY <2>4 DEF tcache_thread_cleanup
    <3>2. tls' = [tls EXCEPT ![t] = tls[t]] /\ tls[t] \in Marks /\ "null" \in Marks
      BY <3>1 DEF IInv, TypeOK, Marks
    <3>3. work' = [work EXCEPT ![t] = <<>>]
      BY <1>2, <3>1 DEF IInv, TypeOK
    <3> QED  BY <2>1, <2>4, <3>1, <3>2, <3>3
  <2> QED  BY <2>2, <2>3, <2>4
<1>4. Shape(w) /\ Rest(w) = w /\ w \in Seq(Tasks) /\ (cache[t] # Null => Kept(w, cache[t]))
  <2>1. w \in Whole
    BY DEF Whole, Leaving
  <2>2. Shape(w) /\ Rest(w) = w /\ w \in Seq(Tasks)
    BY <2>1, WholeShape
  <2> QED  BY <1>1, <2>2, IdleFacts, Settle
<1>5. Life(t)'
  <2>1. /\ round'[t] = round[t] /\ visited'[t] = TRUE /\ isthreaded' = isthreaded
        /\ cache' = cache /\ work'[t] = w /\ tls'[t] = m /\ key'[t] = k
    BY <1>1, <1>3 DEF IInv, TypeOK, globals
  <2>2. ~Dead(t) /\ round[t] > 0 /\ round[t] <= Rounds + 1
    BY <1>1, Limits DEF Dead
  <2>3. CASE key[t] = "cache" /\ w = Destroy("1") /\ m = tls[t] /\ k = "null"
    <3>1. w \in Leaving("1") /\ w \notin Leaving("null")
      BY <2>3, LastTasks DEF Leaving
    <3>2. tls[t] = "cache" /\ cache[t] # Null
      BY <1>2, <2>3 DEF Lives
    <3> QED  BY <1>1, <1>2, <1>4, <2>1, <2>2, <2>3, <3>1, <3>2 DEF Life, Lives, Dead
  <2>4. CASE key[t] = "2" /\ w = <<>> /\ m = "1" /\ k = "1"
    <3>1. tls[t] = "2" /\ cache[t] = Null /\ isthreaded
      BY <1>2, <2>4 DEF Lives
    <3>2. cleaned' = cleaned
      BY <1>1, <2>4
    <3> QED  BY <1>1, <1>2, <1>4, <2>1, <2>2, <2>4, <3>1, <3>2 DEF Life, Lives, Dead
  <2>5. CASE key[t] \notin {"cache", "2"} /\ w = <<>> /\ m = tls[t] /\ k = "null"
    <3>1. cleaned' = cleaned
      BY <1>1, <2>5
    <3>2. tls[t] \in {"null", "1"}
      <4>1. key[t] \in {"null", "1"}
        BY <2>5, Facts DEF Marks
      <4> QED  BY <1>2, <4>1 DEF Lives
    <3> QED  BY <1>1, <1>2, <1>4, <2>1, <2>2, <2>5, <3>1, <3>2 DEF Life, Lives, Dead
  <2> QED  BY <1>3, <2>3, <2>4, <2>5
<1>6. round' = [round EXCEPT ![t] = round[t]] /\ round[t] \in Nat
  BY <1>1 DEF IInv, TypeOK
<1>7. cleaned' = cleaned \/ cleaned' = cleaned \cup {t}
  BY <1>1
<1>8. UNCHANGED <<free, held, cache, globals>>
  BY <1>1
<1>9. PICK v \in BOOLEAN : v = TRUE /\ visited' = [visited EXCEPT ![t] = v]
  BY <1>1
<1> QED  BY <1>3, <1>4, <1>5, <1>6, <1>7, <1>8, <1>9, RoundStep

-----------------------------------------------------------------------------
(* Steps with a cache.                                                     *)

LEMMA HasCacheFacts ==
  ASSUME IInv, NEW t \in Threads, NEW name, Task(t, name), name # "flush",
         HasCache(t) \/ name \in NeedCache
  PROVE  /\ cache[t] \in Caches /\ cache[t] # Null /\ Kept(work[t], cache[t])
         /\ tls[t] = "cache" /\ \A b \in Bins : Agrees(work[t], cache[t].bins[b], b)
<1>1. Lives(t, work[t], cache[t], tls[t], key[t]) /\ work[t] # <<>> /\ work[t][1].op = name
  BY Facts, Only
<1>2. tls[t] = "cache" /\ cache[t] # Null
  BY <1>1 DEF HasCache, Lives
<1> QED  BY <1>2, Facts DEF Kept

LEMMA PopTyped ==
  ASSUME NEW v \in Binned, v.ncached = Len(v.avail), v.ncached > 0, v.low <= v.ncached
  PROVE  /\ Pop(v) \in Binned /\ Pop(v).ncached = v.ncached - 1
         /\ Pop(v).avail = Tail(v.avail) /\ Pop(v).ncached = Len(Pop(v).avail)
         /\ Pop(v).low <= Pop(v).ncached /\ v.avail[1] \in Objects /\ Pop(v).most = Null
<1>1. v.low \in Nat /\ v.ncached \in Nat /\ v.avail \in Seq(Objects) /\ Len(v.avail) \in Nat
  BY BinTyped
<1>2. v.avail # <<>>
  BY <1>1, EmptySeq
<1>3. Tail(v.avail) \in Seq(Objects) /\ Len(Tail(v.avail)) = v.ncached - 1
  BY <1>1, <1>2, HeadTailProperties
<1>4. PICK n \in Nat : n = v.ncached - 1
  <2>1. v.ncached - 1 \in Nat
    BY <1>1
  <2> QED  BY <2>1
<1>5. PICK l \in Nat : l = Smaller(v.low, n) /\ l <= n
  BY <1>1 DEF Smaller
<1>6. PICK s \in Seq(Objects) : s = Tail(v.avail) /\ Len(s) = n
  BY <1>3, <1>4
<1>7. Pop(v) = [v EXCEPT !.ncached = n, !.low = l, !.avail = s, !.most = Null]
  BY <1>4, <1>5, <1>6 DEF Pop
<1>8. Pop(v) \in Binned /\ Pop(v).ncached = n /\ Pop(v).low = l /\ Pop(v).avail = s
      /\ Pop(v).most = Null
  <2>1. v = [low |-> v.low, ncached |-> v.ncached, avail |-> v.avail, most |-> v.most]
    BY DEF Binned
  <2>2. Pop(v) = [low |-> l, ncached |-> n, avail |-> s, most |-> Null]
    BY <1>7, <2>1
  <2> QED  BY <2>2 DEF Binned
<1>9. v.avail[1] \in Objects
  BY <1>1, <1>2, ElementOfSeq
<1> QED  BY <1>4, <1>5, <1>6, <1>8, <1>9

(* A call that ends with tcache_event, its cache having become c.          *)
Ending(t, c) ==
  /\ cache[t] \in Caches /\ c \in Caches /\ Counted(c) /\ tcache_event(t, c)
  /\ c.born = cache[t].born /\ c.self = cache[t].self
  /\ \A b \in Bins : c.bins[b].most = Null \/ c.bins[b] = cache[t].bins[b]

LEMMA AllocEasyIs ==
  ASSUME IInv, NEW t \in Threads, AllocEasy(t)
  PROVE  \E b \in Bins : \E c :
           /\ Ending(t, c) /\ cache[t].bins[b].avail # <<>> /\ cache[t].bins[b].avail[1] \in Objects
           /\ held' = held \cup {cache[t].bins[b].avail[1]}
           /\ c.bins[b].avail = Tail(cache[t].bins[b].avail)
           /\ \A e \in Bins \ {b} : c.bins[e] = cache[t].bins[e]
<1>1. /\ HasCache(t) /\ (Task(t, "malloc") \/ Task(t, "easy"))
      /\ cache[t].bins[Arg(t)].ncached > 0
      /\ held' = held \cup {cache[t].bins[Arg(t)].avail[1]}
      /\ tcache_event(t, [cache[t] EXCEPT !.bins[Arg(t)] = Pop(cache[t].bins[Arg(t)])])
      /\ UNCHANGED <<free, globals, life>>
  BY DEF AllocEasy
<1>2. /\ cache[t] \in Caches /\ cache[t] # Null /\ \A b \in Bins : Agrees(work[t], cache[t].bins[b], b)
  BY <1>1, HasCacheFacts
<1>3. Arg(t) \in Bins /\ ~Flushing(work[t]) /\ work[t] # <<>>
  <2>1. CASE Task(t, "malloc")
    BY <2>1, Only, Heads DEF Arg
  <2>2. CASE Task(t, "easy")
    <3>1. work[t] = <<Do("easy", "small")>>
      BY <2>2, Only, Heads
    <3> QED  BY <2>2, <3>1, Only, One DEF Arg, Bins
  <2> QED  BY <1>1, <2>1, <2>2
<1>4. PICK b \in Bins, v \in Binned : b = Arg(t) /\ v = cache[t].bins[b]
  BY <1>2, <1>3, CacheTyped
<1>5. Counted(cache[t])
  <2>1. ASSUME NEW e \in Bins PROVE cache[t].bins[e].ncached = Len(cache[t].bins[e].avail)
    <3>1. Agrees(work[t], cache[t].bins[e], e)
      BY <1>2
    <3>2. CASE work[t] = <<Do("malloc", "small")>> /\ e = "small" /\ cache[t].bins[e].ncached = 0
      <4>1. Arg(t) = "small"
        BY <3>2, One DEF Arg
      <4> QED  BY <1>1, <3>2, <4>1
    <3> QED  BY <1>3, <3>1, <3>2 DEF Agrees
  <2> QED  BY <1>2, <2>1 DEF Counted, Agrees
<1>6. v.ncached = Len(v.avail) /\ v.ncached > 0 /\ v.low <= v.ncached /\ v.ncached <= CachedMax[b]
  BY <1>1, <1>4, <1>5 DEF Counted
<1>7. PICK p \in Binned : /\ p = Pop(v) /\ p.ncached = v.ncached - 1
                          /\ p.ncached = Len(p.avail) /\ p.low <= p.ncached
                          /\ p.avail = Tail(v.avail) /\ p.most = Null
  BY <1>6, PopTyped
<1>8. v.avail[1] \in Objects
  BY <1>6, PopTyped
<1>9. PICK c \in Caches : /\ c = [cache[t] EXCEPT !.bins[b] = p] /\ c.bins[b] = p
                          /\ \A e \in Bins \ {b} : c.bins[e] = cache[t].bins[e]
                          /\ c.born = cache[t].born /\ c.self = cache[t].self
  <2>1. PICK d \in Caches : d = cache[t]
    BY <1>2
  <2>2. \E c \in Caches : /\ c = [d EXCEPT !.bins[b] = p] /\ c.bins[b] = p
                          /\ \A e \in Bins \ {b} : c.bins[e] = d.bins[e]
                          /\ c.born = d.born /\ c.self = d.self
    BY BinPut
  <2> QED  BY <2>1, <2>2
<1>10. Counted(c)
  <2>1. p.ncached <= CachedMax[b]
    BY <1>6, <1>7, Limits, BinTyped
  <2> QED  BY <1>5, <1>7, <1>9, <2>1 DEF Counted
<1>11. tcache_event(t, c)
  BY <1>1, <1>4, <1>7, <1>9
<1>12. v.avail # <<>>
  BY <1>6, EmptySeq
<1>13. Ending(t, c)
  BY <1>2, <1>7, <1>9, <1>10, <1>11 DEF Ending
<1>14. /\ cache[t].bins[b].avail # <<>> /\ cache[t].bins[b].avail[1] \in Objects
       /\ held' = held \cup {cache[t].bins[b].avail[1]}
       /\ c.bins[b].avail = Tail(cache[t].bins[b].avail)
       /\ \A e \in Bins \ {b} : c.bins[e] = cache[t].bins[e]
  BY <1>1, <1>4, <1>7, <1>8, <1>9, <1>12
<1> QED  BY <1>13, <1>14

LEMMA EndingStep ==
  ASSUME IInv, NEW t \in Threads, NEW c, Ending(t, c),
         Task(t, "malloc") \/ Task(t, "easy") \/ Task(t, "free"),
         free' \in [Arenas -> SUBSET Objects], held' \in SUBSET Objects,
         UNCHANGED <<globals, life>>
  PROVE  IInv'
<1>1. /\ cache[t] # Null /\ c \in Caches /\ Counted(c) /\ tcache_event(t, c)
      /\ c.born = cache[t].born
  BY CacheTyped DEF Ending
<1>2. Rest(work[t]) \notin Leaving("null") /\ Rest(work[t]) \notin Leaving("1") /\ work[t] # <<>>
  BY NotLeaving, Only
<1> QED  BY <1>1, <1>2, EventStep

LEMMA AllocEasyStep ==
  ASSUME IInv, NEW t \in Threads, AllocEasy(t)
  PROVE  IInv'
<1>1. (Task(t, "malloc") \/ Task(t, "easy")) /\ UNCHANGED <<free, globals, life>>
  BY DEF AllocEasy
<1>2. PICK o \in Objects : held' = held \cup {o} /\ \E c : Ending(t, c)
  BY AllocEasyIs
<1>3. free' \in [Arenas -> SUBSET Objects] /\ held' \in SUBSET Objects
  BY <1>1, <1>2 DEF IInv, TypeOK
<1> QED  BY <1>1, <1>2, <1>3, EndingStep

(* A thread that keeps its cache.                                          *)
LEMMA LivesOn ==
  ASSUME IInv, NEW t \in Threads, cache[t] # Null, work[t] # <<>>,
         NEW w, NEW d \in Caches, d.born = cache[t].born,
         \A x \in {"null", "1"} : Rest(w) \in Leaving(x) <=> Rest(work[t]) \in Leaving(x)
  PROVE  Lives(t, w, d, tls[t], key[t])
<1>1. PICK u \in Seq(Tasks), c \in Caches, m \in Marks, k \in Marks :
        u = work[t] /\ c = cache[t] /\ m = tls[t] /\ k = key[t]
  BY Facts
<1>2. Lives(t, u, c, m, k)
  BY <1>1, Facts
<1>3. ~Dead(t)
  BY <1>1, <1>2 DEF Lives
<1>4. c # Null /\ d # Null /\ d.born = c.born
  BY <1>1, CacheTyped
<1>5. m = "cache"
  BY <1>2, <1>4 DEF Lives
<1>6. \A x \in {"null", "1"} : Rest(w) \in Leaving(x) <=> Rest(u) \in Leaving(x)
  BY <1>1
<1>7. Lives(t, w, d, m, k)
  BY <1>2, <1>3, <1>4, <1>5, <1>6, SameLife
<1> QED  BY <1>1, <1>7

(* A step that changes one bin of the cache.                               *)
LEMMA BinStep ==
  ASSUME IInv, NEW t \in Threads, cache[t] # Null, work[t] # <<>>,
         NEW b \in Bins, NEW v \in Binned, cache' = [cache EXCEPT ![t].bins[b] = v],
         NEW w \in Seq(Tasks), work' = [work EXCEPT ![t] = w], Shape(w),
         cache[t].ev_cnt < GcIncr \/ Rest(w) \in Collecting,
         Agrees(w, v, b), \A e \in Bins \ {b} : Agrees(w, cache[t].bins[e], e),
         Emptied(w, [cache[t] EXCEPT !.bins[b] = v]),
         \A x \in {"null", "1"} : Rest(w) \in Leaving(x) <=> Rest(work[t]) \in Leaving(x),
         free' \in [Arenas -> SUBSET Objects], held' \in SUBSET Objects,
         UNCHANGED <<globals, life>>
  PROVE  IInv'
<1>1. cache[t] \in Caches
  BY Facts
<1>2. PICK d \in Caches : /\ d = [cache[t] EXCEPT !.bins[b] = v] /\ d.bins[b] = v
                          /\ \A e \in Bins \ {b} : d.bins[e] = cache[t].bins[e]
                          /\ d.ev_cnt = cache[t].ev_cnt /\ d.born = cache[t].born
  BY <1>1, BinPut
<1>3. cache' = [cache EXCEPT ![t] = d]
  BY <1>1, <1>2 DEF Caches, IInv, TypeOK
<1>4. d # Null
  BY CacheTyped
<1>5. Kept(w, d)
  BY <1>2 DEF Kept
<1>6. Lives(t, w, d, tls[t], key[t])
  BY <1>2, LivesOn
<1> QED  BY <1>3, <1>5, <1>6, LocalStep

LEMMA MarkedTyped ==
  ASSUME NEW v \in Binned
  PROVE  /\ Marked(v) \in Binned /\ Marked(v).ncached = v.ncached /\ Marked(v).avail = v.avail
         /\ Marked(v).low = v.ncached
         /\ Marked(v).most = IF v.most = Null THEN v.ncached ELSE v.most \div 4
<1>1. PICK n \in Nat \cup {Null} : n = IF v.most = Null THEN v.ncached ELSE v.most \div 4
  <2>1. v.most # Null => v.most \div 4 \in Nat
    BY BinTyped
  <2> QED  BY <2>1, BinTyped
<1>2. v = [low |-> v.low, ncached |-> v.ncached, avail |-> v.avail, most |-> v.most]
  BY DEF Binned
<1>3. PICK k, l, s : k = v.ncached /\ l = v.low /\ s = v.avail
  OBVIOUS
<1>4. Marked(v) = [v EXCEPT !.low = k, !.most = n]
  BY <1>1, <1>3 DEF Marked
<1>5. Marked(v) = [low |-> k, ncached |-> k, avail |-> s, most |-> n]
  BY <1>2, <1>3, <1>4
<1>6. Marked(v) \in Binned
  BY <1>3, <1>5, BinTyped DEF Binned
<1> QED  BY <1>1, <1>3, <1>5, <1>6

LEMMA PassedOver ==
  ASSUME NEW c \in Caches, NEW b \in Bins, NEW v \in Binned, v = Marked(c.bins[b])
  PROVE  /\ PassOver(c, b) \in Caches /\ PassOver(c, b).bins[b] = v
         /\ \A e \in Bins \ {b} : PassOver(c, b).bins[e] = c.bins[e]
         /\ PassOver(c, b).ev_cnt = 0 /\ PassOver(c, b).born = c.born
         /\ PassOver(c, b).self = c.self
<1>1. PICK n \in Bins : n = NextBin(c.next_gc_bin)
  BY DEF NextBin, Bins
<1>2. PICK f \in Caches : /\ f = [c EXCEPT !.bins[b] = v] /\ f.bins[b] = v
                          /\ \A e \in Bins \ {b} : f.bins[e] = c.bins[e]
                          /\ f.born = c.born /\ f.self = c.self
  BY BinPut
<1>3. PICK g : g = [f EXCEPT !.ev_cnt = 0, !.next_gc_bin = n]
  OBVIOUS
<1>4. g \in Caches /\ g.bins = f.bins /\ g.born = f.born /\ g.self = f.self /\ g.ev_cnt = 0
  BY <1>3 DEF Caches
<1>5. g = [c EXCEPT !.bins[b] = v, !.ev_cnt = 0, !.next_gc_bin = n]
  BY <1>2, <1>3 DEF Caches
<1>6. PassOver(c, b) = [c EXCEPT !.bins[b] = v, !.ev_cnt = 0, !.next_gc_bin = n]
  BY <1>1 DEF PassOver, Caches
<1> QED  BY <1>2, <1>4, <1>5, <1>6

LEMMA CollectedStep ==
  ASSUME IInv, NEW t \in Threads, Collected(t)
  PROVE  IInv'
<1>1. /\ Task(t, "collected")
      /\ cache' = [cache EXCEPT ![t] = PassOver(cache[t], Arg(t))]
      /\ work' = [work EXCEPT ![t] = <<>>]
      /\ UNCHANGED <<free, held, globals, life>>
  BY DEF Collected, Does
<1>2. cache[t] \in Caches /\ cache[t] # Null /\ Kept(work[t], cache[t]) /\ tls[t] = "cache"
  BY <1>1, HasCacheFacts DEF NeedCache
<1>3. work[t] \in Whole /\ work[t] # <<>> /\ Arg(t) \in Bins /\ work[t] # <<Do("malloc", "small")>>
  BY <1>1, Only, Heads, One DEF Arg
<1>4. PICK b \in Bins, v \in Binned : b = Arg(t) /\ v = cache[t].bins[b]
  BY <1>2, <1>3, CacheTyped
<1>5. PICK p \in Binned : /\ p = Marked(v) /\ p.ncached = v.ncached /\ p.avail = v.avail
                          /\ p.low = v.ncached
  BY MarkedTyped
<1>6. PICK c \in Caches : c = cache[t]
  BY <1>2
<1>7. PICK d \in Caches :
        /\ d = PassOver(c, b) /\ d.bins[b] = p
        /\ \A e \in Bins \ {b} : d.bins[e] = c.bins[e]
        /\ d.ev_cnt = 0 /\ d.born = c.born
  <2>1. p = Marked(c.bins[b])
    BY <1>4, <1>5, <1>6
  <2> QED  BY <2>1, PassedOver
<1>8. cache' = [cache EXCEPT ![t] = d]
  BY <1>1, <1>4, <1>6, <1>7
<1>9. Counted(cache[t])
  BY <1>2, <1>3, Settled
<1>10. Counted(d)
  BY <1>4, <1>5, <1>6, <1>7, <1>9, BinTyped DEF Counted
<1>11. PICK w \in Calling : w = <<>>
  BY DEF Calling
<1>12. Kept(w, d) /\ Shape(w) /\ Rest(w) = w /\ w \in Seq(Tasks)
  <2>1. d.ev_cnt < GcIncr /\ w \in Calling \cup Freeing \cup {Destroy("null"), Destroy("1")}
    BY <1>7, Limits
  <2> QED  BY <1>10, <2>1, Settle
<1>13. Lives(t, w, d, tls[t], key[t])
  <2>1. Rest(work[t]) \notin Leaving("null") /\ Rest(work[t]) \notin Leaving("1")
    BY <1>1, NotLeaving
  <2>2. w \notin Leaving("null") /\ w \notin Leaving("1")
    BY <1>11, LastTasks
  <2>3. \A x \in {"null", "1"} : Rest(w) \in Leaving(x) <=> Rest(work[t]) \in Leaving(x)
    BY <1>12, <2>1, <2>2
  <2>4. d.born = cache[t].born
    BY <1>6, <1>7
  <2> QED  BY <1>2, <1>3, <2>3, <2>4, LivesOn
<1>14. free' \in [Arenas -> SUBSET Objects] /\ held' \in SUBSET Objects
  BY <1>1, Facts
<1>15. work' = [work EXCEPT ![t] = w] /\ UNCHANGED <<globals, life>>
  BY <1>1, <1>11
<1> QED  BY <1>8, <1>12, <1>13, <1>14, <1>15, LocalStep

LEMMA NotEmptied ==
  ASSUME NEW w \in Whole, NEW c, w \notin Leaving("null"), w \notin Leaving("1")
  PROVE  Emptied(w, c)
<1>1. ~Flushing(w) /\ Rest(w) = w
  BY WholeShape
<1>2. \A x \in {"null", "1"} : w # <<Do("release", x)>> /\ w # <<Do("empty", "large"), Do("release", x)>>
  BY DEF Leaving
<1> QED  BY <1>1, <1>2 DEF Emptied

LEMMA Pushed ==
  ASSUME NEW o \in Objects, NEW s \in Seq(Objects)
  PROVE  \E w \in Seq(Objects) :
           /\ w = <<o>> \o s /\ Len(w) = Len(s) + 1 /\ w # <<>> /\ w[1] = o
           /\ \A k \in 1 .. Len(s) : w[k + 1] = s[k]
<1>1. /\ <<o>> \o s \in Seq(Objects) /\ Len(<<o>> \o s) = Len(s) + 1
      /\ <<o>> \o s # <<>> /\ (<<o>> \o s)[1] = o
      /\ \A k \in 1 .. Len(s) : (<<o>> \o s)[k + 1] = s[k]
  BY PutFirst
<1> QED  BY <1>1

Fills(t, c, v, b) ==
  \/ \E o \in Next1(c.arena, "small") :
       /\ Takes(c.arena, o) /\ Len(v.avail) < CachedMax[b] \div 2
       /\ SetBin(t, "small", [v EXCEPT !.avail = <<o>> \o @])
       /\ UNCHANGED work
  \/ /\ SetBin(t, "small", Filled(v)) /\ UNCHANGED free
     /\ Does(t, IF v.avail = <<>> THEN <<>> ELSE <<Do("easy", "small")>>)

LEMMA FillOneIs ==
  ASSUME NEW t \in Threads, FillOne(t), NEW c, NEW v, NEW b, c = cache[t], b = "small", v = c.bins[b]
  PROVE  Fills(t, c, v, b)
BY DEF FillOne, Fills

LEMMA FillOneStep ==
  ASSUME IInv, NEW t \in Threads, FillOne(t)
  PROVE  IInv'
<1>1. /\ HasCache(t) /\ Task(t, "malloc") /\ Arg(t) = "small"
      /\ cache[t].bins["small"].ncached = 0
      /\ UNCHANGED <<held, globals, life>>
  BY DEF FillOne
<1>2. cache[t] \in Caches /\ cache[t] # Null /\ Kept(work[t], cache[t]) /\ tls[t] = "cache"
  BY <1>1, HasCacheFacts
<1>3. work[t] \in Whole /\ work[t] # <<>> /\ work[t] = <<Do("malloc", "small")>> /\ ~Flushing(work[t])
      /\ work[t] \notin Leaving("null") /\ work[t] \notin Leaving("1") /\ work[t] \notin Collecting
      /\ Rest(work[t]) = work[t]
  BY <1>1, Only, Heads, LastTasks DEF Arg
<1>4. PICK c \in Caches, v \in Binned, b \in Bins : c = cache[t] /\ b = "small" /\ v = c.bins[b]
  BY <1>2, CacheTyped DEF Bins
<1>5. \A e \in Bins : Agrees(work[t], c.bins[e], e)
  BY <1>2, <1>4 DEF Kept
<1>6. v.ncached = 0 /\ v.low <= 0 /\ Len(v.avail) <= CachedMax[b]
  <2>1. v.ncached = 0
    BY <1>1, <1>4
  <2>2. Agrees(work[t], v, b)
    BY <1>4, <1>5
  <2>3. Len(v.avail) = 0 => Len(v.avail) <= CachedMax[b]
    BY Limits
  <2> QED  BY <1>3, <2>1, <2>2, <2>3 DEF Agrees
<1>7. ASSUME NEW w, ~Flushing(w)
      PROVE  \A e \in Bins \ {b} : Agrees(w, c.bins[e], e)
  BY <1>3, <1>4, <1>5, <1>7 DEF Agrees
<1>8. c.ev_cnt < GcIncr
  BY <1>2, <1>3, <1>4 DEF Kept
<1>9. ASSUME NEW w \in Whole, work' = [work EXCEPT ![t] = w],
             w \notin Leaving("null"), w \notin Leaving("1"),
             NEW p \in Binned, cache' = [cache EXCEPT ![t].bins[b] = p], Agrees(w, p, b),
             free' \in [Arenas -> SUBSET Objects]
      PROVE  IInv'
  <2>1. w \in Seq(Tasks) /\ Shape(w) /\ Rest(w) = w /\ ~Flushing(w)
    BY WholeShape
  <2>2. Emptied(w, [cache[t] EXCEPT !.bins[b] = p])
    BY <1>9, NotEmptied
  <2>3. \A e \in Bins \ {b} : Agrees(w, cache[t].bins[e], e)
    BY <1>4, <1>7, <2>1
  <2>4. \A x \in {"null", "1"} : Rest(w) \in Leaving(x) <=> Rest(work[t]) \in Leaving(x)
    BY <1>3, <1>9, <2>1
  <2>5. held' \in SUBSET Objects /\ UNCHANGED <<globals, life>> /\ cache[t].ev_cnt < GcIncr
    BY <1>1, <1>4, <1>8, Facts
  <2> QED  BY <1>2, <1>3, <1>9, <2>1, <2>2, <2>3, <2>4, <2>5, BinStep
<1>10. ASSUME NEW o \in Next1(c.arena, "small"), Takes(c.arena, o),
              Len(v.avail) < CachedMax[b] \div 2,
              SetBin(t, "small", [v EXCEPT !.avail = <<o>> \o @]), UNCHANGED work
       PROVE  IInv'
  <2>1. c.arena \in Arenas
    BY CacheTyped
  <2>2. o \in Objects /\ free' \in [Arenas -> SUBSET Objects]
    BY <1>10, <2>1, Next1Typed, FreeTyped
  <2>3. v.avail \in Seq(Objects) /\ Len(v.avail) \in Nat
    BY BinTyped
  <2>4. PICK s \in Seq(Objects) : s = <<o>> \o v.avail /\ Len(s) = Len(v.avail) + 1
    BY <2>2, <2>3, Pushed
  <2>5. PICK p : p = [v EXCEPT !.avail = s]
    OBVIOUS
  <2>6. p \in Binned /\ p.avail = s /\ p.ncached = v.ncached /\ p.low = v.low
    BY <2>5 DEF Binned
  <2>7. cache' = [cache EXCEPT ![t].bins[b] = p]
    BY <1>4, <1>10, <2>4, <2>5 DEF SetBin
  <2>8. Agrees(work[t], p, b)
    <3>1. Len(s) <= CachedMax[b] /\ 0 <= CachedMax[b]
      BY <1>10, <2>3, <2>4, Limits
    <3> QED  BY <1>3, <1>4, <1>6, <2>6, <3>1 DEF Agrees
  <2>9. work' = [work EXCEPT ![t] = work[t]]
    BY <1>10, Facts
  <2> QED  BY <1>3, <1>9, <2>2, <2>6, <2>7, <2>8, <2>9
<1>11. ASSUME SetBin(t, "small", Filled(v)), UNCHANGED free,
              Does(t, IF v.avail = <<>> THEN <<>> ELSE <<Do("easy", "small")>>)
       PROVE  IInv'
  <2>1. PICK w \in Calling : w = IF v.avail = <<>> THEN <<>> ELSE <<Do("easy", "small")>>
    <3>1. <<>> \in Calling /\ <<Do("easy", "small")>> \in Calling
      BY DEF Calling
    <3> QED  BY <3>1
  <2>2. w # <<>> => w[1].op = "easy"
    BY <2>1, One
  <2>3. w \in Whole /\ w \notin Leaving("null") /\ w \notin Leaving("1")
    BY <2>2, LastTasks DEF Whole
  <2>4. PICK n \in Nat : n = Len(v.avail)
    BY BinTyped
  <2>5. PICK p : p = [v EXCEPT !.ncached = n, !.most = Null]
    OBVIOUS
  <2>6. p \in Binned /\ p.avail = v.avail /\ p.ncached = n /\ p.low = v.low
    BY <2>5 DEF Binned
  <2>7. cache' = [cache EXCEPT ![t].bins[b] = p]
    BY <1>4, <1>11, <2>4, <2>5 DEF SetBin, Filled
  <2>8. Agrees(w, p, b)
    <3>1. ~Flushing(w)
      BY <2>3, WholeShape
    <3>2. p.low <= p.ncached /\ p.ncached <= CachedMax[b] /\ p.ncached = Len(p.avail)
      BY <1>6, <2>4, <2>6, BinTyped
    <3> QED  BY <3>1, <3>2 DEF Agrees
  <2>9. work' = [work EXCEPT ![t] = w] /\ free' \in [Arenas -> SUBSET Objects]
    BY <1>11, <2>1, Facts DEF Does
  <2> QED  BY <1>9, <2>3, <2>6, <2>7, <2>8, <2>9
<1>12. Fills(t, c, v, b)
  BY <1>4, FillOneIs
<1> QED  BY <1>10, <1>11, <1>12 DEF Fills

LEMMA AllocLargeIs ==
  ASSUME IInv, NEW t \in Threads, AllocLarge(t)
  PROVE  \/ Does(t, <<>>) /\ UNCHANGED <<free, held, cache>>
         \/ \E a \in Arenas : \E o \in Next1(a, "large") : \E c :
              /\ Ending(t, c) /\ Takes(a, o) /\ held' = held \cup {o}
              /\ \A b \in Bins : c.bins[b].avail = cache[t].bins[b].avail
<1>1. HasCache(t) /\ Task(t, "malloc") /\ Arg(t) = "large"
  BY DEF AllocLarge
<1>2. cache[t] \in Caches /\ Kept(work[t], cache[t])
  BY <1>1, HasCacheFacts
<1>3. work[t] \in Whole /\ work[t] # <<Do("malloc", "small")>>
  BY <1>1, Only, One DEF Arg
<1>4. ASSUME NEW o \in Next1(cache[t].arena, "large"), Takes(cache[t].arena, o), held' = held \cup {o},
             tcache_event(t, [cache[t] EXCEPT !.bins["large"].most = Null])
      PROVE  \E a \in Arenas : \E x \in Next1(a, "large") : \E c :
               /\ Ending(t, c) /\ Takes(a, x) /\ held' = held \cup {x}
               /\ \A b \in Bins : c.bins[b].avail = cache[t].bins[b].avail
  <2>1. cache[t].arena \in Arenas
    BY <1>2, CacheTyped
  <2>2. PICK c \in Caches, b \in Bins, v \in Binned : c = cache[t] /\ b = "large" /\ v = c.bins[b]
    BY <1>2, CacheTyped DEF Bins
  <2>3. PICK p : p = [v EXCEPT !.most = Null]
    OBVIOUS
  <2>4. p \in Binned /\ p.ncached = v.ncached /\ p.low = v.low /\ p.avail = v.avail
        /\ p.most = Null
    BY <2>3 DEF Binned
  <2>5. PICK d \in Caches : /\ d = [c EXCEPT !.bins[b] = p] /\ d.bins[b] = p
                            /\ \A e \in Bins \ {b} : d.bins[e] = c.bins[e]
                            /\ d.born = c.born /\ d.self = c.self
    BY <2>4, BinPut
  <2>6. d = [c EXCEPT !.bins["large"].most = Null]
    BY <2>2, <2>3, <2>5 DEF Caches
  <2>7. Counted(c)
    BY <1>2, <1>3, <2>2, Settled
  <2>8. Counted(d)
    BY <2>2, <2>4, <2>5, <2>7 DEF Counted
  <2>9. Ending(t, d)
    BY <1>2, <1>4, <2>2, <2>4, <2>5, <2>6, <2>8 DEF Ending
  <2>10. \A e \in Bins : d.bins[e].avail = cache[t].bins[e].avail
    BY <2>2, <2>4, <2>5
  <2> QED  BY <1>4, <2>1, <2>9, <2>10
<1> QED  BY <1>4 DEF AllocLarge

LEMMA AllocLargeStep ==
  ASSUME IInv, NEW t \in Threads, AllocLarge(t)
  PROVE  IInv'
<1>1. Task(t, "malloc") /\ Arg(t) = "large" /\ UNCHANGED <<globals, life>>
  BY DEF AllocLarge
<1>2. work[t] # <<Do("malloc", "small")>>
  BY <1>1, One DEF Arg
<1>3. CASE Does(t, <<>>) /\ UNCHANGED <<free, held, cache>>
  <2>1. <<>> \in Seq(Tasks) /\ Shape(<<>>) /\ (cache[t] # Null => Kept(<<>>, cache[t]))
        /\ Lives(t, <<>>, cache[t], tls[t], key[t])
    BY <1>1, <1>2, EndsAlone
  <2>2. free' \in [Arenas -> SUBSET Objects] /\ held' \in SUBSET Objects
        /\ cache' = [cache EXCEPT ![t] = cache[t]] /\ work' = [work EXCEPT ![t] = <<>>]
    BY <1>3, Facts DEF Does
  <2> QED  BY <1>1, <2>1, <2>2, Facts, LocalStep
<1>4. ASSUME NEW c, NEW a \in Arenas, NEW o \in Next1(a, "large"),
             Ending(t, c), Takes(a, o), held' = held \cup {o}
      PROVE  IInv'
  <2>1. o \in Objects /\ free' \in [Arenas -> SUBSET Objects]
    BY <1>4, Next1Typed, FreeTyped
  <2>2. held' \in SUBSET Objects
    BY <1>4, <2>1 DEF IInv, TypeOK
  <2> QED  BY <1>1, <1>4, <2>1, <2>2, EndingStep
<1> QED  BY <1>3, <1>4, AllocLargeIs

(* A bin is to be flushed, and then comes r.                               *)
LEMMA FlushStep ==
  ASSUME IInv, NEW t \in Threads, cache[t] \in Caches, Counted(cache[t]), cache[t].ev_cnt < GcIncr,
         work[t] # <<>>, NEW b \in Bins, NEW rem \in Nat, rem <= cache[t].bins[b].ncached,
         NEW r \in After(b),
         work' = [work EXCEPT ![t] = Then(Flush(b, cache[t].bins[b], rem), r)],
         \A x \in {"null", "1"} :
           /\ r \in Leaving(x) <=> Rest(work[t]) \in Leaving(x)
           /\ r \in Leaving(x) => rem = 0
           /\ r = <<Do("release", x)>> => cache[t].bins["small"].avail = <<>>,
         UNCHANGED <<free, held, cache, globals, life>>
  PROVE  IInv'
<1>1. PICK c \in Caches, v \in Binned : c = cache[t] /\ v = c.bins[b]
  BY CacheTyped
<1>2. PICK w : w = Then(Flush(b, v, rem), r)
  OBVIOUS
<1>3. rem <= v.ncached /\ Counted(c) /\ v = c.bins[b]
  BY <1>1
<1>4. w \in Seq(Tasks) /\ Shape(w) /\ Flushing(w) /\ Rest(w) = r /\ w[1] = Flush(b, v, rem)
  BY <1>2, <1>3, FlushBegins
<1>5. \A e \in Bins : Agrees(w, c.bins[e], e)
  BY <1>3, <1>4, FlushAgrees
<1>6. w[1].rem = rem
  BY <1>3, <1>4, FlushTyped
<1>7. \A x \in {"null", "1"} : w # <<Do("release", x)>> /\ w # <<Do("empty", "large"), Do("release", x)>>
  BY <1>4 DEF Flushing, Do
<1>8. Emptied(w, c)
  BY <1>1, <1>4, <1>6, <1>7 DEF Emptied
<1>9. Kept(w, c)
  BY <1>1, <1>5, <1>8 DEF Kept
<1>10. Lives(t, w, c, tls[t], key[t])
  <2>1. cache[t] # Null /\ c.born = cache[t].born
    BY <1>1, CacheTyped
  <2>2. \A x \in {"null", "1"} : Rest(w) \in Leaving(x) <=> Rest(work[t]) \in Leaving(x)
    BY <1>4
  <2> QED  BY <2>1, <2>2, LivesOn
<1>11. work' = [work EXCEPT ![t] = w] /\ cache' = [cache EXCEPT ![t] = c]
       /\ free' \in [Arenas -> SUBSET Objects] /\ held' \in SUBSET Objects
  BY <1>1, <1>2, Facts
<1> QED  BY <1>4, <1>9, <1>10, <1>11, LocalStep

LEMMA DallocIs ==
  ASSUME IInv, NEW t \in Threads, Dalloc(t)
  PROVE  \E o \in Objects, b \in Bins :
           /\ cache[t] \in Caches /\ Counted(cache[t]) /\ cache[t].ev_cnt < GcIncr
           /\ work[t] = <<Do("free", o)>> /\ work[t] \in After(b) /\ work[t] \in Whole
           /\ \/ \E rem \in Nat :
                   /\ rem <= cache[t].bins[b].ncached /\ UNCHANGED cache
                   /\ work' = [work EXCEPT ![t] = Then(Flush(b, cache[t].bins[b], rem), work[t])]
              \/ \E c : /\ Ending(t, c) /\ c.bins[b].avail = <<o>> \o cache[t].bins[b].avail
                        /\ \A e \in Bins \ {b} : c.bins[e] = cache[t].bins[e]
<1>1. HasCache(t) /\ Task(t, "free")
  BY DEF Dalloc
<1>2. cache[t] \in Caches /\ cache[t] # Null /\ Kept(work[t], cache[t])
  BY <1>1, HasCacheFacts
<1>3. /\ work[t] \in Whole /\ work[t] # <<>> /\ work[t] = <<Do("free", Arg(t))>>
      /\ Arg(t) \in Objects /\ work[t][1].op = "free" /\ Rest(work[t]) = work[t]
  BY <1>1, Only, Heads DEF Arg
<1>4. PICK o \in Objects, b \in Bins : o = Arg(t) /\ b = BinOf(o)
  BY <1>3, HomeTyped
<1>5. PICK c \in Caches, v \in Binned : c = cache[t] /\ v = c.bins[b]
  BY <1>2, CacheTyped
<1>6. work[t] # <<Do("malloc", "small")>>
  BY <1>3, One
<1>7. work[t] \notin Collecting
  BY <1>3, LastTasks
<1>8. Counted(c) /\ c.ev_cnt < GcIncr
  BY <1>2, <1>3, <1>5, <1>6, <1>7, Settled
<1>9. work[t] = <<Do("free", o)>> /\ work[t] \in After(b)
  BY <1>3, <1>4 DEF After
<1>10. ASSUME Full(b, v)
       PROVE  \E rem \in Nat :
                /\ rem <= cache[t].bins[b].ncached /\ UNCHANGED cache
                /\ work' = [work EXCEPT ![t] = Then(Flush(b, cache[t].bins[b], rem), work[t])]
  <2>1. v.ncached = CachedMax[b]
    BY <1>10 DEF Full
  <2>2. PICK rem \in Nat : rem = CachedMax[b] \div 2 /\ rem <= v.ncached
    <3>1. CachedMax[b] \div 2 \in Nat /\ CachedMax[b] \div 2 <= CachedMax[b]
      BY Limits
    <3> QED  BY <2>1, <3>1
  <2>3. Does(t, <<Flush(b, v, CachedMax[b] \div 2)>> \o work[t]) /\ UNCHANGED cache
    BY <1>4, <1>5, <1>10 DEF Dalloc
  <2>4. work' = [work EXCEPT ![t] = Then(Flush(b, cache[t].bins[b], rem), work[t])]
    BY <1>5, <2>2, <2>3 DEF Does, Then
  <2> QED  BY <1>5, <2>2, <2>3, <2>4
<1>11. ASSUME ~Full(b, v)
       PROVE  \E c1 : /\ Ending(t, c1) /\ c1.bins[b].avail = <<o>> \o cache[t].bins[b].avail
                      /\ \A e \in Bins \ {b} : c1.bins[e] = cache[t].bins[e]
  <2>1. v.ncached = Len(v.avail) /\ v.low <= v.ncached /\ v.ncached < CachedMax[b]
    <3>1. v.ncached # CachedMax[b]
      BY <1>11 DEF Full
    <3> QED  BY <1>5, <1>8, <3>1, Limits, BinTyped DEF Counted
  <2>2. PICK s \in Seq(Objects) : s = <<o>> \o v.avail /\ Len(s) = Len(v.avail) + 1
    BY BinTyped, Pushed
  <2>3. PICK n \in Nat : n = v.ncached + 1
    <3>1. v.ncached + 1 \in Nat
      BY BinTyped
    <3> QED  BY <3>1
  <2>4. PICK q : q = [v EXCEPT !.ncached = n, !.avail = s, !.most = Null]
    OBVIOUS
  <2>5. q \in Binned /\ q.avail = s /\ q.ncached = n /\ q.low = v.low /\ q.most = Null
    BY <2>4 DEF Binned
  <2>6. q = Push(v, o)
    BY <2>2, <2>3, <2>4 DEF Push
  <2>7. PICK d \in Caches : /\ d = [c EXCEPT !.bins[b] = q] /\ d.bins[b] = q
                            /\ \A e \in Bins \ {b} : d.bins[e] = c.bins[e]
                            /\ d.born = c.born /\ d.self = c.self
    <3>1. q \in Binned
      BY <2>5
    <3> QED  BY <3>1, BinPut
  <2>8. tcache_event(t, d)
    BY <1>4, <1>5, <1>11, <2>6, <2>7 DEF Dalloc
  <2>9. q.low <= q.ncached /\ q.ncached <= CachedMax[b] /\ q.ncached = Len(q.avail)
    BY <2>1, <2>2, <2>3, <2>5, Limits, BinTyped
  <2>10. Counted(d)
    BY <1>8, <2>7, <2>9 DEF Counted
  <2>11. Ending(t, d)
    BY <1>2, <1>5, <2>5, <2>7, <2>8, <2>10 DEF Ending
  <2>12. d.bins[b].avail = <<o>> \o cache[t].bins[b].avail
    BY <1>5, <2>2, <2>5, <2>7
  <2>13. \A e \in Bins \ {b} : d.bins[e] = cache[t].bins[e]
    BY <1>5, <2>7
  <2> QED  BY <2>11, <2>12, <2>13
<1> QED  BY <1>2, <1>3, <1>5, <1>8, <1>9, <1>10, <1>11

LEMMA DallocStep ==
  ASSUME IInv, NEW t \in Threads, Dalloc(t)
  PROVE  IInv'
<1>1. Task(t, "free") /\ UNCHANGED <<free, held, globals, life>>
  BY DEF Dalloc
<1>2. PICK o \in Objects, b \in Bins :
        /\ cache[t] \in Caches /\ Counted(cache[t]) /\ cache[t].ev_cnt < GcIncr
        /\ work[t] = <<Do("free", o)>> /\ work[t] \in After(b) /\ work[t] \in Whole
        /\ \/ \E rem \in Nat :
                /\ rem <= cache[t].bins[b].ncached /\ UNCHANGED cache
                /\ work' = [work EXCEPT ![t] = Then(Flush(b, cache[t].bins[b], rem), work[t])]
           \/ \E c : Ending(t, c)
  BY DallocIs
<1>3. Rest(work[t]) = work[t] /\ work[t] # <<>>
  BY <1>1, Only
<1>4. Rest(work[t]) \notin Leaving("null") /\ Rest(work[t]) \notin Leaving("1")
  BY <1>1, NotLeaving
<1>5. ASSUME NEW rem \in Nat, rem <= cache[t].bins[b].ncached, UNCHANGED cache,
             work' = [work EXCEPT ![t] = Then(Flush(b, cache[t].bins[b], rem), work[t])]
      PROVE  IInv'
  <2>1. work[t] \notin Leaving("null") /\ work[t] \notin Leaving("1")
    BY <1>3, <1>4
  <2>2. \A x \in {"null", "1"} : work[t] # <<Do("release", x)>>
    BY <2>1 DEF Leaving
  <2>3. UNCHANGED <<free, held, cache, globals, life>>
    BY <1>1, <1>5
  <2> QED  BY <1>2, <1>3, <1>4, <1>5, <2>1, <2>2, <2>3, FlushStep
<1>6. free' \in [Arenas -> SUBSET Objects] /\ held' \in SUBSET Objects
      /\ UNCHANGED <<globals, life>>
  BY <1>1, Facts
<1> QED  BY <1>1, <1>2, <1>5, <1>6, EndingStep

LEMMA EmptyTail ==
  ASSUME IInv, NEW t \in Threads, Task(t, "empty")
  PROVE  \E b \in Bins, x \in {"null", "1"} : \E r \in After(b) :
           /\ b = Arg(t) /\ r = Tail(work[t]) /\ r \in Leaving(x) /\ work[t] \in Leaving(x)
           /\ r = <<Do("empty", "large"), Do("release", x)>> \/ r = <<Do("release", x)>>
           /\ b = "large" => work[t] = <<Do("empty", "large"), Do("release", x)>>
           /\ b = "small" => r # <<Do("release", x)>>
<1>3. work[t] \in Whole /\ work[t] # <<>> /\ work[t][1].op = "empty"
  BY Only
<1>4. PICK x \in {"null", "1"} : \/ Arg(t) = "small" /\ work[t] = Destroy(x)
                                \/ /\ Arg(t) = "large"
                                   /\ work[t] = <<Do("empty", "large"), Do("release", x)>>
  BY <1>3, Heads DEF Arg
<1>5. PICK b \in Bins : b = Arg(t)
  BY <1>4 DEF Bins
<1>6. PICK r : r = Tail(work[t])
  OBVIOUS
<1>7. \/ b = "small" /\ r = <<Do("empty", "large"), Do("release", x)>>
      \/ b = "large" /\ r = <<Do("release", x)>>
  <2>1. PICK e, l, d : e = Do("empty", "small") /\ l = Do("empty", "large") /\ d = Do("release", x)
    OBVIOUS
  <2>2. work[t] = <<e, l, d>> => r = <<l, d>>
    BY <1>6
  <2>3. work[t] = <<l, d>> => r = <<d>>
    BY <1>6
  <2> QED  BY <1>4, <1>5, <1>6, <2>1, <2>2, <2>3 DEF Destroy
<1>8. r \in After(b)
  BY <1>7 DEF After
<1>9. r \in Leaving(x) /\ work[t] \in Leaving(x)
  BY <1>4, <1>7 DEF Leaving
<1>10. b = "large" => work[t] = <<Do("empty", "large"), Do("release", x)>>
  BY <1>4, <1>5
<1>11. b = "small" => r # <<Do("release", x)>>
  BY <1>7
<1> QED  BY <1>5, <1>6, <1>7, <1>8, <1>9, <1>10, <1>11

LEMMA EmptyBinStep ==
  ASSUME IInv, NEW t \in Threads, EmptyBin(t)
  PROVE  IInv'
<1>1. /\ Task(t, "empty")
      /\ Does(t, <<Flush(Arg(t), cache[t].bins[Arg(t)], 0)>> \o Tail(work[t]))
      /\ UNCHANGED <<free, held, cache, globals, life>>
  BY DEF EmptyBin
<1>2. cache[t] \in Caches /\ cache[t] # Null /\ Kept(work[t], cache[t])
  BY <1>1, HasCacheFacts DEF NeedCache
<1>3. work[t] \in Whole /\ work[t] # <<>> /\ work[t][1].op = "empty" /\ Rest(work[t]) = work[t]
      /\ ~Flushing(work[t])
  BY <1>1, Only
<1>4. PICK b \in Bins, x \in {"null", "1"} : \E r \in After(b) :
        /\ b = Arg(t) /\ r = Tail(work[t]) /\ r \in Leaving(x) /\ work[t] \in Leaving(x)
        /\ r = <<Do("empty", "large"), Do("release", x)>> \/ r = <<Do("release", x)>>
        /\ b = "large" => work[t] = <<Do("empty", "large"), Do("release", x)>>
        /\ b = "small" => r # <<Do("release", x)>>
  BY <1>1, EmptyTail
<1>5. PICK r \in After(b) :
        /\ b = Arg(t) /\ r = Tail(work[t]) /\ r \in Leaving(x) /\ work[t] \in Leaving(x)
        /\ r = <<Do("empty", "large"), Do("release", x)>> \/ r = <<Do("release", x)>>
        /\ b = "large" => work[t] = <<Do("empty", "large"), Do("release", x)>>
        /\ b = "small" => r # <<Do("release", x)>>
  BY <1>4
<1>8. Counted(cache[t]) /\ cache[t].ev_cnt < GcIncr
  <2>1. work[t] # <<Do("malloc", "small")>>
    BY <1>3, One
  <2>2. work[t] \notin Collecting
    BY <1>3, LastTasks
  <2> QED  BY <1>2, <1>3, <2>1, <2>2, Settled
<1>10. \A y \in {"null", "1"} : r \in Leaving(y) <=> Rest(work[t]) \in Leaving(y)
  BY <1>3, <1>5, LastTasks
<1>11. \A y \in {"null", "1"} :
         r = <<Do("release", y)>> => cache[t].bins["small"].avail = <<>>
  <2>1. SUFFICES ASSUME NEW y \in {"null", "1"}, r = <<Do("release", y)>>
                 PROVE  cache[t].bins["small"].avail = <<>>
    OBVIOUS
  <2>2. b = "large"
    <3>1. y = x
      BY <1>5, <2>1, LastTasks DEF Leaving
    <3> QED  BY <1>5, <2>1, <3>1 DEF Bins
  <2>3. work[t] = <<Do("empty", "large"), Do("release", x)>>
    BY <1>5, <2>2
  <2>4. Emptied(work[t], cache[t])
    BY <1>2 DEF Kept
  <2> QED  BY <2>3, <2>4 DEF Emptied
<1>12. PICK rem \in Nat : rem = 0
  OBVIOUS
<1>13. work' = [work EXCEPT ![t] = Then(Flush(b, cache[t].bins[b], rem), r)]
  BY <1>1, <1>5, <1>12 DEF Does, Then
<1>14. rem <= cache[t].bins[b].ncached
  BY <1>2, <1>12, CacheTyped, BinTyped
<1> QED  BY <1>1, <1>2, <1>3, <1>5, <1>8, <1>10, <1>11, <1>12, <1>13, <1>14, FlushStep

(* What a thread that flushes a bin has to do.                             *)
LEMMA FlushFacts ==
  ASSUME IInv, NEW t \in Threads, Task(t, "flush")
  PROVE  \E f \in Flushes, r \in Whole :
           /\ work[t] # <<>> /\ f = work[t][1] /\ r = Tail(work[t]) /\ Flushing(work[t])
           /\ Rest(work[t]) = r /\ r \in After(f.arg) /\ f.arg \in Bins /\ Arg(t) = f.arg
           /\ cache[t] \in Caches /\ cache[t] # Null /\ Kept(work[t], cache[t])
<1>1. work[t] # <<>> /\ work[t][1].op = "flush"
  BY DEF Task, Idle
<1>2. Flushing(work[t]) /\ Rest(work[t]) = Tail(work[t])
  BY <1>1 DEF Flushing, Rest
<1>3. work[t][1] \in Flushes /\ Rest(work[t]) \in After(work[t][1].arg) /\ Rest(work[t]) \in Whole
  BY <1>2, Facts DEF Shape
<1>4. work[t][1].arg \in Bins
  BY <1>3 DEF Flushes
<1>5. cache[t] # Null
  BY <1>1, Facts DEF Lives, NeedCache
<1> QED  BY <1>1, <1>2, <1>3, <1>4, <1>5, Facts DEF Arg

LEMMA ReleaseStep ==
  ASSUME IInv, NEW t \in Threads, Release(t)
  PROVE  IInv'
<1>1. /\ Task(t, "release") /\ GivesTo(Home(cache[t].self), {cache[t].self})
      /\ cache' = [cache EXCEPT ![t] = Null] /\ TCACHE_SET(t, Arg(t))
      /\ work' = [work EXCEPT ![t] = <<>>] /\ UNCHANGED <<held, globals, rounds>>
  BY DEF Release, Does
<1>2. cache[t] \in Caches /\ tls[t] = "cache"
  BY <1>1, HasCacheFacts DEF NeedCache
<1>3. /\ work[t] \in Whole /\ work[t] # <<>> /\ Rest(work[t]) = work[t]
      /\ Arg(t) \in {"null", "1"} /\ work[t] = <<Do("release", Arg(t))>> /\ ~Dead(t)
  BY <1>1, Only, Heads DEF Arg
<1>4. PICK x \in {"null", "1"} : x = Arg(t) /\ work[t] \in Leaving(x) /\ x \in Marks
  BY <1>3 DEF Leaving, Marks
<1>5. PICK w \in Calling : w = <<>>
  BY DEF Calling
<1>6. w \in Seq(Tasks) /\ Shape(w) /\ Rest(w) = w
  BY WholeShape DEF Whole
<1>7. PICK c \in Caches \cup {Null} : c = Null
  OBVIOUS
<1>8. Lives(t, w, c, x, x)
  <2>1. Lives(t, work[t], cache[t], tls[t], key[t])
    BY Facts
  <2>2. w \notin Leaving("null") /\ w \notin Leaving("1")
    BY <1>5, LastTasks
  <2>3. t \in cleaned => x = "1" /\ round[t] > 0
    BY <1>3, <1>4, <2>1 DEF Lives
  <2>4. isthreaded /\ round[t] <= Rounds + 1
    BY <1>2, <2>1 DEF Lives
  <2> QED  BY <1>3, <1>4, <1>5, <1>6, <1>7, <2>2, <2>3, <2>4 DEF Lives
<1>9. free' \in [Arenas -> SUBSET Objects] /\ held' \in SUBSET Objects
  <2>1. PICK o \in Objects, a \in Arenas : o = cache[t].self /\ a = Home(o)
    BY <1>2, CacheTyped, HomeTyped
  <2>2. PICK os \in SUBSET Objects : os = {o}
    OBVIOUS
  <2>3. GivesTo(a, os)
    BY <1>1, <2>1, <2>2
  <2> QED  BY <1>1, <2>3, FreeTyped, Facts
<1>10. /\ arenas' \in SUBSET Arenas /\ next_arena' \in Arenas
       /\ arena_of' \in [Threads -> Arenas \cup {Null}] /\ UNCHANGED <<isthreaded, uses, rounds>>
  BY <1>1 DEF IInv, TypeOK, globals
<1>11. /\ work' = [work EXCEPT ![t] = w] /\ cache' = [cache EXCEPT ![t] = c]
       /\ tls' = [tls EXCEPT ![t] = x] /\ key' = [key EXCEPT ![t] = x]
  BY <1>1, <1>4, <1>5, <1>7 DEF TCACHE_SET
<1>12. c # Null => Kept(w, c)
  BY <1>7
<1>13. PICK m \in Marks : m = x
  BY <1>4
<1> QED  BY <1>6, <1>8, <1>9, <1>10, <1>11, <1>12, <1>13, ThreadStep

LEMMA AfterLast ==
  ASSUME NEW b \in Bins, NEW r \in After(b), NEW x
  PROVE  /\ r = <<Do("release", x)>> => b = "large"
         /\ r = <<Do("empty", "large"), Do("release", x)>> => b = "small"
<1>1. CASE r = <<Do("collected", b)>>
  BY <1>1 DEF Do
<1>2. CASE r \in {<<Do("free", o)>> : o \in {p \in Objects : BinOf(p) = b}}
  BY <1>2 DEF Do
<1>3. ASSUME NEW y, r = IF b = "small" THEN <<Do("empty", "large"), Do("release", y)>>
                        ELSE <<Do("release", y)>>
      PROVE  /\ r = <<Do("release", x)>> => b = "large"
             /\ r = <<Do("empty", "large"), Do("release", x)>> => b = "small"
  <2>1. <<Do("empty", "large"), Do("release", y)>> # <<Do("release", x)>>
    OBVIOUS
  <2>2. <<Do("empty", "large"), Do("release", x)>> # <<Do("release", y)>>
    OBVIOUS
  <2> QED  BY <1>3, <2>1, <2>2 DEF Bins
<1> QED  BY <1>1, <1>2, <1>3 DEF After

LEMMA FlushEndStep ==
  ASSUME IInv, NEW t \in Threads, FlushEnd(t)
  PROVE  IInv'
<1>1. /\ Task(t, "flush") /\ work[t][1].list = <<>>
      /\ SetBin(t, Arg(t), Flushed(cache[t].bins[Arg(t)], work[t][1].rem))
      /\ Does(t, Tail(work[t])) /\ UNCHANGED <<free, held, globals, life>>
  BY DEF FlushEnd
<1>2. PICK f \in Flushes, r \in Whole :
        /\ work[t] # <<>> /\ f = work[t][1] /\ r = Tail(work[t]) /\ Flushing(work[t])
        /\ Rest(work[t]) = r /\ r \in After(f.arg) /\ f.arg \in Bins /\ Arg(t) = f.arg
        /\ cache[t] \in Caches /\ cache[t] # Null /\ Kept(work[t], cache[t])
  BY <1>1, FlushFacts
<1>3. PICK b \in Bins, rem \in Nat : b = f.arg /\ rem = f.rem /\ f.list = <<>>
  BY <1>1, <1>2 DEF Flushes
<1>4. PICK c \in Caches, v \in Binned : c = cache[t] /\ v = c.bins[b]
  BY <1>2, CacheTyped
<1>5. \A e \in Bins : Agrees(work[t], c.bins[e], e)
  BY <1>2, <1>4 DEF Kept
<1>6. v.low <= v.ncached /\ v.ncached <= CachedMax[b] /\ rem <= v.ncached /\ Len(v.avail) = rem
  <2>1. Agrees(work[t], v, b)
    BY <1>4, <1>5
  <2>2. /\ v.low <= v.ncached /\ v.ncached <= CachedMax[b] /\ rem <= v.ncached
        /\ f.first => v.avail = <<>> /\ v.ncached = Len(v.avail)
        /\ ~f.first => Len(v.avail) = rem
    BY <1>2, <1>3, <2>1 DEF Agrees
  <2>3. Len(<<>>) = 0
    OBVIOUS
  <2> QED  BY <2>2, <2>3, BinTyped
<1>7. ~Flushing(r) /\ Rest(r) = r /\ Shape(r) /\ r \in Seq(Tasks) /\ r # <<>>
  BY <1>2, WholeShape, AfterWhole
<1>8. PICK l \in Nat : l = Smaller(v.low, rem) /\ l <= rem
  BY BinTyped DEF Smaller
<1>9. PICK p : p = [v EXCEPT !.ncached = rem, !.low = l]
  OBVIOUS
<1>10. p \in Binned /\ p.ncached = rem /\ p.low = l /\ p.avail = v.avail
  BY <1>9 DEF Binned
<1>11. p = Flushed(v, rem)
  BY <1>8, <1>9 DEF Flushed
<1>12. cache' = [cache EXCEPT ![t].bins[b] = p]
  BY <1>1, <1>2, <1>3, <1>4, <1>11 DEF SetBin
<1>13. work' = [work EXCEPT ![t] = r]
  BY <1>1, <1>2 DEF Does
<1>14. cache[t].ev_cnt < GcIncr \/ Rest(r) \in Collecting
  BY <1>2, <1>7 DEF Kept
<1>15. Agrees(r, p, b)
  BY <1>6, <1>7, <1>8, <1>10, Limits, BinTyped DEF Agrees
<1>16. \A e \in Bins \ {b} : Agrees(r, cache[t].bins[e], e)
  <2>1. work[t][1].arg = b /\ work[t] # <<Do("malloc", "small")>>
    <3>1. work[t][1].op = "flush"
      BY <1>2 DEF Flushing
    <3> QED  BY <1>2, <1>3, <3>1, One
  <2> QED  BY <1>2, <1>4, <1>5, <1>7, <2>1 DEF Agrees
<1>17. Emptied(r, [cache[t] EXCEPT !.bins[b] = p])
  <2>1. PICK d \in Caches : /\ d = [c EXCEPT !.bins[b] = p] /\ d.bins[b] = p
                            /\ \A e \in Bins \ {b} : d.bins[e] = c.bins[e]
    BY <1>10, BinPut
  <2>2. SUFFICES Emptied(r, d)
    BY <1>4, <2>1
  <2>3. Emptied(work[t], c)
    BY <1>2, <1>4 DEF Kept
  <2>4. \A x \in {"null", "1"} : r \in Leaving(x) => p.avail = <<>>
    <3>1. SUFFICES ASSUME NEW x \in {"null", "1"}, r \in Leaving(x) PROVE p.avail = <<>>
      OBVIOUS
    <3>2. rem = 0
      BY <1>2, <1>3, <2>3, <3>1 DEF Emptied
    <3>3. v.avail \in Seq(Objects)
      BY BinTyped
    <3> QED  BY <1>6, <1>10, <3>2, <3>3, EmptySeq
  <2>5. \A x \in {"null", "1"} :
          /\ r = <<Do("release", x)>> => r \in Leaving(x) /\ c.bins["small"].avail = <<>>
          /\ r = <<Do("empty", "large"), Do("release", x)>> => r \in Leaving(x)
    BY <1>2, <2>3 DEF Leaving, Emptied
  <2>6. \A x \in {"null", "1"} :
          /\ r = <<Do("release", x)>> => b = "large"
          /\ r = <<Do("empty", "large"), Do("release", x)>> => b = "small"
    BY <1>2, <1>3, AfterLast
  <2>7. "small" \in Bins /\ "large" \in Bins /\ "small" # "large"
    BY DEF Bins
  <2> QED  BY <1>7, <2>1, <2>4, <2>5, <2>6, <2>7 DEF Emptied
<1>18. \A x \in {"null", "1"} : Rest(r) \in Leaving(x) <=> Rest(work[t]) \in Leaving(x)
  BY <1>2, <1>7
<1>19. free' \in [Arenas -> SUBSET Objects] /\ held' \in SUBSET Objects /\ UNCHANGED <<globals, life>>
  BY <1>1, Facts
<1> QED  BY <1>2, <1>7, <1>10, <1>12, <1>13, <1>14, <1>15, <1>16, <1>17, <1>18, <1>19, BinStep

(* What a pass leaves, listed from the end of the chain.                   *)
Falls(ks, p) ==
  /\ p \in [1 .. Cardinality(ks) -> ks]
  /\ \A i, j \in DOMAIN p : i < j => p[i] > p[j]

LEMMA FallsExists ==
  ASSUME NEW n \in Nat, NEW ks \in SUBSET (0 .. n - 1)
  PROVE  \E p : Falls(ks, p)
<1> DEFINE Bad == {m \in Nat : \E bs \in SUBSET (0 .. m - 1) : ~ \E p : Falls(bs, p)}
<1>1. CASE Bad = {}
  BY <1>1
<1>2. CASE Bad # {}
  <2>1. PICK m \in Bad : \A c \in Bad : m <= c
    <3> HIDE DEF Bad
    <3>1. Bad \subseteq Nat
      BY DEF Bad
    <3> QED  BY <1>2, <3>1, LeastNumber
  <2>2. PICK bs \in SUBSET (0 .. m - 1) : ~ \E p : Falls(bs, p)
    OBVIOUS
  <2>3. m # 0
    <3> SUFFICES ASSUME m = 0 PROVE FALSE
      OBVIOUS
    <3> HIDE DEF Bad
    <3>1. bs = {}
      <4>1. bs \subseteq 0 .. 0 - 1
        OBVIOUS
      <4> QED  BY <4>1
    <3>2. bs = {} /\ Cardinality(bs) = 0
      BY <3>1, FS_EmptySet
    <3>3. Falls(bs, <<>>)
      BY <3>2 DEF Falls
    <3> QED  BY <2>2, <3>3
  <2>4. m - 1 \in Nat /\ m - 1 \notin Bad
    <3>1. m \in Nat /\ m - 1 \in Nat /\ m - 1 < m
      BY <2>3
    <3> HIDE DEF Bad
    <3> QED  BY <2>1, <3>1
  <2>5. m - 1 \in bs
    <3> SUFFICES ASSUME m - 1 \notin bs PROVE FALSE
      OBVIOUS
    <3>1. bs \in SUBSET (0 .. (m - 1) - 1)
      BY <2>4
    <3> QED  BY <2>2, <2>4, <3>1
  <2> DEFINE cs == bs \ {m - 1}
             k == Cardinality(cs)
  <2>6. cs \in SUBSET (0 .. (m - 1) - 1)
    BY <2>4
  <2>7. PICK p : Falls(cs, p)
    BY <2>4, <2>6
  <2>8. k \in Nat /\ Cardinality(bs) = k + 1
    <3>1. IsFiniteSet(0 .. m - 1)
      BY FS_Interval
    <3>2. IsFiniteSet(bs) /\ IsFiniteSet(cs)
      BY <3>1, FS_Subset
    <3>3. bs = cs \cup {m - 1}
      BY <2>5
    <3> QED  BY <3>2, <3>3, FS_AddElement, FS_CardinalityType
  <2> DEFINE r == [i \in 1 .. k + 1 |-> IF i = 1 THEN m - 1 ELSE p[i - 1]]
  <2>9. \A i \in 1 .. k : p[i] \in cs
    BY <2>7 DEF Falls
  <2>10. \A i \in 2 .. k + 1 : i - 1 \in 1 .. k
    BY <2>8
  <2>11. r \in [1 .. k + 1 -> bs]
    <3>1. ASSUME NEW i \in 1 .. k + 1 PROVE r[i] \in bs
      <4>1. i # 1 => i - 1 \in 1 .. k
        BY <2>8, <2>10
      <4> QED  BY <2>5, <2>9, <4>1
    <3> QED  BY <3>1
  <2>12. ASSUME NEW i \in 1 .. k + 1, NEW j \in 1 .. k + 1, i < j PROVE r[i] > r[j]
    <3>1. j - 1 \in 1 .. k /\ j # 1
      BY <2>8, <2>12
    <3>2. CASE i = 1
      <4> HIDE DEF Bad, cs, k
      <4>1. r[i] = m - 1 /\ r[j] = p[j - 1]
        BY <3>1, <3>2
      <4>2. p[j - 1] \in 0 .. (m - 1) - 1
        BY <3>1, <2>6, <2>9
      <4> QED  BY <4>1, <4>2, <2>4
    <3>3. CASE i # 1
      <4>1. i - 1 \in 1 .. k /\ i - 1 < j - 1 /\ DOMAIN p = 1 .. k
        BY <3>3, <2>7, <2>8, <2>12 DEF Falls
      <4>2. p[i - 1] > p[j - 1]
        BY <4>1, <3>1, <2>7 DEF Falls
      <4>3. r[i] = p[i - 1] /\ r[j] = p[j - 1]
        BY <3>1, <3>3
      <4> QED  BY <4>2, <4>3
    <3> QED  BY <3>2, <3>3
  <2>13. Falls(bs, r)
    BY <2>8, <2>11, <2>12 DEF Falls
  <2> QED  BY <2>2, <2>13
<1> QED  BY <1>1, <1>2

(* A pass stashes the objects of other arenas, each one once.              *)
LEMMA StashedLists ==
  ASSUME NEW s \in Seq(Objects), NEW a
  PROVE  /\ Stashed(s, a) \in Seq(Objects) /\ Len(Stashed(s, a)) \in Nat
         /\ ToSet(Stashed(s, a)) = {o \in ToSet(s) : Home(o) # a}
         /\ IsInjective(s) => IsInjective(Stashed(s, a))
<1>1. PICK n \in Nat : n = Len(s) /\ DOMAIN s = 1 .. n /\ \A i \in 1 .. n : s[i] \in Objects
  BY LenProperties, ElementOfSeq
<1>2. PICK ks \in SUBSET (1 .. n) :
        /\ ks = Others(s, a)
        /\ \A i \in 1 .. n : i \in ks <=> Home(s[i]) # a
  <2>1. PICK ks : ks = {k \in 1 .. n : Home(s[k]) # a}
    OBVIOUS
  <2>2. ks \in SUBSET (1 .. n) /\ \A i \in 1 .. n : i \in ks <=> Home(s[i]) # a
    BY <2>1
  <2>3. ks = Others(s, a)
    BY <1>1, <2>1 DEF Others
  <2> QED  BY <2>2, <2>3
<1>3. PICK m \in Nat : m = Cardinality(ks) /\ IsFiniteSet(ks)
  <2>1. IsFiniteSet(1 .. n)
    BY FS_Interval
  <2> QED  BY <2>1, FS_Subset, FS_CardinalityType
<1>4. PICK p : p = Descending(ks) /\ p \in [1 .. m -> ks] /\ \A i, j \in 1 .. m : i < j => p[i] > p[j]
  <2>1. n + 1 \in Nat /\ ks \in SUBSET (0 .. (n + 1) - 1)
    OBVIOUS
  <2>2. \E p : Falls(ks, p)
    BY <2>1, FallsExists
  <2>3. Falls(ks, Descending(ks))
    BY <2>2 DEF Falls, Descending
  <2> QED  BY <1>3, <2>3 DEF Falls
<1>5. PICK r : r = [i \in 1 .. m |-> s[p[i]]]
  OBVIOUS
<1>6. Stashed(s, a) = r
  BY <1>2, <1>3, <1>4, <1>5 DEF Stashed
<1>7. \A i \in 1 .. m : p[i] \in ks /\ p[i] \in 1 .. n
  BY <1>4
<1>8. r \in Seq(Objects) /\ Len(r) = m /\ DOMAIN r = 1 .. m
  BY <1>1, <1>5, <1>7
<1>9. \A i, j \in 1 .. m : p[i] = p[j] => i = j
  <2>1. SUFFICES ASSUME NEW i \in 1 .. m, NEW j \in 1 .. m, p[i] = p[j], i # j PROVE FALSE
    OBVIOUS
  <2>2. i < j \/ j < i
    BY <2>1
  <2>3. p[i] > p[j] \/ p[j] > p[i]
    BY <1>4, <2>2
  <2>4. p[i] \in Int /\ p[j] \in Int
    BY <1>7
  <2> QED  BY <2>1, <2>3, <2>4
<1>10. \A k \in ks : \E i \in 1 .. m : p[i] = k
  <2>1. p \in Injection(1 .. m, ks)
    BY <1>4, <1>9 DEF Injection, IsInjective
  <2>2. IsFiniteSet(1 .. m) /\ Cardinality(1 .. m) = m
    <3>1. m \in Int /\ 1 \in Int /\ (m < 1 => m = 0)
      OBVIOUS
    <3> QED  BY <3>1, FS_Interval
  <2>3. p \in Surjection(1 .. m, ks)
    BY <1>3, <2>1, <2>2, FS_Injection
  <2> QED  BY <2>3 DEF Surjection
<1>11. ToSet(r) = {o \in ToSet(s) : Home(o) # a}
  <2>1. ASSUME NEW i \in 1 .. m PROVE r[i] \in ToSet(s) /\ Home(r[i]) # a
    <3>1. r[i] = s[p[i]] /\ p[i] \in ks /\ p[i] \in 1 .. n
      BY <1>5, <1>7
    <3> QED  BY <1>1, <1>2, <3>1 DEF ToSet
  <2>2. ASSUME NEW i \in 1 .. n, Home(s[i]) # a PROVE \E j \in 1 .. m : r[j] = s[i]
    <3>1. PICK j \in 1 .. m : p[j] = i
      BY <1>2, <1>10, <2>2
    <3> QED  BY <1>5, <3>1
  <2> QED  BY <1>1, <1>8, <2>1, <2>2 DEF ToSet
<1>12. IsInjective(s) => IsInjective(r)
  <2>1. SUFFICES ASSUME IsInjective(s), NEW i \in 1 .. m, NEW j \in 1 .. m, r[i] = r[j] PROVE i = j
    BY <1>8 DEF IsInjective
  <2>2. p[i] = p[j]
    BY <1>1, <1>5, <1>7, <2>1 DEF IsInjective
  <2> QED  BY <1>9, <2>2
<1> QED  BY <1>6, <1>8, <1>11, <1>12

(* What a pass walks, and what it does not come to.                        *)
LEMMA Split ==
  ASSUME NEW s \in Seq(Objects), NEW n \in Nat, n <= Len(s)
  PROVE  /\ SubSeq(s, 1, n) \in Seq(Objects) /\ SubSeq(s, n + 1, Len(s)) \in Seq(Objects)
         /\ Len(SubSeq(s, 1, n)) = n /\ Len(SubSeq(s, n + 1, Len(s))) = Len(s) - n
         /\ \A i \in 1 .. n : SubSeq(s, 1, n)[i] = s[i]
         /\ \A i \in 1 .. Len(s) - n : SubSeq(s, n + 1, Len(s))[i] = s[n + i]
<1>1. PICK m \in Nat : m = Len(s)
  OBVIOUS
<1>2. \A i \in 1 .. m : s[i] \in Objects
  BY <1>1
<1>3. PICK u, v : u = SubSeq(s, 1, n) /\ v = SubSeq(s, n + 1, m)
  OBVIOUS
<1>4. u = [i \in 1 .. n |-> s[i]]
  BY <1>3
<1>5. v = [i \in 1 .. m - n |-> s[n + i]]
  BY <1>1, <1>3
<1>6. m - n \in Nat /\ \A i \in 1 .. m - n : n + i \in 1 .. m
  BY <1>1
<1>7. \A i \in 1 .. n : i \in 1 .. m
  BY <1>1
<1>8. u \in Seq(Objects) /\ Len(u) = n
  BY <1>2, <1>4, <1>7
<1>9. v \in Seq(Objects) /\ Len(v) = m - n
  BY <1>2, <1>5, <1>6
<1> QED  BY <1>1, <1>3, <1>4, <1>5, <1>8, <1>9

(* How far a pass goes in the chain it is given.                           *)
Passing(t, f, r, l, n, b, a, c, v) ==
  /\ work[t] # <<>> /\ f = work[t][1] /\ r = Tail(work[t]) /\ Flushing(work[t])
  /\ Rest(work[t]) = r /\ r \in After(b) /\ f.arg = b /\ f.list = l /\ f.n = n
  /\ l # <<>> /\ n <= Len(l) /\ a = Home(l[1])
  /\ c = cache[t] /\ c # Null /\ Kept(work[t], c) /\ v = c.bins[b]
  /\ f.first => l = v.avail /\ n = Len(l) - f.rem /\ f.rem <= Len(l)
  /\ ~f.first => n = Len(l) /\ Len(v.avail) = f.rem

LEMMA PassFacts ==
  ASSUME IInv, NEW t \in Threads, Task(t, "flush"), work[t][1].list # <<>>
  PROVE  \E f \in Flushes, r \in Whole, l \in Seq(Objects), n \in Nat, b \in Bins, a \in Arenas,
            c \in Caches, v \in Binned :
           Passing(t, f, r, l, n, b, a, c, v)
<1>1. PICK f \in Flushes, r \in Whole :
        /\ work[t] # <<>> /\ f = work[t][1] /\ r = Tail(work[t]) /\ Flushing(work[t])
        /\ Rest(work[t]) = r /\ r \in After(f.arg) /\ f.arg \in Bins /\ Arg(t) = f.arg
        /\ cache[t] \in Caches /\ cache[t] # Null /\ Kept(work[t], cache[t])
  BY FlushFacts
<1>2. PICK l \in Seq(Objects), n \in Nat, b \in Bins :
        b = f.arg /\ l = f.list /\ n = f.n /\ f.rem \in Nat /\ f.first \in BOOLEAN
  BY <1>1 DEF Flushes
<1>3. PICK c \in Caches, v \in Binned : c = cache[t] /\ v = c.bins[b]
  BY <1>1, CacheTyped
<1>4. l # <<>>
  BY <1>1, <1>2
<1>5. PICK a \in Arenas : a = Home(l[1])
  BY <1>4, ElementOfSeq, EmptySeq, HomeTyped
<1>6. Agrees(work[t], v, b)
  BY <1>1, <1>3 DEF Kept
<1>7. /\ f.rem <= v.ncached
      /\ f.first => l = v.avail /\ v.ncached = Len(v.avail) /\ n = v.ncached - f.rem
      /\ ~f.first => Len(v.avail) = f.rem /\ n = Len(l)
  BY <1>1, <1>2, <1>6 DEF Agrees
<1>8. /\ f.first => l = v.avail /\ n = Len(l) - f.rem /\ f.rem <= Len(l)
      /\ ~f.first => n = Len(l) /\ Len(v.avail) = f.rem
  BY <1>7
<1>9. n <= Len(l)
  <2>1. Len(l) \in Nat
    OBVIOUS
  <2> QED  BY <1>2, <1>8, <2>1
<1>10. c # Null /\ Kept(work[t], c)
  BY <1>1, <1>3
<1>11. Passing(t, f, r, l, n, b, a, c, v)
  BY <1>1, <1>2, <1>3, <1>4, <1>5, <1>8, <1>9, <1>10 DEF Passing
<1> QED  BY <1>11

(* What a pass makes of the cache c, which becomes d, and of its flush f,  *)
(* which becomes g: it walks the list u, does not come to v, and stashes s. *)
Passed(t, f, r, l, n, b, a, c, u, v, s, g, d) ==
  /\ u = SubSeq(l, 1, n) /\ v = SubSeq(l, n + 1, Len(l)) /\ s = Stashed(u, a)
  /\ g.arg = b /\ g.rem = f.rem /\ g.list = s /\ g.n = Len(s) /\ ~g.first
  /\ work' = [work EXCEPT ![t] = <<g>> \o r] /\ cache' = [cache EXCEPT ![t] = d]
  /\ d.ev_cnt = c.ev_cnt /\ d.born = c.born /\ d.self = c.self
  /\ \A e \in Bins \ {b} : d.bins[e] = c.bins[e]
  /\ d.bins[b].low = c.bins[b].low /\ d.bins[b].ncached = c.bins[b].ncached
  /\ d.bins[b].most = c.bins[b].most
  /\ d.bins[b].avail = IF f.first THEN v ELSE c.bins[b].avail
  /\ f.first => Len(v) = f.rem
  /\ f.rem \in Nat /\ f.first \in BOOLEAN

PassOn(t, f, r, l, n, b, a, c) ==
  /\ GivesTo(a, {o \in ToSet(SubSeq(l, 1, n)) : Home(o) = a})
  /\ \E u \in Seq(Objects), v \in Seq(Objects), s \in Seq(Objects), g \in Flushes, d \in Caches :
       Passed(t, f, r, l, n, b, a, c, u, v, s, g, d)

LEMMA PassIs ==
  ASSUME IInv, NEW t \in Threads, FlushPass(t)
  PROVE  \E f \in Flushes, r \in Whole, l \in Seq(Objects), n \in Nat, b \in Bins, a \in Arenas,
            c \in Caches, v \in Binned :
           Passing(t, f, r, l, n, b, a, c, v) /\ PassOn(t, f, r, l, n, b, a, c)
<1>1. Task(t, "flush") /\ work[t][1].list # <<>>
  BY DEF FlushPass
<1>0. PICK f \in Flushes, r \in Whole, l \in Seq(Objects), n \in Nat, b \in Bins, a \in Arenas,
           c \in Caches, v \in Binned : Passing(t, f, r, l, n, b, a, c, v)
  BY <1>1, PassFacts
<1>2. /\ work[t] # <<>> /\ f = work[t][1] /\ r = Tail(work[t]) /\ Flushing(work[t])
      /\ Rest(work[t]) = r /\ r \in After(b) /\ f.arg = b /\ f.list = l /\ f.n = n
      /\ l # <<>> /\ n <= Len(l) /\ a = Home(l[1])
      /\ c = cache[t] /\ c # Null /\ Kept(work[t], c) /\ v = c.bins[b]
      /\ f.first => l = v.avail /\ n = Len(l) - f.rem /\ f.rem <= Len(l)
      /\ ~f.first => n = Len(l) /\ Len(v.avail) = f.rem
  BY <1>0 DEF Passing
<1>3. PICK walked \in Seq(Objects), rest \in Seq(Objects) :
        walked = SubSeq(l, 1, n) /\ rest = SubSeq(l, n + 1, Len(l)) /\ Len(rest) = Len(l) - n
  <2>1. /\ SubSeq(l, 1, n) \in Seq(Objects) /\ SubSeq(l, n + 1, Len(l)) \in Seq(Objects)
        /\ Len(SubSeq(l, n + 1, Len(l))) = Len(l) - n
    BY <1>2, Split
  <2> QED  BY <2>1
<1>4. PICK s \in Seq(Objects), m \in Nat : s = Stashed(walked, a) /\ m = Len(s)
  BY StashedLists
<1>5. PICK g : g = [f EXCEPT !.list = s, !.n = m, !.first = FALSE]
  OBVIOUS
<1>6. /\ g \in Flushes /\ g.arg = b /\ g.rem = f.rem /\ g.list = s /\ g.n = m /\ ~g.first
      /\ f.rem \in Nat /\ f.first \in BOOLEAN
  BY <1>2, <1>5 DEF Flushes
<1>9. work' = [work EXCEPT ![t] = <<g>> \o r]
  BY <1>2, <1>3, <1>4, <1>5 DEF FlushPass, Does
<1>7. f.first => Len(rest) = f.rem
  <2>1. PICK k \in Nat : k = Len(l)
    OBVIOUS
  <2>2. f.first => Len(rest) = k - n /\ n = k - f.rem
    BY <1>2, <1>3, <2>1
  <2> QED  BY <1>6, <2>1, <2>2
<1>10. PICK d \in Caches :
         /\ cache' = [cache EXCEPT ![t] = d] /\ d.ev_cnt = c.ev_cnt /\ d.born = c.born
         /\ d.self = c.self /\ \A e \in Bins \ {b} : d.bins[e] = c.bins[e]
         /\ d.bins[b].low = v.low /\ d.bins[b].ncached = v.ncached /\ d.bins[b].most = v.most
         /\ d.bins[b].avail = IF f.first THEN rest ELSE v.avail
  <2>1. CASE f.first
    <3>1. PICK q : q = [v EXCEPT !.avail = rest]
      OBVIOUS
    <3>2. q \in Binned /\ q.low = v.low /\ q.ncached = v.ncached /\ q.avail = rest
          /\ q.most = v.most
      BY <3>1 DEF Binned
    <3>4. PICK d \in Caches : /\ d = [c EXCEPT !.bins[b] = q] /\ d.bins[b] = q
                              /\ \A e \in Bins \ {b} : d.bins[e] = c.bins[e]
                              /\ d.ev_cnt = c.ev_cnt /\ d.born = c.born /\ d.self = c.self
      <4>1. q \in Binned
        BY <3>2
      <4> QED  BY <4>1, BinPut
    <3>5. cache' = [cache EXCEPT ![t].bins[b].avail = rest]
      BY <1>2, <1>3, <2>1 DEF FlushPass, Unhooks
    <3>6. cache' = [cache EXCEPT ![t] = d]
      BY <1>2, <3>1, <3>4, <3>5 DEF Caches
    <3>7. /\ d.bins[b].low = v.low /\ d.bins[b].ncached = v.ncached /\ d.bins[b].most = v.most
          /\ d.bins[b].avail = IF f.first THEN rest ELSE v.avail
      BY <2>1, <3>2, <3>4
    <3> QED  BY <3>4, <3>6, <3>7
  <2>2. CASE ~f.first
    <3>1. cache' = [cache EXCEPT ![t] = c]
      BY <1>2, <2>2, Facts DEF FlushPass, Unhooks
    <3> QED  BY <1>2, <2>2, <3>1
  <2> QED  BY <1>6, <2>1, <2>2
<1>11. GivesTo(a, {o \in ToSet(SubSeq(l, 1, n)) : Home(o) = a})
  BY <1>2 DEF FlushPass
<1>12. Passed(t, f, r, l, n, b, a, c, walked, rest, s, g, d)
  BY <1>2, <1>3, <1>4, <1>6, <1>7, <1>9, <1>10 DEF Passed
<1>13. PassOn(t, f, r, l, n, b, a, c)
  BY <1>6, <1>11, <1>12 DEF PassOn
<1> QED  BY <1>0, <1>13

LEMMA FlushPassStep ==
  ASSUME IInv, NEW t \in Threads, FlushPass(t)
  PROVE  IInv'
<1>1. UNCHANGED <<held, globals, life>>
  BY DEF FlushPass
<1>0. PICK f \in Flushes, r \in Whole, l \in Seq(Objects), n \in Nat, b \in Bins, a \in Arenas,
           c \in Caches, v \in Binned :
        Passing(t, f, r, l, n, b, a, c, v) /\ PassOn(t, f, r, l, n, b, a, c)
  BY PassIs
<1>2. /\ work[t] # <<>> /\ f = work[t][1] /\ r = Tail(work[t]) /\ Flushing(work[t])
      /\ Rest(work[t]) = r /\ r \in After(b) /\ f.arg = b /\ f.list = l /\ f.n = n
      /\ l # <<>> /\ n <= Len(l) /\ a = Home(l[1])
      /\ c = cache[t] /\ c # Null /\ Kept(work[t], c) /\ v = c.bins[b]
      /\ f.first => l = v.avail /\ n = Len(l) - f.rem /\ f.rem <= Len(l)
      /\ ~f.first => n = Len(l) /\ Len(v.avail) = f.rem
  BY <1>0 DEF Passing
<1>3. PICK walked \in Seq(Objects), rest \in Seq(Objects), s \in Seq(Objects), g \in Flushes,
           d \in Caches : Passed(t, f, r, l, n, b, a, c, walked, rest, s, g, d)
  BY <1>0 DEF PassOn
<1>4. walked = SubSeq(l, 1, n)
  BY <1>3 DEF Passed
<1>5. PICK m \in Nat : m = Len(s)
  OBVIOUS
<1>6. /\ g \in Flushes /\ g.arg = b /\ g.rem = f.rem /\ g.list = s /\ g.n = m /\ ~g.first
      /\ f.rem \in Nat /\ f.first \in BOOLEAN
  BY <1>3, <1>5 DEF Passed
<1>7. PICK w : w = <<g>> \o r
  OBVIOUS
<1>8. w \in Seq(Tasks) /\ Shape(w) /\ Flushing(w) /\ Rest(w) = r /\ w[1] = g /\ w # <<>>
  BY <1>2, <1>6, <1>7, FlushShape
<1>9. work' = [work EXCEPT ![t] = w]
  BY <1>3, <1>7 DEF Passed
<1>10. /\ cache' = [cache EXCEPT ![t] = d] /\ d.ev_cnt = c.ev_cnt /\ d.born = c.born
       /\ \A e \in Bins \ {b} : d.bins[e] = c.bins[e]
       /\ d.bins[b].low = v.low /\ d.bins[b].ncached = v.ncached /\ Len(d.bins[b].avail) = f.rem
  BY <1>2, <1>3 DEF Passed
<1>11. Kept(w, d)
  <2>1. /\ c.ev_cnt < GcIncr \/ r \in Collecting
        /\ \A e \in Bins : Agrees(work[t], c.bins[e], e)
        /\ Emptied(work[t], c)
    BY <1>2 DEF Kept
  <2>2. Agrees(w, d.bins[b], b)
    <3>1. Agrees(work[t], v, b)
      BY <1>2, <2>1
    <3>2. v.low <= v.ncached /\ v.ncached <= CachedMax[b] /\ f.rem <= v.ncached
      BY <1>2, <3>1 DEF Agrees
    <3> QED  BY <1>5, <1>6, <1>8, <1>10, <3>2 DEF Agrees
  <2>3. \A e \in Bins \ {b} : Agrees(w, d.bins[e], e)
    <3>1. work[t][1].arg = b /\ work[t] # <<Do("malloc", "small")>>
      <4>1. work[t][1].op = "flush"
        BY <1>2 DEF Flushing
      <4> QED  BY <1>2, <4>1, One
    <3>2. ASSUME NEW e \in Bins \ {b} PROVE Agrees(w, d.bins[e], e)
      <4>1. PICK x : x = d.bins[e]
        OBVIOUS
      <4>2. Agrees(work[t], x, e)
        BY <1>10, <2>1, <4>1
      <4>3. work[t][1].arg # e /\ w[1].arg # e
        BY <1>6, <1>8, <3>1
      <4>4. /\ x.low <= x.ncached /\ x.ncached <= CachedMax[e]
            /\ x.ncached = Len(x.avail)
        BY <3>1, <4>2, <4>3 DEF Agrees
      <4>5. Agrees(w, x, e)
        BY <4>3, <4>4 DEF Agrees
      <4> QED  BY <4>1, <4>5
    <3> QED  BY <3>2
  <2>4. Emptied(w, d)
    <3>1. SUFFICES ASSUME NEW x \in {"null", "1"}
                   PROVE  /\ r \in Leaving(x) => f.rem = 0
                          /\ r = <<Do("release", x)>> => d.bins["small"].avail = <<>>
                          /\ w # <<Do("empty", "large"), Do("release", x)>>
                          /\ w # <<Do("release", x)>>
      BY <1>6, <1>8 DEF Emptied
    <3>2. w # <<Do("empty", "large"), Do("release", x)>> /\ w # <<Do("release", x)>>
      BY <1>8 DEF Flushing, Do
    <3>3. r \in Leaving(x) => f.rem = 0
      BY <1>2, <2>1 DEF Emptied
    <3>4. ASSUME r = <<Do("release", x)>> PROVE d.bins["small"].avail = <<>>
      <4>1. b = "large"
        BY <1>2, <3>4, AfterLast
      <4>2. c.bins["small"].avail = <<>>
        BY <1>2, <2>1, <3>4 DEF Emptied
      <4> QED  BY <1>10, <4>1, <4>2 DEF Bins
    <3> QED  BY <3>2, <3>3, <3>4
  <2> QED  BY <1>8, <1>10, <2>1, <2>2, <2>3, <2>4 DEF Kept
<1>12. Lives(t, w, d, tls[t], key[t])
  <2>1. \A x \in {"null", "1"} : Rest(w) \in Leaving(x) <=> Rest(work[t]) \in Leaving(x)
    BY <1>2, <1>8
  <2>2. cache[t] # Null /\ d.born = cache[t].born
    BY <1>2, <1>10
  <2> QED  BY <1>2, <2>1, <2>2, LivesOn
<1>13. free' \in [Arenas -> SUBSET Objects] /\ held' \in SUBSET Objects
  <2>1. PICK os \in SUBSET Objects : os = {o \in ToSet(walked) : Home(o) = a}
    <3>1. \A i \in DOMAIN walked : walked[i] \in Objects
      OBVIOUS
    <3> QED  BY <3>1 DEF ToSet
  <2>2. GivesTo(a, os)
    BY <1>0, <1>4, <2>1 DEF PassOn
  <2> QED  BY <1>1, <2>2, FreeTyped, Facts
<1> QED  BY <1>1, <1>8, <1>9, <1>10, <1>11, <1>12, <1>13, LocalStep

-----------------------------------------------------------------------------
LEMMA InitInv == Init => IInv
<1> SUFFICES ASSUME Init PROVE IInv
  OBVIOUS
<1>1. /\ \A t \in Threads : /\ work[t] = <<>> /\ cache[t] = Null /\ tls[t] = "null" /\ key[t] = "null"
                           /\ round[t] = 0 /\ visited[t] = FALSE
      /\ cleaned = {}
  BY DEF Init
<1>2. TypeOK
  <2>1. 0 \in Arenas /\ 1 % NArenas \in Arenas
    BY Limits DEF Arenas
  <2>2. <<>> \in Seq(Tasks)
    OBVIOUS
  <2> QED  BY <2>1, <2>2, TCacheAssumption DEF Init, TypeOK, Marks
<1>3. ASSUME NEW t \in Threads PROVE Fits(t)
  <2>1. <<>> \in Whole
    BY DEF Whole, Calling
  <2>2. Shape(<<>>) /\ Rest(<<>>) = <<>>
    BY <2>1, WholeShape
  <2>3. <<>> \notin Leaving("null") /\ <<>> \notin Leaving("1")
    BY LastTasks
  <2>4. Life(t)
    BY <1>1, <2>2, <2>3, Limits DEF Life, Lives, Dead
  <2> QED  BY <1>1, <2>2, <2>4 DEF Fits
<1> QED  BY <1>2, <1>3 DEF IInv

LEMMA NextInv == IInv /\ [Next]_vars => IInv'
<1>1. ASSUME IInv, NEW t \in Threads,
             \/ pthread_create(t)
             \/ \E b \in Bins : malloc(t, b)
             \/ \E o \in Objects : FreeObject(t, o)
             \/ GoWithout(t) \/ choose_arena_hard(t) \/ tcache_create(t)
             \/ DirectMalloc(t) \/ DirectFree(t)
             \/ AllocEasy(t) \/ FillOne(t) \/ AllocLarge(t) \/ Dalloc(t)
             \/ Collected(t) \/ FlushPass(t) \/ FlushEnd(t)
             \/ EmptyBin(t) \/ Release(t)
             \/ tcache_flush_ctl(t) \/ CallThreadArena(t) \/ thread_arena_ctl(t)
             \/ NextRound(t) \/ Ends(t) \/ tcache_thread_cleanup(t)
      PROVE  IInv'
  BY <1>1, pthread_createStep, mallocStep, FreeObjectStep, GoWithoutStep, choose_arena_hardStep,
     tcache_createStep, DirectMallocStep, DirectFreeStep, AllocEasyStep, FillOneStep,
     AllocLargeStep, DallocStep, CollectedStep, FlushPassStep, FlushEndStep, EmptyBinStep,
     ReleaseStep, tcache_flush_ctlStep, CallThreadArenaStep, thread_arena_ctlStep,
     NextRoundStep, EndsStep, tcache_thread_cleanupStep
<1>2. ASSUME IInv, UNCHANGED vars PROVE IInv'
  <2>1. UNCHANGED <<free, held, arenas, next_arena, arena_of, isthreaded, tls, key, cache, work,
                    round, visited, cleaned, uses>>
    BY <1>2 DEF vars, rounds
  <2>2. TypeOK'
    BY <1>2, <2>1 DEF IInv, TypeOK
  <2>3. ASSUME NEW t \in Threads PROVE Fits(t)'
    BY <1>2, <2>1 DEF IInv, Fits, Life, Lives, Dead
  <2> QED  BY <2>2, <2>3 DEF IInv
<1> QED  BY <1>1, <1>2 DEF Next

-----------------------------------------------------------------------------
(* What a thread has left to do, its cache, its marks and its rounds       *)
(* always fit together.                                                    *)
THEOREM Inductive == Spec => []IInv
<1> QED  BY InitInv, NextInv, PTL DEF Spec

(* Every variable has its type: no task is out of place, and no chain      *)
(* holds anything but objects of the arenas.                               *)
THEOREM TypeCorrect == Spec => []TypeOK
<1>1. IInv => TypeOK
  BY DEF IInv
<1> QED  BY <1>1, Inductive, PTL

(* Between calls the count of a bin is the length of its chain, within the *)
(* limit and not below the low water mark, whatever has been flushed and   *)
(* collected before (tcache_bin_flush_small, tcache_event).                *)
THEOREM CountsAgree == Spec => []MarkAgrees
<1>1. IInv => MarkAgrees
  <2>1. SUFFICES ASSUME IInv, NEW t \in Threads, cache[t] # Null, Idle(t)
                 PROVE  /\ cache[t].ev_cnt < GcIncr
                        /\ \A b \in Bins : /\ cache[t].bins[b].ncached = Len(cache[t].bins[b].avail)
                                          /\ cache[t].bins[b].ncached <= CachedMax[b]
                                          /\ cache[t].bins[b].low <= cache[t].bins[b].ncached
    BY DEF MarkAgrees
  <2> QED  BY <2>1, IdleFacts DEF Counted
<1> QED  BY <1>1, Inductive, PTL

(* A thread that is gone has left no cache, unless its first use of one    *)
(* came in its last round of destructors (tcache_thread_cleanup).          *)
THEOREM ExitLeavesNothing == Spec => []ExitKeepsNothing
<1>1. IInv => ExitKeepsNothing
  BY Facts DEF ExitKeepsNothing, Lives, IInv, Fits, Life
<1> QED  BY <1>1, Inductive, PTL

-----------------------------------------------------------------------------
(* A bin that is left alone drains.  Its mark is where its count is, until *)
(* a collection of it is under way; what the flush is to leave, and what   *)
(* it has left, is a quarter of what there was.                            *)
Drained(w, v, b) ==
  v.most # Null =>
    /\ v.ncached <= v.most
    /\ IF Rest(w) = <<Do("collected", b)>>
       THEN IF Flushing(w) THEN w[1].rem <= v.most \div 4 /\ v.low = v.ncached
            ELSE v.ncached <= v.most \div 4
       ELSE v.low = v.ncached

Drains ==
  \A t \in Threads : cache[t] # Null => \A b \in Bins : Drained(work[t], cache[t].bins[b], b)

LEMMA DrainsThere ==
  ASSUME IInv, Drains, NEW t \in Threads, NEW w, NEW c,
         work' = [work EXCEPT ![t] = w], cache' = [cache EXCEPT ![t] = c],
         c # Null => \A b \in Bins : Drained(w, c.bins[b], b)
  PROVE  Drains'
<1>1. SUFFICES ASSUME NEW u \in Threads, cache'[u] # Null
               PROVE  \A b \in Bins : Drained(work'[u], cache'[u].bins[b], b)
  BY DEF Drains, Drained
<1>2. CASE u = t
  <2>1. work'[u] = w /\ cache'[u] = c
    BY <1>2 DEF IInv, TypeOK
  <2> QED  BY <1>1, <2>1
<1>3. CASE u # t
  <2>1. work'[u] = work[u] /\ cache'[u] = cache[u]
    BY <1>3 DEF IInv, TypeOK
  <2> QED  BY <1>1, <2>1 DEF Drains
<1> QED  BY <1>2, <1>3

(* Neither before nor after a step is a collection under way.              *)
Calm(w) == Rest(w) \notin Collecting

LEMMA CalmIs ==
  ASSUME NEW w, Calm(w), NEW b \in Bins
  PROVE  Rest(w) # <<Do("collected", b)>>
BY DEF Calm, Collecting

LEMMA CalmDrains ==
  ASSUME NEW w, Calm(w), NEW b \in Bins, NEW v
  PROVE  Drained(w, v, b) <=> (v.most # Null => v.ncached <= v.most /\ v.low = v.ncached)
BY CalmIs DEF Drained

LEMMA DrainsCalm ==
  ASSUME IInv, Drains, NEW t \in Threads, NEW w, work' = [work EXCEPT ![t] = w],
         UNCHANGED cache, Calm(work[t]), Calm(w)
  PROVE  Drains'
<1>1. cache' = [cache EXCEPT ![t] = cache[t]]
  BY Facts
<1>2. ASSUME cache[t] # Null, NEW b \in Bins PROVE Drained(w, cache[t].bins[b], b)
  <2>1. Drained(work[t], cache[t].bins[b], b)
    BY <1>2 DEF Drains
  <2> QED  BY <2>1, CalmDrains
<1> QED  BY <1>1, <1>2, DrainsThere

LEMMA DrainsStill ==
  ASSUME IInv, Drains, UNCHANGED <<work, cache>>
  PROVE  Drains'
BY DEF Drains, Drained

LEMMA TaskCalm ==
  ASSUME IInv, NEW t \in Threads, NEW name, Task(t, name), name # "flush", name # "collected"
  PROVE  Calm(work[t])
<1>1. Rest(work[t]) = work[t] /\ work[t][1].op = name
  BY Only
<1> QED  BY <1>1, LastTasks DEF Calm

LEMMA IdleCalm ==
  ASSUME IInv, NEW t \in Threads, Idle(t)
  PROVE  Calm(work[t])
<1>1. Rest(work[t]) = work[t] /\ work[t] = <<>>
  BY IdleFacts
<1> QED  BY <1>1, LastTasks DEF Calm

LEMMA WholeCalm ==
  ASSUME NEW w \in Calling \cup Freeing \cup Leaving("null") \cup Leaving("1")
  PROVE  Calm(w)
<1>1. w \in Whole
  BY DEF Whole
<1>2. Rest(w) = w
  BY <1>1, WholeShape
<1>3. w \in Calling \cup Freeing => w = <<>> \/ w[1].op # "collected"
  BY DEF Calling, Freeing, Do
<1>4. w \in Leaving("null") \cup Leaving("1") => w[1].op # "collected"
  BY LastTasks
<1> QED  BY <1>2, <1>3, <1>4, LastTasks DEF Calm

(* Calls that begin, go on without a cache, or end.                        *)
LEMMA CallsDrain ==
  ASSUME IInv, Drains, NEW t \in Threads,
         NEW w \in Calling \cup Freeing \cup Leaving("null") \cup Leaving("1"),
         Does(t, w), UNCHANGED cache, Calm(work[t])
  PROVE  Drains'
<1>1. work' = [work EXCEPT ![t] = w]
  BY DEF Does
<1> QED  BY <1>1, WholeCalm, DrainsCalm

LEMMA OutsideDrains ==
  ASSUME IInv, Drains, NEW t \in Threads,
         \/ pthread_create(t) \/ choose_arena_hard(t) \/ NextRound(t) \/ Ends(t)
         \/ \E b \in Bins : malloc(t, b)
         \/ \E o \in Objects : FreeObject(t, o)
         \/ CallThreadArena(t) \/ tcache_flush_ctl(t) \/ tcache_thread_cleanup(t)
  PROVE  Drains'
<1>1. CASE pthread_create(t) \/ choose_arena_hard(t) \/ NextRound(t) \/ Ends(t)
  BY <1>1, DrainsStill DEF pthread_create, choose_arena_hard, NextRound, Ends
<1>2. ASSUME NEW b \in Bins, malloc(t, b) PROVE Drains'
  <2>1. <<Do("malloc", b)>> \in Calling
    BY DEF Calling
  <2>2. Idle(t) /\ Does(t, <<Do("malloc", b)>>) /\ UNCHANGED cache
    BY <1>2 DEF malloc, Calls
  <2> QED  BY <2>1, <2>2, IdleCalm, CallsDrain
<1>3. ASSUME NEW o \in Objects, FreeObject(t, o) PROVE Drains'
  <2>1. <<Do("free", o)>> \in Freeing
    BY DEF Freeing
  <2>2. Idle(t) /\ Does(t, <<Do("free", o)>>) /\ UNCHANGED cache
    BY <1>3 DEF FreeObject, Calls
  <2> QED  BY <2>1, <2>2, IdleCalm, CallsDrain
<1>4. CASE CallThreadArena(t)
  <2>1. <<Do("thread_arena", Null)>> \in Calling
    BY DEF Calling
  <2>2. Idle(t) /\ Does(t, <<Do("thread_arena", Null)>>) /\ UNCHANGED cache
    BY <1>4 DEF CallThreadArena, Calls
  <2> QED  BY <2>1, <2>2, IdleCalm, CallsDrain
<1>5. ASSUME NEW x \in {"null", "1"}, Idle(t), Does(t, Destroy(x)), UNCHANGED cache
      PROVE  Drains'
  <2>1. Destroy(x) \in Leaving("null") \cup Leaving("1")
    BY DEF Leaving
  <2> QED  BY <1>5, <2>1, IdleCalm, CallsDrain
<1>6. CASE tcache_flush_ctl(t)
  BY <1>5, <1>6 DEF tcache_flush_ctl, Calls
<1>7. CASE tcache_thread_cleanup(t)
  <2>1. CASE key[t] = "cache"
    <3>1. Idle(t) /\ Does(t, Destroy("1")) /\ UNCHANGED cache
      BY <1>7, <2>1 DEF tcache_thread_cleanup, AfterCleanup
    <3> QED  BY <1>5, <3>1
  <2>2. CASE key[t] # "cache"
    <3>1. UNCHANGED <<cache, work>>
      BY <1>7, <2>2 DEF tcache_thread_cleanup
    <3> QED  BY <3>1, DrainsStill
  <2> QED  BY <2>1, <2>2
<1> QED  BY <1>1, <1>2, <1>3, <1>4, <1>6, <1>7

LEMMA EndDrains ==
  ASSUME IInv, Drains, NEW t \in Threads, UNCHANGED cache,
         NEW name \in {"malloc", "direct_malloc", "direct_free", "thread_arena"}, Task(t, name),
         Does(t, <<>>)
  PROVE  Drains'
<1>1. <<>> \in Calling
  BY DEF Calling
<1>2. Calm(work[t])
  BY TaskCalm
<1> QED  BY <1>1, <1>2, CallsDrain

LEMMA UncachedDrains ==
  ASSUME IInv, Drains, NEW t \in Threads, UNCHANGED cache,
         Task(t, "malloc") \/ Task(t, "free"), Does(t, Uncached(t, work[t]))
  PROVE  Drains'
<1>1. PICK w \in Calling : w = Uncached(t, work[t])
  BY UncachedIs
<1>2. Calm(work[t])
  BY TaskCalm
<1> QED  BY <1>1, <1>2, CallsDrain

LEMMA DirectDrains ==
  ASSUME IInv, Drains, NEW t \in Threads,
         GoWithout(t) \/ DirectMalloc(t) \/ DirectFree(t) \/ thread_arena_ctl(t)
  PROVE  Drains'
<1>1. CASE GoWithout(t)
  BY <1>1, UncachedDrains DEF GoWithout
<1>2. CASE DirectMalloc(t)
  BY <1>2, EndDrains DEF DirectMalloc
<1>3. CASE DirectFree(t)
  BY <1>3, EndDrains DEF DirectFree
<1>4. CASE thread_arena_ctl(t)
  BY <1>4, EndDrains DEF thread_arena_ctl
<1> QED  BY <1>1, <1>2, <1>3, <1>4

LEMMA tcache_createDrains ==
  ASSUME IInv, Drains, NEW t \in Threads, tcache_create(t)
  PROVE  Drains'
<1>1. Task(t, "malloc") \/ Task(t, "free")
  BY DEF tcache_create, NeedsCache
<1>2. CASE Does(t, Uncached(t, work[t])) /\ UNCHANGED cache
  BY <1>1, <1>2, UncachedDrains
<1>3. ASSUME NEW o, NEW a,
             cache' = [cache EXCEPT ![t] =
               [self |-> o, arena |-> a, ev_cnt |-> 0, next_gc_bin |-> "small",
                bins |-> [b \in Bins |-> NewBin], born |-> round[t]]],
             UNCHANGED work
      PROVE  Drains'
  <2>1. PICK c : c = [self |-> o, arena |-> a, ev_cnt |-> 0, next_gc_bin |-> "small",
                      bins |-> [b \in Bins |-> NewBin], born |-> round[t]]
    OBVIOUS
  <2>2. \A b \in Bins : c.bins[b].most = Null
    BY <2>1 DEF NewBin
  <2>3. \A b \in Bins : Drained(work[t], c.bins[b], b)
    BY <2>2 DEF Drained
  <2>4. cache' = [cache EXCEPT ![t] = c] /\ work' = [work EXCEPT ![t] = work[t]]
    BY <1>3, <2>1, Facts
  <2> QED  BY <2>3, <2>4, DrainsThere
<1> QED  BY <1>2, <1>3 DEF tcache_create

(* A call that ends, and perhaps begins a collection.  Of a bin with a     *)
(* mark of zero nothing is flushed: it is empty.                           *)
LEMMA KeepsQuarter ==
  ASSUME NEW v \in Binned, v.most # Null, v.ncached <= v.most, v.low = v.ncached
  PROVE  /\ Keep(v) <= v.most \div 4
         /\ ~(v.low > 0) => v.ncached <= v.most \div 4
<1>1. PICK n \in Nat, m \in Nat : n = v.ncached /\ m = v.most /\ n <= m
  BY BinTyped
<1>2. Keep(v) = n \div 4
  <2>1. n - n + (n \div 4) = n \div 4
    BY <1>1
  <2> QED  BY <1>1, <2>1 DEF Keep
<1>3. n \div 4 <= m \div 4 /\ 0 <= m \div 4
  BY <1>1
<1> QED  BY <1>1, <1>2, <1>3

LEMMA EndingDrains ==
  ASSUME IInv, Drains, NEW t \in Threads, NEW c, Ending(t, c), Calm(work[t])
  PROVE  Drains'
<1>1. PICK d : d = [c EXCEPT !.ev_cnt = @ + 1]
  OBVIOUS
<1>2. c \in Caches /\ Counted(c) /\ cache[t] \in Caches /\ tcache_event(t, c)
      /\ d \in Caches /\ d.bins = c.bins
  BY <1>1, CountUp DEF Ending
<1>3. cache' = [cache EXCEPT ![t] = d]
  BY <1>1, <1>2 DEF tcache_event
<1>4. \A b \in Bins : c.bins[b].most # Null => /\ c.bins[b].ncached <= c.bins[b].most
                                              /\ c.bins[b].low = c.bins[b].ncached
  <2>1. SUFFICES ASSUME NEW b \in Bins, c.bins[b].most # Null
                 PROVE  /\ c.bins[b].ncached <= c.bins[b].most
                        /\ c.bins[b].low = c.bins[b].ncached
    OBVIOUS
  <2>2. c.bins[b] = cache[t].bins[b]
    BY <2>1 DEF Ending
  <2>3. Drained(work[t], cache[t].bins[b], b)
    BY <1>2, CacheTyped DEF Drains
  <2> QED  BY <2>1, <2>2, <2>3, CalmDrains
<1>5. CASE c.ev_cnt + 1 < GcIncr
  <2>1. PICK w \in Calling : w = <<>>
    BY DEF Calling
  <2>2. work' = [work EXCEPT ![t] = w]
    BY <1>2, <1>5, <2>1 DEF tcache_event, Does
  <2>3. \A b \in Bins : Drained(w, d.bins[b], b)
    BY <1>2, <1>4, WholeCalm, CalmDrains
  <2> QED  BY <1>3, <2>2, <2>3, DrainsThere
<1>6. CASE ~(c.ev_cnt + 1 < GcIncr)
  <2>1. PICK gc \in Bins, v \in Binned : gc = c.next_gc_bin /\ v = c.bins[gc]
    BY <1>2, CacheTyped
  <2>2. PICK r : r = <<Do("collected", gc)>>
    OBVIOUS
  <2>3. r \in After(gc) /\ r \in Whole
    BY <2>2 DEF Collecting, After, Whole
  <2>4. work' = [work EXCEPT ![t] = (IF v.low > 0 THEN <<Flush(gc, v, Keep(v))>> ELSE <<>>) \o r]
    BY <1>2, <1>6, <2>1, <2>2 DEF tcache_event, Does
  <2>5. \A b \in Bins : b # gc => r # <<Do("collected", b)>>
    BY <2>2 DEF Do
  <2>6. v.most # Null => v.ncached <= v.most /\ v.low = v.ncached
    BY <1>4, <2>1
  <2>7. CASE v.low > 0
    <3>1. PICK rem \in Nat : rem = Keep(v) /\ rem <= v.ncached
      BY <1>2, <2>1, KeepBounds DEF Counted
    <3>2. PICK w : w = Then(Flush(gc, v, rem), r)
      OBVIOUS
    <3>3. Flushing(w) /\ Rest(w) = r /\ w[1].rem = rem
      BY <2>1, <2>3, <3>1, <3>2, FlushBegins, FlushTyped
    <3>4. work' = [work EXCEPT ![t] = w]
      BY <2>4, <2>7, <3>1, <3>2 DEF Then
    <3>5. Drained(w, v, gc)
      BY <2>2, <2>6, <3>1, <3>3, KeepsQuarter DEF Drained
    <3>6. \A b \in Bins : b # gc => Drained(w, c.bins[b], b)
      BY <1>4, <2>5, <3>3 DEF Drained
    <3>7. \A b \in Bins : Drained(w, d.bins[b], b)
      BY <1>2, <2>1, <3>5, <3>6
    <3> QED  BY <1>3, <3>4, <3>7, DrainsThere
  <2>8. CASE ~(v.low > 0)
    <3>1. work' = [work EXCEPT ![t] = r]
      <4>1. r \in Seq(Tasks)
        BY <2>3, WholeShape
      <4> QED  BY <2>4, <2>8, <4>1, ConcatEmptySeq
    <3>2. Rest(r) = r /\ ~Flushing(r)
      BY <2>3, WholeShape
    <3>3. Drained(r, v, gc)
      BY <2>2, <2>6, <2>8, <3>2, KeepsQuarter DEF Drained
    <3>4. \A b \in Bins : b # gc => Drained(r, c.bins[b], b)
      BY <1>4, <2>5, <3>2 DEF Drained
    <3>5. \A b \in Bins : Drained(r, d.bins[b], b)
      BY <1>2, <2>1, <3>3, <3>4
    <3> QED  BY <1>3, <3>1, <3>5, DrainsThere
  <2> QED  BY <2>7, <2>8
<1> QED  BY <1>5, <1>6

LEMMA AllocDrains ==
  ASSUME IInv, Drains, NEW t \in Threads, AllocEasy(t) \/ AllocLarge(t)
  PROVE  Drains'
<1>1. Calm(work[t])
  BY TaskCalm DEF AllocEasy, AllocLarge
<1>2. CASE AllocEasy(t)
  <2>1. PICK c : Ending(t, c)
    BY <1>2, AllocEasyIs
  <2> QED  BY <1>1, <2>1, EndingDrains
<1>3. CASE AllocLarge(t)
  <2>1. Task(t, "malloc")
    BY <1>3 DEF AllocLarge
  <2>2. CASE Does(t, <<>>) /\ UNCHANGED <<free, held, cache>>
    BY <2>1, <2>2, EndDrains
  <2>3. CASE \E c : Ending(t, c)
    BY <1>1, <2>3, EndingDrains
  <2> QED  BY <1>3, <2>2, <2>3, AllocLargeIs
<1> QED  BY <1>2, <1>3

(* A bin is to be flushed, and then comes r, which is no collection.       *)
LEMMA FlushDrains ==
  ASSUME IInv, Drains, NEW t \in Threads, cache[t] \in Caches, Calm(work[t]), UNCHANGED cache,
         NEW b \in Bins, NEW rem \in Nat, rem <= cache[t].bins[b].ncached,
         NEW r \in After(b), r \notin Collecting,
         work' = [work EXCEPT ![t] = Then(Flush(b, cache[t].bins[b], rem), r)]
  PROVE  Drains'
<1>1. PICK v \in Binned : v = cache[t].bins[b]
  BY CacheTyped
<1>2. PICK w : w = Then(Flush(b, v, rem), r)
  OBVIOUS
<1>3. Rest(w) = r
  BY <1>1, <1>2, FlushBegins
<1> QED  BY <1>1, <1>2, <1>3, DrainsCalm DEF Calm

LEMMA DallocDrains ==
  ASSUME IInv, Drains, NEW t \in Threads, Dalloc(t)
  PROVE  Drains'
<1>1. Task(t, "free")
  BY DEF Dalloc
<1>2. Calm(work[t])
  BY <1>1, TaskCalm
<1>3. PICK o \in Objects, b \in Bins :
        /\ cache[t] \in Caches
        /\ work[t] = <<Do("free", o)>> /\ work[t] \in After(b) /\ work[t] \in Whole
        /\ \/ \E rem \in Nat :
                /\ rem <= cache[t].bins[b].ncached /\ UNCHANGED cache
                /\ work' = [work EXCEPT ![t] = Then(Flush(b, cache[t].bins[b], rem), work[t])]
           \/ \E c : Ending(t, c)
  BY DallocIs
<1>4. work[t] \notin Collecting
  BY <1>1, Only, LastTasks
<1> QED  BY <1>2, <1>3, <1>4, FlushDrains, EndingDrains

LEMMA EmptyBinDrains ==
  ASSUME IInv, Drains, NEW t \in Threads, EmptyBin(t)
  PROVE  Drains'
<1>1. Task(t, "empty") /\ Does(t, <<Flush(Arg(t), cache[t].bins[Arg(t)], 0)>> \o Tail(work[t]))
      /\ UNCHANGED cache
  BY DEF EmptyBin
<1>2. cache[t] \in Caches
  BY <1>1, HasCacheFacts DEF NeedCache
<1>3. Calm(work[t])
  BY <1>1, TaskCalm
<1>4. PICK b \in Bins, x \in {"null", "1"} : \E r \in After(b) :
        b = Arg(t) /\ r = Tail(work[t]) /\ r \in Leaving(x)
  BY <1>1, EmptyTail
<1>5. PICK r \in After(b) : b = Arg(t) /\ r = Tail(work[t]) /\ r \in Leaving(x)
  BY <1>4
<1>6. r \notin Collecting
  BY <1>5, LastTasks
<1>7. PICK rem \in Nat : rem = 0
  OBVIOUS
<1>8. work' = [work EXCEPT ![t] = Then(Flush(b, cache[t].bins[b], rem), r)]
  BY <1>1, <1>5, <1>7 DEF Does, Then
<1>9. rem <= cache[t].bins[b].ncached
  BY <1>2, <1>7, CacheTyped, BinTyped
<1> QED  BY <1>1, <1>2, <1>3, <1>6, <1>8, <1>9, FlushDrains

LEMMA ReleaseDrains ==
  ASSUME IInv, Drains, NEW t \in Threads, Release(t)
  PROVE  Drains'
<1>1. cache' = [cache EXCEPT ![t] = Null] /\ work' = [work EXCEPT ![t] = <<>>]
  BY DEF Release, Does
<1>2. PICK w, c : w = <<>> /\ c = Null
  OBVIOUS
<1>3. cache' = [cache EXCEPT ![t] = c] /\ work' = [work EXCEPT ![t] = w]
  BY <1>1, <1>2
<1> QED  BY <1>2, <1>3, DrainsThere

(* A step that changes one bin of a cache.                                 *)
LEMMA BinDrains ==
  ASSUME IInv, Drains, NEW t \in Threads, cache[t] \in Caches, NEW w,
         work' = [work EXCEPT ![t] = w],
         NEW b \in Bins, NEW v \in Binned, cache' = [cache EXCEPT ![t].bins[b] = v],
         Drained(w, v, b), \A e \in Bins \ {b} : Drained(w, cache[t].bins[e], e)
  PROVE  Drains'
<1>1. PICK c \in Caches : c = cache[t]
  OBVIOUS
<1>2. PICK d \in Caches : /\ d = [c EXCEPT !.bins[b] = v] /\ d.bins[b] = v
                          /\ \A e \in Bins \ {b} : d.bins[e] = c.bins[e]
  BY BinPut
<1>3. cache' = [cache EXCEPT ![t] = d]
  BY <1>1, <1>2 DEF Caches, IInv, TypeOK
<1>4. ASSUME NEW e \in Bins PROVE Drained(w, d.bins[e], e)
  <2>1. CASE e = b
    BY <1>2, <2>1
  <2>2. CASE e # b
    <3>1. d.bins[e] = cache[t].bins[e] /\ e \in Bins \ {b}
      BY <1>1, <1>2, <2>2
    <3> QED  BY <3>1
  <2> QED  BY <2>1, <2>2
<1> QED  BY <1>3, <1>4, DrainsThere

LEMMA FillOneDrains ==
  ASSUME IInv, Drains, NEW t \in Threads, FillOne(t)
  PROVE  Drains'
<1>1. HasCache(t) /\ Task(t, "malloc") /\ Arg(t) = "small"
  BY DEF FillOne
<1>2. cache[t] \in Caches /\ cache[t] # Null /\ Calm(work[t])
  BY <1>1, HasCacheFacts, TaskCalm
<1>3. PICK c \in Caches, v \in Binned, b \in Bins : c = cache[t] /\ b = "small" /\ v = c.bins[b]
  BY <1>2, CacheTyped DEF Bins
<1>4. \A e \in Bins : Drained(work[t], cache[t].bins[e], e)
  BY <1>2 DEF Drains
<1>5. ASSUME NEW w, Calm(w), work' = [work EXCEPT ![t] = w], NEW p \in Binned,
             SetBin(t, "small", p),
             p.most # Null => p.most = v.most /\ p.low = v.low /\ p.ncached = v.ncached
      PROVE  Drains'
  <2>1. cache' = [cache EXCEPT ![t].bins[b] = p]
    BY <1>3, <1>5 DEF SetBin
  <2>2. \A e \in Bins \ {b} : Drained(w, cache[t].bins[e], e)
    BY <1>2, <1>4, <1>5, CalmDrains
  <2>3. Drained(w, p, b)
    <3>1. Drained(work[t], v, b)
      BY <1>3, <1>4
    <3> QED  BY <1>2, <1>5, <3>1, CalmDrains
  <2> QED  BY <1>2, <1>5, <2>1, <2>2, <2>3, BinDrains
<1>6. ASSUME NEW o \in Next1(c.arena, "small"), SetBin(t, "small", [v EXCEPT !.avail = <<o>> \o @]),
             UNCHANGED work
      PROVE  Drains'
  <2>1. o \in Objects /\ v.avail \in Seq(Objects)
    BY <1>3, CacheTyped, Next1Typed, BinTyped
  <2>2. PICK s \in Seq(Objects) : s = <<o>> \o v.avail
    BY <2>1, Pushed
  <2>3. PICK p : p = [v EXCEPT !.avail = s]
    OBVIOUS
  <2>4. p \in Binned /\ p.most = v.most /\ p.low = v.low /\ p.ncached = v.ncached
    BY <2>3 DEF Binned
  <2>5. SetBin(t, "small", p) /\ work' = [work EXCEPT ![t] = work[t]]
    BY <1>6, <2>2, <2>3, Facts
  <2> QED  BY <1>2, <1>5, <2>4, <2>5
<1>7. ASSUME SetBin(t, "small", Filled(v)),
             Does(t, IF v.avail = <<>> THEN <<>> ELSE <<Do("easy", "small")>>)
      PROVE  Drains'
  <2>1. PICK w \in Calling : w = IF v.avail = <<>> THEN <<>> ELSE <<Do("easy", "small")>>
    <3>1. <<>> \in Calling /\ <<Do("easy", "small")>> \in Calling
      BY DEF Calling
    <3> QED  BY <3>1
  <2>2. PICK n \in Nat : n = Len(v.avail)
    BY BinTyped
  <2>3. PICK p : p = [v EXCEPT !.ncached = n, !.most = Null]
    OBVIOUS
  <2>4. p \in Binned /\ p.most = Null
    BY <2>3 DEF Binned
  <2>5. SetBin(t, "small", p) /\ work' = [work EXCEPT ![t] = w]
    BY <1>7, <2>1, <2>2, <2>3 DEF Filled, Does
  <2>6. Calm(w)
    BY <2>1, WholeCalm
  <2> QED  BY <1>5, <2>4, <2>5, <2>6
<1>8. Fills(t, c, v, b)
  BY <1>3, FillOneIs
<1> QED  BY <1>6, <1>7, <1>8 DEF Fills

(* A collection ends: the bin has a quarter of what it had at most.        *)
LEMMA CollectedDrains ==
  ASSUME IInv, Drains, NEW t \in Threads, Collected(t)
  PROVE  Drains'
<1>1. /\ Task(t, "collected")
      /\ cache' = [cache EXCEPT ![t] = PassOver(cache[t], Arg(t))]
      /\ work' = [work EXCEPT ![t] = <<>>]
  BY DEF Collected, Does
<1>2. cache[t] \in Caches /\ cache[t] # Null
  BY <1>1, HasCacheFacts DEF NeedCache
<1>3. /\ work[t] \in Whole /\ work[t] # <<>> /\ Arg(t) \in Bins
      /\ work[t] = <<Do("collected", Arg(t))>> /\ Rest(work[t]) = work[t] /\ ~Flushing(work[t])
  BY <1>1, Only, Heads DEF Arg
<1>4. PICK c \in Caches, b \in Bins, v \in Binned : c = cache[t] /\ b = Arg(t) /\ v = c.bins[b]
  BY <1>2, <1>3, CacheTyped
<1>5. PICK p \in Binned : /\ p = Marked(v) /\ p.ncached = v.ncached /\ p.low = v.ncached
                          /\ p.most = IF v.most = Null THEN v.ncached ELSE v.most \div 4
  BY MarkedTyped
<1>6. PICK d \in Caches : /\ d = PassOver(c, b) /\ d.bins[b] = p
                          /\ \A e \in Bins \ {b} : d.bins[e] = c.bins[e]
  BY <1>4, <1>5, PassedOver
<1>7. PICK w \in Calling : w = <<>>
  BY DEF Calling
<1>8. \A e \in Bins : Drained(work[t], c.bins[e], e)
  BY <1>2, <1>4 DEF Drains
<1>9. Drained(w, p, b)
  <2>1. v.most # Null => v.ncached <= v.most \div 4
    BY <1>3, <1>4, <1>8 DEF Drained
  <2>2. p.ncached <= p.most
    BY <1>5, <2>1, BinTyped
  <2> QED  BY <1>5, <1>7, <2>2, WholeCalm, CalmDrains
<1>10. ASSUME NEW e \in Bins \ {b} PROVE Drained(w, c.bins[e], e)
  <2>1. work[t] # <<Do("collected", e)>>
    BY <1>3, <1>4, One
  <2> QED  BY <1>3, <1>7, <1>8, <2>1, WholeCalm, CalmDrains DEF Drained
<1>11. \A e \in Bins : Drained(w, d.bins[e], e)
  BY <1>6, <1>9, <1>10
<1>12. cache' = [cache EXCEPT ![t] = d] /\ work' = [work EXCEPT ![t] = w]
  BY <1>1, <1>4, <1>6, <1>7
<1> QED  BY <1>11, <1>12, DrainsThere

(* A pass of a flush leaves count and mark of the bin alone.               *)
LEMMA FlushPassDrains ==
  ASSUME IInv, Drains, NEW t \in Threads, FlushPass(t)
  PROVE  Drains'
<1>1. PICK f \in Flushes, r \in Whole, l \in Seq(Objects), n \in Nat, b \in Bins, a \in Arenas,
           c \in Caches, v \in Binned :
        Passing(t, f, r, l, n, b, a, c, v) /\ PassOn(t, f, r, l, n, b, a, c)
  BY PassIs
<1>2. PICK u \in Seq(Objects), x \in Seq(Objects), s \in Seq(Objects), g \in Flushes,
           d \in Caches : Passed(t, f, r, l, n, b, a, c, u, x, s, g, d)
  BY <1>1 DEF PassOn
<1>3. /\ f = work[t][1] /\ Flushing(work[t]) /\ Rest(work[t]) = r /\ r \in After(b)
      /\ c = cache[t] /\ c # Null
  BY <1>1 DEF Passing
<1>4. /\ g.arg = b /\ g.rem = f.rem
      /\ work' = [work EXCEPT ![t] = <<g>> \o r] /\ cache' = [cache EXCEPT ![t] = d]
      /\ \A e \in Bins \ {b} : d.bins[e] = c.bins[e]
      /\ d.bins[b].low = c.bins[b].low /\ d.bins[b].ncached = c.bins[b].ncached
      /\ d.bins[b].most = c.bins[b].most
  BY <1>2 DEF Passed
<1>5. PICK w : w = <<g>> \o r
  OBVIOUS
<1>6. Flushing(w) /\ Rest(w) = r /\ w[1] = g
  BY <1>3, <1>4, <1>5, FlushShape
<1>7. ASSUME NEW e \in Bins PROVE Drained(w, d.bins[e], e)
  <2>1. Drained(work[t], c.bins[e], e)
    BY <1>3 DEF Drains
  <2>2. /\ d.bins[e].low = c.bins[e].low /\ d.bins[e].ncached = c.bins[e].ncached
        /\ d.bins[e].most = c.bins[e].most
    <3>1. e # b => d.bins[e] = c.bins[e]
      BY <1>4
    <3> QED  BY <1>4, <3>1
  <2> QED  BY <1>3, <1>4, <1>6, <2>1, <2>2 DEF Drained
<1> QED  BY <1>4, <1>5, <1>7, DrainsThere

LEMMA AfterOther ==
  ASSUME NEW b \in Bins, NEW r \in After(b), NEW e, e # b
  PROVE  r # <<Do("collected", e)>>
<1>1. CASE r = <<Do("collected", b)>>
  BY <1>1, One
<1>2. CASE r \in {<<Do("free", o)>> : o \in {p \in Objects : BinOf(p) = b}}
  BY <1>2, One
<1>3. ASSUME NEW x, r = IF b = "small" THEN <<Do("empty", "large"), Do("release", x)>>
                        ELSE <<Do("release", x)>>
      PROVE  r # <<Do("collected", e)>>
  <2>1. <<Do("empty", "large"), Do("release", x)>> # <<Do("collected", e)>>
    OBVIOUS
  <2> QED  BY <1>3, <2>1, One
<1> QED  BY <1>1, <1>2, <1>3 DEF After

(* A flush ends: the bin has what it was to leave, and its mark is there.  *)
LEMMA FlushEndDrains ==
  ASSUME IInv, Drains, NEW t \in Threads, FlushEnd(t)
  PROVE  Drains'
<1>1. /\ Task(t, "flush")
      /\ SetBin(t, Arg(t), Flushed(cache[t].bins[Arg(t)], work[t][1].rem))
      /\ Does(t, Tail(work[t]))
  BY DEF FlushEnd
<1>2. PICK f \in Flushes, r \in Whole :
        /\ f = work[t][1] /\ r = Tail(work[t]) /\ Flushing(work[t])
        /\ Rest(work[t]) = r /\ r \in After(f.arg) /\ f.arg \in Bins /\ Arg(t) = f.arg
        /\ cache[t] \in Caches /\ cache[t] # Null /\ Kept(work[t], cache[t])
  BY <1>1, FlushFacts
<1>3. PICK b \in Bins, rem \in Nat : b = f.arg /\ rem = f.rem
  BY <1>2 DEF Flushes
<1>4. PICK c \in Caches, v \in Binned : c = cache[t] /\ v = c.bins[b]
  BY <1>2, CacheTyped
<1>5. v.low <= v.ncached /\ rem <= v.ncached
  BY <1>2, <1>3, <1>4 DEF Kept, Agrees
<1>6. PICK p : p = [v EXCEPT !.ncached = rem, !.low = Smaller(v.low, rem)]
  OBVIOUS
<1>7. /\ p \in Binned /\ p.ncached = rem /\ p.most = v.most
      /\ v.low = v.ncached => p.low = rem
  <2>1. PICK i \in Nat : i = Smaller(v.low, rem) /\ (v.low = v.ncached => i = rem)
    BY <1>5, BinTyped DEF Smaller
  <2>2. p = [v EXCEPT !.ncached = rem, !.low = i]
    BY <1>6, <2>1
  <2> QED  BY <2>1, <2>2 DEF Binned
<1>8. cache' = [cache EXCEPT ![t].bins[b] = p]
  BY <1>1, <1>2, <1>3, <1>4, <1>6 DEF SetBin, Flushed
<1>9. work' = [work EXCEPT ![t] = r]
  BY <1>1, <1>2 DEF Does
<1>10. ~Flushing(r) /\ Rest(r) = r
  BY <1>2, WholeShape
<1>11. Drained(work[t], v, b) /\ \A e \in Bins : Drained(work[t], c.bins[e], e)
  BY <1>2, <1>4 DEF Drains
<1>12. Drained(r, p, b)
  <2>1. SUFFICES ASSUME v.most # Null
                 PROVE  /\ rem <= v.most /\ p.low = rem
                        /\ r = <<Do("collected", b)>> => rem <= v.most \div 4
    BY <1>7, <1>10 DEF Drained
  <2>2. /\ v.low = v.ncached /\ v.ncached <= v.most
        /\ r = <<Do("collected", b)>> => rem <= v.most \div 4
    BY <1>2, <1>3, <1>11, <2>1 DEF Drained
  <2> QED  BY <1>5, <1>7, <2>1, <2>2, BinTyped
<1>13. ASSUME NEW e \in Bins \ {b} PROVE Drained(r, cache[t].bins[e], e)
  <2>1. r # <<Do("collected", e)>>
    BY <1>2, <1>3, AfterOther
  <2>2. Drained(work[t], c.bins[e], e)
    BY <1>11
  <2> QED  BY <1>2, <1>4, <1>10, <2>1, <2>2 DEF Drained
<1> QED  BY <1>2, <1>7, <1>8, <1>9, <1>12, <1>13, BinDrains

LEMMA InitDrains == Init => Drains
BY DEF Init, Drains

LEMMA NextDrains == IInv /\ Drains /\ [Next]_vars => Drains'
<1>1. ASSUME IInv, Drains, NEW t \in Threads,
             \/ pthread_create(t)
             \/ \E b \in Bins : malloc(t, b)
             \/ \E o \in Objects : FreeObject(t, o)
             \/ GoWithout(t) \/ choose_arena_hard(t) \/ tcache_create(t)
             \/ DirectMalloc(t) \/ DirectFree(t)
             \/ AllocEasy(t) \/ FillOne(t) \/ AllocLarge(t) \/ Dalloc(t)
             \/ Collected(t) \/ FlushPass(t) \/ FlushEnd(t)
             \/ EmptyBin(t) \/ Release(t)
             \/ tcache_flush_ctl(t) \/ CallThreadArena(t) \/ thread_arena_ctl(t)
             \/ NextRound(t) \/ Ends(t) \/ tcache_thread_cleanup(t)
      PROVE  Drains'
  BY <1>1, OutsideDrains, DirectDrains, tcache_createDrains, AllocDrains, FillOneDrains,
     DallocDrains, CollectedDrains, FlushPassDrains, FlushEndDrains, EmptyBinDrains, ReleaseDrains
<1>2. ASSUME IInv, Drains, UNCHANGED vars PROVE Drains'
  BY <1>2, DrainsStill DEF vars
<1> QED  BY <1>1, <1>2 DEF Next

(* A bin that its thread has stopped using drains: each collection after   *)
(* the first leaves a quarter at most of what the last one left, rounded   *)
(* down, and so nothing in the end (tcache_event, tcache.h:173).           *)
THEOREM UnusedBinsDrain == Spec => []IdleBinsDrain
<1>1. IInv /\ Drains => IdleBinsDrain
  <2>1. SUFFICES ASSUME IInv, Drains, NEW t \in Threads, cache[t] # Null, NEW b \in Bins,
                        cache[t].bins[b].most # Null
                 PROVE  cache[t].bins[b].ncached <= cache[t].bins[b].most
    BY DEF IdleBinsDrain
  <2>2. Drained(work[t], cache[t].bins[b], b)
    BY <2>1 DEF Drains
  <2> QED  BY <2>1, <2>2 DEF Drained
<1>2. Init => IInv /\ Drains
  BY InitInv, InitDrains
<1>3. IInv /\ Drains /\ [Next]_vars => IInv' /\ Drains'
  BY NextInv, NextDrains
<1> QED  BY <1>1, <1>2, <1>3, PTL DEF Spec

-----------------------------------------------------------------------------
(* Where an object is.  The places of a thread whose cache is c and whose  *)
(* work is w:                                                              *)
SelfOf(c) == IF c = Null THEN {} ELSE {c.self}
ChainOf(c, b) == IF c = Null THEN {} ELSE ToSet(c.bins[b].avail)
FreedOf(w) ==
  IF Rest(w) # <<>> /\ Rest(w)[1].op \in {"free", "direct_free"} THEN {Rest(w)[1].arg} ELSE {}
StashOf(w) == IF Flushing(w) /\ ~w[1].first THEN ToSet(w[1].list) ELSE {}

Plain(w) ==
  \A k \in DOMAIN w : w[k].op # "flush" /\ (w[k].op \in {"free", "direct_free"} => k = 1)

LEMMA PlainTasks ==
  ASSUME NEW w \in Whole
  PROVE  Plain(w)
<1>1. \A op, arg : \A k \in DOMAIN <<Do(op, arg)>> : k = 1
  OBVIOUS
<1>2. ASSUME NEW x, w \in Leaving(x) PROVE \A k \in DOMAIN w : w[k].op \in {"empty", "release"}
  BY <1>2 DEF Leaving, Destroy, Do
<1>3. CASE w \in Leaving("null") \/ w \in Leaving("1")
  BY <1>2, <1>3 DEF Plain
<1>4. CASE w \in Calling \cup Freeing \cup Collecting
  <2>1. w = <<>> \/ \E op, arg : w = <<Do(op, arg)>>
    BY <1>4 DEF Calling, Freeing, Collecting
  <2>2. \A k \in DOMAIN w : w # <<>> /\ k = 1
    BY <1>1, <2>1
  <2> QED  BY <2>2, Heads DEF Plain
<1> QED  BY <1>3, <1>4 DEF Whole

LEMMA WorkHolds ==
  ASSUME NEW w \in Seq(Tasks), Shape(w)
  PROVE  /\ {w[k].arg : k \in {j \in DOMAIN w : w[j].op \in {"free", "direct_free"}}} = FreedOf(w)
         /\ UNION {ToSet(w[k].list) : k \in {j \in DOMAIN w : w[j].op = "flush" /\ ~w[j].first}}
              = StashOf(w)
<1>1. PICK r \in Whole : r = Rest(w)
  BY DEF Shape
<1>2. r \in Seq(Tasks)
  BY WholeShape
<1>3. PICK n \in Nat : n = Len(r) /\ DOMAIN r = 1 .. n /\ (n = 0 <=> r = <<>>)
  BY <1>2, EmptySeq
<1>4. \A k \in 1 .. n : r[k].op # "flush" /\ (r[k].op \in {"free", "direct_free"} => k = 1)
  <2>1. Plain(r)
    BY PlainTasks
  <2> QED  BY <1>3, <2>1 DEF Plain
<1> DEFINE fs(v) == {j \in DOMAIN v : v[j].op \in {"free", "direct_free"}}
           ss(v) == {j \in DOMAIN v : v[j].op = "flush" /\ ~v[j].first}
<1>5. CASE ~Flushing(w)
  <2>1. w = r
    BY <1>1, <1>5 DEF Rest
  <2>2. ss(w) = {}
    BY <1>3, <1>4, <2>1
  <2>3. fs(w) = IF r # <<>> /\ r[1].op \in {"free", "direct_free"} THEN {1} ELSE {}
    BY <1>3, <1>4, <2>1
  <2> QED  BY <1>1, <1>5, <2>1, <2>2, <2>3 DEF FreedOf, StashOf
<1>6. CASE Flushing(w)
  <2>1. PICK f : f = w[1] /\ f.op = "flush"
    BY <1>6 DEF Flushing
  <2>2. w # <<>> /\ r = Tail(w)
    BY <1>1, <1>6 DEF Rest, Flushing
  <2>3. DOMAIN w = 1 .. n + 1 /\ \A k \in 1 .. n : w[k + 1] = r[k]
    BY <1>3, <2>2, HeadTailProperties
  <2>4. \A j \in 1 .. n + 1 : j = 1 \/ (j - 1 \in 1 .. n /\ w[j] = r[j - 1])
    BY <2>3
  <2>5. ss(w) = IF ~f.first THEN {1} ELSE {}
    BY <1>4, <2>1, <2>3, <2>4
  <2>6. fs(w) = IF r # <<>> /\ r[1].op \in {"free", "direct_free"} THEN {2} ELSE {}
    <3>1. ASSUME NEW j \in fs(w) PROVE j = 2 /\ r # <<>> /\ r[1].op \in {"free", "direct_free"}
      <4>1. j # 1
        BY <2>1
      <4>2. j - 1 \in 1 .. n /\ w[j] = r[j - 1]
        BY <2>3, <2>4, <4>1
      <4>3. j - 1 = 1
        BY <1>4, <4>2
      <4> QED  BY <1>3, <2>3, <4>2, <4>3
    <3>2. ASSUME r # <<>>, r[1].op \in {"free", "direct_free"} PROVE 2 \in fs(w)
      <4>1. 1 \in 1 .. n /\ 2 \in 1 .. n + 1
        BY <1>3, <3>2
      <4>2. w[1 + 1] = r[1]
        BY <2>3, <4>1
      <4> QED  BY <2>3, <3>2, <4>1, <4>2
    <3> HIDE DEF fs
    <3> QED  BY <3>1, <3>2
  <2>7. r # <<>> => w[2] = r[1]
    <3>1. r # <<>> => 1 \in 1 .. n
      BY <1>3
    <3> QED  BY <2>3, <3>1
  <2>8. {w[k].arg : k \in fs(w)} = FreedOf(w)
    <3> HIDE DEF fs
    <3> QED  BY <1>1, <2>6, <2>7 DEF FreedOf
  <2>9. UNION {ToSet(w[k].list) : k \in ss(w)} = StashOf(w)
    <3> HIDE DEF ss
    <3> QED  BY <1>6, <2>1, <2>5 DEF StashOf
  <2> QED  BY <2>8, <2>9
<1> QED  BY <1>5, <1>6

LEMMA FlushIsFirst ==
  ASSUME NEW w \in Seq(Tasks), Shape(w), NEW k \in DOMAIN w, w[k].op = "flush"
  PROVE  k = 1 /\ Flushing(w)
<1>1. PICK r \in Whole : r = Rest(w)
  BY DEF Shape
<1>2. Plain(r) /\ r \in Seq(Tasks)
  BY PlainTasks, WholeShape
<1>3. Flushing(w)
  BY <1>1, <1>2 DEF Plain, Rest
<1>4. PICK n \in Nat : n = Len(w) /\ DOMAIN w = 1 .. n /\ w # <<>> /\ r = Tail(w)
  BY <1>1, <1>3, LenProperties DEF Flushing, Rest
<1>5. DOMAIN r = 1 .. n - 1 /\ \A i \in 1 .. n - 1 : r[i] = w[i + 1]
  <2>1. /\ Len(Tail(w)) = Len(w) - 1
        /\ \A i \in 1 .. Len(Tail(w)) : Tail(w)[i] = w[i + 1]
    BY <1>4, HeadTailProperties
  <2> QED  BY <1>2, <1>4, <2>1, LenProperties
<1>6. k # 1 => k - 1 \in 1 .. n - 1 /\ (k - 1) + 1 = k
  BY <1>4
<1>7. k # 1 => r[k - 1] = w[k]
  BY <1>5, <1>6
<1> QED  BY <1>2, <1>3, <1>5, <1>6, <1>7 DEF Plain

(* The places, one by one.                                                 *)
LEMMA Contents ==
  ASSUME IInv, NEW t \in Threads
  PROVE  /\ In(<<"client", Null>>) = held
         /\ \A a \in Arenas : In(<<"arena", a>>) = free[a]
         /\ In(<<"self", t>>) = SelfOf(cache[t])
         /\ \A b \in Bins : In(<<b, t>>) = ChainOf(cache[t], b)
         /\ In(<<"call", t>>) = FreedOf(work[t])
         /\ In(<<"stash", t>>) = StashOf(work[t])
<1>1. Freed(t) = FreedOf(work[t]) /\ Stash(t) = StashOf(work[t])
  BY Facts, WorkHolds DEF Freed, Stash
<1>2. Self(t) = SelfOf(cache[t]) /\ \A b \in Bins : Chain(t, b) = ChainOf(cache[t], b)
  BY DEF Self, SelfOf, Chain, ChainOf
<1> QED  BY <1>1, <1>2 DEF In, Bins

LEMMA ContentsNext ==
  ASSUME IInv', NEW t \in Threads
  PROVE  /\ In(<<"client", Null>>)' = held'
         /\ \A a \in Arenas : In(<<"arena", a>>)' = free'[a]
         /\ In(<<"self", t>>)' = SelfOf(cache'[t])
         /\ \A b \in Bins : In(<<b, t>>)' = ChainOf(cache'[t], b)
         /\ In(<<"call", t>>)' = FreedOf(work'[t])
         /\ In(<<"stash", t>>)' = StashOf(work'[t])
<1>1. work'[t] \in Seq(Tasks) /\ Shape(work'[t])
  BY DEF IInv, TypeOK, Fits
<1>2. Freed(t)' = FreedOf(work'[t]) /\ Stash(t)' = StashOf(work'[t])
  BY <1>1, WorkHolds DEF Freed, Stash
<1>3. Self(t)' = SelfOf(cache'[t]) /\ \A b \in Bins : Chain(t, b)' = ChainOf(cache'[t], b)
  BY DEF Self, SelfOf, Chain, ChainOf
<1> QED  BY <1>2, <1>3 DEF In, Bins

LEMMA PlacesAre ==
  ASSUME NEW q
  PROVE  q \in Places <=>
           \/ q = <<"client", Null>> \/ \E a \in Arenas : q = <<"arena", a>>
           \/ \E t \in Threads : \/ q = <<"self", t>> \/ q = <<"call", t>> \/ q = <<"stash", t>>
                                 \/ \E b \in Bins : q = <<b, t>>
BY DEF Places, Bins

(* A place that a step of t does not touch.                                *)
LEMMA Elsewhere ==
  ASSUME IInv, IInv', NEW t \in Threads, NEW q \in Places,
         \A u \in Threads \ {t} : work'[u] = work[u] /\ cache'[u] = cache[u],
         q = <<"client", Null>> => held' = held,
         \A a \in Arenas : q = <<"arena", a>> => free'[a] = free[a],
         q = <<"self", t>> => SelfOf(cache'[t]) = SelfOf(cache[t]),
         \A b \in Bins : q = <<b, t>> => ChainOf(cache'[t], b) = ChainOf(cache[t], b),
         q = <<"call", t>> => FreedOf(work'[t]) = FreedOf(work[t]),
         q = <<"stash", t>> => StashOf(work'[t]) = StashOf(work[t])
  PROVE  In(q)' = In(q)
<1>1. CASE q = <<"client", Null>>
  BY <1>1, Contents, ContentsNext
<1>2. ASSUME NEW a \in Arenas, q = <<"arena", a>> PROVE In(q)' = In(q)
  BY <1>2, Contents, ContentsNext
<1>3. ASSUME NEW u \in Threads, NEW k \in {"self", "call", "stash", "small", "large"}, q = <<k, u>>
      PROVE  In(q)' = In(q)
  <2>1. /\ In(<<"self", u>>) = SelfOf(cache[u])
        /\ \A b \in Bins : In(<<b, u>>) = ChainOf(cache[u], b)
        /\ In(<<"call", u>>) = FreedOf(work[u]) /\ In(<<"stash", u>>) = StashOf(work[u])
    BY Contents
  <2>2. /\ In(<<"self", u>>)' = SelfOf(cache'[u])
        /\ \A b \in Bins : In(<<b, u>>)' = ChainOf(cache'[u], b)
        /\ In(<<"call", u>>)' = FreedOf(work'[u]) /\ In(<<"stash", u>>)' = StashOf(work'[u])
    BY ContentsNext
  <2>3. k = "self" \/ k = "call" \/ k = "stash" \/ k \in Bins
    BY DEF Bins
  <2>4. CASE u = t
    <3>1. q = <<k, t>>
      BY <1>3, <2>4
    <3>2. /\ k = "self" => SelfOf(cache'[t]) = SelfOf(cache[t])
          /\ k \in Bins => ChainOf(cache'[t], k) = ChainOf(cache[t], k)
          /\ k = "call" => FreedOf(work'[t]) = FreedOf(work[t])
          /\ k = "stash" => StashOf(work'[t]) = StashOf(work[t])
      BY <3>1
    <3> QED  BY <2>1, <2>2, <2>3, <2>4, <3>1, <3>2
  <2>5. CASE u # t
    <3>1. work'[u] = work[u] /\ cache'[u] = cache[u]
      BY <2>5
    <3> QED  BY <1>3, <2>1, <2>2, <2>3, <3>1
  <2> QED  BY <2>4, <2>5
<1> QED  BY <1>1, <1>2, <1>3, PlacesAre DEF Bins

(* The objects of M go to one place each.                                  *)
LEMMA Moves ==
  ASSUME Unique, NEW M, NEW to, \A o \in M : to[o] \in Places,
         \A q \in Places : \A o \in Objects : o \in In(q)' <=> IF o \in M THEN q = to[o] ELSE o \in In(q)
  PROVE  Unique'
BY DEF Unique

LEMMA MoveOne ==
  ASSUME Unique, NEW o \in Objects, NEW p \in Places, NEW r \in Places, o \in In(p), p # r,
         In(p)' = In(p) \ {o}, In(r)' = In(r) \cup {o},
         \A q \in Places \ {p, r} : In(q)' = In(q)
  PROVE  Unique'
<1>1. SUFFICES ASSUME NEW x \in Objects
               PROVE  \E s \in Places : \A q \in Places : x \in In(q)' <=> q = s
  BY DEF Unique
<1>2. PICK s \in Places : \A q \in Places : x \in In(q) <=> q = s
  BY DEF Unique
<1>3. CASE x = o
  <2>1. s = p
    BY <1>2, <1>3
  <2>2. \A q \in Places : x \in In(q)' <=> q = r
    BY <1>2, <1>3, <2>1
  <2> QED  BY <2>2
<1>4. CASE x # o
  <2>1. \A q \in Places : x \in In(q)' <=> q = s
    BY <1>2, <1>4
  <2> QED  BY <2>1
<1> QED  BY <1>3, <1>4

LEMMA MoveNone ==
  ASSUME Unique, \A q \in Places : In(q)' = In(q)
  PROVE  Unique'
BY DEF Unique

-----------------------------------------------------------------------------
(* What the steps move.                                                    *)
StillElse(t) == \A u \in Threads \ {t} : work'[u] = work[u] /\ cache'[u] = cache[u]

LEMMA SimpleElse ==
  ASSUME Partition, NEW t \in Threads, StillElse(t), Simple(t)'
  PROVE  \A u \in Threads : Simple(u)'
<1>1. SUFFICES ASSUME NEW u \in Threads, u # t PROVE Simple(u)'
  OBVIOUS
<1>2. work'[u] = work[u] /\ cache'[u] = cache[u] /\ Simple(u)
  BY <1>1 DEF StillElse, Partition
<1> QED  BY <1>2 DEF Simple

(* Nothing moves.                                                          *)
LEMMA Quiet ==
  ASSUME IInv, IInv', Partition, NEW t \in Threads, StillElse(t), UNCHANGED <<free, held>>,
         SelfOf(cache'[t]) = SelfOf(cache[t]),
         \A b \in Bins : ChainOf(cache'[t], b) = ChainOf(cache[t], b),
         FreedOf(work'[t]) = FreedOf(work[t]), StashOf(work'[t]) = StashOf(work[t]),
         Simple(t)'
  PROVE  Partition'
<1>1. \A q \in Places : In(q)' = In(q)
  BY Elsewhere DEF StillElse
<1>2. Unique'
  BY <1>1, MoveNone DEF Partition
<1>3. AtHome'
  BY DEF Partition, AtHome
<1> QED  BY <1>2, <1>3, SimpleElse DEF Partition

(* The object o goes from a place of the kind p to one of the kind r.      *)
Kinds == {"client", "arena", "self", "small", "large", "call"}
Spot(t, o, k) ==
  IF k = "client" THEN <<"client", Null>> ELSE IF k = "arena" THEN <<"arena", Home(o)>> ELSE <<k, t>>
Shift(S, o, k, p, r) == IF k = p THEN S \ {o} ELSE IF k = r THEN S \cup {o} ELSE S

Carried(t, o, p, r) ==
  /\ StillElse(t) /\ o \in In(Spot(t, o, p))
  /\ held' = Shift(held, o, "client", p, r)
  /\ \A a \in Arenas :
       free'[a] = IF a = Home(o) THEN Shift(free[a], o, "arena", p, r) ELSE free[a]
  /\ SelfOf(cache'[t]) = Shift(SelfOf(cache[t]), o, "self", p, r)
  /\ \A b \in Bins : ChainOf(cache'[t], b) = Shift(ChainOf(cache[t], b), o, b, p, r)
  /\ FreedOf(work'[t]) = Shift(FreedOf(work[t]), o, "call", p, r)
  /\ StashOf(work'[t]) = StashOf(work[t])

LEMMA Carry ==
  ASSUME IInv, IInv', Partition, NEW t \in Threads, NEW o \in Objects,
         NEW p \in Kinds, NEW r \in Kinds, p # r, Carried(t, o, p, r), Simple(t)'
  PROVE  Partition'
<1>0. /\ StillElse(t) /\ o \in In(Spot(t, o, p))
      /\ held' = Shift(held, o, "client", p, r)
      /\ \A a \in Arenas :
           free'[a] = IF a = Home(o) THEN Shift(free[a], o, "arena", p, r) ELSE free[a]
      /\ SelfOf(cache'[t]) = Shift(SelfOf(cache[t]), o, "self", p, r)
      /\ \A b \in Bins : ChainOf(cache'[t], b) = Shift(ChainOf(cache[t], b), o, b, p, r)
      /\ FreedOf(work'[t]) = Shift(FreedOf(work[t]), o, "call", p, r)
      /\ StashOf(work'[t]) = StashOf(work[t])
  BY DEF Carried
<1>1. Home(o) \in Arenas
  BY HomeTyped
<1>2. \A k \in Kinds : Spot(t, o, k) \in Places
  BY <1>1, PlacesAre DEF Kinds, Spot, Bins
<1>3. ASSUME NEW k \in Kinds
      PROVE  In(Spot(t, o, k))' = Shift(In(Spot(t, o, k)), o, k, p, r)
  <2>1. CASE k = "client"
    BY <1>0, <2>1, Contents, ContentsNext DEF Spot
  <2>2. CASE k = "arena"
    BY <1>0, <1>1, <2>2, Contents, ContentsNext DEF Spot
  <2>3. CASE k \in {"self", "call"}
    BY <1>0, <2>3, Contents, ContentsNext DEF Spot
  <2>4. CASE k \in Bins
    BY <1>0, <2>4, Contents, ContentsNext DEF Spot, Bins
  <2> QED  BY <2>1, <2>2, <2>3, <2>4 DEF Kinds, Bins
<1>4. Spot(t, o, p) # Spot(t, o, r)
  BY DEF Spot, Kinds
<1>5. In(Spot(t, o, p))' = In(Spot(t, o, p)) \ {o} /\ In(Spot(t, o, r))' = In(Spot(t, o, r)) \cup {o}
  BY <1>3 DEF Shift
<1>6. ASSUME NEW q \in Places \ {Spot(t, o, p), Spot(t, o, r)}
      PROVE  In(q)' = In(q)
  <2>1. q = <<"client", Null>> => held' = held
    BY <1>0, <1>6 DEF Spot, Shift
  <2>2. \A a \in Arenas : q = <<"arena", a>> => free'[a] = free[a]
    BY <1>0, <1>6 DEF Spot, Shift
  <2>3. q = <<"self", t>> => SelfOf(cache'[t]) = SelfOf(cache[t])
    BY <1>0, <1>6 DEF Spot, Shift
  <2>4. \A b \in Bins : q = <<b, t>> => ChainOf(cache'[t], b) = ChainOf(cache[t], b)
    BY <1>0, <1>6 DEF Spot, Shift, Bins
  <2>5. q = <<"call", t>> => FreedOf(work'[t]) = FreedOf(work[t])
    BY <1>0, <1>6 DEF Spot, Shift
  <2> QED  BY <2>1, <2>2, <2>3, <2>4, <2>5, <1>0, Elsewhere DEF StillElse
<1>7. Unique'
  <2>1. PICK y \in Places, z \in Places : y = Spot(t, o, p) /\ z = Spot(t, o, r)
    BY <1>2
  <2>2. /\ o \in In(y) /\ y # z /\ In(y)' = In(y) \ {o} /\ In(z)' = In(z) \cup {o}
        /\ \A q \in Places \ {y, z} : In(q)' = In(q)
    BY <1>0, <1>4, <1>5, <1>6, <2>1
  <2> QED  BY <2>2, MoveOne DEF Partition
<1>8. AtHome'
  <2>1. SUFFICES ASSUME NEW a \in Arenas, NEW x \in free'[a] PROVE Home(x) = a
    BY DEF AtHome
  <2>2. x \in free[a] \/ (x = o /\ a = Home(o))
    BY <1>0, <2>1 DEF Shift
  <2> QED  BY <2>2 DEF Partition, AtHome
<1> QED  BY <1>0, <1>7, <1>8, SimpleElse DEF Partition

(* What a work holds that is no flush.                                     *)
LEMMA HoldsWhole ==
  ASSUME NEW w \in Whole
  PROVE  /\ StashOf(w) = {} /\ ~Flushing(w)
         /\ FreedOf(w) = IF w # <<>> /\ w[1].op \in {"free", "direct_free"} THEN {w[1].arg} ELSE {}
BY WholeShape DEF StashOf, FreedOf

LEMMA QuietCall ==
  ASSUME IInv, IInv', Partition, NEW t \in Threads, UNCHANGED <<free, held, cache>>,
         NEW w \in Whole, work' = [work EXCEPT ![t] = w],
         ~Flushing(work[t]), FreedOf(w) = FreedOf(work[t])
  PROVE  Partition'
<1>1. work'[t] = w /\ cache'[t] = cache[t] /\ StillElse(t)
  BY DEF StillElse, IInv, TypeOK
<1>2. StashOf(w) = {} /\ StashOf(work[t]) = {} /\ ~Flushing(w)
  BY HoldsWhole DEF StashOf
<1>3. Simple(t)'
  BY <1>1, <1>2 DEF Partition, Simple
<1> QED  BY <1>1, <1>2, <1>3, Quiet

LEMMA QuietElse ==
  ASSUME IInv, IInv', Partition, NEW t \in Threads, UNCHANGED <<free, held, cache, work>>
  PROVE  Partition'
<1>1. work'[t] = work[t] /\ cache'[t] = cache[t] /\ StillElse(t)
  BY DEF StillElse
<1>2. Simple(t)'
  BY <1>1 DEF Partition, Simple
<1> QED  BY <1>1, <1>2, Quiet

LEMMA ElseKeeps ==
  ASSUME IInv, IInv', Partition, NEW t \in Threads,
         pthread_create(t) \/ choose_arena_hard(t) \/ NextRound(t) \/ Ends(t)
  PROVE  Partition'
BY QuietElse DEF pthread_create, choose_arena_hard, NextRound, Ends

(* A call begins, or the end of a cache, with nothing in hand.             *)
LEMMA BeginKeeps ==
  ASSUME IInv, IInv', Partition, NEW t \in Threads, Idle(t), UNCHANGED <<free, held, cache>>,
         NEW w \in Whole, w # <<>>, w[1].op \notin {"free", "direct_free"}, Does(t, w)
  PROVE  Partition'
<1>1. work[t] = <<>> /\ work[t] \in Whole
  BY IdleFacts
<1>2. FreedOf(w) = {} /\ FreedOf(work[t]) = {} /\ ~Flushing(work[t])
  BY <1>1, HoldsWhole
<1> QED  BY <1>2, QuietCall DEF Does

LEMMA CallsKeep ==
  ASSUME IInv, IInv', Partition, NEW t \in Threads,
         (\E b \in Bins : malloc(t, b)) \/ CallThreadArena(t) \/ tcache_flush_ctl(t)
         \/ tcache_thread_cleanup(t)
  PROVE  Partition'
<1>1. ASSUME NEW b \in Bins, malloc(t, b) PROVE Partition'
  <2>1. <<Do("malloc", b)>> \in Whole /\ <<Do("malloc", b)>>[1].op = "malloc" /\ <<Do("malloc", b)>> # <<>>
    BY One DEF Whole, Calling
  <2>2. Idle(t) /\ Does(t, <<Do("malloc", b)>>) /\ UNCHANGED <<free, held, cache>>
    BY <1>1 DEF malloc, Calls
  <2> QED  BY <2>1, <2>2, BeginKeeps
<1>2. CASE CallThreadArena(t)
  <2>1. /\ <<Do("thread_arena", Null)>> \in Whole /\ <<Do("thread_arena", Null)>> # <<>>
        /\ <<Do("thread_arena", Null)>>[1].op = "thread_arena"
    BY One DEF Whole, Calling
  <2>2. Idle(t) /\ Does(t, <<Do("thread_arena", Null)>>) /\ UNCHANGED <<free, held, cache>>
    BY <1>2 DEF CallThreadArena, Calls
  <2> QED  BY <2>1, <2>2, BeginKeeps
<1>3. ASSUME NEW x \in {"null", "1"}, Does(t, Destroy(x)), Idle(t), UNCHANGED <<free, held, cache>>
      PROVE  Partition'
  <2>1. PICK w : w = Destroy(x)
    OBVIOUS
  <2>2. w \in Leaving(x) /\ w \in Whole
    BY <2>1 DEF Leaving, Whole
  <2>3. w # <<>> /\ w[1].op \notin {"free", "direct_free"}
    BY <2>2, LastTasks
  <2> QED  BY <1>3, <2>1, <2>2, <2>3, BeginKeeps
<1>4. CASE tcache_flush_ctl(t)
  BY <1>3, <1>4 DEF tcache_flush_ctl, Calls
<1>5. CASE tcache_thread_cleanup(t)
  <2>1. CASE key[t] = "cache"
    <3>1. Idle(t) /\ Does(t, Destroy("1")) /\ UNCHANGED <<free, held, cache>>
      BY <1>5, <2>1 DEF tcache_thread_cleanup, AfterCleanup
    <3> QED  BY <1>3, <3>1
  <2>2. CASE key[t] # "cache"
    <3>1. UNCHANGED <<free, held, cache, work>>
      BY <1>5, <2>2 DEF tcache_thread_cleanup
    <3> QED  BY <3>1, QuietElse
  <2> QED  BY <2>1, <2>2
<1> QED  BY <1>1, <1>2, <1>4, <1>5

(* A call goes on without a cache, and has in hand what it had.            *)
LEMMA UncachedKeeps ==
  ASSUME IInv, IInv', Partition, NEW t \in Threads, UNCHANGED <<free, held, cache>>,
         Task(t, "malloc") \/ Task(t, "free"), Does(t, Uncached(t, work[t]))
  PROVE  Partition'
<1>1. PICK w \in Calling : w = Uncached(t, work[t]) /\ w # <<>>
                          /\ w[1] = Do(Direct(work[t][1].op), work[t][1].arg)
                          /\ w[1].op \in {"direct_malloc", "direct_free"}
  BY UncachedIs
<1>2. work[t] \in Whole /\ work[t] # <<>> /\ work[t][1].op \in {"malloc", "free"} /\ w \in Whole
  BY Only DEF Whole
<1>3. w[1].arg = work[t][1].arg /\ (w[1].op = "direct_free" <=> work[t][1].op = "free")
  BY <1>1, <1>2 DEF Do, Direct
<1>4. FreedOf(w) = FreedOf(work[t]) /\ ~Flushing(work[t])
  BY <1>1, <1>2, <1>3, HoldsWhole
<1> QED  BY <1>1, <1>2, <1>4, QuietCall DEF Does

LEMMA GoWithoutKeeps ==
  ASSUME IInv, IInv', Partition, NEW t \in Threads, GoWithout(t)
  PROVE  Partition'
BY UncachedKeeps DEF GoWithout

(* A call ends that had nothing in hand.                                   *)
LEMMA EndKeeps ==
  ASSUME IInv, IInv', Partition, NEW t \in Threads, UNCHANGED <<free, held, cache>>,
         NEW name \in {"malloc", "direct_malloc", "thread_arena"}, Task(t, name), Does(t, <<>>)
  PROVE  Partition'
<1>1. work[t] \in Whole /\ work[t] # <<>> /\ work[t][1].op = name
  BY Only
<1>2. PICK w \in Whole : w = <<>>
  BY DEF Whole, Calling
<1>3. FreedOf(w) = FreedOf(work[t]) /\ ~Flushing(work[t])
  BY <1>1, <1>2, HoldsWhole
<1> QED  BY <1>2, <1>3, QuietCall DEF Does

LEMMA thread_arena_ctlKeeps ==
  ASSUME IInv, IInv', Partition, NEW t \in Threads, thread_arena_ctl(t)
  PROVE  Partition'
BY EndKeeps DEF thread_arena_ctl

LEMMA Become ==
  ASSUME IInv, NEW t \in Threads, NEW w, NEW c,
         work' = [work EXCEPT ![t] = w], cache' = [cache EXCEPT ![t] = c]
  PROVE  work'[t] = w /\ cache'[t] = c /\ StillElse(t)
BY DEF StillElse, IInv, TypeOK

(* Without a cache, between the client, a call and an arena.               *)
LEMMA FreeObjectKeeps ==
  ASSUME IInv, IInv', Partition, NEW t \in Threads, NEW o \in Objects, FreeObject(t, o)
  PROVE  Partition'
<1>1. /\ Idle(t) /\ o \in held /\ held' = held \ {o} /\ work' = [work EXCEPT ![t] = <<Do("free", o)>>]
      /\ UNCHANGED <<free, cache>>
  BY DEF FreeObject, Calls, Does
<1>2. PICK w \in Whole : w = <<Do("free", o)>>
  BY DEF Whole, Freeing
<1>3. FreedOf(w) = {o} /\ StashOf(w) = {} /\ ~Flushing(w)
  BY <1>2, One, HoldsWhole
<1>4. FreedOf(work[t]) = {} /\ StashOf(work[t]) = {}
  BY <1>1, IdleFacts, HoldsWhole
<1>5. work'[t] = w /\ cache'[t] = cache[t] /\ StillElse(t)
  BY <1>1, <1>2, Facts, Become
<1>6. Simple(t)'
  BY <1>3, <1>5 DEF Partition, Simple
<1>7. o \in In(Spot(t, o, "client"))
  BY <1>1, Contents DEF Spot
<1>8. Carried(t, o, "client", "call")
  BY <1>1, <1>3, <1>4, <1>5, <1>7 DEF Carried, Shift, Bins
<1> QED  BY <1>6, <1>8, Carry DEF Kinds

LEMMA DirectFreeKeeps ==
  ASSUME IInv, IInv', Partition, NEW t \in Threads, DirectFree(t)
  PROVE  Partition'
<1>1. /\ Task(t, "direct_free") /\ work' = [work EXCEPT ![t] = <<>>]
      /\ GivesTo(Home(Arg(t)), {Arg(t)}) /\ UNCHANGED <<held, cache>>
  BY DEF DirectFree, Does
<1>2. work[t] \in Whole /\ work[t] # <<>> /\ work[t][1].op = "direct_free" /\ Arg(t) \in Objects
  BY <1>1, Only, Heads DEF Arg
<1>3. PICK o \in Objects : o = Arg(t)
  BY <1>2
<1>4. PICK w \in Whole : w = <<>>
  BY DEF Whole, Calling
<1>5. FreedOf(w) = {} /\ StashOf(w) = {} /\ ~Flushing(w)
      /\ FreedOf(work[t]) = {o} /\ StashOf(work[t]) = {}
  BY <1>2, <1>3, <1>4, HoldsWhole DEF Arg
<1>6. work'[t] = w /\ cache'[t] = cache[t] /\ StillElse(t)
  BY <1>1, <1>4, Facts, Become
<1>7. Simple(t)'
  BY <1>5, <1>6 DEF Partition, Simple
<1>8. o \in In(Spot(t, o, "call"))
  BY <1>5, Contents DEF Spot
<1>9. \A a \in Arenas : free'[a] = IF a = Home(o) THEN free[a] \cup {o} ELSE free[a]
  BY <1>1, <1>3 DEF GivesTo, IInv, TypeOK
<1>10. Carried(t, o, "call", "arena")
  BY <1>1, <1>5, <1>6, <1>8, <1>9 DEF Carried, Shift, Bins
<1> QED  BY <1>7, <1>10, Carry DEF Kinds

(* What is taken from an arena is at home there.                           *)
LEMMA TakenFrom ==
  ASSUME IInv, Partition, NEW t \in Threads, NEW a \in Arenas, NEW b, NEW o \in Next1(a, b), Takes(a, o)
  PROVE  /\ o \in Objects /\ Home(o) = a /\ BinOf(o) = b /\ o \in In(Spot(t, o, "arena"))
         /\ \A e \in Arenas : free'[e] = IF e = Home(o) THEN free[e] \ {o} ELSE free[e]
<1>1. o \in free[a] /\ o \in Objects /\ BinOf(o) = b
  BY Next1Typed
<1>2. Home(o) = a
  BY <1>1 DEF Partition, AtHome
<1>3. o \in In(Spot(t, o, "arena"))
  BY <1>1, <1>2, Contents DEF Spot
<1> QED  BY <1>1, <1>2, <1>3 DEF Takes, IInv, TypeOK

LEMMA DirectMallocKeeps ==
  ASSUME IInv, IInv', Partition, NEW t \in Threads, DirectMalloc(t)
  PROVE  Partition'
<1>1. /\ Task(t, "direct_malloc") /\ Does(t, <<>>) /\ UNCHANGED <<cache>> /\ arena_of[t] \in Arenas
  BY DEF DirectMalloc, IInv, TypeOK
<1>2. CASE UNCHANGED <<free, held>>
  BY <1>1, <1>2, EndKeeps
<1>3. ASSUME NEW o \in Next1(arena_of[t], Arg(t)), Takes(arena_of[t], o), held' = held \cup {o}
      PROVE  Partition'
  <2>1. /\ o \in Objects /\ o \in In(Spot(t, o, "arena"))
        /\ \A e \in Arenas : free'[e] = IF e = Home(o) THEN free[e] \ {o} ELSE free[e]
    BY <1>1, <1>3, TakenFrom
  <2>2. work[t] \in Whole /\ work[t] # <<>> /\ work[t][1].op = "direct_malloc"
    BY <1>1, Only
  <2>3. PICK w \in Whole : w = <<>>
    BY DEF Whole, Calling
  <2>4. FreedOf(w) = {} /\ StashOf(w) = {} /\ ~Flushing(w)
        /\ FreedOf(work[t]) = {} /\ StashOf(work[t]) = {}
    BY <2>2, <2>3, HoldsWhole
  <2>5. work'[t] = w /\ cache'[t] = cache[t] /\ StillElse(t)
    BY <1>1, <2>3, Facts, Become DEF Does
  <2>6. Simple(t)'
    BY <2>4, <2>5 DEF Partition, Simple
  <2>7. Carried(t, o, "arena", "client")
    BY <1>3, <2>1, <2>4, <2>5 DEF Carried, Shift, Bins
  <2> QED  BY <2>1, <2>6, <2>7, Carry DEF Kinds
<1> QED  BY <1>2, <1>3 DEF DirectMalloc

(* One place excludes the others.                                          *)
LEMMA Alone ==
  ASSUME Unique, NEW o \in Objects, NEW p \in Places, NEW q \in Places, p # q, o \in In(p)
  PROVE  o \notin In(q)
BY DEF Unique

LEMMA InList ==
  ASSUME NEW s \in Seq(Objects), NEW x
  PROVE  x \in ToSet(s) <=> \E i \in 1 .. Len(s) : s[i] = x
BY LenProperties DEF ToSet

LEMMA PushSet ==
  ASSUME NEW s \in Seq(Objects), NEW o \in Objects, NEW w, w = <<o>> \o s
  PROVE  /\ w \in Seq(Objects) /\ ToSet(w) = ToSet(s) \cup {o}
         /\ IsInjective(s) /\ o \notin ToSet(s) => IsInjective(w)
<1>1. /\ w \in Seq(Objects) /\ Len(w) = Len(s) + 1 /\ w[1] = o
      /\ \A k \in 1 .. Len(s) : w[k + 1] = s[k]
  BY PutFirst
<1>2. PICK n \in Nat : n = Len(s) /\ DOMAIN s = 1 .. n /\ DOMAIN w = 1 .. n + 1
  BY <1>1, LenProperties
<1>3. \A k \in 1 .. n : k + 1 \in 1 .. n + 1 /\ w[k + 1] = s[k]
  BY <1>1, <1>2
<1>4. ASSUME NEW j \in 1 .. n + 1 PROVE j = 1 \/ (j - 1 \in 1 .. n /\ w[j] = s[j - 1])
  <2>1. j # 1 => j - 1 \in 1 .. n
    BY <1>2
  <2>2. j # 1 => w[(j - 1) + 1] = s[j - 1]
    BY <1>3, <2>1
  <2>3. (j - 1) + 1 = j
    OBVIOUS
  <2> QED  BY <2>1, <2>2, <2>3
<1>5. ToSet(w) = ToSet(s) \cup {o}
  <2>1. 1 \in 1 .. n + 1 /\ Len(w) = n + 1
    BY <1>1, <1>2
  <2>2. ASSUME NEW x PROVE x \in ToSet(w) <=> x = o \/ x \in ToSet(s)
    <3>1. x \in ToSet(s) <=> \E i \in 1 .. n : s[i] = x
      BY <1>2, InList
    <3>2. x \in ToSet(w) <=> \E i \in 1 .. n + 1 : w[i] = x
      BY <1>2 DEF ToSet
    <3> QED  BY <1>1, <1>3, <1>4, <2>1, <3>1, <3>2
  <2> QED  BY <2>2
<1>6. ASSUME IsInjective(s), o \notin ToSet(s) PROVE IsInjective(w)
  <2>1. SUFFICES ASSUME NEW i \in 1 .. n + 1, NEW j \in 1 .. n + 1, w[i] = w[j] PROVE i = j
    BY <1>2 DEF IsInjective
  <2>2. \A k \in 1 .. n : s[k] # o
    BY <1>2, <1>6 DEF ToSet
  <2>3. i = 1 <=> j = 1
    BY <1>1, <1>4, <2>1, <2>2
  <2>4. i # 1 => i - 1 = j - 1
    <3>1. SUFFICES ASSUME i # 1 PROVE i - 1 = j - 1
      OBVIOUS
    <3>2. i - 1 \in 1 .. n /\ j - 1 \in 1 .. n /\ s[i - 1] = s[j - 1]
      BY <1>4, <2>1, <2>3, <3>1
    <3> QED  BY <1>2, <1>6, <3>2 DEF IsInjective
  <2> QED  BY <2>3, <2>4
<1> QED  BY <1>1, <1>5, <1>6

LEMMA PopSet ==
  ASSUME NEW s \in Seq(Objects), s # <<>>, IsInjective(s)
  PROVE  /\ s[1] \in ToSet(s) /\ ToSet(Tail(s)) = ToSet(s) \ {s[1]} /\ IsInjective(Tail(s))
<1>1. PICK n \in Nat : n = Len(s) /\ n # 0 /\ DOMAIN s = 1 .. n
  BY LenProperties, EmptySeq
<1>2. PICK r \in Seq(Objects) : /\ r = Tail(s) /\ Len(r) = n - 1
                                /\ \A i \in 1 .. n - 1 : r[i] = s[i + 1]
  <2>1. /\ Tail(s) \in Seq(Objects) /\ Len(Tail(s)) = Len(s) - 1
        /\ \A i \in 1 .. Len(Tail(s)) : Tail(s)[i] = s[i + 1]
    BY HeadTailProperties
  <2> QED  BY <1>1, <2>1
<1>3. DOMAIN r = 1 .. n - 1 /\ \A i \in 1 .. n - 1 : i + 1 \in 1 .. n /\ i + 1 # 1
  BY <1>1, <1>2
<1>4. 1 \in 1 .. n /\ s[1] \in ToSet(s)
  BY <1>1 DEF ToSet
<1>5. \A i, j \in 1 .. n : s[i] = s[j] => i = j
  BY <1>1 DEF IsInjective
<1>6. ToSet(r) = ToSet(s) \ {s[1]}
  <2>1. ASSUME NEW i \in 1 .. n - 1 PROVE r[i] \in ToSet(s) /\ r[i] # s[1]
    <3>1. r[i] = s[i + 1] /\ i + 1 \in 1 .. n /\ i + 1 # 1
      BY <1>2, <1>3
    <3> QED  BY <1>1, <1>4, <1>5, <3>1 DEF ToSet
  <2>2. ASSUME NEW j \in 1 .. n, s[j] # s[1] PROVE \E i \in 1 .. n - 1 : r[i] = s[j]
    <3>1. j - 1 \in 1 .. n - 1
      BY <1>1, <2>2
    <3>2. r[j - 1] = s[(j - 1) + 1]
      BY <1>2, <3>1
    <3> QED  BY <3>1, <3>2
  <2>3. ASSUME NEW x PROVE x \in ToSet(r) <=> x \in ToSet(s) /\ x # s[1]
    <3>1. x \in ToSet(s) <=> \E i \in 1 .. n : s[i] = x
      BY <1>1, InList
    <3>2. x \in ToSet(r) <=> \E i \in 1 .. n - 1 : r[i] = x
      BY <1>3 DEF ToSet
    <3> QED  BY <2>1, <2>2, <3>1, <3>2
  <2> QED  BY <2>3
<1>7. IsInjective(r)
  <2>1. SUFFICES ASSUME NEW i \in 1 .. n - 1, NEW j \in 1 .. n - 1, r[i] = r[j] PROVE i = j
    BY <1>3 DEF IsInjective
  <2>2. i + 1 = j + 1
    BY <1>2, <1>3, <1>5, <2>1
  <2> QED  BY <2>2
<1> QED  BY <1>2, <1>4, <1>6, <1>7

CutAt(s, n, u, v) == n <= Len(s) /\ u = SubSeq(s, 1, n) /\ v = SubSeq(s, n + 1, Len(s))
Halves(s, n, u, v) ==
  /\ IsInjective(u) /\ IsInjective(v)
  /\ ToSet(u) \subseteq ToSet(s) /\ ToSet(v) = ToSet(s) \ ToSet(u)
  /\ n = Len(s) => ToSet(u) = ToSet(s)

LEMMA SplitSets ==
  ASSUME NEW s \in Seq(Objects), NEW n \in Nat, NEW u \in Seq(Objects), NEW v \in Seq(Objects),
         IsInjective(s), CutAt(s, n, u, v)
  PROVE  Halves(s, n, u, v)
<1>0. n <= Len(s) /\ u = SubSeq(s, 1, n) /\ v = SubSeq(s, n + 1, Len(s))
  BY DEF CutAt
<1>1. PICK m \in Nat : m = Len(s) /\ DOMAIN s = 1 .. m /\ n <= m
  BY <1>0, LenProperties
<1>2. /\ DOMAIN u = 1 .. n /\ DOMAIN v = 1 .. m - n
      /\ \A i \in 1 .. n : u[i] = s[i]
      /\ \A i \in 1 .. m - n : v[i] = s[n + i]
  BY <1>0, <1>1, Split, LenProperties
<1>3. (\A i \in 1 .. n : i \in 1 .. m) /\ \A i \in 1 .. m - n : n + i \in 1 .. m /\ n + i \notin 1 .. n
  BY <1>1
<1>4. \A i, j \in 1 .. m : s[i] = s[j] => i = j
  BY <1>1 DEF IsInjective
<1>5. IsInjective(u)
  BY <1>2, <1>3, <1>4 DEF IsInjective
<1>6. IsInjective(v)
  <2>1. SUFFICES ASSUME NEW i \in 1 .. m - n, NEW j \in 1 .. m - n, v[i] = v[j] PROVE i = j
    BY <1>2 DEF IsInjective
  <2>2. n + i \in 1 .. m /\ n + j \in 1 .. m
    BY <1>3
  <2>3. s[n + i] = s[n + j]
    BY <1>2, <2>1
  <2>4. n + i = n + j
    BY <1>4, <2>2, <2>3
  <2> QED  BY <1>1, <2>4
<1>7. ToSet(u) \subseteq ToSet(s)
  BY <1>1, <1>2, <1>3 DEF ToSet
<1>8. ToSet(v) = ToSet(s) \ ToSet(u)
  <2>1. ASSUME NEW i \in 1 .. m - n PROVE v[i] \in ToSet(s) /\ v[i] \notin ToSet(u)
    <3>1. v[i] = s[n + i] /\ n + i \in 1 .. m /\ n + i \notin 1 .. n
      BY <1>2, <1>3
    <3>2. \A j \in 1 .. n : u[j] # v[i]
      BY <1>2, <1>3, <1>4, <3>1
    <3> QED  BY <1>1, <1>2, <3>1, <3>2 DEF ToSet
  <2>2. ASSUME NEW k \in 1 .. m, s[k] \notin ToSet(u) PROVE \E i \in 1 .. m - n : v[i] = s[k]
    <3>1. k \notin 1 .. n
      BY <1>2, <2>2 DEF ToSet
    <3>2. PICK i \in 1 .. m - n : n + i = k
      <4>1. k - n \in 1 .. m - n /\ n + (k - n) = k
        BY <1>1, <3>1
      <4> QED  BY <4>1
    <3>3. v[i] = s[n + i]
      BY <1>2
    <3> QED  BY <3>2, <3>3
  <2>3. ASSUME NEW x PROVE x \in ToSet(v) <=> x \in ToSet(s) /\ x \notin ToSet(u)
    <3>1. x \in ToSet(s) <=> \E i \in 1 .. m : s[i] = x
      BY <1>1, InList
    <3>2. x \in ToSet(v) <=> \E i \in 1 .. m - n : v[i] = x
      BY <1>2 DEF ToSet
    <3> QED  BY <2>1, <2>2, <3>1, <3>2
  <2> QED  BY <2>3
<1>9. n = Len(s) => ToSet(u) = ToSet(s)
  BY <1>1, <1>2 DEF ToSet
<1> QED  BY <1>5, <1>6, <1>7, <1>8, <1>9 DEF Halves

(* A flush that begins has nothing in a stash yet.                         *)
LEMMA HeldFlush ==
  ASSUME NEW b \in Bins, NEW v \in Binned, NEW rem \in Nat, rem <= v.ncached, NEW r \in After(b),
         NEW w, w = Then(Flush(b, v, rem), r)
  PROVE  /\ StashOf(w) = {} /\ FreedOf(w) = FreedOf(r) /\ Flushing(w) /\ w[1].list = v.avail
<1>1. Flushing(w) /\ Rest(w) = r /\ w[1] = Flush(b, v, rem)
  BY FlushBegins
<1>2. w[1].list = v.avail /\ w[1].first
  BY <1>1, FlushTyped
<1>3. Rest(r) = r
  BY AfterWhole, WholeShape
<1> QED  BY <1>1, <1>2, <1>3 DEF StashOf, FreedOf

LEMMA InCache ==
  ASSUME NEW c \in Caches
  PROVE  SelfOf(c) = {c.self} /\ \A b \in Bins : ChainOf(c, b) = ToSet(c.bins[b].avail)
BY CacheTyped DEF SelfOf, ChainOf

(* A call that ends with tcache_event has nothing in hand.                 *)
LEMMA EventHolds ==
  ASSUME IInv, NEW t \in Threads, NEW c, Ending(t, c)
  PROVE  /\ StillElse(t) /\ SelfOf(cache'[t]) = SelfOf(cache[t])
         /\ \A b \in Bins : ChainOf(cache'[t], b) = ToSet(c.bins[b].avail)
         /\ FreedOf(work'[t]) = {} /\ StashOf(work'[t]) = {}
         /\ (\A b \in Bins : IsInjective(c.bins[b].avail)) => Simple(t)'
<1>1. cache[t] \in Caches /\ c \in Caches /\ Counted(c) /\ c.self = cache[t].self
  BY DEF Ending
<1>2. PICK d : d = [c EXCEPT !.ev_cnt = @ + 1]
  OBVIOUS
<1>3. d \in Caches /\ d.bins = c.bins /\ d.self = cache[t].self /\ d # Null
  BY <1>1, <1>2, CountUp, CacheTyped
<1>4. cache' = [cache EXCEPT ![t] = d]
  BY <1>2 DEF Ending, tcache_event
<1>5. ASSUME NEW w, work' = [work EXCEPT ![t] = w], FreedOf(w) = {}, StashOf(w) = {},
             Flushing(w) => \E b \in Bins : w[1].list = c.bins[b].avail
      PROVE  /\ StillElse(t) /\ SelfOf(cache'[t]) = SelfOf(cache[t])
             /\ \A b \in Bins : ChainOf(cache'[t], b) = ToSet(c.bins[b].avail)
             /\ FreedOf(work'[t]) = {} /\ StashOf(work'[t]) = {}
             /\ (\A b \in Bins : IsInjective(c.bins[b].avail)) => Simple(t)'
  <2>1. work'[t] = w /\ cache'[t] = d /\ StillElse(t)
    BY <1>4, <1>5, Become
  <2>2. SelfOf(d) = SelfOf(cache[t]) /\ \A b \in Bins : ChainOf(d, b) = ToSet(c.bins[b].avail)
    BY <1>1, <1>3, InCache
  <2>3. (\A b \in Bins : IsInjective(c.bins[b].avail)) => Simple(t)'
    BY <1>3, <1>5, <2>1 DEF Simple
  <2> QED  BY <1>5, <2>1, <2>2, <2>3
<1>6. CASE c.ev_cnt + 1 < GcIncr
  <2>1. PICK w \in Whole : w = <<>>
    BY DEF Whole, Calling
  <2>2. work' = [work EXCEPT ![t] = w]
    BY <1>6, <2>1 DEF Ending, tcache_event, Does
  <2>3. FreedOf(w) = {} /\ StashOf(w) = {} /\ ~Flushing(w)
    BY <2>1, HoldsWhole
  <2> QED  BY <1>5, <2>2, <2>3
<1>7. CASE ~(c.ev_cnt + 1 < GcIncr)
  <2>1. PICK gc \in Bins, v \in Binned : gc = c.next_gc_bin /\ v = c.bins[gc]
    BY <1>1, CacheTyped
  <2>2. PICK r : r = <<Do("collected", gc)>>
    OBVIOUS
  <2>3. r \in After(gc) /\ r \in Whole /\ r \in Seq(Tasks)
    BY <2>2, WholeShape DEF Collecting, After, Whole
  <2>4. work' = [work EXCEPT ![t] = (IF v.low > 0 THEN <<Flush(gc, v, Keep(v))>> ELSE <<>>) \o r]
    BY <1>7, <2>1, <2>2 DEF Ending, tcache_event, Does
  <2>5. FreedOf(r) = {} /\ StashOf(r) = {} /\ ~Flushing(r)
    BY <2>2, <2>3, One, HoldsWhole
  <2>6. CASE v.low > 0
    <3>1. PICK rem \in Nat : rem = Keep(v) /\ rem <= v.ncached
      BY <1>1, <2>1, KeepBounds DEF Counted
    <3>2. PICK w : w = Then(Flush(gc, v, rem), r)
      OBVIOUS
    <3>3. StashOf(w) = {} /\ FreedOf(w) = FreedOf(r) /\ w[1].list = v.avail
      <4>1. rem <= v.ncached /\ r \in After(gc)
        BY <2>3, <3>1
      <4> QED  BY <3>2, <4>1, HeldFlush
    <3>4. work' = [work EXCEPT ![t] = w]
      BY <2>4, <2>6, <3>1, <3>2 DEF Then
    <3> QED  BY <1>5, <2>1, <2>5, <3>3, <3>4
  <2>7. CASE ~(v.low > 0)
    <3>1. work' = [work EXCEPT ![t] = r]
      BY <2>3, <2>4, <2>7, ConcatEmptySeq
    <3> QED  BY <1>5, <2>5, <3>1
  <2> QED  BY <2>6, <2>7
<1> QED  BY <1>6, <1>7

(* A flush begins: nothing moves yet.                                      *)
LEMMA FlushStartKeeps ==
  ASSUME IInv, IInv', Partition, NEW t \in Threads, cache[t] \in Caches, NEW b \in Bins,
         NEW rem \in Nat, rem <= cache[t].bins[b].ncached, NEW r \in After(b),
         FreedOf(r) = FreedOf(work[t]), ~Flushing(work[t]), UNCHANGED <<free, held, cache>>,
         work' = [work EXCEPT ![t] = Then(Flush(b, cache[t].bins[b], rem), r)]
  PROVE  Partition'
<1>1. PICK v \in Binned : v = cache[t].bins[b] /\ IsInjective(v.avail) /\ rem <= v.ncached
  <2>1. cache[t].bins[b] \in Binned /\ cache[t] # Null
    BY CacheTyped
  <2>2. IsInjective(cache[t].bins[b].avail)
    BY <2>1 DEF Partition, Simple
  <2> QED  BY <2>1, <2>2
<1>2. PICK w : w = Then(Flush(b, v, rem), r)
  OBVIOUS
<1>3. StashOf(w) = {} /\ FreedOf(w) = FreedOf(r) /\ Flushing(w) /\ w[1].list = v.avail
  BY <1>1, <1>2, HeldFlush
<1>4. work'[t] = w /\ cache'[t] = cache[t] /\ StillElse(t)
  BY <1>1, <1>2, Facts, Become
<1>5. StashOf(work[t]) = {}
  BY DEF StashOf
<1>6. Simple(t)'
  BY <1>1, <1>3, <1>4 DEF Partition, Simple
<1> QED  BY <1>3, <1>4, <1>5, <1>6, Quiet

LEMMA EmptyBinKeeps ==
  ASSUME IInv, IInv', Partition, NEW t \in Threads, EmptyBin(t)
  PROVE  Partition'
<1>1. /\ Task(t, "empty") /\ UNCHANGED <<free, held, cache>>
      /\ Does(t, <<Flush(Arg(t), cache[t].bins[Arg(t)], 0)>> \o Tail(work[t]))
  BY DEF EmptyBin
<1>2. PICK b \in Bins, x \in {"null", "1"} : \E r \in After(b) :
        b = Arg(t) /\ r = Tail(work[t]) /\ r \in Leaving(x)
  BY <1>1, EmptyTail
<1>3. PICK r \in After(b) : b = Arg(t) /\ r = Tail(work[t]) /\ r \in Leaving(x)
  BY <1>2
<1>4. FreedOf(r) = {} /\ FreedOf(work[t]) = {} /\ ~Flushing(work[t])
  <2>1. r \in Whole /\ r # <<>> /\ r[1].op \in {"empty", "release"}
    BY <1>3, AfterWhole, LastTasks
  <2>2. work[t] \in Whole /\ work[t] # <<>> /\ work[t][1].op = "empty"
    BY <1>1, Only
  <2> QED  BY <2>1, <2>2, HoldsWhole
<1>5. PICK rem \in Nat : rem = 0
  OBVIOUS
<1>6. work' = [work EXCEPT ![t] = Then(Flush(b, cache[t].bins[b], rem), r)]
  BY <1>1, <1>3, <1>5 DEF Does, Then
<1>7. cache[t] \in Caches
  BY <1>1, HasCacheFacts DEF NeedCache
<1>8. rem <= cache[t].bins[b].ncached
  BY <1>5, <1>7, CacheTyped, BinTyped
<1> QED  BY <1>1, <1>4, <1>6, <1>7, <1>8, FlushStartKeeps

(* A call ends that has brought the object o, or taken it.                 *)
LEMMA ChainSimple ==
  ASSUME Partition, NEW t \in Threads, cache[t] \in Caches
  PROVE  \A b \in Bins : IsInjective(cache[t].bins[b].avail)
BY CacheTyped DEF Partition, Simple

LEMMA AllocEasyKeeps ==
  ASSUME IInv, IInv', Partition, NEW t \in Threads, AllocEasy(t)
  PROVE  Partition'
<1>1. (Task(t, "malloc") \/ Task(t, "easy")) /\ UNCHANGED free
  BY DEF AllocEasy
<1>2. PICK b \in Bins : \E c :
        /\ Ending(t, c) /\ cache[t].bins[b].avail # <<>> /\ cache[t].bins[b].avail[1] \in Objects
        /\ held' = held \cup {cache[t].bins[b].avail[1]}
        /\ c.bins[b].avail = Tail(cache[t].bins[b].avail)
        /\ \A e \in Bins \ {b} : c.bins[e] = cache[t].bins[e]
  BY AllocEasyIs
<1>3. PICK c :
        /\ Ending(t, c) /\ cache[t].bins[b].avail # <<>> /\ cache[t].bins[b].avail[1] \in Objects
        /\ held' = held \cup {cache[t].bins[b].avail[1]}
        /\ c.bins[b].avail = Tail(cache[t].bins[b].avail)
        /\ \A e \in Bins \ {b} : c.bins[e] = cache[t].bins[e]
  BY <1>2
<1>4. cache[t] \in Caches
  BY <1>3 DEF Ending
<1>5. PICK s \in Seq(Objects), o \in Objects :
        s = cache[t].bins[b].avail /\ s # <<>> /\ o = s[1] /\ IsInjective(s)
  BY <1>3, <1>4, CacheTyped, BinTyped, ChainSimple
<1>6. o \in ToSet(s) /\ ToSet(Tail(s)) = ToSet(s) \ {o} /\ IsInjective(Tail(s))
  BY <1>5, PopSet
<1>7. /\ StillElse(t) /\ SelfOf(cache'[t]) = SelfOf(cache[t])
      /\ \A e \in Bins : ChainOf(cache'[t], e) = ToSet(c.bins[e].avail)
      /\ FreedOf(work'[t]) = {} /\ StashOf(work'[t]) = {}
      /\ (\A e \in Bins : IsInjective(c.bins[e].avail)) => Simple(t)'
  BY <1>3, EventHolds
<1>8. Simple(t)'
  BY <1>3, <1>4, <1>5, <1>6, <1>7, ChainSimple
<1>9. \A e \in Bins : ChainOf(cache[t], e) = ToSet(cache[t].bins[e].avail)
  BY <1>4, InCache
<1>10. FreedOf(work[t]) = {} /\ StashOf(work[t]) = {}
  BY <1>1, Only, HoldsWhole
<1>11. o \in In(Spot(t, o, b))
  BY <1>5, <1>6, <1>9, Contents DEF Spot, Bins
<1>12. \A e \in Bins : ChainOf(cache'[t], e) = Shift(ChainOf(cache[t], e), o, e, b, "client")
  BY <1>3, <1>5, <1>6, <1>7, <1>9 DEF Shift, Bins
<1>13. Carried(t, o, b, "client")
  <2>1. held' = Shift(held, o, "client", b, "client")
    BY <1>3, <1>5 DEF Shift, Bins
  <2> QED  BY <1>1, <1>7, <1>10, <1>11, <1>12, <2>1 DEF Carried, Shift, Bins
<1> QED  BY <1>8, <1>13, Carry DEF Kinds, Bins

LEMMA AllocLargeKeeps ==
  ASSUME IInv, IInv', Partition, NEW t \in Threads, AllocLarge(t)
  PROVE  Partition'
<1>1. Task(t, "malloc")
  BY DEF AllocLarge
<1>2. CASE Does(t, <<>>) /\ UNCHANGED <<free, held, cache>>
  BY <1>1, <1>2, EndKeeps
<1>3. ASSUME NEW a \in Arenas, NEW o \in Next1(a, "large"), NEW c, Ending(t, c), Takes(a, o),
             held' = held \cup {o}, \A b \in Bins : c.bins[b].avail = cache[t].bins[b].avail
      PROVE  Partition'
  <2>1. /\ o \in Objects /\ o \in In(Spot(t, o, "arena"))
        /\ \A e \in Arenas : free'[e] = IF e = Home(o) THEN free[e] \ {o} ELSE free[e]
    BY <1>3, TakenFrom
  <2>2. cache[t] \in Caches
    BY <1>3 DEF Ending
  <2>3. /\ StillElse(t) /\ SelfOf(cache'[t]) = SelfOf(cache[t])
        /\ \A e \in Bins : ChainOf(cache'[t], e) = ChainOf(cache[t], e)
        /\ FreedOf(work'[t]) = {} /\ StashOf(work'[t]) = {} /\ Simple(t)'
    BY <1>3, <2>2, EventHolds, InCache, ChainSimple
  <2>4. FreedOf(work[t]) = {} /\ StashOf(work[t]) = {}
    BY <1>1, Only, HoldsWhole
  <2>5. Carried(t, o, "arena", "client")
    BY <1>3, <2>1, <2>3, <2>4 DEF Carried, Shift, Bins
  <2> QED  BY <2>1, <2>3, <2>5, Carry DEF Kinds
<1> QED  BY <1>2, <1>3, AllocLargeIs

LEMMA DallocKeeps ==
  ASSUME IInv, IInv', Partition, NEW t \in Threads, Dalloc(t)
  PROVE  Partition'
<1>1. UNCHANGED <<free, held>>
  BY DEF Dalloc
<1>2. PICK o \in Objects, b \in Bins :
        /\ cache[t] \in Caches /\ Counted(cache[t]) /\ cache[t].ev_cnt < GcIncr
        /\ work[t] = <<Do("free", o)>> /\ work[t] \in After(b) /\ work[t] \in Whole
        /\ \/ \E rem \in Nat :
                /\ rem <= cache[t].bins[b].ncached /\ UNCHANGED cache
                /\ work' = [work EXCEPT ![t] = Then(Flush(b, cache[t].bins[b], rem), work[t])]
           \/ \E c : /\ Ending(t, c) /\ c.bins[b].avail = <<o>> \o cache[t].bins[b].avail
                     /\ \A e \in Bins \ {b} : c.bins[e] = cache[t].bins[e]
  BY DallocIs
<1>3. FreedOf(work[t]) = {o} /\ StashOf(work[t]) = {} /\ ~Flushing(work[t])
  BY <1>2, One, HoldsWhole
<1>4. ASSUME NEW rem \in Nat, rem <= cache[t].bins[b].ncached, UNCHANGED cache,
             work' = [work EXCEPT ![t] = Then(Flush(b, cache[t].bins[b], rem), work[t])]
      PROVE  Partition'
  BY <1>1, <1>2, <1>3, <1>4, FlushStartKeeps
<1>5. ASSUME NEW c, Ending(t, c), c.bins[b].avail = <<o>> \o cache[t].bins[b].avail,
             \A e \in Bins \ {b} : c.bins[e] = cache[t].bins[e]
      PROVE  Partition'
  <2>1. PICK s \in Seq(Objects) : s = cache[t].bins[b].avail /\ IsInjective(s)
    BY <1>2, CacheTyped, BinTyped, ChainSimple
  <2>2. \A e \in Bins : ChainOf(cache[t], e) = ToSet(cache[t].bins[e].avail)
    BY <1>2, InCache
  <2>3. o \in In(Spot(t, o, "call"))
    BY <1>3, Contents DEF Spot
  <2>4. o \notin ToSet(s)
    <3>1. <<"call", t>> \in Places /\ <<b, t>> \in Places /\ <<"call", t>> # <<b, t>>
      BY PlacesAre DEF Bins
    <3>2. o \in In(<<"call", t>>)
      BY <1>3, Contents
    <3>3. o \notin In(<<b, t>>)
      BY <3>1, <3>2, Alone DEF Partition
    <3> QED  BY <2>1, <2>2, <3>3, Contents
  <2>5. PICK w : w = <<o>> \o s
    OBVIOUS
  <2>6. ToSet(w) = ToSet(s) \cup {o} /\ IsInjective(w)
    BY <2>1, <2>4, <2>5, PushSet
  <2>7. /\ StillElse(t) /\ SelfOf(cache'[t]) = SelfOf(cache[t])
        /\ \A e \in Bins : ChainOf(cache'[t], e) = ToSet(c.bins[e].avail)
        /\ FreedOf(work'[t]) = {} /\ StashOf(work'[t]) = {}
        /\ (\A e \in Bins : IsInjective(c.bins[e].avail)) => Simple(t)'
    BY <1>5, EventHolds
  <2>8. Simple(t)'
    BY <1>2, <1>5, <2>1, <2>5, <2>6, <2>7, ChainSimple
  <2>9. \A e \in Bins : ChainOf(cache'[t], e) = Shift(ChainOf(cache[t], e), o, e, "call", b)
    BY <1>5, <2>1, <2>2, <2>5, <2>6, <2>7 DEF Shift, Bins
  <2>10. Carried(t, o, "call", b)
    BY <1>1, <1>3, <2>3, <2>7, <2>9 DEF Carried, Shift, Bins
  <2> QED  BY <2>8, <2>10, Carry DEF Kinds, Bins
<1> QED  BY <1>2, <1>4, <1>5

(* A step that sets one bin of a cache.                                    *)
LEMMA BinIsSet ==
  ASSUME IInv, NEW t \in Threads, cache[t] \in Caches, NEW b \in Bins, NEW p \in Binned,
         cache' = [cache EXCEPT ![t].bins[b] = p], NEW w, work' = [work EXCEPT ![t] = w]
  PROVE  /\ work'[t] = w /\ StillElse(t) /\ cache'[t] # Null
         /\ cache'[t].bins[b] = p /\ \A e \in Bins \ {b} : cache'[t].bins[e] = cache[t].bins[e]
         /\ SelfOf(cache'[t]) = SelfOf(cache[t])
         /\ ChainOf(cache'[t], b) = ToSet(p.avail)
         /\ \A e \in Bins \ {b} : ChainOf(cache'[t], e) = ChainOf(cache[t], e)
<1>1. PICK c \in Caches : c = cache[t]
  OBVIOUS
<1>2. PICK d \in Caches : /\ d = [c EXCEPT !.bins[b] = p] /\ d.bins[b] = p
                          /\ \A e \in Bins \ {b} : d.bins[e] = c.bins[e]
                          /\ d.self = c.self
  BY BinPut
<1>3. cache' = [cache EXCEPT ![t] = d]
  BY <1>1, <1>2 DEF Caches, IInv, TypeOK
<1>4. work'[t] = w /\ cache'[t] = d /\ StillElse(t)
  BY <1>3, Become
<1>5. d # Null
  BY CacheTyped
<1>6. /\ SelfOf(d) = SelfOf(c) /\ ChainOf(d, b) = ToSet(p.avail)
      /\ \A e \in Bins \ {b} : ChainOf(d, e) = ChainOf(c, e)
  BY <1>2, InCache
<1> QED  BY <1>1, <1>2, <1>4, <1>5, <1>6

(* A bin is set whose chain stays: nothing moves.                          *)
LEMMA BinSetKeeps ==
  ASSUME IInv, IInv', Partition, NEW t \in Threads, cache[t] \in Caches, NEW b \in Bins,
         NEW p \in Binned, p.avail = cache[t].bins[b].avail,
         cache' = [cache EXCEPT ![t].bins[b] = p],
         NEW w \in Whole, work' = [work EXCEPT ![t] = w],
         FreedOf(w) = FreedOf(work[t]), StashOf(work[t]) = {}, UNCHANGED <<free, held>>
  PROVE  Partition'
<1>1. /\ work'[t] = w /\ StillElse(t) /\ cache'[t] # Null
      /\ cache'[t].bins[b] = p /\ \A e \in Bins \ {b} : cache'[t].bins[e] = cache[t].bins[e]
      /\ SelfOf(cache'[t]) = SelfOf(cache[t])
      /\ ChainOf(cache'[t], b) = ToSet(p.avail)
      /\ \A e \in Bins \ {b} : ChainOf(cache'[t], e) = ChainOf(cache[t], e)
  BY BinIsSet
<1>2. \A e \in Bins : ChainOf(cache'[t], e) = ChainOf(cache[t], e)
  BY <1>1, InCache
<1>3. StashOf(w) = {} /\ ~Flushing(w)
  BY HoldsWhole
<1>4. \A e \in Bins : IsInjective(cache'[t].bins[e].avail)
  BY <1>1, ChainSimple
<1>5. Simple(t)'
  BY <1>1, <1>3, <1>4 DEF Simple
<1> QED  BY <1>1, <1>2, <1>3, <1>5, Quiet

LEMMA FlushEndKeeps ==
  ASSUME IInv, IInv', Partition, NEW t \in Threads, FlushEnd(t)
  PROVE  Partition'
<1>1. /\ Task(t, "flush") /\ work[t][1].list = <<>>
      /\ SetBin(t, Arg(t), Flushed(cache[t].bins[Arg(t)], work[t][1].rem))
      /\ Does(t, Tail(work[t])) /\ UNCHANGED <<free, held>>
  BY DEF FlushEnd
<1>2. PICK f \in Flushes, r \in Whole :
        /\ work[t] # <<>> /\ f = work[t][1] /\ r = Tail(work[t]) /\ Flushing(work[t])
        /\ Rest(work[t]) = r /\ r \in After(f.arg) /\ f.arg \in Bins /\ Arg(t) = f.arg
        /\ cache[t] \in Caches /\ cache[t] # Null /\ Kept(work[t], cache[t])
  BY <1>1, FlushFacts
<1>3. PICK b \in Bins, rem \in Nat : b = f.arg /\ rem = f.rem
  BY <1>2 DEF Flushes
<1>4. PICK v \in Binned : v = cache[t].bins[b]
  BY <1>2, CacheTyped
<1>5. PICK l \in Nat : l = Smaller(v.low, rem)
  BY BinTyped DEF Smaller
<1>6. PICK p : p = [v EXCEPT !.ncached = rem, !.low = l]
  OBVIOUS
<1>7. p \in Binned /\ p.avail = v.avail
  BY <1>6 DEF Binned
<1>8. cache' = [cache EXCEPT ![t].bins[b] = p]
  BY <1>1, <1>2, <1>3, <1>4, <1>5, <1>6 DEF SetBin, Flushed
<1>9. StashOf(work[t]) = {} /\ FreedOf(r) = FreedOf(work[t])
  <2>1. ToSet(<<>>) = {}
    BY DEF ToSet
  <2>2. Rest(r) = Rest(work[t])
    BY <1>2, WholeShape
  <2> QED  BY <1>1, <2>1, <2>2 DEF StashOf, FreedOf
<1>10. work' = [work EXCEPT ![t] = r] /\ UNCHANGED <<free, held>>
  BY <1>1, <1>2 DEF Does
<1> QED  BY <1>2, <1>4, <1>7, <1>8, <1>9, <1>10, BinSetKeeps

LEMMA CollectedKeeps ==
  ASSUME IInv, IInv', Partition, NEW t \in Threads, Collected(t)
  PROVE  Partition'
<1>1. /\ Task(t, "collected")
      /\ cache' = [cache EXCEPT ![t] = PassOver(cache[t], Arg(t))]
      /\ work' = [work EXCEPT ![t] = <<>>]
      /\ UNCHANGED <<free, held>>
  BY DEF Collected, Does
<1>2. cache[t] \in Caches
  BY <1>1, HasCacheFacts DEF NeedCache
<1>3. work[t] \in Whole /\ work[t] # <<>> /\ work[t][1].op = "collected" /\ Arg(t) \in Bins
  BY <1>1, Only, Heads DEF Arg
<1>4. PICK b \in Bins, c \in Caches, v \in Binned : b = Arg(t) /\ c = cache[t] /\ v = c.bins[b]
  BY <1>2, <1>3, CacheTyped
<1>5. PICK p \in Binned : p = Marked(v) /\ p.avail = v.avail
  BY MarkedTyped
<1>6. PICK d \in Caches :
        /\ d = PassOver(c, b) /\ d.bins[b] = p
        /\ \A e \in Bins \ {b} : d.bins[e] = c.bins[e]
        /\ d.self = c.self
  <2>1. p = Marked(c.bins[b])
    BY <1>4, <1>5
  <2> QED  BY <2>1, PassedOver
<1>7. PICK w \in Whole : w = <<>>
  BY DEF Whole, Calling
<1>8. work'[t] = w /\ cache'[t] = d /\ StillElse(t)
  BY <1>1, <1>4, <1>6, <1>7, Become
<1>9. FreedOf(w) = {} /\ StashOf(w) = {} /\ ~Flushing(w)
      /\ FreedOf(work[t]) = {} /\ StashOf(work[t]) = {}
  BY <1>3, <1>7, HoldsWhole
<1>10. SelfOf(d) = SelfOf(c) /\ \A e \in Bins : ChainOf(d, e) = ChainOf(c, e)
  <2>1. SelfOf(d) = {d.self} /\ \A e \in Bins : ChainOf(d, e) = ToSet(d.bins[e].avail)
    BY InCache
  <2>2. SelfOf(c) = {c.self} /\ \A e \in Bins : ChainOf(c, e) = ToSet(c.bins[e].avail)
    BY InCache
  <2>3. \A e \in Bins : d.bins[e].avail = c.bins[e].avail
    BY <1>4, <1>5, <1>6
  <2> QED  BY <1>6, <2>1, <2>2, <2>3
<1>11. \A e \in Bins : IsInjective(d.bins[e].avail)
  BY <1>4, <1>5, <1>6, ChainSimple
<1>12. Simple(t)'
  BY <1>8, <1>9, <1>11 DEF Simple
<1> QED  BY <1>1, <1>4, <1>8, <1>9, <1>10, <1>12, Quiet

LEMMA FillOneKeeps ==
  ASSUME IInv, IInv', Partition, NEW t \in Threads, FillOne(t)
  PROVE  Partition'
<1>1. HasCache(t) /\ Task(t, "malloc") /\ Arg(t) = "small" /\ UNCHANGED held
  BY DEF FillOne
<1>2. cache[t] \in Caches
  BY <1>1, HasCacheFacts
<1>3. PICK c \in Caches, v \in Binned, b \in Bins : c = cache[t] /\ b = "small" /\ v = c.bins[b]
  BY <1>2, CacheTyped DEF Bins
<1>4. FreedOf(work[t]) = {} /\ StashOf(work[t]) = {} /\ ~Flushing(work[t])
  BY <1>1, Only, HoldsWhole
<1>5. ASSUME NEW o \in Next1(c.arena, "small"), Takes(c.arena, o),
             SetBin(t, "small", [v EXCEPT !.avail = <<o>> \o @]), UNCHANGED work
      PROVE  Partition'
  <2>1. c.arena \in Arenas
    BY CacheTyped
  <2>2. /\ o \in Objects /\ Home(o) = c.arena /\ o \in In(Spot(t, o, "arena"))
        /\ \A e \in Arenas : free'[e] = IF e = Home(o) THEN free[e] \ {o} ELSE free[e]
    BY <1>5, <2>1, TakenFrom
  <2>3. v.avail \in Seq(Objects) /\ IsInjective(v.avail) /\ ChainOf(cache[t], b) = ToSet(v.avail)
    BY <1>2, <1>3, BinTyped, ChainSimple, InCache
  <2>4. o \notin ToSet(v.avail)
    <3>1. PICK p \in Places, q \in Places : p = <<"arena", Home(o)>> /\ q = <<b, t>> /\ p # q
      <4>1. <<"arena", Home(o)>> \in Places
        BY <2>1, <2>2, PlacesAre
      <4>2. <<b, t>> \in Places
        BY PlacesAre
      <4>3. <<"arena", Home(o)>> # <<b, t>>
        BY <1>3
      <4> QED  BY <4>1, <4>2, <4>3
    <3>2. o \in In(p)
      BY <2>2, <3>1 DEF Spot
    <3>3. o \notin In(q)
      BY <2>2, <3>1, <3>2, Alone DEF Partition
    <3> QED  BY <2>3, <3>1, <3>3, Contents
  <2>5. PICK s \in Seq(Objects) :
          s = <<o>> \o v.avail /\ ToSet(s) = ToSet(v.avail) \cup {o} /\ IsInjective(s)
    <3>1. PICK x \in Seq(Objects) : x = v.avail /\ IsInjective(x) /\ o \notin ToSet(x)
      BY <2>3, <2>4
    <3>2. PICK s : s = <<o>> \o x
      OBVIOUS
    <3>3. s \in Seq(Objects) /\ ToSet(s) = ToSet(x) \cup {o} /\ IsInjective(s)
      BY <2>2, <3>1, <3>2, PushSet
    <3> QED  BY <3>1, <3>2, <3>3
  <2>6. ToSet(s) = ToSet(v.avail) \cup {o} /\ IsInjective(s)
    BY <2>5
  <2>7. PICK p : p = [v EXCEPT !.avail = s]
    OBVIOUS
  <2>8. p \in Binned /\ p.avail = s
    BY <2>7 DEF Binned
  <2>9. cache' = [cache EXCEPT ![t].bins[b] = p] /\ work' = [work EXCEPT ![t] = work[t]]
    BY <1>3, <1>5, <2>5, <2>7, Facts DEF SetBin
  <2>10. /\ work'[t] = work[t] /\ StillElse(t) /\ cache'[t] # Null
         /\ cache'[t].bins[b] = p /\ \A e \in Bins \ {b} : cache'[t].bins[e] = cache[t].bins[e]
         /\ SelfOf(cache'[t]) = SelfOf(cache[t])
         /\ ChainOf(cache'[t], b) = ToSet(p.avail)
         /\ \A e \in Bins \ {b} : ChainOf(cache'[t], e) = ChainOf(cache[t], e)
    BY <1>2, <2>8, <2>9, BinIsSet
  <2>11. \A e \in Bins : IsInjective(cache'[t].bins[e].avail)
    BY <1>2, <2>6, <2>8, <2>10, ChainSimple
  <2>12. Simple(t)'
    BY <1>4, <2>10, <2>11 DEF Simple
  <2>13. \A e \in Bins : ChainOf(cache'[t], e) = Shift(ChainOf(cache[t], e), o, e, "arena", b)
    BY <2>3, <2>6, <2>8, <2>10 DEF Shift, Bins
  <2>14. Carried(t, o, "arena", b)
    BY <1>1, <1>3, <1>4, <2>2, <2>10, <2>13 DEF Carried, Shift
  <2> QED  BY <1>3, <2>2, <2>12, <2>14, Carry DEF Kinds
<1>6. ASSUME SetBin(t, "small", Filled(v)), UNCHANGED free,
             Does(t, IF v.avail = <<>> THEN <<>> ELSE <<Do("easy", "small")>>)
      PROVE  Partition'
  <2>1. PICK w \in Whole : /\ w = IF v.avail = <<>> THEN <<>> ELSE <<Do("easy", "small")>>
                           /\ FreedOf(w) = {}
    <3>1. <<>> \in Whole /\ <<Do("easy", "small")>> \in Whole
      BY DEF Whole, Calling
    <3> QED  BY <3>1, One, HoldsWhole
  <2>2. PICK n \in Nat : n = Len(v.avail)
    BY BinTyped
  <2>3. PICK p : p = [v EXCEPT !.ncached = n, !.most = Null]
    OBVIOUS
  <2>4. p \in Binned /\ p.avail = v.avail
    BY <2>3 DEF Binned
  <2>5. cache' = [cache EXCEPT ![t].bins[b] = p]
    BY <1>3, <1>6, <2>2, <2>3 DEF SetBin, Filled
  <2>6. work' = [work EXCEPT ![t] = w] /\ UNCHANGED <<free, held>>
    BY <1>1, <1>6, <2>1 DEF Does
  <2> QED  BY <1>2, <1>3, <1>4, <2>1, <2>4, <2>5, <2>6, BinSetKeeps
<1>7. Fills(t, c, v, b)
  BY <1>3, FillOneIs
<1> QED  BY <1>5, <1>6, <1>7 DEF Fills

(* A cache is made of a region of an arena, and goes back to it.           *)
LEMMA tcache_createKeeps ==
  ASSUME IInv, IInv', Partition, NEW t \in Threads, tcache_create(t)
  PROVE  Partition'
<1>1. /\ Task(t, "malloc") \/ Task(t, "free")
      /\ UNCHANGED held /\ arena_of[t] \in Arenas /\ tls[t] = "null"
  BY DEF tcache_create, NeedsCache, IInv, TypeOK
<1>2. CASE Does(t, Uncached(t, work[t])) /\ UNCHANGED <<free, cache>>
  BY <1>1, <1>2, UncachedKeeps
<1>3. ASSUME NEW o \in Next1(arena_of[t], "small"), Takes(arena_of[t], o), UNCHANGED work,
             cache' = [cache EXCEPT ![t] =
                  [self |-> o, arena |-> arena_of[t], ev_cnt |-> 0, next_gc_bin |-> "small",
                   bins |-> [b \in Bins |-> NewBin], born |-> round[t]]]
      PROVE  Partition'
  <2>1. /\ o \in Objects /\ o \in In(Spot(t, o, "arena"))
        /\ \A e \in Arenas : free'[e] = IF e = Home(o) THEN free[e] \ {o} ELSE free[e]
    BY <1>1, <1>3, TakenFrom
  <2>2. cache[t] = Null
    BY <1>1, Facts DEF Lives
  <2>3. SelfOf(cache[t]) = {} /\ \A b \in Bins : ChainOf(cache[t], b) = {}
    BY <2>2 DEF SelfOf, ChainOf
  <2>4. PICK d : d = [self |-> o, arena |-> arena_of[t], ev_cnt |-> 0, next_gc_bin |-> "small",
                      bins |-> [b \in Bins |-> NewBin], born |-> round[t]]
    OBVIOUS
  <2>5. d.self = o /\ \A b \in Bins : d.bins[b].avail = <<>>
    BY <2>4 DEF NewBin
  <2>6. work'[t] = work[t] /\ cache'[t] = d /\ StillElse(t)
    <3>1. work' = [work EXCEPT ![t] = work[t]]
      BY <1>3, Facts
    <3>2. cache' = [cache EXCEPT ![t] = d]
      BY <1>3, <2>4
    <3> QED  BY <3>1, <3>2, Become
  <2>7. d # Null
    <3>1. cache'[t] \in Caches
      <4>1. round[t] \in Nat
        BY DEF IInv, TypeOK
      <4> QED  BY <1>1, <2>1, <2>4, <2>6, <4>1, NewCache
    <3> QED  BY <2>6, <3>1, CacheTyped
  <2>8. SelfOf(d) = {o} /\ \A b \in Bins : ChainOf(d, b) = {}
    BY <2>5, <2>7 DEF SelfOf, ChainOf, ToSet
  <2>9. \A b \in Bins : IsInjective(d.bins[b].avail)
    BY <2>5 DEF IsInjective
  <2>10. FreedOf(work'[t]) = FreedOf(work[t]) /\ StashOf(work'[t]) = StashOf(work[t])
    BY <2>6
  <2>11. ~Flushing(work[t])
    BY <1>1, Only
  <2>12. Simple(t)'
    BY <2>6, <2>9, <2>11 DEF Simple
  <2>13. Carried(t, o, "arena", "self")
    BY <1>1, <2>1, <2>3, <2>6, <2>8, <2>10 DEF Carried, Shift, Bins
  <2> QED  BY <2>1, <2>12, <2>13, Carry DEF Kinds
<1> QED  BY <1>2, <1>3 DEF tcache_create

LEMMA ReleaseKeeps ==
  ASSUME IInv, IInv', Partition, NEW t \in Threads, Release(t)
  PROVE  Partition'
<1>1. /\ Task(t, "release") /\ GivesTo(Home(cache[t].self), {cache[t].self})
      /\ cache' = [cache EXCEPT ![t] = Null] /\ work' = [work EXCEPT ![t] = <<>>] /\ UNCHANGED held
  BY DEF Release, Does
<1>2. cache[t] \in Caches /\ cache[t] # Null /\ Kept(work[t], cache[t])
  BY <1>1, HasCacheFacts DEF NeedCache
<1>3. /\ work[t] \in Whole /\ work[t] # <<>> /\ work[t][1].op = "release" /\ Rest(work[t]) = work[t]
      /\ Arg(t) \in {"null", "1"} /\ work[t] = <<Do("release", Arg(t))>>
  BY <1>1, Only, Heads DEF Arg
<1>4. \A b \in Bins : cache[t].bins[b].avail = <<>>
  BY <1>2, <1>3 DEF Kept, Emptied, Bins
<1>5. PICK o \in Objects : o = cache[t].self
  BY <1>2, CacheTyped
<1>6. SelfOf(cache[t]) = {o} /\ \A b \in Bins : ChainOf(cache[t], b) = {}
  BY <1>2, <1>4, <1>5 DEF SelfOf, ChainOf, ToSet
<1>7. PICK w \in Whole : w = <<>>
  BY DEF Whole, Calling
<1>8. work'[t] = w /\ cache'[t] = Null /\ StillElse(t)
  BY <1>1, <1>7, Become
<1>9. FreedOf(w) = {} /\ StashOf(w) = {} /\ ~Flushing(w)
      /\ FreedOf(work[t]) = {} /\ StashOf(work[t]) = {}
  BY <1>3, <1>7, HoldsWhole
<1>10. SelfOf(cache'[t]) = {} /\ \A b \in Bins : ChainOf(cache'[t], b) = {}
  BY <1>8 DEF SelfOf, ChainOf
<1>11. Simple(t)'
  BY <1>8, <1>9 DEF Simple
<1>12. o \in In(Spot(t, o, "self"))
  BY <1>6, Contents DEF Spot
<1>13. \A a \in Arenas : free'[a] = IF a = Home(o) THEN free[a] \cup {o} ELSE free[a]
  BY <1>1, <1>5 DEF GivesTo, IInv, TypeOK
<1>14. Carried(t, o, "self", "arena")
  BY <1>1, <1>6, <1>8, <1>9, <1>10, <1>12, <1>13 DEF Carried, Shift, Bins
<1> QED  BY <1>11, <1>14, Carry DEF Kinds

(* A pass gives the objects of one arena back, and keeps the others in a   *)
(* stash.                                                                  *)
LEMMA FlushPassKeeps ==
  ASSUME IInv, IInv', Partition, NEW t \in Threads, FlushPass(t)
  PROVE  Partition'
<1>1. UNCHANGED held
  BY DEF FlushPass
<1>2. PICK f \in Flushes, r \in Whole, l \in Seq(Objects), n \in Nat, b \in Bins, a \in Arenas,
           c \in Caches, v \in Binned :
        Passing(t, f, r, l, n, b, a, c, v) /\ PassOn(t, f, r, l, n, b, a, c)
  BY PassIs
<1>3. /\ work[t] # <<>> /\ f = work[t][1] /\ Flushing(work[t]) /\ Rest(work[t]) = r
      /\ r \in After(b) /\ f.list = l /\ n <= Len(l)
      /\ c = cache[t] /\ c # Null /\ v = c.bins[b]
      /\ f.first => l = v.avail
      /\ ~f.first => n = Len(l)
  BY <1>2 DEF Passing
<1>4. PICK walked \in Seq(Objects), rest \in Seq(Objects), s \in Seq(Objects), g \in Flushes,
           d \in Caches : Passed(t, f, r, l, n, b, a, c, walked, rest, s, g, d)
  BY <1>2 DEF PassOn
<1>5. /\ walked = SubSeq(l, 1, n) /\ rest = SubSeq(l, n + 1, Len(l)) /\ s = Stashed(walked, a)
      /\ g.list = s /\ ~g.first /\ g.arg = b
      /\ work' = [work EXCEPT ![t] = <<g>> \o r] /\ cache' = [cache EXCEPT ![t] = d]
      /\ d.self = c.self /\ \A e \in Bins \ {b} : d.bins[e] = c.bins[e]
      /\ d.bins[b].avail = IF f.first THEN rest ELSE c.bins[b].avail
      /\ f.first \in BOOLEAN
  BY <1>4 DEF Passed
<1>6. IsInjective(l)
  BY <1>3 DEF Partition, Simple
<1>7. /\ IsInjective(walked) /\ IsInjective(rest)
      /\ ToSet(walked) \subseteq ToSet(l) /\ ToSet(rest) = ToSet(l) \ ToSet(walked)
      /\ n = Len(l) => ToSet(walked) = ToSet(l)
  <2>1. CutAt(l, n, walked, rest)
    BY <1>3, <1>5 DEF CutAt
  <2> QED  BY <1>6, <2>1, SplitSets DEF Halves
<1>8. PICK M \in SUBSET Objects : M = ToSet(walked)
  <2>1. \A x \in ToSet(walked) : x \in Objects
    BY InList, ElementOfSeq
  <2> QED  BY <2>1
<1>9. ToSet(s) = {o \in M : Home(o) # a} /\ IsInjective(s)
  <2>1. /\ ToSet(Stashed(walked, a)) = {o \in ToSet(walked) : Home(o) # a}
        /\ IsInjective(walked) => IsInjective(Stashed(walked, a))
    BY StashedLists
  <2> QED  BY <1>5, <1>7, <1>8, <2>1
<1>10. PICK w : w = <<g>> \o r
  OBVIOUS
<1>11. Flushing(w) /\ Rest(w) = r /\ w[1] = g /\ r \in Whole
  <2>1. r \in After(g.arg)
    BY <1>3, <1>5
  <2> QED  BY <1>10, <2>1, FlushShape
<1>12. work'[t] = w /\ cache'[t] = d /\ StillElse(t)
  BY <1>5, <1>10, Become
<1>13. StashOf(w) = ToSet(s) /\ FreedOf(w) = FreedOf(work[t])
  BY <1>3, <1>5, <1>11 DEF StashOf, FreedOf
<1>14. StashOf(work[t]) = IF f.first THEN {} ELSE M
  BY <1>3, <1>5, <1>7, <1>8 DEF StashOf
<1>15. /\ SelfOf(d) = SelfOf(cache[t])
       /\ \A e \in Bins \ {b} : ChainOf(d, e) = ChainOf(cache[t], e)
       /\ ChainOf(d, b) = IF f.first THEN ChainOf(cache[t], b) \ M ELSE ChainOf(cache[t], b)
       /\ f.first => M \subseteq ChainOf(cache[t], b)
  <2>1. SelfOf(d) = {d.self} /\ \A e \in Bins : ChainOf(d, e) = ToSet(d.bins[e].avail)
    BY InCache
  <2>2. SelfOf(c) = {c.self} /\ \A e \in Bins : ChainOf(c, e) = ToSet(c.bins[e].avail)
    BY InCache
  <2>3. f.first => ChainOf(c, b) = ToSet(l) /\ ChainOf(d, b) = ToSet(rest)
    BY <1>3, <1>5, <2>1, <2>2
  <2>4. SelfOf(d) = SelfOf(c) /\ \A e \in Bins \ {b} : ChainOf(d, e) = ChainOf(c, e)
    BY <1>5, <2>1, <2>2
  <2>5. f.first => ChainOf(d, b) = ChainOf(c, b) \ M /\ M \subseteq ChainOf(c, b)
    BY <1>7, <1>8, <2>3
  <2>6. ~f.first => ChainOf(d, b) = ChainOf(c, b)
    BY <1>5, <2>1, <2>2
  <2> QED  BY <1>3, <2>4, <2>5, <2>6
<1>16. \A e \in Arenas : free'[e] = IF e = a THEN free[a] \cup {o \in M : Home(o) = a} ELSE free[e]
  <2>1. GivesTo(a, {o \in M : Home(o) = a})
    BY <1>2, <1>5, <1>8 DEF PassOn
  <2> QED  BY <2>1 DEF GivesTo, IInv, TypeOK
<1>17. PICK p \in Places, ar \in Places, st \in Places :
         /\ p = IF f.first THEN <<b, t>> ELSE <<"stash", t>>
         /\ ar = <<"arena", a>> /\ st = <<"stash", t>>
         /\ p # ar /\ st # ar
         /\ f.first => p # st
         /\ ~f.first => p = st
  <2>1. <<b, t>> \in Places /\ <<"stash", t>> \in Places /\ <<"arena", a>> \in Places
    BY PlacesAre
  <2>2. <<b, t>> # <<"stash", t>> /\ <<b, t>> # <<"arena", a>> /\ <<"stash", t>> # <<"arena", a>>
    BY DEF Bins
  <2>3. PICK bt \in Places, ar \in Places, st \in Places :
          bt = <<b, t>> /\ ar = <<"arena", a>> /\ st = <<"stash", t>> /\ bt # st /\ bt # ar /\ st # ar
    BY <2>1, <2>2
  <2>4. PICK p \in Places : p = IF f.first THEN bt ELSE st
    OBVIOUS
  <2>5. /\ p = IF f.first THEN <<b, t>> ELSE <<"stash", t>>
        /\ p # ar /\ st # ar
        /\ f.first => p # st
        /\ ~f.first => p = st
    BY <1>5, <2>3, <2>4
  <2> QED  BY <2>3, <2>5
<1>18. M \subseteq In(p)
  BY <1>5, <1>14, <1>15, <1>17, Contents
<1>19. \A o \in M : \A q \in Places : q # p => o \notin In(q)
  BY <1>18, Alone DEF Partition
<1>20. In(st)' = ToSet(s) /\ In(st) = IF f.first THEN {} ELSE M
  BY <1>12, <1>13, <1>14, <1>17, Contents, ContentsNext
<1>21. In(ar)' = In(ar) \cup {o \in M : Home(o) = a}
  BY <1>16, <1>17, Contents, ContentsNext
<1>22. f.first => In(p)' = In(p) \ M
  <2>1. f.first => In(<<b, t>>)' = ChainOf(d, b) /\ In(<<b, t>>) = ChainOf(cache[t], b)
    BY <1>12, Contents, ContentsNext
  <2> QED  BY <1>15, <1>17, <2>1
<1>23. \A q \in Places \ {p, ar, st} : In(q)' = In(q)
  <2>1. SUFFICES ASSUME NEW q \in Places, q # p, q # ar, q # st PROVE In(q)' = In(q)
    OBVIOUS
  <2>2. \A e \in Arenas : q = <<"arena", e>> => free'[e] = free[e]
    BY <1>16, <1>17, <2>1
  <2>3. \A e \in Bins : q = <<e, t>> => ChainOf(cache'[t], e) = ChainOf(cache[t], e)
    <3>1. SUFFICES ASSUME NEW e \in Bins, q = <<e, t>> PROVE ChainOf(d, e) = ChainOf(cache[t], e)
      BY <1>12
    <3>2. e = b => ~f.first
      BY <1>17, <2>1, <3>1
    <3> QED  BY <1>15, <3>2
  <2>4. q # <<"stash", t>>
    BY <1>17, <2>1
  <2>5. /\ \A u \in Threads \ {t} : work'[u] = work[u] /\ cache'[u] = cache[u]
        /\ SelfOf(cache'[t]) = SelfOf(cache[t]) /\ FreedOf(work'[t]) = FreedOf(work[t])
    BY <1>12, <1>13, <1>15 DEF StillElse
  <2> QED  BY <1>1, <2>2, <2>3, <2>4, <2>5, Elsewhere
<1>24. Unique'
  <2>1. PICK to : to = [o \in M |-> IF Home(o) = a THEN ar ELSE st]
    OBVIOUS
  <2>2. \A o \in M : to[o] \in Places /\ to[o] = IF Home(o) = a THEN ar ELSE st
    BY <2>1
  <2>3. ASSUME NEW q \in Places, NEW o \in Objects
        PROVE  o \in In(q)' <=> IF o \in M THEN q = to[o] ELSE o \in In(q)
    <3>1. CASE q = st
      BY <1>5, <1>9, <1>17, <1>20, <2>2, <3>1
    <3>2. CASE q = ar
      <4>1. o \in In(q)' <=> o \in In(q) \/ (o \in M /\ Home(o) = a)
        BY <1>21, <3>2
      <4>2. o \in M => o \notin In(q)
        <5>1. q # p
          BY <1>17, <3>2
        <5> QED  BY <1>19, <5>1
      <4>3. o \in M => (q = to[o] <=> Home(o) = a)
        <5>1. st # ar
          BY <1>17
        <5> QED  BY <2>2, <3>2, <5>1
      <4> QED  BY <4>1, <4>2, <4>3
    <3>3. CASE q = p /\ f.first
      <4>1. o \in In(q)' <=> o \in In(q) /\ o \notin M
        BY <1>22, <3>3
      <4>2. q # ar /\ q # st
        BY <1>17, <3>3
      <4>3. o \in M => to[o] = ar \/ to[o] = st
        BY <2>2
      <4> QED  BY <3>3, <4>1, <4>2, <4>3
    <3>4. CASE q \notin {p, ar, st}
      BY <1>19, <1>23, <2>2, <3>4
    <3> QED  BY <1>5, <1>17, <3>1, <3>2, <3>3, <3>4
  <2> QED  BY <2>2, <2>3, Moves DEF Partition
<1>25. AtHome'
  <2>1. SUFFICES ASSUME NEW e \in Arenas, NEW x \in free'[e] PROVE Home(x) = e
    BY DEF AtHome
  <2> QED  BY <1>16, <2>1 DEF Partition, AtHome
<1>26. Simple(t)'
  <2>1. \A e \in Bins : IsInjective(d.bins[e].avail)
    BY <1>3, <1>5, <1>7, ChainSimple
  <2> QED  BY <1>5, <1>9, <1>11, <1>12, <2>1 DEF Simple
<1> QED  BY <1>12, <1>24, <1>25, <1>26, SimpleElse DEF Partition

-----------------------------------------------------------------------------
LEMMA InitPartition == Init => Partition
<1> SUFFICES ASSUME Init PROVE Partition
  OBVIOUS
<1>1. IInv
  BY InitInv
<1>2. /\ held = {} /\ \A a \in Arenas : free[a] = {o \in Objects : Home(o) = a}
      /\ \A t \in Threads : work[t] = <<>> /\ cache[t] = Null
  BY DEF Init
<1>3. ~Flushing(<<>>) /\ FreedOf(<<>>) = {} /\ StashOf(<<>>) = {}
  BY DEF Flushing, FreedOf, StashOf, Rest
<1>4. \A t \in Threads : SelfOf(cache[t]) = {} /\ \A b \in Bins : ChainOf(cache[t], b) = {}
  BY <1>2 DEF SelfOf, ChainOf
<1>5. ASSUME NEW o \in Objects PROVE \E p \in Places : \A q \in Places : o \in In(q) <=> q = p
  <2>1. PICK p \in Places : p = <<"arena", Home(o)>>
    BY HomeTyped, PlacesAre
  <2>2. ASSUME NEW q \in Places PROVE o \in In(q) <=> q = p
    <3>0. PICK u \in Threads : u = Main
      BY TCacheAssumption
    <3>1. CASE q = <<"client", Null>>
      <4>1. In(<<"client", Null>>) = held
        BY <1>1, <3>0, Contents
      <4> QED  BY <1>2, <2>1, <3>1, <4>1
    <3>2. ASSUME NEW a \in Arenas, q = <<"arena", a>> PROVE o \in In(q) <=> q = p
      <4>1. In(q) = free[a]
        BY <1>1, <3>0, <3>2, Contents
      <4> QED  BY <1>2, <2>1, <3>2, <4>1
    <3>3. ASSUME NEW t \in Threads, NEW k \in {"self", "call", "stash"} \cup Bins, q = <<k, t>>
          PROVE  o \in In(q) <=> q = p
      <4>1. In(q) = {}
        <5>1. FreedOf(work[t]) = {} /\ StashOf(work[t]) = {}
          BY <1>2, <1>3
        <5>2. SelfOf(cache[t]) = {} /\ \A b \in Bins : ChainOf(cache[t], b) = {}
          BY <1>4
        <5>3. /\ In(<<"self", t>>) = SelfOf(cache[t]) /\ In(<<"call", t>>) = FreedOf(work[t])
              /\ In(<<"stash", t>>) = StashOf(work[t])
              /\ \A b \in Bins : In(<<b, t>>) = ChainOf(cache[t], b)
          BY <1>1, Contents
        <5> QED  BY <3>3, <5>1, <5>2, <5>3
      <4>2. q # p
        BY <2>1, <3>3 DEF Bins
      <4> QED  BY <4>1, <4>2
    <3> QED  BY <3>1, <3>2, <3>3, PlacesAre
  <2> QED  BY <2>2
<1>6. \A t \in Threads : Simple(t)
  BY <1>2, <1>3 DEF Simple
<1> QED  BY <1>2, <1>5, <1>6 DEF Partition, Unique, AtHome

LEMMA NextPartition == IInv /\ IInv' /\ Partition /\ [Next]_vars => Partition'
<1>1. ASSUME IInv, IInv', Partition, NEW t \in Threads,
             \/ pthread_create(t)
             \/ \E b \in Bins : malloc(t, b)
             \/ \E o \in Objects : FreeObject(t, o)
             \/ GoWithout(t) \/ choose_arena_hard(t) \/ tcache_create(t)
             \/ DirectMalloc(t) \/ DirectFree(t)
             \/ AllocEasy(t) \/ FillOne(t) \/ AllocLarge(t) \/ Dalloc(t)
             \/ Collected(t) \/ FlushPass(t) \/ FlushEnd(t)
             \/ EmptyBin(t) \/ Release(t)
             \/ tcache_flush_ctl(t) \/ CallThreadArena(t) \/ thread_arena_ctl(t)
             \/ NextRound(t) \/ Ends(t) \/ tcache_thread_cleanup(t)
      PROVE  Partition'
  BY <1>1, ElseKeeps, CallsKeep, FreeObjectKeeps, GoWithoutKeeps, tcache_createKeeps,
     DirectMallocKeeps, DirectFreeKeeps, AllocEasyKeeps, FillOneKeeps, AllocLargeKeeps,
     DallocKeeps, CollectedKeeps, FlushPassKeeps, FlushEndKeeps, EmptyBinKeeps, ReleaseKeeps,
     thread_arena_ctlKeeps
<1>2. ASSUME IInv, IInv', Partition, UNCHANGED vars PROVE Partition'
  <2>1. UNCHANGED <<free, held, cache, work>>
    BY <1>2 DEF vars
  <2>2. CASE Threads = {}
    BY <2>2, TCacheAssumption
  <2>3. Main \in Threads
    BY TCacheAssumption
  <2> QED  BY <1>2, <2>1, <2>3, QuietElse
<1> QED  BY <1>1, <1>2 DEF Next

(* An object is in one place at any time, and once in a chain: with the    *)
(* arena it was cut from, with the client, or with one thread, whichever   *)
(* thread frees it and however a flush is cut into passes.                 *)
THEOREM EveryObjectHasOneOwner == Spec => []OneOwner
<1>1. IInv /\ Partition => OneOwner
  <2> SUFFICES ASSUME IInv, Partition PROVE OneOwner
    OBVIOUS
  <2>1. ASSUME NEW o \in Objects PROVE Cardinality({p \in Places : o \in In(p)}) = 1
    <3>1. PICK p \in Places : \A q \in Places : o \in In(q) <=> q = p
      BY DEF Partition, Unique
    <3>2. {q \in Places : o \in In(q)} = {p}
      BY <3>1
    <3> QED  BY <3>2, FS_Singleton
  <2>2. ASSUME NEW t \in Threads, NEW k \in DOMAIN work[t], work[t][k].op = "flush"
        PROVE  IsInjective(work[t][k].list)
    <3>1. k = 1 /\ Flushing(work[t])
      BY <2>2, FlushIsFirst, Facts
    <3> QED  BY <3>1 DEF Partition, Simple
  <2> QED  BY <2>1, <2>2 DEF Partition, AtHome, Simple, OneOwner
<1>2. Init => IInv /\ Partition
  BY InitInv, InitPartition
<1>3. IInv /\ Partition /\ [Next]_vars => IInv' /\ Partition'
  BY NextInv, NextPartition
<1> QED  BY <1>1, <1>2, <1>3, PTL DEF Spec

=============================================================================
