------------------------------- MODULE TCache -------------------------------
(***************************************************************************)
(* The thread caches of jemalloc: tcache.c and tcache.h in the directories *)
(* jemalloc and jemalloc/internal, with the choice of an arena from        *)
(* jemalloc.c and the entry points arena_malloc and arena_dalloc.          *)
(*                                                                         *)
(* There are two bins, one of small regions and one of large objects.  An  *)
(* object is <<arena, bin, number>>; what an arena does with its own is    *)
(* modelled by Arena, and here it has a set of free ones.  A cache lies in *)
(* a small region itself.  A step of a thread goes up to the next lock it  *)
(* takes; what it has left to do is its work.                              *)
(*                                                                         *)
(* A thread ends in rounds: POSIX calls the destructors of the keys that   *)
(* are set, in any order, and again if they are set anew, Rounds times at  *)
(* most.  Destructors of the client allocate and free like any other code. *)
(***************************************************************************)
EXTENDS Integers, Sequences, FiniteSets, SequencesExt

CONSTANTS
  Threads, Main,   (* the threads, and the one the process starts with     *)
  NArenas,         (* narenas                                              *)
  Objects,         (* the objects of all arenas                            *)
  CachedMax,       (* ncached_max of either bin                            *)
  GcIncr,          (* tcache_gc_incr                                       *)
  Rounds,          (* PTHREAD_DESTRUCTOR_ITERATIONS                        *)
  Programs,        (* the clients: what each thread does                   *)
  Null

Bins == {"small", "large"}
Arenas == 0 .. NArenas - 1
Caches ==
  [self : Objects, arena : Arenas, ev_cnt : Nat, next_gc_bin : Bins, born : Nat,
   bins : [Bins -> [low : Nat, ncached : Nat, avail : Seq(Objects), most : Nat \cup {Null}]]]

ASSUME TCacheAssumption ==
  /\ Main \in Threads
  /\ {NArenas, GcIncr, Rounds} \subseteq Nat \ {0}
  /\ Objects \subseteq Arenas \X Bins \X Nat
  /\ CachedMax \in [Bins -> Nat \ {0, 1}]
  /\ Programs \subseteq [Threads -> SUBSET {"small", "large", "free", "flush", "arena", "exit", "late"}]
  /\ Null \notin Nat \cup Caches

Home(o) == o[1]
BinOf(o) == o[2]

VARIABLES
  free,        (* arena -> the objects it has to give                      *)
  held,        (* the objects the client has                               *)
  arenas,      (* those of the array arenas that are made                  *)
  next_arena,
  arena_of,    (* thread -> its arena, ARENA_GET, or Null                  *)
  isthreaded,
  tls,         (* thread -> tcache_tls: "null", "1", "2" or "cache"        *)
  key,         (* thread -> the value of tcache_tsd                        *)
  cache,       (* thread -> its cache, or Null                             *)
  work,        (* thread -> what it has left to do                         *)
  round,       (* thread -> the round of destructors it is in; 0 before    *)
  visited,     (* thread -> has that round come to tcache_tsd              *)
  cleaned,     (* history: threads whose cache their exit has destroyed    *)
  uses         (* the client: one of Programs                              *)

vars == <<free, held, arenas, next_arena, arena_of, isthreaded, tls, key, cache, work,
          round, visited, cleaned, uses>>

globals == <<arenas, next_arena, arena_of, isthreaded, uses>>
rounds == <<round, visited, cleaned>>
life == <<tls, key, rounds>>

-----------------------------------------------------------------------------
(* A bin of a cache, without its high water mark, which is never read.     *)
(* most is not in the code: what the bin had in it when it was collected   *)
(* for the first time since it was last used, and a quarter of that for    *)
(* each collection after.                                                  *)

NewBin == [low |-> 0, ncached |-> 0, avail |-> <<>>, most |-> Null]
Smaller(x, y) == IF x < y THEN x ELSE y

(* tcache_alloc_easy, for a bin that is not empty, and the other end of it. *)
Pop(b) == [b EXCEPT !.ncached = @ - 1, !.low = Smaller(@, b.ncached - 1),
                    !.avail = Tail(@), !.most = Null]
Push(b, o) == [b EXCEPT !.ncached = @ + 1, !.avail = <<o>> \o @, !.most = Null]

Filled(b) == [b EXCEPT !.ncached = Len(b.avail), !.most = Null]

(* Slip: the low water mark of a flushed bin stays where it was. *)
FlushedUnmarked(b, rem) == [b EXCEPT !.ncached = rem]
Flushed(b, rem) == [b EXCEPT !.ncached = rem, !.low = Smaller(@, rem)]

(* What a collection leaves: three quarters of what lay unused go back. *)
KeepRoundedUp(b) == b.ncached - b.low + (b.low + 3) \div 4   \* slip: the last one stays for ever
Keep(b) == b.ncached - b.low + b.low \div 4
Marked(b) == [b EXCEPT !.low = b.ncached,
                          !.most = IF @ = Null THEN b.ncached ELSE @ \div 4]

-----------------------------------------------------------------------------
Init ==
  /\ free = [a \in Arenas |-> {o \in Objects : Home(o) = a}]
  /\ held = {}
  /\ arenas = {0} /\ next_arena = 1 % NArenas
  /\ arena_of = [t \in Threads |-> IF t = Main THEN 0 ELSE Null]
  /\ isthreaded = FALSE
  /\ tls = [t \in Threads |-> "null"] /\ key = tls
  /\ cache = [t \in Threads |-> Null]
  /\ work = [t \in Threads |-> <<>>]
  /\ round = [t \in Threads |-> 0] /\ visited = [t \in Threads |-> FALSE]
  /\ cleaned = {}
  /\ uses \in Programs

Dead(t) == round[t] > Rounds
Idle(t) == work[t] = <<>>
Runs(t) == t = Main \/ isthreaded
Task(t, name) == ~Idle(t) /\ work[t][1].op = name
Arg(t) == work[t][1].arg
Do(op, arg) == [op |-> op, arg |-> arg]
Does(t, tasks) == work' = [work EXCEPT ![t] = tasks]

(* TCACHE_SET. *)
TCACHE_SET(t, v) == tls' = [tls EXCEPT ![t] = v] /\ key' = [key EXCEPT ![t] = v]

SetBin(t, b, v) == cache' = [cache EXCEPT ![t].bins[b] = v]

(* The objects an arena may give out next from a bin: the lowest. *)
Next1(a, b) ==
  LET some == {o \in free[a] : BinOf(o) = b}
  IN IF some = {} THEN {} ELSE {CHOOSE o \in some : \A p \in some : o[3] <= p[3]}

Takes(a, o) == free' = [free EXCEPT ![a] = @ \ {o}]

GivesTo(a, os) == free' = [free EXCEPT ![a] = @ \cup os]

-----------------------------------------------------------------------------
(* The client.  Threads other than Main exist once pthread_create has been *)
(* called, which makes the process threaded; until then there is no cache. *)

pthread_create(t) ==
  /\ t = Main /\ Idle(t) /\ ~isthreaded
  /\ isthreaded' = TRUE
  /\ UNCHANGED <<free, held, arenas, next_arena, arena_of, cache, work, uses, life>>

Calls(t, what) ==
  /\ Runs(t) /\ Idle(t) /\ ~Dead(t)
  /\ what \in uses[t]
  /\ round[t] > 0 => "late" \in uses[t]

malloc(t, b) ==
  /\ Calls(t, b)
  /\ Does(t, <<Do("malloc", b)>>)
  /\ UNCHANGED <<free, held, cache, globals, life>>

FreeObject(t, o) ==
  /\ Calls(t, "free") /\ o \in held
  /\ held' = held \ {o}
  /\ Does(t, <<Do("free", o)>>)
  /\ UNCHANGED <<free, cache, globals, life>>

(* tcache_get, in the middle of a call: it finds no cache. *)
NeedsCache(t) == (Task(t, "malloc") \/ Task(t, "free")) /\ isthreaded /\ tls[t] = "null"

Direct(op) == IF op = "malloc" THEN "direct_malloc" ELSE "direct_free"
Uncached(t, tasks) == <<Do(Direct(tasks[1].op), tasks[1].arg)>> \o Tail(tasks)

(* It is not to have one, and notes that it was asked for after cleanup. *)
GoWithout(t) ==
  /\ Task(t, "malloc") \/ Task(t, "free")
  /\ ~isthreaded \/ tls[t] \in {"1", "2"}
  /\ IF isthreaded /\ tls[t] = "1" THEN TCACHE_SET(t, "2") ELSE UNCHANGED <<tls, key>>
  /\ Does(t, Uncached(t, work[t]))
  /\ UNCHANGED <<free, held, cache, globals, rounds>>

(* choose_arena_hard, under arenas_lock.  If the arena cannot be made,     *)
(* arenas_extend returns the first one; base_alloc may fail.               *)
choose_arena_hard(t) ==
  /\ arena_of[t] = Null
  /\ NeedsCache(t) \/ Task(t, "direct_malloc") \/ Task(t, "thread_arena")
  /\ \E made \in BOOLEAN :
       /\ next_arena \in arenas => made
       /\ arenas' = IF made THEN arenas \cup {next_arena} ELSE arenas
       /\ arena_of' = [arena_of EXCEPT ![t] = IF made THEN next_arena ELSE 0]
  /\ next_arena' = (next_arena + 1) % NArenas
  /\ UNCHANGED <<free, held, isthreaded, cache, work, uses, life>>

(* tcache_create takes a region for the cache from its arena, not from a   *)
(* cache.  If there is none the call goes without.                         *)
tcache_create(t) ==
  /\ NeedsCache(t) /\ arena_of[t] # Null
  /\ LET a == arena_of[t]
     IN \/ /\ Next1(a, "small") = {}
           /\ Does(t, Uncached(t, work[t]))
           /\ UNCHANGED <<free, cache, tls, key>>
        \/ \E o \in Next1(a, "small") :
             /\ Takes(a, o)
             /\ cache' = [cache EXCEPT ![t] =
                  [self |-> o, arena |-> a, ev_cnt |-> 0, next_gc_bin |-> "small",
                   bins |-> [b \in Bins |-> NewBin], born |-> round[t]]]
             /\ TCACHE_SET(t, "cache")
             /\ UNCHANGED work
  /\ UNCHANGED <<held, globals, rounds>>

HasCache(t) == isthreaded /\ tls[t] = "cache"

(* Without a cache, arena_malloc and arena_dalloc turn to an arena. *)
DirectMalloc(t) ==
  /\ Task(t, "direct_malloc") /\ arena_of[t] # Null
  /\ Does(t, <<>>)
  /\ LET a == arena_of[t]
     IN \/ Next1(a, Arg(t)) = {} /\ UNCHANGED <<free, held>>
        \/ \E o \in Next1(a, Arg(t)) : Takes(a, o) /\ held' = held \cup {o}
  /\ UNCHANGED <<cache, globals, life>>

DirectFree(t) ==
  /\ Task(t, "direct_free")
  /\ Does(t, <<>>)
  /\ GivesTo(Home(Arg(t)), {Arg(t)})
  /\ UNCHANGED <<held, cache, globals, life>>

-----------------------------------------------------------------------------
(* With a cache.  A call ends with tcache_event; the end of a call on bin  *)
(* b, which has become v, and what it leaves the thread to do:             *)

Flush(b, v, rem) == [op |-> "flush", arg |-> b, list |-> v.avail, n |-> v.ncached - rem,
                     rem |-> rem, first |-> TRUE]

tcache_event(t, c) ==
  LET gc == c.next_gc_bin
      v == c.bins[gc]
  IN IF c.ev_cnt + 1 < GcIncr
     THEN cache' = [cache EXCEPT ![t] = [c EXCEPT !.ev_cnt = @ + 1]] /\ Does(t, <<>>)
     ELSE /\ cache' = [cache EXCEPT ![t] = [c EXCEPT !.ev_cnt = @ + 1]]
          /\ Does(t, (IF v.low > 0 THEN <<Flush(gc, v, Keep(v))>> ELSE <<>>)
                     \o <<Do("collected", gc)>>)

NextBin(b) == IF b = "small" THEN "large" ELSE "small"

PassOver(c, b) ==
  [c EXCEPT !.bins[b] = Marked(@), !.ev_cnt = 0, !.next_gc_bin = NextBin(@)]

Collected(t) ==
  /\ Task(t, "collected")
  /\ cache' = [cache EXCEPT ![t] = PassOver(@, Arg(t))]
  /\ Does(t, <<>>)
  /\ UNCHANGED <<free, held, globals, life>>

(* tcache_alloc_small and tcache_alloc_large, when the bin has an object. *)
AllocEasy(t) ==
  /\ HasCache(t) /\ (Task(t, "malloc") \/ Task(t, "easy"))
  /\ LET c == cache[t]
         v == c.bins[Arg(t)]
     IN /\ v.ncached > 0
        /\ held' = held \cup {v.avail[1]}
        /\ tcache_event(t, [c EXCEPT !.bins[Arg(t)] = Pop(v)])
  /\ UNCHANGED <<free, globals, life>>

(* When it has none: the small bin is filled to a half, or as far as there *)
(* are regions.  The bin lock may be dropped before any of them, to get a  *)
(* run.  arena_tcache_fill_small counts the regions at the end.            *)
FillOne(t) ==
  /\ HasCache(t) /\ Task(t, "malloc") /\ Arg(t) = "small"
  /\ LET c == cache[t]
         v == c.bins["small"]
         wanted == IF v.ncached = 0 /\ Len(v.avail) < CachedMax["small"] \div 2
                   THEN Next1(c.arena, "small") ELSE {}
     IN /\ v.ncached = 0
        /\ \/ \E o \in wanted :
                /\ Takes(c.arena, o)
                /\ SetBin(t, "small", [v EXCEPT !.avail = <<o>> \o @])
                /\ UNCHANGED work
           \/ /\ wanted = {}
              /\ SetBin(t, "small", Filled(v))
              /\ Does(t, IF v.avail = <<>> THEN <<>> ELSE <<Do("easy", "small")>>)
              /\ UNCHANGED free
  /\ UNCHANGED <<held, globals, life>>

AllocLarge(t) ==
  /\ HasCache(t) /\ Task(t, "malloc") /\ Arg(t) = "large"
  /\ LET c == cache[t]
     IN /\ c.bins["large"].ncached = 0
        /\ \/ /\ Next1(c.arena, "large") = {}
              /\ Does(t, <<>>)
              /\ UNCHANGED <<free, held, cache>>
           \/ \E o \in Next1(c.arena, "large") :
                /\ Takes(c.arena, o)
                /\ held' = held \cup {o}
                /\ tcache_event(t, [c EXCEPT !.bins["large"].most = Null])
  /\ UNCHANGED <<globals, life>>

(* tcache_dalloc_small and tcache_dalloc_large: a full bin is halved first. *)
Full(b, v) == v.ncached = CachedMax[b]

Dalloc(t) ==
  /\ HasCache(t) /\ Task(t, "free")
  /\ LET o == Arg(t)
         c == cache[t]
         v == c.bins[BinOf(o)]
     IN IF Full(BinOf(o), v)
        THEN /\ Does(t, <<Flush(BinOf(o), v, CachedMax[BinOf(o)] \div 2)>> \o work[t])
             /\ UNCHANGED cache
        ELSE tcache_event(t, [c EXCEPT !.bins[BinOf(o)] = Push(v, o)])
  /\ UNCHANGED <<free, held, globals, life>>

(* What a pass leaves of a chain for those to come: the objects of other   *)
(* arenas, the last it has met in front.                                   *)
Others(s, a) == {k \in DOMAIN s : Home(s[k]) # a}
Descending(ks) ==
  CHOOSE p \in [1 .. Cardinality(ks) -> ks] : \A i, j \in DOMAIN p : i < j => p[i] > p[j]
Stashed(s, a) ==
  [i \in 1 .. Cardinality(Others(s, a)) |-> s[Descending(Others(s, a))[i]]]

(* tcache_bin_flush_small and tcache_bin_flush_large: one pass, under the  *)
(* lock of the arena of the first object.  The objects of other arenas are *)
(* stashed for the passes to come; the first pass unhooks what it walked   *)
(* from the bin.                                                           *)
(* Slip: every pass sets the chain of the bin to where it stopped.         *)
UnhooksAlways(f) == TRUE
Unhooks(f) == f.first

FlushPass(t) ==
  /\ Task(t, "flush") /\ work[t][1].list # <<>>
  /\ LET f == work[t][1]
         a == Home(f.list[1])
         walked == SubSeq(f.list, 1, f.n)
         deferred == Stashed(walked, a)
         rest == SubSeq(f.list, f.n + 1, Len(f.list))
     IN /\ GivesTo(a, {o \in ToSet(walked) : Home(o) = a})
        /\ cache' = IF Unhooks(f) THEN [cache EXCEPT ![t].bins[f.arg].avail = rest] ELSE cache
        /\ Does(t, <<[f EXCEPT !.list = deferred, !.n = Len(deferred), !.first = FALSE]>>
                   \o Tail(work[t]))
  /\ UNCHANGED <<held, globals, life>>

FlushEnd(t) ==
  /\ Task(t, "flush") /\ work[t][1].list = <<>>
  /\ SetBin(t, Arg(t), Flushed(cache[t].bins[Arg(t)], work[t][1].rem))
  /\ Does(t, Tail(work[t]))
  /\ UNCHANGED <<free, held, globals, life>>

-----------------------------------------------------------------------------
(* tcache_destroy empties the bins one after the other, then gives back    *)
(* the region of the cache; then its caller sets the cache of the thread.  *)

Destroy(then) ==
  <<Do("empty", "small"), Do("empty", "large"), Do("release", then)>>

EmptyBin(t) ==
  /\ Task(t, "empty")
  /\ Does(t, <<Flush(Arg(t), cache[t].bins[Arg(t)], 0)>> \o Tail(work[t]))
  /\ UNCHANGED <<free, held, cache, globals, life>>

Release(t) ==
  /\ Task(t, "release")
  /\ GivesTo(Home(cache[t].self), {cache[t].self})
  /\ cache' = [cache EXCEPT ![t] = Null]
  /\ TCACHE_SET(t, Arg(t))
  /\ Does(t, <<>>)
  /\ UNCHANGED <<held, globals, rounds>>

(* mallctl("tcache.flush").  In a destructor that runs after the cleanup   *)
(* it would destroy the cache at address 1; no client here does that.      *)
tcache_flush_ctl(t) ==
  /\ Calls(t, "flush") /\ round[t] = 0
  /\ tls[t] = "cache"
  /\ Does(t, Destroy("null"))
  /\ UNCHANGED <<free, held, cache, globals, life>>

(* mallctl("thread.arena"): the thread changes its arena, and its cache    *)
(* does not.                                                               *)
CallThreadArena(t) ==
  /\ Calls(t, "arena") /\ round[t] = 0
  /\ Does(t, <<Do("thread_arena", Null)>>)
  /\ UNCHANGED <<free, held, cache, globals, life>>

thread_arena_ctl(t) ==
  /\ Task(t, "thread_arena") /\ arena_of[t] # Null
  /\ \E newind \in Arenas, made \in BOOLEAN :
       /\ newind \in arenas => made
       /\ arenas' = IF made THEN arenas \cup {newind} ELSE arenas
       /\ arena_of' = [arena_of EXCEPT ![t] = IF made THEN newind ELSE 0]
  /\ Does(t, <<>>)
  /\ UNCHANGED <<free, held, next_arena, isthreaded, cache, uses, life>>

(* A thread returns from its start routine, and its destructors begin; and *)
(* they begin anew, when a round has left a key set.                       *)
NextRound(t) ==
  /\ Runs(t) /\ Idle(t) /\ ~Dead(t) /\ "exit" \in uses[t]
  /\ round[t] = 0 \/ visited[t]
  /\ round' = [round EXCEPT ![t] = @ + 1]
  /\ visited' = [visited EXCEPT ![t] = FALSE]
  /\ UNCHANGED <<free, held, cache, work, globals, tls, key, cleaned>>

Ends(t) ==
  /\ Idle(t) /\ round[t] \in 1 .. Rounds /\ visited[t] /\ key[t] = "null"
  /\ round' = [round EXCEPT ![t] = Rounds + 1]
  /\ UNCHANGED <<free, held, cache, work, globals, tls, key, visited, cleaned>>

(* What the destructor leaves in tcache_tls and the key.                   *)
(* Slip: nothing, as if the thread had never had a cache.                  *)
AfterCleanupForgets(v) == IF v = "2" THEN "1" ELSE "null"
AfterCleanup(v) == IF v = "1" THEN "null" ELSE "1"

(* The round comes to tcache_tsd.  The key is cleared before its           *)
(* destructor is called; tcache_tls is not.                                *)
tcache_thread_cleanup(t) ==
  /\ Idle(t) /\ round[t] \in 1 .. Rounds /\ ~visited[t]
  /\ visited' = [visited EXCEPT ![t] = TRUE]
  /\ cleaned' = IF key[t] = "cache" THEN cleaned \cup {t} ELSE cleaned
  /\ CASE key[t] = "cache" ->
            /\ key' = [key EXCEPT ![t] = "null"]
            /\ Does(t, Destroy(AfterCleanup("cache")))
            /\ UNCHANGED tls
       [] key[t] = "2" -> TCACHE_SET(t, AfterCleanup("2")) /\ UNCHANGED work
       [] OTHER -> key' = [key EXCEPT ![t] = "null"] /\ UNCHANGED <<tls, work>>
  /\ UNCHANGED <<free, held, cache, globals, round>>

-----------------------------------------------------------------------------
(* The next step of u touches nothing but what is its own.  Whenever it is *)
(* taken it does the same, so that it is taken at once.                    *)
Private(u) ==
  \/ Task(u, "easy") \/ Task(u, "collected") \/ Task(u, "empty")
  \/ Task(u, "flush") /\ work[u][1].list = <<>>
  \/ (Task(u, "malloc") \/ Task(u, "free")) /\ tls[u] \in {"1", "2"}
  \/ Task(u, "free") /\ HasCache(u)
  \/ Task(u, "malloc") /\ HasCache(u) /\ cache[u].bins[Arg(u)].ncached > 0

Next == \E t \in Threads :
  /\ \A u \in Threads \ {t} : ~Private(u)
  /\ \/ pthread_create(t)
     \/ \E b \in Bins : malloc(t, b)
     \/ \E o \in Objects : FreeObject(t, o)
     \/ GoWithout(t) \/ choose_arena_hard(t) \/ tcache_create(t)
     \/ DirectMalloc(t) \/ DirectFree(t)
     \/ AllocEasy(t) \/ FillOne(t) \/ AllocLarge(t) \/ Dalloc(t)
     \/ Collected(t) \/ FlushPass(t) \/ FlushEnd(t)
     \/ EmptyBin(t) \/ Release(t)
     \/ tcache_flush_ctl(t) \/ CallThreadArena(t) \/ thread_arena_ctl(t)
     \/ NextRound(t) \/ Ends(t) \/ tcache_thread_cleanup(t)

Spec == Init /\ [][Next]_vars

-----------------------------------------------------------------------------
(* Properties.                                                             *)

(* The places an object can be in, and the objects there: what the client  *)
(* has, what an arena has to give, the region of a cache and the chains of *)
(* its bins, what a call is about to free and what a flush has stashed.    *)
Places ==
  {<<"client", Null>>} \cup {"arena"} \X Arenas
  \cup {"self", "small", "large", "call", "stash"} \X Threads

Self(t) == IF cache[t] = Null THEN {} ELSE {cache[t].self}
Chain(t, b) == IF cache[t] = Null THEN {} ELSE ToSet(cache[t].bins[b].avail)
Freed(t) ==
  {work[t][k].arg : k \in {j \in DOMAIN work[t] : work[t][j].op \in {"free", "direct_free"}}}
Stash(t) ==
  UNION {ToSet(work[t][k].list) :
           k \in {j \in DOMAIN work[t] : work[t][j].op = "flush" /\ ~work[t][j].first}}

In(p) == CASE p[1] = "client" -> held
           [] p[1] = "arena" -> free[p[2]]
           [] p[1] = "self" -> Self(p[2])
           [] p[1] \in Bins -> Chain(p[2], p[1])
           [] p[1] = "call" -> Freed(p[2])
           [] p[1] = "stash" -> Stash(p[2])

(* An object is in one place at any time, and once in a chain: free in the *)
(* arena it was cut from, with the client, or with one thread; whichever   *)
(* thread frees it and however a flush is cut into passes between which    *)
(* other threads run (the stashing of tcache_bin_flush_small, line 102).   *)
OneOwner ==
  /\ \A a \in Arenas : \A o \in free[a] : Home(o) = a
  /\ \A o \in Objects : Cardinality({p \in Places : o \in In(p)}) = 1
  /\ \A t \in Threads :
       /\ cache[t] # Null => \A b \in Bins : IsInjective(cache[t].bins[b].avail)
       /\ \A k \in DOMAIN work[t] : work[t][k].op = "flush" => IsInjective(work[t][k].list)

(* Between calls the count of a bin is the length of its chain, within the *)
(* limit and not below the mark that decides what a collection takes       *)
(* (tcache.c:63 and 140, "assert(rem <= tbin->ncached)").                  *)
MarkAgrees ==
  \A t \in Threads : cache[t] # Null /\ Idle(t) =>
    /\ cache[t].ev_cnt < GcIncr
    /\ \A b \in Bins : LET v == cache[t].bins[b]
                       IN /\ v.ncached = Len(v.avail)
                          /\ v.ncached <= CachedMax[b]
                          /\ v.low <= v.ncached

(* The bin of a size that a thread no longer uses drains: each collection  *)
(* after the first leaves a quarter, and in the end nothing; no object is  *)
(* kept for good from the other threads (tcache_event, tcache.h:173).      *)
IdleBinsDrain ==
  \A t \in Threads : cache[t] # Null =>
    \A b \in Bins : LET v == cache[t].bins[b]
                   IN v.most # Null => v.ncached <= v.most

(* A thread that is gone has left no cache, and nothing in one, though its *)
(* destructors went on to allocate and to free after the cleanup; unless   *)
(* its first use of a cache came in the last round of destructors          *)
(* (tcache_thread_cleanup, tcache.c:342).                                  *)
ExitKeepsNothing ==
  \A t \in Threads : Dead(t) /\ cache[t] # Null =>
    t \notin cleaned /\ cache[t].born = Rounds
=============================================================================
