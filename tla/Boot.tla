-------------------------------- MODULE Boot --------------------------------
(***************************************************************************)
(* The start of jemalloc and its locks: malloc_init_hard, arenas_extend,   *)
(* choose_arena_hard and the handlers of fork in jemalloc.c, and which     *)
(* locks a call takes, one after the other, in arena.c, base.c and huge.c. *)
(*                                                                         *)
(* Several threads may be the first to allocate.  A fork makes a process   *)
(* with one thread, and the locks as they were: what another thread held   *)
(* stays held.  Parent and child share nothing, so that the model follows  *)
(* either of them.                                                         *)
(***************************************************************************)
EXTENDS Integers, Sequences, FiniteSets

CONSTANTS
  Threads,
  NArenas,     (* opt_narenas                                              *)
  MaxCalls,    (* bound: thread -> how many calls it makes                 *)
  Null

ASSUME BootAssumption ==
  /\ NArenas \in Nat \ {0} /\ MaxCalls \in [Threads -> Nat]
  /\ IsFiniteSet(Threads)
  /\ Null \notin Threads \cup 0 .. NArenas - 1
  /\ \A as \in SUBSET (0 .. NArenas - 1) : Null # as

Arenas == 0 .. NArenas - 1
ArenaLock(a) == <<"arena", a>>
BinLock(a) == <<"bin", a>>
BinLocks == {BinLock(a) : a \in Arenas}
Locks == {<<l>> : l \in {"init", "arenas", "base", "huge"}} \cup BinLocks
         \cup {ArenaLock(a) : a \in Arenas}

VARIABLES
  lock,         (* lock -> the thread that holds it, or Null               *)
  initialized,  (* malloc_initialized                                      *)
  initializer,  (* malloc_initializer                                      *)
  handlers,     (* how often the handlers of fork are registered           *)
  arenas,       (* the arenas made; Null when there is no array            *)
  next_arena,
  arena_of,     (* thread -> its arena, or Null                            *)
  work,         (* thread -> what it has left to do                        *)
  calls,        (* thread -> how many calls it has made                    *)
  alive,        (* the threads of the process: one, in a child             *)
  punted        (* history: arenas_extend has resorted to the first arena  *)

vars == <<lock, initialized, initializer, handlers, arenas, next_arena, arena_of, work,
          calls, alive, punted>>

Init ==
  /\ lock = [l \in Locks |-> Null]
  /\ initialized = FALSE /\ initializer = Null /\ handlers = 0
  /\ arenas = {} /\ next_arena = 0
  /\ arena_of = [t \in Threads |-> Null]
  /\ work = [t \in Threads |-> <<>>]
  /\ calls = [t \in Threads |-> 0]
  /\ alive = Threads
  /\ punted = FALSE

Idle(t) == work[t] = <<>>
Do(op, l) == [op |-> op, l |-> l]
Task(t, op) == ~Idle(t) /\ work[t][1].op = op
Does(t, tasks) == work' = [work EXCEPT ![t] = tasks]
Continues(t) == Does(t, Tail(work[t]))
Returns(t) == Does(t, <<>>)

(* Takes a lock, and releases it, for as long as it takes. *)
Holding(l) == <<Do("lock", l), Do("unlock", l)>>

(* The locks of a small region, one found in a run and one for which the   *)
(* arena has to give a run, and of large and of huge objects: never two at *)
(* a time.                                                                 *)
Takes(a) == { Holding(BinLock(a)),
              Holding(BinLock(a)) \o Holding(ArenaLock(a)) \o Holding(BinLock(a)),
              Holding(ArenaLock(a)),
              Holding(<<"base">>) \o Holding(<<"huge">>) }

state == <<initialized, initializer, handlers, arenas, next_arena, arena_of, punted>>

-----------------------------------------------------------------------------
Lock(t) ==
  /\ Task(t, "lock")
  /\ LET l == work[t][1].l
     IN lock[l] = Null /\ lock' = [lock EXCEPT ![l] = t]
  /\ Continues(t)
  /\ UNCHANGED <<state, calls, alive>>

Unlock(t) ==
  /\ Task(t, "unlock")
  /\ lock' = [lock EXCEPT ![work[t][1].l] = Null]
  /\ Continues(t)
  /\ UNCHANGED <<state, calls, alive>>

(* malloc: malloc_initialized is read without a lock. *)
malloc(t) ==
  /\ Idle(t) /\ calls[t] < MaxCalls[t]
  /\ calls' = [calls EXCEPT ![t] = @ + 1]
  /\ Does(t, IF initialized THEN <<Do("alloc", Null)>>
             ELSE <<Do("init", Null), Do("alloc", Null)>>)
  /\ UNCHANGED <<lock, state, alive>>

-----------------------------------------------------------------------------
(* malloc_init_hard.                                                       *)

(* Slip: the thread that initializes is not recognized when it allocates.  *)
ReentersNever(t) == initialized
Reenters(t) == initialized \/ initializer = t

EnterInit(t) ==
  /\ Task(t, "init") /\ lock[<<"init">>] = Null
  /\ CASE Reenters(t) -> Continues(t) /\ UNCHANGED lock
       [] ~Reenters(t) /\ initializer # Null ->
            Does(t, <<Do("spin", Null)>> \o Tail(work[t])) /\ UNCHANGED lock
       [] OTHER -> /\ lock' = [lock EXCEPT ![<<"init">>] = t]
                   /\ Does(t, <<Do("boot", Null)>> \o Tail(work[t]))
  /\ UNCHANGED <<state, calls, alive>>

(* The lock is given up and taken again until the other thread is done. *)
Spin(t) ==
  /\ Task(t, "spin") /\ lock[<<"init">>] = Null /\ initialized
  /\ Continues(t)
  /\ UNCHANGED <<lock, state, calls, alive>>

(* The first half, to where the lock is dropped.  Any of the boot          *)
(* functions may fail, and so may the first arena; the call returns NULL,  *)
(* and the next one starts all over.  pthread_atfork may fail as well,     *)
(* which stops nothing.                                                    *)
BootFirst(t) ==
  /\ Task(t, "boot")
  /\ handlers' \in {handlers, handlers + 1}
  /\ lock' = [lock EXCEPT ![<<"init">>] = Null]
  /\ \/ Returns(t) /\ UNCHANGED <<arenas, arena_of, initializer>>
     \/ /\ arenas' = {0} /\ arena_of' = [arena_of EXCEPT ![t] = 0]
        /\ initializer' = t
        /\ Does(t, <<Do("ncpus", Null), Do("lock", <<"init">>), Do("lock", <<"base">>),
                     Do("array", Null)>> \o Tail(work[t]))
  /\ UNCHANGED <<initialized, next_arena, punted, calls, alive>>

(* malloc_ncpus calls sysconf, which may allocate. *)
CountCpus(t) ==
  /\ Task(t, "ncpus")
  /\ \/ Continues(t)
     \/ Does(t, <<Do("init", Null), Do("alloc", Null)>> \o Tail(work[t]))
  /\ UNCHANGED <<lock, state, calls, alive>>

(* Slip: the thread that initializes counts as none. *)
FirstArena == 0
SecondArena == 1

(* The second half, from the base_alloc of the array. *)
BootSecond(t) ==
  /\ Task(t, "array")
  /\ lock' = [lock EXCEPT ![<<"base">>] = Null, ![<<"init">>] = Null]
  /\ next_arena' = SecondArena
  /\ \/ arenas' = Null /\ Returns(t) /\ UNCHANGED initialized
     \/ initialized' = TRUE /\ Continues(t) /\ UNCHANGED arenas
  /\ UNCHANGED <<initializer, handlers, arena_of, punted, calls, alive>>

-----------------------------------------------------------------------------
(* The arena of a thread is known, or choose_arena_hard takes the next.    *)

Alloc(t) ==
  /\ Task(t, "alloc")
  /\ IF arena_of[t] = Null
     THEN Does(t, IF NArenas > 1 THEN <<Do("lock", <<"arenas">>), Do("choose", Null)>> \o work[t]
                  ELSE <<Do("first", Null)>> \o work[t])
     ELSE \E locks \in Takes(arena_of[t]) : Does(t, locks \o Tail(work[t]))
  /\ UNCHANGED <<lock, state, calls, alive>>

OnlyArena(t) ==
  /\ Task(t, "first")
  /\ arena_of' = [arena_of EXCEPT ![t] = 0]
  /\ Continues(t)
  /\ UNCHANGED <<lock, initialized, initializer, handlers, arenas, next_arena, punted, calls, alive>>

(* choose_arena_hard under arenas_lock; arenas_extend takes base_mtx too. *)
Choose(t) ==
  /\ Task(t, "choose")
  /\ IF next_arena \in arenas
     THEN /\ arena_of' = [arena_of EXCEPT ![t] = next_arena]
          /\ next_arena' = (next_arena + 1) % NArenas
          /\ Does(t, <<Do("unlock", <<"arenas">>)>> \o Tail(work[t]))
     ELSE /\ Does(t, Holding(<<"base">>) \o <<Do("extend", Null)>> \o Tail(work[t]))
          /\ UNCHANGED <<arena_of, next_arena>>
  /\ UNCHANGED <<lock, initialized, initializer, handlers, arenas, punted, calls, alive>>

(* arenas_extend may fail, and then punts to the first arena. *)
arenas_extend(t) ==
  /\ Task(t, "extend")
  /\ \E made \in BOOLEAN :
       /\ arenas' = IF made THEN arenas \cup {next_arena} ELSE arenas
       /\ arena_of' = [arena_of EXCEPT ![t] = IF made THEN next_arena ELSE 0]
       /\ punted' = (punted \/ ~made)
  /\ next_arena' = (next_arena + 1) % NArenas
  /\ Does(t, <<Do("unlock", <<"arenas">>)>> \o Tail(work[t]))
  /\ UNCHANGED <<lock, initialized, initializer, handlers, calls, alive>>

-----------------------------------------------------------------------------
(* fork, by a thread that has allocated.  The handlers run as often as     *)
(* they were registered.                                                   *)

Ascending(as) ==
  CHOOSE s \in [1 .. Cardinality(as) -> as] : \A i, j \in DOMAIN s : i < j => s[i] < s[j]
ArenaLocks(as) == [k \in 1 .. Cardinality(as) |-> ArenaLock(Ascending(as)[k])]

(* Slip: base_mtx is not taken. *)
NoBaseLocks(as) == <<<<"arenas">>>> \o ArenaLocks(as) \o <<<<"huge">>>>

(* jemalloc_prefork takes these locks in this order. *)
ForkLocks(as) == <<<<"arenas">>>> \o ArenaLocks(as) \o <<<<"base">>, <<"huge">>>>

(* jemalloc_postfork gives them back in this one.                          *)
PostforkLocks(as) == <<<<"huge">>, <<"base">>>> \o ArenaLocks(as) \o <<<<"arenas">>>>

Each(op, locks) == [k \in DOMAIN locks |-> Do(op, locks[k])]

CallFork(t) ==
  /\ Idle(t) /\ calls[t] < MaxCalls[t] /\ arena_of[t] # Null /\ arenas # Null
  /\ alive = Threads
  /\ calls' = [calls EXCEPT ![t] = @ + 1]
  /\ Does(t, [k \in 1 .. handlers |-> Do("prefork", Null)] \o <<Do("fork", Null)>>)
  /\ UNCHANGED <<lock, state, alive>>

(* The arenas are read under the first lock, which keeps them. *)
Prefork(t) ==
  /\ Task(t, "prefork")
  /\ LET locks == ForkLocks(arenas)
     IN /\ lock[locks[1]] = Null /\ lock' = [lock EXCEPT ![locks[1]] = t]
        /\ Does(t, Each("lock", Tail(locks)) \o Tail(work[t]))
  /\ UNCHANGED <<state, calls, alive>>

(* jemalloc_postfork runs, if it was registered, in the parent as in the   *)
(* child, where the other threads have stopped wherever they were.         *)
Fork(t) ==
  /\ Task(t, "fork")
  /\ IF handlers = 0 THEN Returns(t) ELSE Does(t, Each("unlock", PostforkLocks(arenas)))
  /\ alive' \in {Threads, {t}}
  /\ UNCHANGED <<lock, state, calls>>

-----------------------------------------------------------------------------
Step(t) ==
  \/ Lock(t) \/ Unlock(t) \/ EnterInit(t) \/ Spin(t) \/ BootFirst(t) \/ CountCpus(t)
  \/ BootSecond(t) \/ Alloc(t) \/ OnlyArena(t) \/ Choose(t) \/ arenas_extend(t)
  \/ Prefork(t) \/ Fork(t)

Next == \E t \in alive : malloc(t) \/ CallFork(t) \/ Step(t)

(* A thread that can go on does; nobody has to call.  The locks are        *)
(* mutexes, and a thread makes finitely many calls, so that weak fairness  *)
(* is enough to get one.                                                   *)
Spec == Init /\ [][Next]_vars /\ \A t \in Threads : WF_vars(t \in alive /\ Step(t))

-----------------------------------------------------------------------------
(* Properties.                                                             *)

Child == alive # Threads

(* Every call returns: whoever initializes, whichever thread allocates     *)
(* meanwhile, and however the locks of calls and of fork interleave        *)
(* ("Acquire all mutexes in a safe order", jemalloc.c:1712).  Unless the   *)
(* boot failed half way: then threads may wait for an initializing thread  *)
(* that has given up, or fork runs its handlers twice and locks itself out.*)
(* And but for the child of a fork, which may find the lock of a bin or    *)
(* init_lock taken for ever.                                               *)
CallsReturn ==
  \A t \in Threads : ~Idle(t) ~> (Idle(t) \/ arenas = Null \/ handlers > 1 \/ Child)

(* In the child no lock that jemalloc_prefork takes stays with a thread    *)
(* that is not there; the lock of a bin and init_lock may ("protection of  *)
(* malloc during fork()", jemalloc.c:1703).                                *)
ChildLocksFree ==
  Child /\ handlers > 0 => \A l \in Locks : lock[l] \in Threads \ alive => l \in BinLocks \cup {<<"init">>}

(* Threads are spread over the arenas round robin, counting the one that   *)
(* initializes: two arenas differ by one thread at most, unless an arena   *)
(* could not be made ("avoid spurious creation of an extra arena",         *)
(* jemalloc.c:710).                                                        *)
SpreadEvenly ==
  initialized /\ ~punted =>
    \A a, b \in Arenas :
      Cardinality({t \in Threads : arena_of[t] = a})
        <= 1 + Cardinality({t \in Threads : arena_of[t] = b})
=============================================================================
