------------------------------- MODULE Memory -------------------------------
(***************************************************************************)
(* The memory manager of betakit, user/src/system/memory.c, and the shim   *)
(* that points it at jemalloc, user/src/system/bjemalloc.c, called by one  *)
(* thread (MemoryThreads.tla has the lock and several threads).            *)
(*                                                                         *)
(* Every block mem_alloc hands out is written into a table of TrackerSize  *)
(* slots so that mem_gc can release what the program forgot.  The heap     *)
(* underneath is external and modelled by what the code may expect of it:  *)
(* malloc returns a block nobody owns or NULL, and free or realloc of a    *)
(* block the callee does not own is undefined behaviour.  Undefined        *)
(* behaviour is recorded in heap_error and stops the system.  Requests     *)
(* have a positive size; sizes are not modelled.                           *)
(***************************************************************************)
EXTENDS Integers, FiniteSets, FiniteSetsExt

CONSTANTS
  Blocks,       (* the addresses an allocator can return                   *)
  Null,         (* the null pointer                                        *)
  TrackerSize,  (* MEMORY_TRACKER_SIZE, 1024 in memory.h                   *)
  Reallocates   (* whether the client calls mem_realloc                    *)

ASSUME MemoryAssumption ==
  /\ IsFiniteSet(Blocks)
  /\ Null \notin Blocks
  /\ TrackerSize \in Nat \ {0}
  /\ Reallocates \in BOOLEAN

Allocators == {"libc", "jemalloc"}
Faults == {"double_free", "mismatched_free", "out_of_bounds"}

VARIABLES
  mem_init_state,      (* mem_init has run                                 *)
  calls,               (* whose malloc, calloc and free are installed      *)
  alloc_used,          (* mc.alloc_used, the blocks thought to be in use   *)
  memory_tracker_loc,  (* the next slot to write                           *)
  ptr_track,           (* the table                                        *)
  owner,               (* external heap: who owns a block, or "free"       *)
  held,                (* blocks the client was given and may still free   *)
  heap_error           (* the undefined behaviour that happened, or "none" *)

tracker == <<mem_init_state, calls, alloc_used, memory_tracker_loc, ptr_track>>
heap == <<owner, held>>
vars == <<tracker, heap, heap_error>>

(* Nothing is said of a program after its first undefined behaviour. *)
Defined == heap_error = "none"

Slots == 0 .. TrackerSize - 1
Free == {b \in Blocks : owner[b] = "free"}
Live == Blocks \ Free

Init ==
  /\ mem_init_state = FALSE
  /\ calls = "none"
  /\ alloc_used = 0
  /\ memory_tracker_loc = 0
  /\ ptr_track = [i \in Slots |-> Null]
  /\ owner = [b \in Blocks |-> "free"]
  /\ held = {}
  /\ heap_error = "none"

-----------------------------------------------------------------------------
(* Allocation.                                                             *)

(* The test at the head of every allocating call: mem_init installs libc   *)
(* and forgets the count.                                                  *)
InitCalls == IF mem_init_state THEN calls ELSE "libc"
InitUsed == IF mem_init_state THEN alloc_used ELSE 0

mem_init ==
  /\ mem_init_state' = TRUE
  /\ calls' = InitCalls

(* Stores block b in the next slot; the slot index wraps around. *)
WrapsAround == memory_tracker_loc + 1 >= TrackerSize

Track(b) ==
  /\ mem_init
  /\ ptr_track' = [ptr_track EXCEPT ![memory_tracker_loc] = b]
  /\ memory_tracker_loc' = IF WrapsAround THEN 0 ELSE memory_tracker_loc + 1
  /\ owner' = [owner EXCEPT ![b] = InitCalls]
  /\ held' = held \cup {b}
  /\ UNCHANGED heap_error

(* The allocator returned NULL: it is stored in the slot all the same. *)
TrackFailed ==
  /\ mem_init
  /\ ptr_track' = [ptr_track EXCEPT ![memory_tracker_loc] = Null]
  /\ alloc_used' = InitUsed
  /\ UNCHANGED <<memory_tracker_loc, heap, heap_error>>

mem_alloc ==
  /\ Defined
  /\ \/ \E b \in Free : Track(b) /\ alloc_used' = InitUsed + 1
     \/ TrackFailed

(* Unlike mem_alloc it zeroes the count when the slot index wraps around. *)
mem_clearalloc ==
  /\ Defined
  /\ \/ \E b \in Free : /\ Track(b)
                        /\ alloc_used' = IF WrapsAround THEN 0 ELSE InitUsed + 1
     \/ TrackFailed

(* mem_realloc always goes to libc and never tells the table.  The caller  *)
(* keeps to the warning above it: the callbacks are still libc's.  p may   *)
(* be NULL, and libc may refuse, resize in place or move the block.        *)
mem_realloc(p) ==
  /\ Defined /\ Reallocates
  /\ InitCalls = "libc"
  /\ mem_init
  /\ alloc_used' = InitUsed
  /\ \/ UNCHANGED heap
     \/ /\ p = Null
        /\ \E q \in Free : /\ owner' = [owner EXCEPT ![q] = "libc"]
                           /\ held' = held \cup {q}
     \/ /\ p # Null
        /\ owner[p] = "libc"
        /\ \E q \in Free :
             /\ owner' = [owner EXCEPT ![p] = "free", ![q] = "libc"]
             /\ held' = (held \ {p}) \cup {q}
  /\ UNCHANGED <<memory_tracker_loc, ptr_track, heap_error>>

-----------------------------------------------------------------------------
(* Release.                                                                *)

(* What goes wrong when block b is passed to the installed free. *)
FreeFaults(b) ==
  IF b = Null \/ owner[b] = calls THEN {}
  ELSE IF owner[b] = "free" THEN {"double_free"}
  ELSE {"mismatched_free"}

(* The heap after the installed free has taken the blocks of F. *)
Reclaim(F) == [b \in Blocks |-> IF b \in F THEN "free" ELSE owner[b]]

Matches(t, n, p) == {i \in 0 .. n - 1 : t[i] = p}

(* The scan of mem_free over the n used slots of table t.  It swaps each   *)
(* match with the last used slot, and only when that slot held another     *)
(* block does it give p to free, drop the last slot and clear the one      *)
(* before it.  After that the last slot is NULL, so that a second copy of  *)
(* p is moved there and stays.                                             *)
ScanFrees(t, n, p) == Matches(t, n, p) # {} /\ t[n - 1] \notin {Null, p}

Swapped(t, n, p) ==
  [t EXCEPT ![Min(Matches(t, n, p))] = Null, ![n - 1] = p]

ScanTable(t, n, p) ==
  IF Matches(t, n, p) = {} \/ t[n - 1] = p THEN t
  ELSE IF t[n - 1] = Null THEN Swapped(t, n, p)
  ELSE LET u == [Swapped(t, n, p) EXCEPT ![n - 2] = Null]
       IN IF p = Null \/ Matches(u, n - 1, p) = {} THEN u
          ELSE Swapped(u, n - 1, p)

(* Slip: at slot index zero, whatever is in slot 0 is released. *)
FreeAtZeroBlindly(p) ==
  /\ memory_tracker_loc = 0
  /\ alloc_used' = 0
  /\ UNCHANGED memory_tracker_loc
  /\ ptr_track' = [ptr_track EXCEPT ![0] = Null]
  /\ owner' = Reclaim({ptr_track[0]})

(* With the slot index at zero, mem_free forgets the count and looks at    *)
(* slot 0 only.                                                            *)
FreeAtZero(p) ==
  /\ memory_tracker_loc = 0
  /\ alloc_used' = 0
  /\ UNCHANGED memory_tracker_loc
  /\ IF ptr_track[0] = p
     THEN /\ ptr_track' = [ptr_track EXCEPT ![0] = Null]
          /\ owner' = Reclaim({p})
     ELSE UNCHANGED <<ptr_track, owner>>

(* Slip: the scan releases the block but leaves it in the count. *)
FreeByScanUncounted(p) ==
  /\ memory_tracker_loc # 0
  /\ ptr_track' = ScanTable(ptr_track, memory_tracker_loc, p)
  /\ UNCHANGED alloc_used
  /\ IF ScanFrees(ptr_track, memory_tracker_loc, p)
     THEN /\ memory_tracker_loc' = memory_tracker_loc - 1
          /\ owner' = Reclaim({p})
     ELSE UNCHANGED <<memory_tracker_loc, owner>>

(* Slip: the scan releases the block it swapped p with. *)
FreeByScanOther(p) ==
  /\ memory_tracker_loc # 0
  /\ ptr_track' = ScanTable(ptr_track, memory_tracker_loc, p)
  /\ IF ScanFrees(ptr_track, memory_tracker_loc, p)
     THEN /\ alloc_used' = alloc_used - 1
          /\ memory_tracker_loc' = memory_tracker_loc - 1
          /\ owner' = Reclaim({ptr_track[memory_tracker_loc - 1]})
     ELSE UNCHANGED <<alloc_used, memory_tracker_loc, owner>>

FreeByScan(p) ==
  /\ memory_tracker_loc # 0
  /\ ptr_track' = ScanTable(ptr_track, memory_tracker_loc, p)
  /\ IF ScanFrees(ptr_track, memory_tracker_loc, p)
     THEN /\ alloc_used' = alloc_used - 1
          /\ memory_tracker_loc' = memory_tracker_loc - 1
          /\ owner' = Reclaim({p})
     ELSE UNCHANGED <<alloc_used, memory_tracker_loc, owner>>

(* mem_free(p) reaches the installed free. *)
PassedToFree(p) ==
  /\ mem_init_state
  /\ alloc_used > 0
  /\ IF memory_tracker_loc = 0
     THEN ptr_track[0] = p
     ELSE ScanFrees(ptr_track, memory_tracker_loc, p)

(* p is NULL or a block the client holds; afterwards it holds p no more,   *)
(* whatever became of the block.                                           *)
FreeFails(p) ==
  /\ PassedToFree(p)
  /\ heap_error' \in FreeFaults(p)
  /\ UNCHANGED <<tracker, heap>>

FreeReturns(p) ==
  /\ PassedToFree(p) => FreeFaults(p) = {}
  /\ held' = held \ {p}
  /\ IF mem_init_state /\ alloc_used > 0
     THEN FreeAtZero(p) \/ FreeByScan(p)
     ELSE UNCHANGED <<alloc_used, memory_tracker_loc, ptr_track, owner>>
  /\ UNCHANGED <<mem_init_state, calls, heap_error>>

mem_free(p) == Defined /\ (FreeFails(p) \/ FreeReturns(p))

-----------------------------------------------------------------------------
(* Collection and change of allocator.                                     *)

(* mem_gc frees downward from the last slot of the table, one slot for     *)
(* each block in the count, whether or not the slot is in use.  A count    *)
(* above TrackerSize takes the unsigned index below zero.                  *)
GcSlots == {i \in Slots : i >= TrackerSize - alloc_used}
GcBlocks == {ptr_track[i] : i \in GcSlots} \ {Null}

GcFaults ==
  (UNION {FreeFaults(b) : b \in GcBlocks})
  \cup (IF \E i, j \in GcSlots : i # j /\ ptr_track[i] = ptr_track[j]
                                       /\ ptr_track[i] # Null
        THEN {"double_free"} ELSE {})
  \cup (IF alloc_used > TrackerSize THEN {"out_of_bounds"} ELSE {})

GcRuns == mem_init_state /\ alloc_used > 0

(* Slip: the slot index is not reset. *)
CollectKeepsIndex ==
  /\ GcRuns => GcFaults = {}
  /\ UNCHANGED <<mem_init_state, heap_error, memory_tracker_loc>>
  /\ IF GcRuns
     THEN /\ ptr_track' = [i \in Slots |-> IF i \in GcSlots THEN Null ELSE ptr_track[i]]
          /\ owner' = Reclaim(GcBlocks)
          /\ held' = held \ GcBlocks
          /\ alloc_used' = 0
     ELSE UNCHANGED <<ptr_track, heap, alloc_used>>

(* mem_gc up to, and not including, whose functions are installed. *)
Collect ==
  /\ GcRuns => GcFaults = {}
  /\ UNCHANGED <<mem_init_state, heap_error>>
  /\ IF GcRuns
     THEN /\ ptr_track' = [i \in Slots |-> IF i \in GcSlots THEN Null ELSE ptr_track[i]]
          /\ owner' = Reclaim(GcBlocks)
          /\ held' = held \ GcBlocks
          /\ alloc_used' = 0
          /\ memory_tracker_loc' = 0
     ELSE UNCHANGED <<ptr_track, heap, alloc_used, memory_tracker_loc>>

GcFails ==
  /\ GcRuns
  /\ heap_error' \in GcFaults
  /\ UNCHANGED <<tracker, heap>>

mem_gc == Defined /\ (GcFails \/ (Collect /\ UNCHANGED calls))

(* mem_gc, then the new table of callbacks, complete as bk_jemalloc_calls  *)
(* fills it.                                                               *)
mem_changecalls(a) == Defined /\ (GcFails \/ (Collect /\ calls' = a))

bk_jemalloc_calls == mem_changecalls("jemalloc")
-----------------------------------------------------------------------------
Next ==
  \/ mem_alloc
  \/ mem_clearalloc
  \/ \E p \in held \cup {Null} : mem_realloc(p)
  \/ \E p \in held \cup {Null} : mem_free(p)
  \/ mem_gc
  \/ mem_changecalls("libc")
  \/ bk_jemalloc_calls

Spec == Init /\ [][Next]_vars

-----------------------------------------------------------------------------
(* Correctness.                                                            *)

(* Types: the slot index stays inside the table, the table holds pointers. *)
TypeOK ==
  /\ mem_init_state \in BOOLEAN
  /\ calls \in Allocators \cup {"none"}
  /\ alloc_used \in Nat
  /\ memory_tracker_loc \in Slots
  /\ ptr_track \in [Slots -> Blocks \cup {Null}]
  /\ owner \in [Blocks -> Allocators \cup {"free"}]
  /\ held \in SUBSET Blocks
  /\ heap_error \in Faults \cup {"none"}

(* The count of mem_alloc_count and the slot index agree until the index   *)
(* wraps around; then the count is at least a whole table ahead.  mem_free *)
(* and mem_gc rely on it: a zero count must mean that no slot is in use,   *)
(* and a zero index under a positive count that all slots are.             *)
CountTracksSlots ==
  \/ alloc_used = memory_tracker_loc
  \/ alloc_used >= memory_tracker_loc + TrackerSize

(* mem_alloc_count never reports more blocks than are live on the heap,    *)
(* although mem_free takes one off the count when it is given NULL, and    *)
(* leaves it alone when it fails to find the block.                        *)
CountNeverOverstates == alloc_used <= Cardinality(Live)

(* A block the client was given and has not freed is live: nothing the     *)
(* manager did behind its back (scan, wrap-around, collection, change of   *)
(* allocator) has released it.                                             *)
HeldIsLive == held \subseteq Live

(* mem_free never hands the installed allocator a block that allocator     *)
(* does not own, although blocks from before a change of allocator are     *)
(* still in the client's hands and perhaps in the table: what the comment  *)
(* on mem_free says, that it cannot free them.                             *)
FreesAreSound ==
  [][\A p \in held \cup {Null} : mem_free(p) => heap_error' = heap_error]_vars

(* The manager keeps the promise of Heap.tla. *)
HeapSpec == INSTANCE Heap
KeepsHeapPromise == HeapSpec!Spec

(* What a comment promises of mem_gc, and the code does not do.            *)

(* mem_gc: "bug that caused double free has been fixed" (memory.c:338). *)
NoDoubleFree == heap_error # "double_free"
=============================================================================
