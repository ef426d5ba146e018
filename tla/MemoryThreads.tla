---------------------------- MODULE MemoryThreads ----------------------------
(***************************************************************************)
(* Several threads inside the memory manager of user/src/system/memory.c.  *)
(* The state and the bodies of mem_free and mem_gc are those of Memory.tla;*)
(* this module adds mem_ctl_lock and where each thread stands.             *)
(*                                                                         *)
(* The lock is a flag: _bk_mem_lock polls it until it reads false and then *)
(* writes true, two steps.  mem_init runs before the lock is taken, and    *)
(* mem_alloc reads the table for its result after the lock is released.    *)
(* mem_alloc is modelled statement by statement between lock and unlock;   *)
(* mem_free, mem_gc and mem_alloc_count are one step there.                *)
(***************************************************************************)
EXTENDS Memory

CONSTANTS
  Threads,     (* the threads of the program                               *)
  MaxCalls     (* bound: how many calls each thread makes                  *)

ASSUME ThreadsAssumption == MaxCalls \in Nat

Calls == {"mem_alloc", "mem_free", "mem_gc", "mem_alloc_count"}

VARIABLES
  mem_ctl_lock,  (* the flag                                               *)
  pc,            (* the next statement of each thread                      *)
  call,          (* the call each thread is in, with its argument          *)
  slot,          (* where mem_alloc will read its result: "next" is one    *)
                 (* before the slot index at that time                     *)
  mine,          (* the pointers each thread was given and has not freed   *)
  calls_made     (* bounds the run                                         *)

locals == <<pc, call, slot, mine, calls_made>>
thread_vars == <<vars, mem_ctl_lock, locals>>

NoCall == [op |-> "none", arg |-> Null]

ThreadsInit ==
  /\ Init
  /\ mem_ctl_lock = FALSE
  /\ pc = [t \in Threads |-> "idle"]
  /\ call = [t \in Threads |-> NoCall]
  /\ slot = [t \in Threads |-> "none"]
  /\ mine = [t \in Threads |-> {}]
  /\ calls_made = [t \in Threads |-> 0]

Goto(t, from, to) ==
  /\ Defined
  /\ pc[t] = from
  /\ pc' = [pc EXCEPT ![t] = to]

-----------------------------------------------------------------------------
(* Up to the lock.                                                         *)

(* A thread calls the manager; it frees only pointers it was given. *)
Call(t) ==
  /\ calls_made[t] < MaxCalls
  /\ calls_made' = [calls_made EXCEPT ![t] = @ + 1]
  /\ \E op \in Calls, p \in mine[t] \cup {Null} :
       /\ op # "mem_free" => p = Null
       /\ Goto(t, "idle", IF op = "mem_alloc_count" THEN "test" ELSE "check")
       /\ call' = [call EXCEPT ![t] = [op |-> op, arg |-> p]]
       /\ mine' = [mine EXCEPT ![t] = @ \ {p}]
  /\ UNCHANGED <<vars, mem_ctl_lock, slot>>

(* The test of mem_init_state: mem_alloc initialises, mem_free and mem_gc  *)
(* return.                                                                 *)
CheckInit(t) ==
  /\ Goto(t, "check", CASE mem_init_state -> "test"
                        [] ~mem_init_state /\ call[t].op = "mem_alloc" -> "init"
                        [] OTHER -> "idle")
  /\ UNCHANGED <<vars, mem_ctl_lock, call, slot, mine, calls_made>>

(* mem_init, outside the lock: a thread that tested earlier runs it again. *)
RunInit(t) ==
  /\ Goto(t, "init", "test")
  /\ mem_init_state' = TRUE
  /\ calls' = "libc"
  /\ alloc_used' = 0
  /\ UNCHANGED <<memory_tracker_loc, ptr_track, heap, heap_error, mem_ctl_lock,
                 call, slot, mine, calls_made>>

(* _bk_mem_lock leaves its loop when it reads false ...  *)
TestLock(t) ==
  /\ ~mem_ctl_lock
  /\ Goto(t, "test", "set")
  /\ UNCHANGED <<vars, mem_ctl_lock, call, slot, mine, calls_made>>

(* ... and writes true in a second step.                 *)
SetLock(t) ==
  /\ Goto(t, "set", "body")
  /\ mem_ctl_lock' = TRUE
  /\ UNCHANGED <<vars, call, slot, mine, calls_made>>

-----------------------------------------------------------------------------
(* Between lock and unlock.                                                *)

(* Slip: on NULL the call returns without unlocking. *)
StoreKeepsLock(t) ==
  /\ call[t].op = "mem_alloc"
  /\ \/ \E b \in Free :
          /\ Goto(t, "body", "count")
          /\ ptr_track' = [ptr_track EXCEPT ![memory_tracker_loc] = b]
          /\ owner' = [owner EXCEPT ![b] = calls]
          /\ held' = held \cup {b}
          /\ UNCHANGED slot
     \/ /\ Goto(t, "body", "return")
        /\ ptr_track' = [ptr_track EXCEPT ![memory_tracker_loc] = Null]
        /\ slot' = [slot EXCEPT ![t] = "none"]
        /\ UNCHANGED heap
  /\ UNCHANGED <<mem_init_state, calls, alloc_used, memory_tracker_loc, heap_error,
                 mem_ctl_lock, call, mine, calls_made>>

(* mem_alloc: the block malloc returns goes into the slot; on NULL the     *)
(* call unlocks and returns NULL.                                          *)
Store(t) ==
  /\ call[t].op = "mem_alloc"
  /\ \/ \E b \in Free :
          /\ Goto(t, "body", "count")
          /\ ptr_track' = [ptr_track EXCEPT ![memory_tracker_loc] = b]
          /\ owner' = [owner EXCEPT ![b] = calls]
          /\ held' = held \cup {b}
          /\ UNCHANGED slot
     \/ /\ Goto(t, "body", "unlock")
        /\ ptr_track' = [ptr_track EXCEPT ![memory_tracker_loc] = Null]
        /\ slot' = [slot EXCEPT ![t] = "none"]
        /\ UNCHANGED heap
  /\ UNCHANGED <<mem_init_state, calls, alloc_used, memory_tracker_loc, heap_error,
                 mem_ctl_lock, call, mine, calls_made>>

Count(t) ==
  /\ Goto(t, "count", "advance")
  /\ alloc_used' = alloc_used + 1
  /\ UNCHANGED <<mem_init_state, calls, memory_tracker_loc, ptr_track, heap,
                 heap_error, mem_ctl_lock, call, slot, mine, calls_made>>

(* The slot index moves on, and with it where the result will be read. *)
Advance(t) ==
  /\ Goto(t, "advance", "unlock")
  /\ memory_tracker_loc' = IF WrapsAround THEN 0 ELSE memory_tracker_loc + 1
  /\ slot' = [slot EXCEPT ![t] = IF WrapsAround THEN "last" ELSE "next"]
  /\ UNCHANGED <<mem_init_state, calls, alloc_used, ptr_track, heap, heap_error,
                 mem_ctl_lock, call, mine, calls_made>>

FreeBody(t) ==
  /\ call[t].op = "mem_free"
  /\ mem_free(call[t].arg)
  /\ Goto(t, "body", "unlock")
  /\ UNCHANGED <<mem_ctl_lock, call, slot, mine, calls_made>>

(* Slip: mem_gc returns from between lock and unlock. *)
GcBodyReturns(t) ==
  /\ call[t].op = "mem_gc"
  /\ mem_gc
  /\ Goto(t, "body", "idle")
  /\ mine' = [u \in Threads |-> mine[u] \cap held']
  /\ UNCHANGED <<mem_ctl_lock, call, slot, calls_made>>

(* What the collection releases is no thread's any more. *)
GcBody(t) ==
  /\ call[t].op = "mem_gc"
  /\ mem_gc
  /\ Goto(t, "body", "unlock")
  /\ mine' = [u \in Threads |-> mine[u] \cap held']
  /\ UNCHANGED <<mem_ctl_lock, call, slot, calls_made>>

CountBody(t) ==
  /\ call[t].op = "mem_alloc_count"
  /\ Goto(t, "body", "unlock")
  /\ UNCHANGED <<vars, mem_ctl_lock, call, slot, mine, calls_made>>

Unlock(t) ==
  /\ Goto(t, "unlock", IF call[t].op = "mem_alloc" THEN "return" ELSE "idle")
  /\ mem_ctl_lock' = FALSE
  /\ UNCHANGED <<vars, call, slot, mine, calls_made>>

-----------------------------------------------------------------------------
(* After the lock: mem_alloc reads the table for its result.  Before slot  *)
(* zero there is nothing to read.                                          *)
Result(t) ==
  CASE slot[t] = "none" -> Null
    [] slot[t] = "last" -> ptr_track[TrackerSize - 1]
    [] OTHER -> ptr_track[memory_tracker_loc - 1]

Return(t) ==
  /\ Goto(t, "return", "idle")
  /\ IF slot[t] = "next" /\ memory_tracker_loc = 0
     THEN heap_error' = "out_of_bounds" /\ UNCHANGED mine
     ELSE /\ mine' = [mine EXCEPT ![t] = @ \cup ({Result(t)} \ {Null})]
          /\ UNCHANGED heap_error
  /\ UNCHANGED <<tracker, heap, mem_ctl_lock, call, slot, calls_made>>

-----------------------------------------------------------------------------
Step(t) ==
  \/ CheckInit(t) \/ RunInit(t)
  \/ TestLock(t) \/ SetLock(t)
  \/ Store(t) \/ Count(t) \/ Advance(t)
  \/ FreeBody(t) \/ GcBody(t) \/ CountBody(t)
  \/ Unlock(t) \/ Return(t)

ThreadsNext == \E t \in Threads : Call(t) \/ Step(t)

(* A thread inside a call is scheduled, and usleep returns; nobody has to  *)
(* make a call.                                                            *)
ThreadsSpec ==
  /\ ThreadsInit
  /\ [][ThreadsNext]_thread_vars
  /\ \A t \in Threads : WF_thread_vars(Step(t))
-----------------------------------------------------------------------------
(* Correctness.                                                            *)

Inside(t) == pc[t] \in {"body", "count", "advance", "unlock"}

(* The flag is set only while some thread is between lock and unlock: it   *)
(* is never left set behind a call that has returned, even though several  *)
(* threads can be inside and the first to leave clears it.                 *)
LockHasHolder == mem_ctl_lock => \E t \in Threads : Inside(t)

(* Every call returns: no path through the manager, the early returns      *)
(* included, leaves a thread polling the lock for ever.                    *)
CallsReturn ==
  \A t \in Threads : pc[t] # "idle" ~> (pc[t] = "idle" \/ heap_error # "none")
==============================================================================
