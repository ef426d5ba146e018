-------------------------------- MODULE Stack --------------------------------
(***************************************************************************)
(* The stack of user/src/datastructs/stack.c.                              *)
(*                                                                         *)
(* stack_init(Depth) allocates Depth + 1 cells and keeps Depth + 1 in      *)
(* stack_depth.  The first push writes cell 0 without moving stack_top;    *)
(* every later one moves it first, so that a stack that was popped empty   *)
(* has its top one cell below the base, and is not marked empty.           *)
(*                                                                         *)
(* The client makes any call at any time.  What the code does not refuse   *)
(* may land behind the block or, after pops of nothing, before it: those   *)
(* cells are modelled too, down to the bound Underrun.                     *)
(***************************************************************************)
EXTENDS Integers, Sequences

CONSTANTS
  Items,       (* what the client pushes                                   *)
  NoItem,      (* the null pointer                                         *)
  Unset,       (* what memory the stack has not written holds              *)
  Depth,       (* the depth given to stack_init                            *)
  Underrun,    (* bound: the cells before the block that are modelled      *)
  WordSizes    (* of 32 and 64, the widths of a pointer difference         *)

ASSUME StackAssumption ==
  /\ Depth \in Nat \ {0}
  /\ Underrun \in Nat \ {0}
  /\ WordSizes \subseteq {32, 64}
  /\ NoItem \notin Items /\ Unset \notin Items /\ Unset # NoItem

VARIABLES
  stack_status,  (* "null" for a null pointer, "crashed" for no process    *)
  stack_top,     (* as an index: stack_top - stack_base                    *)
  block,         (* the block at stack_base and the memory around it       *)
  word,          (* one of WordSizes                                       *)
  result,        (* what the last call returned                            *)
  lowest         (* history: the lowest top of this stack, or -1           *)

stackVars == <<stack_status, stack_top, block, word, result, lowest>>

stack_depth == Depth + 1

(* What stack_init allocates, and the memory around it. *)
BlockCells == 0 .. Depth
Addressed == -Underrun .. Depth + 3

StackInit ==
  /\ stack_status = "null"
  /\ stack_top = 0
  /\ block = [i \in Addressed |-> Unset]
  /\ word \in WordSizes
  /\ result = NoItem
  /\ lowest = -1

(* Slip: one more item than the code lets in. *)
WithinLoose(top) == top <= stack_depth + 1 /\ (word = 32 => top >= 0)

(* top - base <= stack_depth, a pointer difference compared with an        *)
(* unsigned 32-bit integer: on a 32-bit target a negative difference is    *)
(* converted and becomes huge.                                             *)
Within(top) == top <= stack_depth /\ (word = 32 => top >= 0)

Usable == stack_status \in {"empty", "ready", "full"}
Holding == stack_status \in {"ready", "full"}

(* A write through a null pointer, or a read: the process ends. *)
Crash ==
  /\ stack_status' = "crashed"
  /\ UNCHANGED <<stack_top, block, result, lowest>>

(* Creates a stack; either allocation may fail.  A stack the client had    *)
(* before is another one.                                                  *)
stack_init ==
  /\ \/ stack_status' = "null" /\ result' = NoItem
     \/ stack_status' = "error" /\ result' = "ok"
     \/ stack_status' = "empty" /\ result' = "ok"
  /\ stack_top' = 0 /\ lowest' = -1
  /\ block' = [i \in Addressed |-> Unset]

PushRefused ==
  /\ stack_status \in {"null", "full", "error"}
  /\ result' = "error"
  /\ UNCHANGED <<stack_status, stack_top, block, lowest>>

PushStored(x) ==
  /\ stack_status \in {"empty", "ready"} /\ Within(stack_top)
  /\ LET top == IF stack_status = "empty" THEN stack_top ELSE stack_top + 1
     IN /\ stack_top' = top
        /\ block' = [block EXCEPT ![top] = x]
        /\ stack_status' = IF Within(top) THEN "ready" ELSE "full"
  /\ result' = "ok"
  /\ UNCHANGED lowest

(* Answered with 0, and nothing done. *)
PushDropped ==
  /\ stack_status \in {"empty", "ready"} /\ ~Within(stack_top)
  /\ result' = "ok"
  /\ UNCHANGED <<stack_status, stack_top, block, lowest>>

(* After stack_clean the base and the top are null. *)
stack_push(x) ==
  \/ PushRefused
  \/ PushStored(x)
  \/ PushDropped
  \/ stack_status = "unknown" /\ Crash

(* A stack whose top is not within its depth is marked empty by its first  *)
(* pop, top in place.                                                      *)
PopOutside ==
  /\ ~Within(stack_top)
  /\ block' = [block EXCEPT ![stack_top] = NoItem]
  /\ stack_status' = "empty"
  /\ UNCHANGED <<stack_top, lowest>>

(* Slip: the top is read and left in place. *)
PopInPlace ==
  /\ Within(stack_top)
  /\ UNCHANGED <<stack_top, block, lowest>>
  /\ stack_status' = "ready"

PopTop ==
  /\ Within(stack_top)
  /\ stack_top' = stack_top - 1
  /\ stack_status' = IF Within(stack_top - 1) THEN "ready" ELSE stack_status
  /\ lowest' = IF stack_top - 1 < lowest THEN stack_top - 1 ELSE lowest
  /\ UNCHANGED block

(* The top is read wherever it is; Addressed bounds how far down.          *)
stack_pop ==
  \/ /\ Holding /\ stack_top \in Addressed
     /\ result' = block[stack_top]
     /\ PopOutside \/ PopTop
  \/ /\ stack_status \in {"empty", "error", "unknown"}
     /\ result' = NoItem
     /\ UNCHANGED <<stack_status, stack_top, block, lowest>>
  \/ stack_status = "null" /\ Crash

(* Gives the cells back to the memory manager, whatever is on the stack. *)
stack_clean ==
  /\ stack_status' = IF stack_status = "null" THEN "null" ELSE "unknown"
  /\ stack_top' = 0 /\ lowest' = -1
  /\ block' = [i \in Addressed |-> Unset]
  /\ result' = NoItem

StackNext ==
  /\ stack_status # "crashed"
  /\ \/ stack_init
     \/ \E x \in Items : stack_push(x)
     \/ stack_pop
     \/ stack_clean
  /\ UNCHANGED word

StackSpec == StackInit /\ [][StackNext]_stackVars
-----------------------------------------------------------------------------
(* Correctness.                                                            *)

(* Types. *)
StackTypeOK ==
  /\ stack_status \in {"null", "unknown", "empty", "ready", "full", "error", "crashed"}
  /\ stack_top \in -Underrun - 1 .. Depth + 2
  /\ block \in [Addressed -> Items \cup {NoItem, Unset}]
  /\ word \in WordSizes
  /\ result \in Items \cup {NoItem, Unset, "ok", "error"}
  /\ lowest \in -Underrun - 1 .. -1

(* Every cell the stack has written lies inside the block stack_init       *)
(* allocated: depth is the "maximum depth of the stack" (stack.c:46), and  *)
(* "A lot of checks are in place to avoid memory errors" (stack.c:8).      *)
NeverOverruns == \A i \in Addressed : i > Depth => block[i] = Unset

(* How far the code does write, with its two comparisons of the top and    *)
(* the depth (stack.c:138, 178), whatever the client does: two cells       *)
(* behind the block, and before it no further than pops of nothing have    *)
(* taken the top; on 32 bits not past the cell before the base.            *)
OverrunBounded ==
  \A i \in Addressed : block[i] # Unset =>
    /\ i <= Depth + 2
    /\ i >= lowest
    /\ word = 32 => i >= -1

(* The items on the stack, the top last. *)
Held ==
  IF Holding THEN [i \in 1 .. stack_top - lowest |-> block[lowest + i]] ELSE <<>>

(* No push gets past the comparison any more, and none is refused. *)
Dead == stack_status \in {"empty", "ready"} /\ ~Within(stack_top)

State == IF ~Usable THEN "absent" ELSE IF Dead THEN "dead" ELSE "live"

(* Whatever the order of pushes, pops and cleanings, an item that is not   *)
(* lost with the pop of a full stack (on 32 bits: with the pop of the last *)
(* item) comes back exactly once and last in first out, although the top   *)
(* of an emptied stack lies below its base (stack.c:142, 180); a stack is  *)
(* full with Depth + 3 items and no fewer.                                 *)
AbstractStack ==
  INSTANCE Lifo WITH items <- Held, state <- State, sunk <- -1 - lowest, narrow <- (word = 32),
                     Null <- NoItem, Junk <- Unset, Capacity <- Depth + 3
IsLifo == AbstractStack!Spec
=============================================================================
