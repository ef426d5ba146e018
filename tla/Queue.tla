-------------------------------- MODULE Queue --------------------------------
(***************************************************************************)
(* The queue of user/src/datastructs/queue.c: cells base .. end, read at   *)
(* head and written at tail.  A linear queue is FULL once it has been      *)
(* written to its end, and only usable again after it is drained and       *)
(* reset.  A circular one is never FULL: tail wraps around and overwrites. *)
(*                                                                         *)
(* The flags are a set.  A missing t_queue (the first allocation failed, or*)
(* none was made yet) and an UNDEFINED one refuse every call alike, and    *)
(* are one state here.  READY is the queue's lock: a call takes it, and    *)
(* gives it back before it returns, so that a call is one step.            *)
(*                                                                         *)
(* The client numbers its items: the n-th item accepted is n.              *)
(***************************************************************************)
EXTENDS Integers

CONSTANTS
  MaxDepth,    (* the largest depth a queue is created with                *)
  MaxAdds      (* bound: how many items the client adds                    *)

ASSUME QueueAssumption == MaxDepth \in Nat \ {0} /\ MaxAdds \in Nat

VARIABLES
  queue_flags,
  queue_end,   (* as indices, from queue_base: 0 stands for queue_base     *)
  queue_head,
  queue_tail,
  cells,       (* the block at queue_base                                  *)
  added,       (* how many items were accepted                             *)
  settled,     (* the last item returned, or given up with the queue       *)
  got          (* what the last queue_get returned, 0 for NULL             *)

cursors == <<queue_end, queue_head, queue_tail>>
queueVars == <<queue_flags, cursors, cells, added, settled, got>>

Flags == {"EMPTY", "FULL", "UNDEFINED", "CIRCULAR", "READY"}
Cells == 0 .. MaxDepth - 1
Junk == -1                        (* uninitialised memory                   *)
BKIT_MIN_QUEUE_DEPTH == 1

Undefined == "UNDEFINED" \in queue_flags
Empty == "EMPTY" \in queue_flags
Full == "FULL" \in queue_flags
Circular == "CIRCULAR" \in queue_flags
Ready == "READY" \in queue_flags

InitQueue ==
  /\ queue_flags = {"UNDEFINED"}
  /\ queue_end = 0 /\ queue_head = 0 /\ queue_tail = 0
  /\ cells = [i \in Cells |-> Junk]
  /\ added = 0 /\ settled = 0 /\ got = 0

(* The client creates a queue when it has none it can use.  Either         *)
(* allocation may fail: the queue then stays UNDEFINED, its cursors unset. *)
queue_init(depth, circular) ==
  /\ Undefined
  /\ LET mode == IF circular THEN {"CIRCULAR"} ELSE {}
     IN \/ queue_flags' = mode \cup {"EMPTY", "READY"}
        \/ queue_flags' = mode \cup {"EMPTY", "UNDEFINED"}
  /\ queue_end' = (IF depth > 0 THEN depth ELSE BKIT_MIN_QUEUE_DEPTH) - 1
  /\ queue_head' = 0 /\ queue_tail' = 0
  /\ cells' = [i \in Cells |-> Junk]
  /\ UNCHANGED <<added, settled, got>>

(* Where an item goes: the first one after EMPTY goes to the base, and the *)
(* head is taken to be there already.                                      *)
WritePosition == IF Empty THEN 0 ELSE queue_tail

Advanced(tail) ==
  IF tail < queue_end
  THEN queue_tail' = tail + 1 /\ queue_flags' = queue_flags \ {"EMPTY"}
  ELSE IF Circular
  THEN queue_tail' = 0 /\ queue_flags' = queue_flags \ {"EMPTY"}
  ELSE queue_tail' = queue_end
       /\ queue_flags' = (queue_flags \ {"EMPTY"}) \cup {"FULL"}

Accepts == ~Undefined /\ ~Full /\ Ready

queue_add ==
  /\ added < MaxAdds
  /\ Accepts
  /\ cells' = [cells EXCEPT ![WritePosition] = added + 1]
  /\ Advanced(WritePosition)
  /\ added' = added + 1
  /\ UNCHANGED <<queue_end, queue_head, settled, got>>

(* Slip: the head stays where it was. *)
ResetKeepsHead ==
  /\ queue_flags' = {"READY", "EMPTY"}
  /\ queue_tail' = 0
  /\ UNCHANGED queue_head

(* Slip: the flags are not cleared first. *)
ResetKeepsFlags ==
  /\ queue_flags' = queue_flags \cup {"READY", "EMPTY"}
  /\ queue_head' = 0 /\ queue_tail' = 0

(* A reset forgets the contents, and that the queue was circular. *)
queue_reset ==
  /\ queue_flags' = {"READY", "EMPTY"}
  /\ queue_head' = 0 /\ queue_tail' = 0

Wrapped(head) == IF head <= queue_end THEN head ELSE 0

(* The head has caught up with the tail; for a circular queue whose tail   *)
(* is at the base, that is said of a head that wraps around only.          *)
Overtakes(head) ==
  IF Circular
  THEN queue_tail # 0 /\ Wrapped(head) >= queue_tail
  ELSE head > queue_end \/ head >= queue_tail

(* Slip: the check for empty after the head has wrapped is left out. *)
WrapsUnchecked(head) == FALSE

WrapsEmpty(head) == Circular /\ head > queue_end /\ queue_tail = 0

MoveHead(head) ==
  IF Overtakes(head)
  THEN queue_reset
  ELSE /\ queue_head' = Wrapped(head)
       /\ queue_flags' = queue_flags \cup (IF WrapsEmpty(head) THEN {"EMPTY"} ELSE {})
       /\ UNCHANGED queue_tail

Gives == ~Undefined /\ ~Empty /\ Ready

GetItem ==
  /\ Gives
  /\ got' = cells[queue_head]
  /\ settled' = cells[queue_head]
  /\ MoveHead(queue_head + 1)
  /\ UNCHANGED <<queue_end, cells, added>>

GetNull ==
  /\ ~Gives
  /\ got' = 0
  /\ UNCHANGED <<queue_flags, cursors, cells, added, settled>>

queue_get == GetItem \/ GetNull

queue_clean ==
  /\ ~Undefined
  /\ queue_flags' = queue_flags \cup {"UNDEFINED"}
  /\ queue_end' = 0 /\ queue_head' = 0 /\ queue_tail' = 0
  /\ cells' = [i \in Cells |-> Junk]
  /\ settled' = added
  /\ UNCHANGED <<added, got>>

NextQueue ==
  \/ \E depth \in 0 .. MaxDepth, circular \in BOOLEAN : queue_init(depth, circular)
  \/ queue_add
  \/ queue_get
  \/ queue_clean

(* The client keeps calling queue_get. *)
SpecQueue == InitQueue /\ [][NextQueue]_queueVars /\ WF_queueVars(queue_get)
-----------------------------------------------------------------------------
(* Correctness.                                                            *)

(* Types; the cursors never leave the block. *)
TypesOfQueue ==
  /\ queue_flags \subseteq Flags
  /\ queue_end \in Cells
  /\ queue_head \in 0 .. queue_end
  /\ queue_tail \in 0 .. queue_end
  /\ cells \in [Cells -> Nat \cup {Junk}]
  /\ added \in 0 .. MaxAdds /\ settled \in 0 .. MaxAdds
  /\ got \in 0 .. MaxAdds

(* What the calls rely on and none of them establishes alone: queue_add    *)
(* restarts an EMPTY queue at the base without moving the head, FULL stops *)
(* a linear queue only, and the lock is free between two calls.            *)
FlagsAgree ==
  ~Undefined =>
    /\ Empty => queue_head = 0 /\ ~Full
    /\ Full => ~Circular /\ queue_tail = queue_end
    /\ ~Circular /\ ~Empty => queue_head < queue_tail \/ Full
    /\ Ready

(* Whatever is overwritten, dropped by a reset or cleaned up, items come   *)
(* out in the order they were added, none twice, and never what memory     *)
(* held before: queue_get returns added items or NULL.                     *)
Fifo == INSTANCE LossyFifo
KeepsOrder == Fifo!Spec

(* A queue that refuses items because it is FULL accepts them again once   *)
(* the client has called queue_get often enough, or it is cleaned up.      *)
FullClears == Full ~> (~Full \/ Undefined)
=============================================================================
