-------------------------------- MODULE Lifo --------------------------------
(***************************************************************************)
(* What the stack of stack.c keeps to, over the whole of its range: pushes *)
(* and pops are last in first out, a push is refused only by a full stack  *)
(* or by none, and the pop of a full stack, or on a narrow word the pop of *)
(* its last item, leaves it dead: what it still held is gone, and later    *)
(* pushes are answered as if they were stored.  Popping nothing may return *)
(* junk, and then moves the bottom one down.                               *)
(***************************************************************************)
EXTENDS Integers, Sequences, SequencesExt

CONSTANTS
  Items,      (* what can be pushed                                        *)
  Null,
  Junk,       (* what a pop may return when there is nothing               *)
  Capacity    (* the items of a full stack whose bottom was never moved    *)

VARIABLES
  items,      (* the contents, the top last                                *)
  state,      (* "absent", "live" or "dead"                                *)
  sunk,       (* how far the bottom was moved down                         *)
  narrow,     (* whether the word is narrow                                *)
  result      (* what the last call returned                               *)

lifoVars == <<items, state, sunk, narrow, result>>

Init ==
  /\ items = <<>> /\ state = "absent" /\ sunk = 0
  /\ narrow \in BOOLEAN
  /\ result = Null

(* The stack is created, with or without cells, or cleaned up. *)
Clear ==
  /\ items' = <<>> /\ sunk' = 0
  /\ \/ state' = "live" /\ result' = "ok"
     \/ state' = "absent" /\ result' \in {"ok", Null}

Push(x) ==
  /\ state = "live"
  /\ items' = Append(items, x)
  /\ result' = "ok"
  /\ UNCHANGED <<state, sunk>>

Full == Len(items) = Capacity + sunk

Refuse ==
  /\ state = "absent" \/ Full
  /\ result' = "error"
  /\ UNCHANGED <<items, state, sunk>>

Lose == state = "dead" /\ result' = "ok" /\ UNCHANGED <<items, state, sunk>>

Kills == Full \/ (narrow /\ Len(items) = 1)

Pop ==
  /\ items # <<>>
  /\ result' = Last(items)
  /\ IF Kills THEN items' = <<>> /\ state' = "dead"
     ELSE items' = Front(items) /\ UNCHANGED state
  /\ UNCHANGED sunk

PopNothing ==
  /\ items = <<>>
  /\ \/ result' = Null /\ UNCHANGED sunk
     \/ result' = Junk /\ state = "live" /\ sunk' = sunk + 1
     \/ result' = Junk /\ state = "dead" /\ UNCHANGED sunk
  /\ UNCHANGED <<items, state>>

Next ==
  /\ UNCHANGED narrow
  /\ \/ Clear
     \/ \E x \in Items : Push(x)
     \/ Refuse
     \/ Lose
     \/ Pop
     \/ PopNothing

Spec == Init /\ [][Next]_lifoVars
=============================================================================
