------------------------------ MODULE NodeList ------------------------------
(***************************************************************************)
(* The linked lists of betakit, user/src/datastructs/list.c, one thread.   *)
(*                                                                         *)
(* A node is a cell of memory.  list_create_node sets neither next nor     *)
(* metadata, which hold members of Fresh then: what the memory held, which *)
(* may be a pointer to a cell.  Null ends a list, Junk stands for every    *)
(* pointer that is not to a cell: to follow it, or to read a cell that was *)
(* given back, is undefined and ends the system.  metadata is only freed.  *)
(***************************************************************************)
EXTENDS Integers, FiniteSets

CONSTANTS
  Cells,     (* memory for list nodes                                      *)
  Fresh,     (* what the next and the metadata of a new node can hold      *)
  Null,
  Junk

ASSUME ListAssumption ==
  /\ IsFiniteSet(Cells)
  /\ Null \notin Cells /\ Junk \notin Cells /\ Null # Junk
  /\ Fresh \subseteq Cells \cup {Null, Junk}

VARIABLES
  live,      (* the cells in use                                           *)
  next,      (* of each cell                                               *)
  data,      (* of each cell; Null in those never used                     *)
  outcome,   (* "running", "spinning" in a loop, or "crashed"              *)
  rt         (* what the last call returned                                *)

listVars == <<live, next, data, outcome, rt>>

ERR_LIST_NODE_MISSING == 204

ListInit ==
  /\ live = {}
  /\ next = [c \in Cells |-> Null]
  /\ data = [c \in Cells |-> Null]
  /\ outcome = "running"
  /\ rt = 0

Returns(value) == rt' = value /\ outcome' = "running"

Ends(how) == outcome' = how /\ UNCHANGED <<live, next, data, rt>>

-----------------------------------------------------------------------------
(* Traversal.  The cell after n steps from head; a walk stays where it     *)
(* cannot go on, which is after at most one visit of every cell.           *)

Walk(head) ==
  LET w[n \in 0 .. Cardinality(Cells)] ==
        IF n = 0 THEN head
        ELSE LET c == w[n - 1] IN IF c \in live THEN next[c] ELSE c
  IN w

(* A loop that follows next from head as long as Stops is false: how many  *)
(* steps it makes, -1 if it follows a bad pointer, -2 if it does not end.  *)
LoopSteps(head, Stops(_)) ==
  LET w == Walk(head)
      bad == {n \in DOMAIN w : w[n] \notin live}
      good == {n \in DOMAIN w : w[n] \in live /\ Stops(w[n])}
      First(S) == CHOOSE n \in S : \A m \in S : n <= m
  IN IF good # {} /\ \A n \in bad : First(good) < n THEN First(good)
     ELSE IF bad # {} THEN -1
     ELSE -2

(* What becomes of a call that does not get out of its loop. *)
Fails(steps) == Ends(IF steps = -1 THEN "crashed" ELSE "spinning")

Last(c) == next[c] = Null
-----------------------------------------------------------------------------
(* The calls.                                                              *)

Unused == Cells \ live

(* A new node c with data d and whatever next the memory held. *)
Created(c, d, n) ==
  /\ live' = live \cup {c}
  /\ data' = [data EXCEPT ![c] = d]
  /\ next' = [next EXCEPT ![c] = n]

(* Which of the unused cells it is makes no difference.  The result of     *)
(* mem_alloc is not tested.                                                *)
NewCell == CHOOSE c \in Unused : TRUE

list_create_node(d) ==
  \/ Unused # {} /\ Returns(0) /\ \E n \in Fresh : Created(NewCell, d, n)
  \/ Ends("crashed")

list_add(head, node) ==
  LET steps == LoopSteps(head, Last)
  IN IF steps < 0 THEN Fails(steps)
     ELSE /\ next' = [next EXCEPT ![Walk(head)[steps]] = node]
          /\ Returns(0)
          /\ UNCHANGED <<live, data>>

(* Slip: the loop does not notice that it is back at the first node. *)
DelStopsLinear(head, node, c) == next[c] \in {Null, node, c}

DelStops(head, node, c) == next[c] \in {Null, node, c, head}

list_del(head, node) ==
  LET Stops(c) == DelStops(head, node, c)
      steps == LoopSteps(head, Stops)
      stop == Walk(head)[steps]
  IN IF steps < 0 THEN Fails(steps)
     ELSE IF next[stop] = Null
     THEN Returns(-ERR_LIST_NODE_MISSING) /\ UNCHANGED <<live, next, data>>
     ELSE IF next[stop] # node THEN Returns(0) /\ UNCHANGED <<live, next, data>>
     ELSE IF node \notin live THEN Ends("crashed")
     ELSE /\ next' = [next EXCEPT ![stop] = next[node]]
          /\ Returns(0)
          /\ UNCHANGED <<live, data>>

(* Slip: the search ends in front of every last node. *)
FindStopsEarly(head, c) == next[c] \in {Null, head, c}

FindStops(head, c) == next[c] \in {head, c}

(* The loop of list_find ends at Null too, after the last node of a list   *)
(* that ends there.  The node found, Null if there is none, Junk if it     *)
(* does not get there.                                                     *)
list_find(head, d) ==
  LET w == Walk(head)
      Before(n) == \A m \in 0 .. n : w[m] \in live /\ ~FindStops(head, w[m])
      found == {n \in DOMAIN w : Before(n) /\ data[w[n]] = d}
      Stops(c) == FindStops(head, c) \/ next[c] = Null
  IN IF found # {} THEN w[CHOOSE n \in found : \A m \in found : n <= m]
     ELSE IF LoopSteps(head, Stops) >= 0 THEN Null
     ELSE Junk

(* list_clean frees what data, next and metadata point to, and not the     *)
(* node.  Nothing but the memory it was made of ever set metadata.         *)
list_clean(node) ==
  IF node \notin live THEN Ends("crashed")
  ELSE \E metadata \in Fresh :
         /\ live' = live \ {next[node], metadata}
         /\ Returns(0)
         /\ UNCHANGED <<next, data>>

(* The first node behind head is unlinked and cleaned, which frees the one *)
(* behind it, that is the first node then and is read, and its metadata.   *)
list_empty(head) ==
  IF head \notin live THEN Ends("crashed")
  ELSE LET first == next[head]
       IN IF first \in {Null, head}
          THEN Returns(0) /\ UNCHANGED <<live, next, data>>
          ELSE IF first \notin live \/ next[first] # Null THEN Ends("crashed")
          ELSE \E metadata \in Fresh :
                 IF metadata = head THEN Ends("crashed")
                 ELSE /\ live' = live \ {metadata}
                      /\ next' = [next EXCEPT ![head] = Null]
                      /\ Returns(0)
                      /\ UNCHANGED data
=============================================================================
