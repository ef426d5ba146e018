------------------------------- MODULE Strays -------------------------------
(***************************************************************************)
(* Links, with memory as it is.  What list_create_node leaves in next can  *)
(* be a pointer to a cell: memory that was given back holds the next of a  *)
(* node that is gone, list.c:48-49.  Nothing happens until a call goes     *)
(* along such a stray pointer, and then the call runs on in a list that it *)
(* was not given; list_clean frees what it takes for metadata.             *)
(*                                                                         *)
(* What list_find and list_del do is promised of any list whatever.  What  *)
(* is promised of the graph and of the menu is promised up to the first    *)
(* call that goes astray.                                                  *)
(***************************************************************************)
EXTENDS Links

VARIABLES
  unset,     (* history: the cells whose next was not stored yet           *)
  astray     (* history: a call went along a stray pointer                 *)

strayVars == <<vars, unset, astray>>

StrayInit == Init /\ unset = {} /\ astray = FALSE

Stray(c) == c \in unset /\ next[c] \in Cells

(* The lists a call walks in order to change them, by their first cells.   *)
Walked(c) ==
  CASE c = <<>> -> {}
    [] c[1] \in {"list_add", "list_del", "list_empty", "list_clean"} -> {c[2]}
    [] c[1] = "node_connect" -> {edges[c[2]], edges[c[3]]}
    [] c[1] = "node_self_connect" -> {edges[c[2]]}
    [] c[1] = "cli_menu_additem" -> {menu_choices}

GoesAstray ==
  \/ \E h \in Walked(call') : \E c \in Chain(h) : Stray(c)
  \/ \E c \in live : c \notin live'

(* A new cell is put between two, in a ring, with its next stored.         *)
Inserted(c) == \E b \in live : next'[b] = c /\ next[b] # c /\ next'[c] = next[b]

Unset ==
  {c \in live' : IF c \in live THEN c \in unset /\ next'[c] = next[c] ELSE ~Inserted(c)}

(* The client may clean a node it made and put none behind. *)
CleanUnset == \E h \in Mine : (next[h] \in {Null, Junk} \/ h \in unset) /\ Clean(h)

StrayNext ==
  /\ outcome = "running"
  /\ \/ "lists" \in uses /\ (CreateNode \/ AddNode \/ DelNode \/ EmptyList \/ CleanUnset)
     \/ "graph" \in uses /\ (CloseRing \/ Connect \/ SelfConnect \/ GraphStep)
     \/ "menu" \in uses /\ (AddItem \/ MenuStep)
  /\ unset' = Unset
  /\ astray' = (astray \/ GoesAstray)
  /\ UNCHANGED uses

StraySpec == StrayInit /\ [][StrayNext]_strayVars
-----------------------------------------------------------------------------
(* graph.c:303-326.  Until a call goes astray, a node has two edges to     *)
(* another only behind a first edge to a third, and only if the other has  *)
(* its first edge to it; of a list that a stray pointer leads on, no more  *)
(* is said.                                                                *)
TwiceOnlyBehindFirst ==
  ~astray => \A u, v \in up : (\E c \in Chain(edges[u]) : Stray(c)) \/ TwiceBehindFirst(u, v)

(* graph.c:215-330.  node_connect of two nodes joins them both ways: "-ve  *)
(* on failure, >= 0 on success", and there is no failure.  The comment is  *)
(* not true if the first node has a list that ends, graph.c:270; nothing   *)
(* is said of that case here, nor once a call has gone astray.             *)
ConnectJoins ==
  [][\A u, v \in up :
       call' = <<"node_connect", u, v>> /\ outcome' = "running" /\ u # v /\ ~astray' =>
         JoinsBothWays(u, v)]_strayVars

(* cli.c:120-167.  Until a call goes astray, whatever else takes cells,    *)
(* the items of the menu are there in the order they were added, and       *)
(* menu_count is their number.                                             *)
MenuKeepsOrder == ~astray => MenuInOrder

(* list.c:109-118 and 170-178.  In a ring, list_del answers with a number  *)
(* below 0 for a node that is not there, or at least list_find finds what  *)
(* is there: one of the two takes care of circular lists, as the comments  *)
(* say of both.                                                            *)
RingsHandled ==
  [][\A h, c \in Mine :
       call' = <<"list_del", h, c>> /\ outcome' = "running" /\ Ring(h) /\ c \notin Chain(h) =>
         \/ rt' < 0
         \/ \A b \in Chain(h) : list_find(h, data[b]) # Null]_strayVars

(* graph.c:215-223.  When node_connect returns 0 or more, it has connected *)
(* the two nodes.                                                          *)
SuccessConnects ==
  [][\A u, v \in up :
       call' = <<"node_connect", u, v>> /\ outcome' = "running" /\ u # v /\ ~astray' =>
         (rt' >= 0 => Joined(u, v)' /\ Joined(v, u)')]_strayVars
=============================================================================
