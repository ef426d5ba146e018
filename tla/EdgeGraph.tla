----------------------------- MODULE EdgeGraph -----------------------------
(***************************************************************************)
(* The graph of betakit, user/src/datastructs/graph.c, one thread.  A node *)
(* of the graph has a list of edges, cells of NodeList whose data is the   *)
(* node at the other end.  graph.c ends no list it starts: the next of a   *)
(* first edge is what the memory held.                                     *)
(***************************************************************************)
EXTENDS NodeList, Functions

CONSTANTS
  GNodes,    (* memory for nodes of the graph                              *)
  Compares   (* functions that compare the data of two nodes               *)

ASSUME GraphAssumption == Null \notin GNodes \cup Compares

VARIABLES
  edges,     (* the first edge of each node, Null if it has none           *)
  compare,   (* its registered function, Null if it has none               *)
  up         (* the nodes in use                                           *)

graphVars == <<edges, compare, up>>

BERR_UNKNOWN == 1
BERR_NOMEM == 2
BERR_INVALID == 4
BERR_CRASH == 8
BERR_NORMAL == 256
BERR_SEVERE == 512

GraphInit ==
  /\ edges = [u \in GNodes |-> Null]
  /\ compare = [u \in GNodes |-> Null]
  /\ up = {}

Refuses(code) == Returns(-code) /\ UNCHANGED <<live, next, data, graphVars>>

Faults(steps) == Fails(steps) /\ UNCHANGED graphVars

-----------------------------------------------------------------------------

node_init(u) ==
  \/ /\ u \notin up
     /\ up' = up \cup {u}
     /\ edges' = [edges EXCEPT ![u] = Null]
     /\ compare' = [compare EXCEPT ![u] = Null]
     /\ Returns(0)
     /\ UNCHANGED <<live, next, data>>
  \/ Refuses(0)

(* The edges of the node are not given back.  Whether the rest of the      *)
(* graph still refers to it is for the caller to check.                    *)
node_free(u) ==
  /\ u \in up
  /\ \A v \in up \ {u} : \A c \in Range(Walk(edges[v])) \cap live : data[c] # u
  /\ up' = up \ {u}
  /\ Returns(0)
  /\ UNCHANGED <<live, next, data, edges, compare>>

Register(u, f) ==
  /\ compare' = [compare EXCEPT ![u] = f]
  /\ Returns(0)
  /\ UNCHANGED <<live, next, data, edges, up>>

node_register(u, f) ==
  /\ u \in up
  /\ IF f = Null THEN Refuses(BERR_SEVERE + BERR_NOMEM)
     ELSE IF compare[u] # Null THEN Refuses(BERR_INVALID)
     ELSE Register(u, f)

node_unregister(u) ==
  /\ u \in up
  /\ IF compare[u] = Null THEN Refuses(BERR_NORMAL + BERR_NOMEM) ELSE Register(u, Null)

(* A null node is noticed, and then read.  Every node has data here; what  *)
(* the registered function says of it is any number.                       *)
node_compare(u, v) ==
  IF Null \in {u, v} THEN Faults(-1)
  ELSE /\ {u, v} \subseteq up
       /\ IF u = v THEN Refuses(BERR_INVALID + BERR_NORMAL)
          ELSE IF Null \in {compare[u], compare[v]} THEN Refuses(BERR_CRASH + BERR_NORMAL)
          ELSE IF compare[u] # compare[v] THEN Refuses(BERR_INVALID + BERR_NORMAL)
          ELSE \E order \in -1 .. 1 : Refuses(order)
-----------------------------------------------------------------------------
(* Is there an edge from u to v?  1 if there is, -3 if there is none in a  *)
(* ring, 2 if there is none in a list that ends; and 2 is not an error.    *)
(* -1 and -2, as of LoopSteps, if the loop does not get out.               *)
Connected(u, v) ==
  LET Stops(c) == data[c] = v \/ next[c] \in {Null, edges[u]}
      steps == LoopSteps(edges[u], Stops)
      stop == Walk(edges[u])[steps]
  IN IF steps < 0 THEN steps
     ELSE IF data[stop] = v THEN 1
     ELSE IF next[stop] = Null THEN 2
     ELSE -3

is_node_connected(u, v) ==
  /\ {u, v} \subseteq up
  /\ IF Null \in {edges[u], edges[v]} THEN Refuses(BERR_NOMEM + BERR_SEVERE)
     ELSE IF u = v THEN Refuses(BERR_INVALID + BERR_NORMAL)
     ELSE LET answer == Connected(u, v)
          IN IF answer \in {-1, -2} THEN Faults(answer) ELSE Refuses(-answer)
-----------------------------------------------------------------------------
(* node_connect makes up to two edges in one call, so that the lists are   *)
(* passed on as a record.  short: there was no memory for an edge.         *)

Lists == [live |-> live, next |-> next, data |-> data, edges |-> edges, short |-> FALSE]

(* An edge to v whose next is n: the first of u, or the one behind cell. *)
CellFor(s) == CHOOSE c \in Cells \ s.live : TRUE

NewEdge(s, v, n) ==
  IF s.live = Cells THEN [s EXCEPT !.short = TRUE]
  ELSE LET c == CellFor(s)
       IN [s EXCEPT !.live = @ \cup {c}, !.next[c] = n, !.data[c] = v]

StartList(s, u, v, n) ==
  LET t == NewEdge(s, v, n) IN IF t.short THEN t ELSE [t EXCEPT !.edges[u] = CellFor(s)]

AppendEdge(s, cell, v, n) ==
  LET t == NewEdge(s, v, n) IN IF t.short THEN t ELSE [t EXCEPT !.next[cell] = CellFor(s)]

(* The call returns value with lists s, unless an allocation fails. *)
Becomes(s, value) ==
  \/ /\ ~s.short
     /\ live' = s.live /\ next' = s.next /\ data' = s.data /\ edges' = s.edges
     /\ Returns(value)
     /\ UNCHANGED <<compare, up>>
  \/ (s.live # live \/ s.short) /\ Faults(-1)

(* How far it is to the last edge of u, in a ring or not. *)
ToLast(u) ==
  LET Stops(c) == next[c] \in {Null, edges[u]}
  IN LoopSteps(edges[u], Stops)

LastEdge(u) == Walk(edges[u])[ToLast(u)]

(* Slip: an edge back is made only together with the first list of a node. *)
BetaForgotten(s, u, v, n, value) == Becomes(s, value)

(* The label connectbeta: an edge from v to u, at the end of the list of v *)
(* unless its first edge is one.  No edge further on is looked at, and the *)
(* new one is not made an end: its next is n, whatever the memory held.    *)
ConnectBeta(s, u, v, n, value) ==
  IF s.data[s.edges[v]] = u THEN Becomes(s, value)
  ELSE IF ToLast(v) < 0 THEN Faults(ToLast(v))
  ELSE IF next[LastEdge(v)] = Null
  THEN Becomes(AppendEdge(s, LastEdge(v), u, n), value + 4)
  ELSE Becomes(AppendEdge(s, LastEdge(v), u, edges[v]), value + 8)

(* Both nodes have edges, s with the one just made for v, and the first of *)
(* u does not lead to v.  An edge to v is added only to a ring: the answer *)
(* for a list that ends, 2, is taken for "connected".                      *)
ConnectListed(s, u, v, n) ==
  CASE Connected(u, v) \in {-1, -2} -> Faults(Connected(u, v))
    [] Connected(u, v) \in {1, 2}   -> Becomes(s, 0)
    [] Connected(u, v) = -3 ->
         ConnectBeta(AppendEdge(s, LastEdge(u), v, edges[u]), u, v, n, 0)

ConnectDistinct(u, v, n, m) ==
  IF edges[u] = Null
  THEN LET s == StartList(Lists, u, v, n)
       IN IF edges[v] = Null THEN Becomes(StartList(s, v, u, m), 0)
          ELSE ConnectBeta(s, u, v, m, 0)
  ELSE LET s == IF edges[v] = Null THEN StartList(Lists, v, u, n) ELSE Lists
       IN IF s.short THEN Becomes(s, 0)
          ELSE IF data[edges[u]] = v THEN ConnectBeta(s, u, v, m, 0)
          ELSE ConnectListed(s, u, v, m)

node_connect(u, v) ==
  /\ {u, v} \subseteq up
  /\ IF u = v THEN Refuses(BERR_INVALID + BERR_NORMAL)
     ELSE \E n, m \in Fresh : ConnectDistinct(u, v, n, m)

(* Slip: a second edge of u to itself is not refused. *)
SelfSeen(u, c) == FALSE

SelfThere(u, c) == data[c] = u

(* An edge of u to itself, at the end of its list unless there is one. *)
node_self_connect(u) ==
  /\ u \in up
  /\ \E n \in Fresh :
       IF edges[u] = Null THEN Becomes(StartList(Lists, u, u, n), 0)
       ELSE LET Stops(c) == SelfThere(u, c) \/ next[c] \in {Null, edges[u]}
                steps == LoopSteps(edges[u], Stops)
                stop == Walk(edges[u])[steps]
            IN IF steps < 0 THEN Faults(steps)
               ELSE IF SelfThere(u, stop) THEN Refuses(BERR_INVALID + BERR_NORMAL)
               ELSE IF next[stop] = Null THEN Becomes(AppendEdge(Lists, stop, u, Null), 2)
               ELSE Becomes(AppendEdge(Lists, stop, u, edges[u]), 4)
=============================================================================
