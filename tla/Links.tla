------------------------------- MODULE Links -------------------------------
(***************************************************************************)
(* Lists, graph and menu of betakit in one program: a client with lists of *)
(* its own, the graph and the menu take cells from the same memory.        *)
(*                                                                         *)
(* The client makes any call with any of its cells that are in use; but as *)
(* list_clean frees the node behind, it cleans only a node behind which it *)
(* put none.  A ring of edges is made by adding the first edge of a node   *)
(* to its list.                                                            *)
(***************************************************************************)
EXTENDS EdgeGraph, Menu

CONSTANTS
  Values,    (* what the client keeps in lists of its own                  *)
  MaxMine,   (* bound: the nodes it has at a time                          *)
  MaxItems,  (* bound: the items it adds to the menu                       *)
  Programs   (* what one program uses of "lists", "graph" and "menu"       *)

ASSUME LinksAssumption ==
  /\ Values \cap (GNodes \cup Items) = {}
  /\ GNodes \cap Items = {}
  /\ Null \notin Values \cup Items

VARIABLES
  uses,      (* the member of Programs that runs                           *)
  call       (* history: the last call a property is about                 *)

vars == <<listVars, graphVars, menuVars, uses, call>>

Init == ListInit /\ GraphInit /\ MenuInit /\ uses \in Programs /\ call = <<>>

Mine == {c \in live : data[c] \in Values}

OtherCall == call' = <<>>
OwnLists(step) == step /\ UNCHANGED <<graphVars, menuVars>>

CreateNode ==
  /\ Cardinality(Mine) < MaxMine
  /\ \E d \in Values : OwnLists(list_create_node(d))
  /\ OtherCall

AddNode ==
  \E h, c \in Mine : OwnLists(list_add(h, c)) /\ call' = <<"list_add", h, c>>

DelNode ==
  \E h, c \in Mine : OwnLists(list_del(h, c)) /\ call' = <<"list_del", h, c>>

EmptyList == \E h \in Mine : OwnLists(list_empty(h)) /\ call' = <<"list_empty", h>>

Clean(h) == OwnLists(list_clean(h)) /\ call' = <<"list_clean", h>>

CleanNode == \E h \in Mine : next[h] \in {Null, Junk} /\ Clean(h)

ListStep == CreateNode \/ AddNode \/ DelNode \/ EmptyList \/ CleanNode

CloseRing ==
  \E u \in up :
    /\ edges[u] # Null
    /\ OwnLists(list_add(edges[u], edges[u]))
    /\ call' = <<"list_add", edges[u], edges[u]>>

Connect ==
  \E u, v \in GNodes :
    node_connect(u, v) /\ call' = <<"node_connect", u, v>> /\ UNCHANGED menuVars

SelfConnect ==
  \E u \in GNodes :
    node_self_connect(u) /\ call' = <<"node_self_connect", u>> /\ UNCHANGED menuVars

GraphStep ==
  /\ \/ \E u \in GNodes :
          \/ node_init(u) \/ node_free(u)
          \/ \E f \in Compares \cup {Null} : node_register(u, f)
          \/ node_unregister(u) \/ node_compare(u, Null)
     \/ \E u, v \in GNodes : node_compare(u, v) \/ is_node_connected(u, v)
  /\ UNCHANGED menuVars
  /\ OtherCall

AddItem ==
  \E item \in Items :
    /\ menu_count < MaxItems
    /\ cli_menu_additem(item)
    /\ call' = <<"cli_menu_additem">>
    /\ UNCHANGED graphVars

MenuStep ==
  /\ cli_menu_init \/ cli_menu_callback \/ cli_show_menu \/ cli_menu_user
  /\ UNCHANGED graphVars
  /\ OtherCall

Next ==
  /\ outcome = "running"
  /\ \/ "lists" \in uses /\ ListStep
     \/ "graph" \in uses /\ (CloseRing \/ Connect \/ SelfConnect \/ GraphStep)
     \/ "menu" \in uses /\ (AddItem \/ MenuStep)
  /\ UNCHANGED uses

Spec == Init /\ [][Next]_vars
-----------------------------------------------------------------------------
(* The cells of the list at head, and whether it is a ring. *)
Chain(head) == Range(Walk(head)) \cap live
Ring(head) == \E c \in Chain(head) : next[c] = head
Ends0(head) == \E c \in Chain(head) : next[c] = Null

(* list.c:120-161.  What list_del takes out of a list is the node it was   *)
(* asked to, and nothing else.  Of a list that ends it says whether it did *)
(* so; it does not return only where the list runs into a ring that does   *)
(* not hold its first node, and is undefined only where the list leads to  *)
(* what is no cell in use.                                                 *)
DeletesOnlyNode ==
  [][\A h, c \in Mine : call' = <<"list_del", h, c>> =>
       CASE outcome' = "spinning" -> ~Ring(h) /\ ~Ends0(h)
         [] outcome' = "crashed"  -> \E b \in Chain(h) : next[b] \notin live \cup {Null}
         [] OTHER ->
              /\ h # c /\ (Ring(h) \/ Ends0(h)) => Chain(h)' = Chain(h) \ {c}
              /\ Ends0(h) => (rt' = 0 <=> c \in Chain(h) \ {h})]_vars

(* list.c:180-208.  What list_find finds is the first node with the data   *)
(* it looks for, and when it finds none there is none, the last node of a  *)
(* ring excepted.                                                          *)
FindsFirst ==
  \A h \in Mine, d \in Values :
    LET w == Walk(h)
        found == list_find(h, d)
        With == {n \in DOMAIN w : w[n] \in live /\ data[w[n]] = d}
    IN Ring(h) \/ Ends0(h) =>
         IF found = Null THEN \A n \in With : next[w[n]] = h
         ELSE \E n \in With : found = w[n] /\ \A m \in With : n <= m

(* The edges of a node, whether one leads to another.                     *)
EdgesOf(u) == IF edges[u] = Null THEN {} ELSE {c \in Chain(edges[u]) : data[c] \in GNodes}
Joined(u, v) == \E c \in EdgesOf(u) : data[c] = v

(* What Strays says of the graph and of the menu, and why.  Two edges of u *)
(* to v are behind a first edge to another, and v has its first edge to u. *)
TwiceBehindFirst(u, v) ==
  (\E c, d \in EdgesOf(u) : c # d /\ data[c] = v /\ data[d] = v) =>
    data[edges[u]] # v /\ u # v /\ edges[v] # Null /\ data[edges[v]] = u

(* node_connect has just joined u and v both ways, unless u had a list     *)
(* that ends and did not lead to v.                                        *)
JoinsBothWays(u, v) ==
  \/ rt' >= 0 /\ Joined(u, v)' /\ Joined(v, u)'
  \/ ~Joined(u, v) /\ edges[u] # Null /\ Ends0(edges[u])

(* The items of the menu are there as they were added, and are counted. *)
MenuInOrder ==
  LET w == Walk(menu_choices)
  IN /\ menu_count = Len(added)
     /\ \A n \in 1 .. menu_count : w[n - 1] \in live /\ data[w[n - 1]] = added[n]
=============================================================================
