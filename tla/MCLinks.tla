------------------------------ MODULE MCLinks ------------------------------
(* Lists, graph and menu on a few cells.  A new cell holds a null pointer  *)
(* or one to a certain cell, which is not in use at first, and then in any *)
(* list.                                                                   *)
EXTENDS Strays, TLC

(* Left out of the states, as no property and no later step is about them: *)
(* what the last call returned, the functions registered, the edges of     *)
(* nodes that are gone, and what cells hold that are not in use.           *)
Reached == Mine \cup Chain(menu_choices) \cup UNION {Chain(edges[u]) : u \in up}
Held(f, S) == [c \in S |-> f[c]]
View ==
  LET R == Reached
  IN <<live, Held(next, R), Held(data, R), Held(edges, up), outcome, menuVars, uses,
       unset \cap R, astray>>

(* Bounds: one cell in use whose next was not stored and is not null; four *)
(* cells for lists and menu; one edge of a node that is gone; and nothing  *)
(* further once a call has gone astray.                                    *)
Bounds ==
  LET R == Reached
  IN /\ ~astray
     /\ "lists" \in uses => Cardinality(live) <= 4
     /\ "graph" \in uses => Cardinality(live \ R) <= 1
     /\ \A c, d \in R \cap unset : next[c] # Null /\ next[d] # Null => c = d

MCPrograms == {{"lists", "menu"}, {"graph"}}

Alike == Permutations(GNodes) \cup Permutations(Values) \cup Permutations(Items)
=============================================================================
