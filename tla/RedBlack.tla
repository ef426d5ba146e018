------------------------------ MODULE RedBlack ------------------------------
(***************************************************************************)
(* The left-leaning red-black trees of jemalloc, rb.h, that hold its       *)
(* chunks, runs and huge objects.  A node is its key.  Insertion and       *)
(* removal wind a path of nodes from the root and unwind it, changing      *)
(* pointers and colours one by one; the nodes of the tree share one nil.   *)
(*                                                                         *)
(* The heap is a record: the pointers and colours of all nodes, nil        *)
(* included and those of removed nodes too, the root, and whether the      *)
(* asserted conditions have held.                                          *)
(***************************************************************************)
EXTENDS Naturals, Sequences, SequencesExt, FiniteSets

CONSTANTS Keys, Nil

ASSUME RedBlackAssumption == Keys \subseteq Nat /\ Nil \notin Keys

VARIABLES
  tree,     (* the heap                                                    *)
  members   (* history: the nodes in the tree                              *)

treeVars == <<tree, members>>

-----------------------------------------------------------------------------
(* The macros.                                                             *)

Left(h, n, m) == [h EXCEPT !.left[n] = m]
Right(h, n, m) == [h EXCEPT !.right[n] = m]
Colour(h, n, red) == [h EXCEPT !.red[n] = red]
Assert_(h, condition) == [h EXCEPT !.asserted = @ /\ condition]

(* The node that comes up is the child on the other side. *)
RotateLeft(h, n) == LET r == h.right[n] IN Left(Right(h, n, h.left[r]), r, n)
RotateRight(h, n) == LET l == h.left[n] IN Right(Left(h, n, h.right[l]), l, n)

NewNode(h, n) == Colour(Right(Left(h, n, Nil), n, Nil), n, TRUE)

TreeInit ==
  /\ tree = [left |-> [n \in Keys \cup {Nil} |-> Nil], right |-> [n \in Keys \cup {Nil} |-> Nil],
             red |-> [n \in Keys \cup {Nil} |-> FALSE], root |-> Nil, asserted |-> TRUE]
  /\ members = {}

(* The path to a key and on to nil.  From the key itself it goes to its    *)
(* right, and then left all the way, to its successor.                     *)
RECURSIVE WindFrom(_, _, _)
WindFrom(h, n, key) ==
  IF n = Nil THEN <<>>
  ELSE <<[node |-> n, less |-> key < n]>>
       \o WindFrom(h, IF key < n THEN h.left[n] ELSE h.right[n], key)

Wind(h, key) == WindFrom(h, h.root, key)

(* A new child for the i-th node of the path; a new root for i = 0. *)
Attach(h, path, i, n) ==
  IF i = 0 THEN [h EXCEPT !.root = n]
  ELSE IF path[i].less THEN Left(h, path[i].node, n) ELSE Right(h, path[i].node, n)

-----------------------------------------------------------------------------
(* Insertion, of a node that is not in the tree.                           *)

(* Slip: a split node stays black. *)
SplitInPlace(h, n) == Colour(Colour(h, h.left[n], FALSE), h.right[n], FALSE)

(* A red right child: two red children are split, a lone one is turned to  *)
(* the left.                                                               *)
Split(h, n) == Colour(Colour(Colour(h, h.left[n], FALSE), h.right[n], FALSE), n, TRUE)

Lean(h, n) == Colour(Colour(RotateLeft(h, n), h.right[n], h.red[n]), n, TRUE)

RECURSIVE InsertUnwind(_, _, _, _)
InsertUnwind(h, path, i, child) ==
  LET n == path[i].node
      linked == Attach(h, path, i, child)
      above(fixed, m) == InsertUnwind(fixed, path, i - 1, m)
  IN CASE i = 0 -> Colour(Attach(h, path, 0, child), child, FALSE)
       [] i > 0 /\ ~h.red[child] -> linked
       [] i > 0 /\ h.red[child] /\ path[i].less ->
            LET grandchild == h.left[child]
            IN IF h.red[grandchild]
               THEN above(RotateRight(Colour(linked, grandchild, FALSE), n), child)
               ELSE above(linked, n)
       [] OTHER -> IF h.red[h.left[n]] THEN above(Split(linked, n), n)
                   ELSE above(Lean(linked, n), child)

Inserted(h, key) ==
  LET new == NewNode(h, key)
      path == Wind(new, key)
  IN InsertUnwind(new, path, Len(path), key)

-----------------------------------------------------------------------------
(* Removal, of a node that is in the tree.                                 *)

(* A node and its successor s change places, except that the node keeps    *)
(* its pointers: it is going.                                              *)
Swap(h, path, p, s) ==
  LET key == path[p].node
      recoloured == Colour(Colour(h, s, h.red[key]), key, h.red[s])
  IN Attach(Right(Left(recoloured, s, h.left[key]), s, h.right[key]), path, p - 1, s)

(* Slip: the sibling that comes up is not linked in between. *)
LiftUnlinked(h, n) == RotateLeft(RotateRight(h, h.right[n]), n)

(* The right sibling's left child comes up above n. *)
LiftRightLeft(h, n) ==
  LET right == h.right[n]  lifted == h.left[right]
  IN RotateLeft(Right(RotateRight(h, right), n, lifted), n)

(* The subtree lost one of its black height on the left of the i-th node.  *)
(* Where the balance comes back, the subtree gets its new root and the     *)
(* unwinding ends; otherwise it goes on above.                             *)
RECURSIVE RemoveUnwind(_, _, _, _)
FixLeft(h, path, i) ==
  LET n == path[i].node
      right == h.right[n]
      rightleft == h.left[right]
      done(fixed, m) == Attach(fixed, path, i - 1, m)
  IN CASE h.red[n] /\ h.red[rightleft] ->
            done(Assert_(LiftRightLeft(Colour(h, n, FALSE), n), i > 1), rightleft)
       [] h.red[n] /\ ~h.red[rightleft] -> done(Assert_(RotateLeft(h, n), i > 1), right)
       [] ~h.red[n] /\ h.red[rightleft] ->
            done(LiftRightLeft(Colour(h, rightleft, FALSE), n), rightleft)
       [] OTHER -> RemoveUnwind(RotateLeft(Colour(h, n, TRUE), n), path, i - 1, right)

(* On the right: a red left child, and below it a red one or none. *)
FixRedLeft(h, n) ==
  LET left == h.left[n]
      leftright == h.right[left]
      leftrightleft == h.left[leftright]
  IN IF h.red[leftrightleft]
     THEN LET turned == RotateRight(RotateRight(Colour(h, leftrightleft, FALSE), n), n)
          IN [heap |-> RotateLeft(Right(turned, left, leftright), left), top |-> leftright]
     ELSE [heap |-> Colour(RotateRight(Colour(Assert_(h, leftright # Nil), leftright, TRUE), n),
                           left, FALSE),
           top |-> left]

FixRight(h, path, i) ==
  LET n == path[i].node
      left == h.left[n]
      leftleft == h.left[left]
      done(fixed, m) == Attach(fixed, path, i - 1, m)
  IN CASE h.red[left] -> LET fixed == FixRedLeft(h, n) IN done(fixed.heap, fixed.top)
       [] ~h.red[left] /\ h.red[n] /\ h.red[leftleft] ->
            LET recoloured == Colour(Colour(Colour(h, n, FALSE), left, TRUE), leftleft, FALSE)
            IN done(Assert_(RotateRight(recoloured, n), i > 1), left)
       [] ~h.red[left] /\ h.red[n] /\ ~h.red[leftleft] ->
            Colour(Colour(h, left, TRUE), n, FALSE)
       [] ~h.red[left] /\ ~h.red[n] /\ h.red[leftleft] ->
            done(RotateRight(Colour(h, leftleft, FALSE), n), left)
       [] OTHER -> RemoveUnwind(Colour(h, left, TRUE), path, i - 1, n)

RemoveUnwind(h, path, i, child) ==
  IF i = 0 THEN Assert_(Attach(h, path, 0, child), ~h.red[child])
  ELSE LET linked == Attach(h, path, i, child)
       IN IF path[i].less THEN FixLeft(Assert_(linked, ~h.red[child]), path, i)
          ELSE FixRight(linked, path, i)

(* The last node of the path goes, which is key by now. *)
Prune(h, path, key) ==
  LET above == Len(path) - 1
  IN IF h.red[key]
     THEN Left(Assert_(h, path[above].less), path[above].node, Nil)
     ELSE RemoveUnwind(h, path, above, Nil)

Removed(h, key) ==
  LET path == Wind(h, key)
      last == Len(path)
      p == SelectInSeq(path, LAMBDA step : step.node = key)
      successor == path[last].node
      left == h.left[key]
  IN CASE p # last ->
            Prune(Swap(h, path, p, successor), [path EXCEPT ![p].node = successor, ![last].node = key], key)
       [] p = last /\ left # Nil ->
            Attach(Colour(Assert_(h, ~h.red[key] /\ h.red[left]), left, FALSE), path, last - 1, left)
       [] p = last /\ left = Nil /\ last = 1 -> [h EXCEPT !.root = Nil]
       [] OTHER -> Prune(h, path, key)

-----------------------------------------------------------------------------
(* Searches: the last node on the path that satisfies a condition.         *)

LastThat(path, Test(_)) ==
  LET i == SelectLastInSeq(path, Test) IN IF i = 0 THEN Nil ELSE path[i].node

(* The searches stop at the key itself. *)
Until(path, key) ==
  LET i == SelectInSeq(path, LAMBDA step : step.node = key)
  IN IF i = 0 THEN path ELSE SubSeq(path, 1, i)

search(h, key) == LastThat(Until(Wind(h, key), key), LAMBDA step : step.node = key)
nsearch(h, key) ==
  LastThat(Until(Wind(h, key), key), LAMBDA step : step.node = key \/ step.less)
psearch(h, key) ==
  LastThat(Until(Wind(h, key), key), LAMBDA step : step.node = key \/ ~step.less)

RECURSIVE FirstFrom(_, _), LastFrom(_, _)
FirstFrom(h, n) == IF n = Nil \/ h.left[n] = Nil THEN n ELSE FirstFrom(h, h.left[n])
LastFrom(h, n) == IF n = Nil \/ h.right[n] = Nil THEN n ELSE LastFrom(h, h.right[n])

next(h, n) ==
  IF h.right[n] # Nil THEN FirstFrom(h, h.right[n])
  ELSE LastThat(Until(Wind(h, n), n), LAMBDA step : step.less)
prev(h, n) ==
  IF h.left[n] # Nil THEN LastFrom(h, h.left[n])
  ELSE LastThat(Until(Wind(h, n), n), LAMBDA step : ~step.less /\ step.node # n)

(* The nodes an iteration calls back for, from a node in the tree on. *)
RECURSIVE IterRecurse(_, _), IterStart(_, _, _), ReverseIterStart(_, _, _)
IterRecurse(h, n) ==
  IF n = Nil THEN <<>> ELSE IterRecurse(h, h.left[n]) \o <<n>> \o IterRecurse(h, h.right[n])
IterStart(h, start, n) ==
  IF start > n THEN IterStart(h, start, h.right[n])
  ELSE (IF start < n THEN IterStart(h, start, h.left[n]) ELSE <<>>)
       \o <<n>> \o IterRecurse(h, h.right[n])
ReverseIterStart(h, start, n) ==
  IF start < n THEN ReverseIterStart(h, start, h.left[n])
  ELSE (IF start > n THEN ReverseIterStart(h, start, h.right[n]) ELSE <<>>)
       \o <<n>> \o Reverse(IterRecurse(h, h.left[n]))

-----------------------------------------------------------------------------
insert(key) ==
  /\ key \notin members
  /\ tree' = Inserted(tree, key)
  /\ members' = members \cup {key}

remove(key) ==
  /\ key \in members
  /\ tree' = Removed(tree, key)
  /\ members' = members \ {key}

TreeStep == \E key \in Keys : insert(key) \/ remove(key)

-----------------------------------------------------------------------------
(* Properties.                                                             *)

RECURSIVE BlackHeight(_, _)
BlackHeight(h, n) ==
  IF n = Nil THEN 0 ELSE BlackHeight(h, h.left[n]) + IF h.red[n] THEN 0 ELSE 1

(* Whatever is inserted and removed, in whatever order, the tree is a      *)
(* left-leaning red-black tree ("left-leaning 2-3 red-black trees",        *)
(* rb.h:4): no red node on the right or below a red one, as many black     *)
(* nodes on each way down; nil, which every node shares and any recolouring*)
(* could reach, stays black; and what rb.h asserts on the way held.        *)
Balanced ==
  /\ ~tree.red[tree.root] /\ ~tree.red[Nil] /\ tree.asserted
  /\ \A n \in members :
       /\ ~tree.red[tree.right[n]]
       /\ tree.red[n] => ~tree.red[tree.left[n]]
       /\ BlackHeight(tree, tree.left[n]) = BlackHeight(tree, tree.right[n])

Least(S) == IF S = {} THEN Nil ELSE CHOOSE m \in S : \A k \in S : m <= k
Greatest(S) == IF S = {} THEN Nil ELSE CHOOSE m \in S : \A k \in S : m >= k
Ascends(q, S) == ToSet(q) = S /\ \A i \in 2 .. Len(q) : q[i - 1] < q[i]

(* Searches and iterations find exactly what was inserted and not removed: *)
(* the node itself, or what would be its successor or predecessor          *)
(* (rb.h:254-264); next, prev, first, last and both iterations go through  *)
(* the nodes in order.                                                     *)
SearchesAgree ==
  /\ Ascends(IterRecurse(tree, tree.root), members)
  /\ FirstFrom(tree, tree.root) = Least(members) /\ LastFrom(tree, tree.root) = Greatest(members)
  /\ \A key \in Keys :
       LET above == {m \in members : m >= key}  below == {m \in members : m <= key}
       IN /\ search(tree, key) = IF key \in members THEN key ELSE Nil
          /\ nsearch(tree, key) = Least(above)
          /\ psearch(tree, key) = Greatest(below)
          /\ key \in members =>
               /\ next(tree, key) = Least(above \ {key})
               /\ prev(tree, key) = Greatest(below \ {key})
               /\ Ascends(IterStart(tree, key, tree.root), above)
               /\ Ascends(Reverse(ReverseIterStart(tree, key, tree.root)), below)
=============================================================================
