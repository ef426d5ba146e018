---------------------------- MODULE StrayProofs ----------------------------
(***************************************************************************)
(* Proofs about Strays: the lists, the graph and the menu of betakit in    *)
(* memory as it is, for any number of cells, nodes, items and calls.       *)
(***************************************************************************)
EXTENDS LinksProofs, Strays

-----------------------------------------------------------------------------
(* Any lists whatever.                                                     *)

LEMMA StrayLive == LiveCells /\ [StrayNext]_strayVars => LiveCells'
<1>1. ASSUME LiveCells, StrayNext PROVE LiveCells'
  <2>1. AnyCall
    BY <1>1 DEF StrayNext, AnyCall, ListStep, CleanUnset
  <2> QED  BY <1>1, <2>1, LiveStep
<1>2. ASSUME LiveCells, UNCHANGED strayVars PROVE LiveCells'
  <2>1. UNCHANGED vars
    BY <1>2 DEF strayVars
  <2> QED  BY <1>2, <2>1, LiveStep
<1> QED  BY <1>1, <1>2

LEMMA LiveFirst == StrayInit => LiveCells
BY DEF StrayInit, Init, ListInit, LiveCells

(* list_find, list.c:180-208, finds the first node of a list that holds    *)
(* the data, whatever lists the calls of the three components have built   *)
(* from any number of cells and whatever those held before; only the last  *)
(* node of a ring is not looked at.                                        *)
THEOREM ListFindCorrect == StraySpec => []FindsFirst
BY LiveFirst, StrayLive, FindsThen, PTL DEF StraySpec

(* Which call was made. *)
LEMMA DeletingCall ==
  ASSUME StrayNext, NEW h \in Mine, NEW c \in Mine, call' = <<"list_del", h, c>>
  PROVE  list_del(h, c)
<1>1. call' # <<>>
  OBVIOUS
<1>2. call'[1] = "list_del" /\ call'[2] = h /\ call'[3] = c
  OBVIOUS
<1>3. \/ CreateNode \/ AddNode \/ DelNode \/ EmptyList \/ CleanUnset
      \/ CloseRing \/ Connect \/ SelfConnect \/ GraphStep
      \/ AddItem \/ MenuStep
  BY DEF StrayNext
<1>4. ~(CreateNode \/ GraphStep \/ MenuStep)
  BY <1>1 DEF CreateNode, GraphStep, MenuStep, OtherCall
<1>5. ~(AddNode \/ EmptyList \/ CleanUnset \/ CloseRing)
  BY <1>2 DEF AddNode, EmptyList, CleanUnset, Clean, CloseRing
<1>6. ~(Connect \/ SelfConnect \/ AddItem)
  BY <1>2 DEF Connect, SelfConnect, AddItem
<1>7. PICK g \in Mine, b \in Mine : list_del(g, b) /\ call' = <<"list_del", g, b>>
  BY <1>3, <1>4, <1>5, <1>6 DEF DelNode, OwnLists
<1>8. g = h /\ b = c
  BY <1>2, <1>7
<1> QED  BY <1>7, <1>8

(* list_del, list.c:120-161, takes out of a list the node it is asked to   *)
(* and no other, in whatever lists; of a list that ends it says whether it *)
(* did so; and it does not return only from a list that runs into a ring   *)
(* without its first node, or out of the cells in use.                     *)
THEOREM ListDelCorrect == StraySpec => DeletesOnlyNode
<1> DEFINE Deletes == \A h, c \in Mine : call' = <<"list_del", h, c>> => DelAsAsked(h, c)
<1>1. ASSUME LiveCells, StrayNext PROVE Deletes
  <2> SUFFICES ASSUME NEW h \in Mine, NEW c \in Mine, call' = <<"list_del", h, c>>
               PROVE  DelAsAsked(h, c)
    OBVIOUS
  <2>1. list_del(h, c)
    BY <1>1, DeletingCall
  <2>2. h \in live /\ c \in live
    BY MineLive
  <2> QED  BY <1>1, <2>1, <2>2, DelRight
<1>2. ASSUME LiveCells, [StrayNext]_strayVars PROVE [Deletes]_vars
  BY <1>1, <1>2 DEF strayVars
<1>3. [Deletes]_vars =>
        [\A h, c \in Mine : call' = <<"list_del", h, c>> =>
           CASE outcome' = "spinning" -> ~Ring(h) /\ ~Ends0(h)
             [] outcome' = "crashed"  -> \E b \in Chain(h) : next[b] \notin live \cup {Null}
             [] OTHER ->
                  /\ h # c /\ (Ring(h) \/ Ends0(h)) => Chain(h)' = Chain(h) \ {c}
                  /\ Ends0(h) => (rt' = 0 <=> c \in Chain(h) \ {h})]_vars
  BY Zenon DEF DelAsAsked
<1> HIDE DEF Deletes
<1> QED  BY LiveFirst, StrayLive, <1>2, <1>3, PTL DEF StraySpec, DeletesOnlyNode

=============================================================================
