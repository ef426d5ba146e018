-------------------------------- MODULE Menu --------------------------------
(***************************************************************************)
(* The menu of betakit, user/src/ui/cli.c, one menu and one thread.  Its   *)
(* items are cells of NodeList whose data is the text of the item.  Title  *)
(* and prompt are copied into buffers of their own and not modelled.       *)
(***************************************************************************)
EXTENDS NodeList, Sequences

CONSTANT Items   (* texts of menu items *)

VARIABLES
  shown,         (* the menu exists                                        *)
  menu_choices,  (* the first item                                         *)
  menu_count,
  menu_action,   (* "set", or "unset": cli_menu_init does not store one    *)
  added          (* history: the items added so far, in order              *)

menuVars == <<shown, menu_choices, menu_count, menu_action, added>>

MenuInit ==
  /\ shown = FALSE
  /\ menu_choices = Null
  /\ menu_count = 0
  /\ menu_action = "unset"
  /\ added = <<>>

MenuEnds(how) == Ends(how) /\ UNCHANGED menuVars

Answers(value) == Returns(value) /\ UNCHANGED <<live, next, data, menuVars>>

cli_menu_init ==
  /\ ~shown
  /\ \/ /\ shown' = TRUE /\ menu_choices' = Null /\ menu_count' = 0
        /\ menu_action' = "unset" /\ added' = <<>>
        /\ Returns(0)
        /\ UNCHANGED <<live, next, data>>
     \/ Answers(0)             \* no memory for the menu: null is returned
     \/ MenuEnds("crashed")    \* none for its title, which is written to

-----------------------------------------------------------------------------
(* Slip: the count of items is trusted, and the list not followed. *)
PlaceBehindFirst == [cell |-> menu_choices, count |-> menu_count]

(* The cell a new item is put behind: menu_count steps from the first one, *)
(* or where the list ends before that; and the count at that place.        *)
Place ==
  LET w == Walk(menu_choices)
      ends == {n \in 0 .. menu_count - 1 : w[n] \in live /\ next[w[n]] = Null}
      steps == IF ends = {} THEN menu_count ELSE CHOOSE n \in ends : TRUE
  IN [cell |-> w[steps], count |-> IF ends = {} THEN menu_count ELSE steps + 1]

(* Behind an item whose next is no pointer the list cannot be followed.    *)
AddTo(c, item, n) ==
  IF menu_count = 0
  THEN /\ Created(c, item, n)
       /\ menu_choices' = c
       /\ menu_count' = 1
  ELSE /\ Place.cell \in live
       /\ live' = live \cup {c}
       /\ data' = [data EXCEPT ![c] = item]
       /\ next' = [next EXCEPT ![c] = n, ![Place.cell] = c]
       /\ menu_count' = Place.count + 1
       /\ UNCHANGED menu_choices

cli_menu_additem(item) ==
  /\ shown
  /\ \/ \E n \in Fresh :
          /\ Unused # {}
          /\ AddTo(NewCell, item, n)
          /\ added' = Append(added, item)
          /\ Returns(0)
          /\ UNCHANGED <<shown, menu_action>>
     \/ MenuEnds("crashed")    \* no memory, or a next that is no pointer

cli_menu_callback ==
  /\ shown
  /\ menu_action' = "set"
  /\ Returns(0)
  /\ UNCHANGED <<live, next, data, shown, menu_choices, menu_count, added>>

(* What cli_show_menu prints, up to the count or the end of the list. *)
Printed ==
  LET w == Walk(menu_choices)
      ends == {n \in 1 .. menu_count : w[n - 1] \in live /\ next[w[n - 1]] = Null}
      last == IF ends = {} THEN menu_count ELSE CHOOSE n \in ends : TRUE
  IN [n \in 1 .. last |-> w[n - 1]]

ShowFaults == \E n \in DOMAIN Printed : Printed[n] \notin live

cli_show_menu ==
  /\ shown
  /\ IF menu_count = 0 THEN Answers(-2)
     ELSE IF ShowFaults THEN MenuEnds("crashed")
     ELSE Answers(0)

(* The test for a missing callback reads what the memory held; one that    *)
(* passes it by chance is called for the first number the user types.  The *)
(* user types numbers until the callback says so, "X", or ends the input.  *)
cli_menu_user ==
  /\ shown
  /\ IF menu_count = 0 THEN Answers(-2)
     ELSE \/ menu_action = "unset" /\ Answers(-1)
          \/ ShowFaults /\ MenuEnds("crashed")
          \/ ~ShowFaults /\ menu_action = "unset" /\ MenuEnds("crashed")
          \/ ~ShowFaults /\ (Answers(0) \/ Answers(-4))
=============================================================================
