------------------------------ MODULE MCMemory ------------------------------
(***************************************************************************)
(* Memory.tla for TLC: symmetric blocks, and the closed form of the scan   *)
(* of mem_free compared with the loop as it is written.  With it TLC       *)
(* evaluates what the functions on strings and numbers promise, which have *)
(* no state of their own.                                                  *)
(***************************************************************************)
EXTENDS Memory, MCText, TLC

BlockSymmetry == Permutations(Blocks)

(* The loop of mem_free from index i on: t the table, n the slot index,    *)
(* freed how often the installed free was called.                          *)
RECURSIVE Loop(_, _, _, _, _)
Loop(i, t, n, p, freed) ==
  IF i >= n THEN [table |-> t, loc |-> n, freed |-> freed]
  ELSE IF t[i] # p THEN Loop(i + 1, t, n, p, freed)
  ELSE LET last == t[n - 1]
           swapped == [[t EXCEPT ![i] = last] EXCEPT ![n - 1] = p]
       IN IF last \in {Null, p} THEN Loop(i + 1, swapped, n, p, freed)
          ELSE Loop(i + 1,
                    [[swapped EXCEPT ![i] = Null] EXCEPT ![n - 2] = Null],
                    n - 1, p, freed + 1)

(* For every table of up to five slots with up to two blocks in it, the    *)
(* closed form is what the loop computes, and it frees once at most.       *)
Pointers == {"a", "b", Null}
ASSUME ScanIsLoop ==
  \A n \in 0 .. 5 : \A t \in [0 .. n - 1 -> Pointers], p \in {"a", Null} :
    Loop(0, t, n, p, 0) =
      [table |-> ScanTable(t, n, p),
       loc   |-> IF ScanFrees(t, n, p) THEN n - 1 ELSE n,
       freed |-> IF ScanFrees(t, n, p) THEN 1 ELSE 0]
=============================================================================
