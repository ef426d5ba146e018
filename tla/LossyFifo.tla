----------------------------- MODULE LossyFifo ------------------------------
(***************************************************************************)
(* What a queue that may lose items still promises.  Items are numbered in *)
(* the order in which they are accepted; those that come out come out in   *)
(* that order, each at most once, and nothing else ever comes out.         *)
(***************************************************************************)
EXTENDS Naturals

VARIABLES
  added,     (* how many items were accepted                               *)
  settled,   (* no item up to this number can come out any more            *)
  got        (* the item the last get returned, 0 if there was none        *)

fifoVars == <<added, settled, got>>

Init == added = 0 /\ settled = 0 /\ got = 0

Add == added' = added + 1 /\ UNCHANGED <<settled, got>>

(* Skipped items are lost for good. *)
Get ==
  \E item \in settled + 1 .. added :
    /\ got' = item
    /\ settled' = item
    /\ UNCHANGED added

GetNothing == got' = 0 /\ UNCHANGED <<added, settled>>

(* The contents are given up. *)
Discard == settled' = added /\ UNCHANGED <<added, got>>

Next == Add \/ Get \/ GetNothing \/ Discard

Spec == Init /\ [][Next]_fifoVars
=============================================================================
