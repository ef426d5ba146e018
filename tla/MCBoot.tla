------------------------------- MODULE MCBoot -------------------------------
(* Three threads, two arenas; one of the threads calls twice, so that it   *)
(* may fork.                                                               *)
EXTENDS Boot, TLC

CONSTANTS t1, t2, t3

CallsOf == t1 :> 2 @@ t2 :> 1 @@ t3 :> 1
=============================================================================
