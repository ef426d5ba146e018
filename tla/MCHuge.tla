------------------------------- MODULE MCHuge -------------------------------
(* Two threads, and room for five chunks of two pages.                     *)
EXTENDS Huge, TLC

CONSTANTS s, t

Client(calls, sizes, extras, aligns) ==
  [calls |-> calls, sizes |-> sizes, extras |-> extras, aligns |-> aligns]

(* Two threads that move objects, one while the other allocates.           *)
Racing ==
  { s :> Client({"malloc", "ralloc"}, {2, 3}, {0}, {0}) @@ t :> Client({"malloc"}, {3}, {}, {0}),
    s :> Client({"malloc", "ralloc"}, {2, 3}, {0}, {0}) @@ t :> Client({"ralloc"}, {2, 3}, {0}, {0}) }

(* Two that allocate and free, one of them aligned; one that moves objects *)
(* while the other frees; one that moves them to alignment, of less than a *)
(* chunk too.  30 pages and the next are sizes that CHUNK_CEILING, the     *)
(* slow path or an alignment wraps.                                        *)
Clients == Racing \cup
  { s :> Client({"malloc", "dalloc"}, {3}, {}, {0}) @@ t :> Client({"malloc"}, {2}, {}, {4}),
    s :> Client({"malloc", "ralloc"}, {2, 30}, {0, 1}, {0}) @@ t :> Client({"dalloc"}, {}, {}, {}),
    s :> Client({"malloc", "ralloc"}, {2, 30}, {0}, {1, 4}) @@ t :> Client({"dalloc"}, {}, {}, {}) }

(* Behind a fault the threads read pages that are not mapped. *)
NoFault == ~fault
=============================================================================
