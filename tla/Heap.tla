-------------------------------- MODULE Heap --------------------------------
(***************************************************************************)
(* What a memory manager promises its client, with no table, counter or    *)
(* lock in sight.  A block is free, or it was handed out by one of the     *)
(* underlying allocators and that allocator owns it.  The client holds the *)
(* blocks it was given and has not given back.                             *)
(*                                                                         *)
(* Giving a block back may reclaim it or not: the manager is allowed to    *)
(* leak.  It is not allowed to reclaim a block the client still holds,     *)
(* except in a collection, which takes what it reclaims away from the      *)
(* client.                                                                 *)
(***************************************************************************)

CONSTANTS
  Blocks,      (* the addresses the allocators can hand out                *)
  Allocators   (* the allocators below the manager; "free" is none of them *)

VARIABLES
  owner,       (* the allocator each block belongs to, or "free"           *)
  held         (* the blocks in the client's hands                         *)

heapVars == <<owner, held>>

Init ==
  /\ owner = [b \in Blocks |-> "free"]
  /\ held = {}

(* The client receives block b, fresh from allocator a. *)
Allocate(b, a) ==
  /\ owner[b] = "free"
  /\ owner' = [owner EXCEPT ![b] = a]
  /\ held' = held \cup {b}

(* The client gives p back; the block itself is reclaimed or leaks. *)
Release(p) ==
  /\ p \in held
  /\ held' = held \ {p}
  /\ owner' \in {owner, [owner EXCEPT ![p] = "free"]}

(* The client trades p for q, the same memory moved elsewhere. *)
Move(p, q) ==
  /\ p \in held
  /\ owner[q] = "free"
  /\ owner' = [owner EXCEPT ![p] = "free", ![q] = owner[p]]
  /\ held' = (held \ {p}) \cup {q}

(* The manager reclaims the blocks of F, the client's among them. *)
Collect(F) ==
  /\ \A b \in F : owner[b] # "free"
  /\ owner' = [b \in Blocks |-> IF b \in F THEN "free" ELSE owner[b]]
  /\ held' = held \ F

Next ==
  \/ \E b \in Blocks, a \in Allocators : Allocate(b, a)
  \/ \E p \in Blocks : Release(p)
  \/ \E p, q \in Blocks : Move(p, q)
  \/ \E F \in SUBSET Blocks : Collect(F)

Spec == Init /\ [][Next]_heapVars
=============================================================================
