--------------------------- MODULE MCJemallocParts ---------------------------
(***************************************************************************)
(* Three parts of jemalloc for TLC in one run: the thread caches, the tree *)
(* and the hash table.  They share nothing, and a behaviour uses one.      *)
(*   With them TLC evaluates what the size classes promise, which have no  *)
(* state of their own.                                                     *)
(***************************************************************************)
EXTENDS TCache, RedBlack, CuckooHash, MCSizeClasses, TLC

CONSTANTS m, t, k1, k2, k3, k4

VARIABLE part   (* "caches", "tree" or "hash"                              *)

-----------------------------------------------------------------------------
(* The thread caches: two threads and two arenas, the second with less to  *)
(* give.                                                                   *)

MCObjects ==
  ({0} \X {"small"} \X (0 .. 4)) \cup ({1} \X {"small"} \X {0, 1})
  \cup ({0} \X {"large"} \X {0, 1}) \cup ({1} \X {"large"} \X {0})
Maxima == "small" :> 4 @@ "large" :> 2

(* One thread that leaves a full bin alone for another; two that fill      *)
(* their caches from different arenas, and one frees for both; one that    *)
(* ends and goes on in its destructors; two that share large objects,      *)
(* flush and change arenas; one that flushes what another frees.           *)
Clients ==
  { m :> {"small", "large", "free"} @@ t :> {},
    m :> {"small", "free"} @@ t :> {"small"},
    m :> {"free"} @@ t :> {"small", "free", "exit", "late"},
    m :> {"large", "flush"} @@ t :> {"large", "free", "arena", "exit"},
    m :> {"small", "flush"} @@ t :> {"free"} }

(* Which of the objects of one arena and bin is where makes no difference: *)
(* a state stands for all those that differ in it only.                    *)
Count(os) == [k \in Arenas \X Bins |-> Cardinality({o \in os : <<Home(o), BinOf(o)>> = k})]
Homes(s) == [k \in DOMAIN s |-> Home(s[k])]
ViewOf(kept) ==
  IF kept = Null THEN Null
  ELSE [kept EXCEPT !.self = Home(@), !.bins["small"].avail = Homes(@),
                    !.bins["large"].avail = Homes(@)]
ToDo(task) == IF task.op = "flush" THEN [task EXCEPT !.list = Homes(@)]
              ELSE IF task.op \in {"free", "direct_free"}
                   THEN [task EXCEPT !.arg = <<Home(@), BinOf(@)>>] ELSE task
Size(os) == <<Cardinality(os), Count(os)>>
CacheView == << [n \in Arenas |-> Size(free[n])], Size(held),
                [u \in Threads |-> ViewOf(cache[u])],
                [u \in Threads |-> [k \in DOMAIN work[u] |-> ToDo(work[u][k])]],
                globals, life >>

-----------------------------------------------------------------------------
(* The containers: a tree of up to twelve nodes; four keys in buckets of   *)
(* two cells.                                                              *)

(* Left out of the states: what removed nodes hold, which insertion resets.*)
Kept(f) == [n \in members \cup {Nil} |-> f[n]]
TreeView == <<Kept(tree.left), Kept(tree.right), Kept(tree.red), tree.root, tree.asserted,
              members>>

(* Keys that have one bucket at all sizes or two, and some that are apart  *)
(* only in a table of eight buckets.  Which key has which makes no         *)
(* difference.                                                             *)
BucketPairs == << <<1, 1>>, <<1, 0>>, <<5, 5>>, <<0, 2>> >>
MCHashes ==
  { k1 :> BucketPairs[n[1]] @@ k2 :> BucketPairs[n[2]] @@ k3 :> BucketPairs[n[3]]
      @@ k4 :> BucketPairs[n[4]] :
    n \in {n \in [1 .. 4 -> 1 .. 4] : \A i \in 1 .. 3 : n[i] <= n[i + 1]} }

-----------------------------------------------------------------------------
View == <<part, CacheView, TreeView, hashVars>>

PartsInit ==
  /\ part \in {"caches", "tree", "hash"}
  /\ Init /\ (part # "caches" => uses = CHOOSE p \in Programs : TRUE)
  /\ TreeInit
  /\ HashInit /\ (part # "hash" => hash = CHOOSE h \in Hashes : TRUE)

PartsNext ==
  /\ UNCHANGED part
  /\ \/ part = "caches" /\ Next /\ UNCHANGED <<treeVars, hashVars>>
     \/ part = "tree" /\ TreeStep /\ UNCHANGED <<vars, hashVars>>
     \/ part = "hash" /\ HashStep /\ UNCHANGED <<vars, treeVars>>

PartsSpec == PartsInit /\ [][PartsNext]_<<vars, treeVars, hashVars, part>>
=============================================================================
