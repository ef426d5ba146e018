----------------------------- MODULE CuckooHash -----------------------------
(***************************************************************************)
(* The cuckoo hash table of jemalloc, ckh.c.  A key may be in either of    *)
(* two buckets; when both are full, one that is there is evicted, and      *)
(* tries its other bucket, and so on, until a place is found or the search *)
(* comes back to where it started: then the table grows.                   *)
(*                                                                         *)
(* Which cell is tried or evicted is pseudo-random.  The loops inside a    *)
(* call are actions, so that all their choices are explored.               *)
(***************************************************************************)
EXTENDS Naturals, FiniteSets

CONSTANTS
  HKeys,
  LgCells,    (* LG_CKH_BUCKET_CELLS                                       *)
  MinItems,   (* the argument of ckh_new                                   *)
  MaxLg,      (* bound: beyond 2^MaxLg buckets there is no memory          *)
  MaxFailures, (* bound: insertions that fail for want of memory           *)
  Hashes,     (* the pairs of hash functions, one for each program         *)
  NoKey

ASSUME CuckooAssumption ==
  /\ LgCells \in Nat \ {0} /\ MinItems \in Nat \ {0} /\ MaxLg \in Nat /\ MaxFailures \in Nat
  /\ \A h \in Hashes : h \in [HKeys -> Nat \X Nat]
  /\ IsFiniteSet(HKeys) /\ NoKey \notin HKeys

VARIABLES
  hash,     (* key -> its two hash values                                  *)
  ckh,      (* tab, lg_curbuckets and count of the table                   *)
  old,      (* the same of the table that is being rebuilt                 *)
  job,      (* what is under way                                           *)
  inserted, (* history: keys inserted, as told by the calls, not removed   *)
  refused,  (* history: keys whose insertion failed, not removed           *)
  failures  (* history: how many insertions failed                         *)

hashVars == <<hash, ckh, old, job, inserted, refused, failures>>

-----------------------------------------------------------------------------
(* A table is an array of cells, 2^LgCells to a bucket.                    *)
EmptyTab(lg) == [k \in 0 .. 2 ^ (lg + LgCells) - 1 |-> NoKey]
NoTable == [tab |-> [k \in {} |-> NoKey], lg |-> 0, count |-> 0]
Stored(tab) == {tab[k] : k \in DOMAIN tab} \ {NoKey}
CellsOf(tab, b) == {k \in DOMAIN tab : k \div 2 ^ LgCells = b}
FreeCells(tab, b) == {k \in CellsOf(tab, b) : tab[k] = NoKey}

BucketAt(key, i, lg) == hash[key][i] % 2 ^ lg
Bucket(key, i) == BucketAt(key, i, ckh.lg)

(* ckh_isearch: whether a key is found in one of its buckets. *)
ckh_isearch(key) == \E i \in {1, 2} : \E k \in CellsOf(ckh.tab, Bucket(key, i)) : ckh.tab[k] = key

(* ckh_new: the least power of two that leaves a quarter of the cells free.*)
MinCells == ((MinItems + (3 - (MinItems % 3))) \div 3) * 4
LgMin == (CHOOSE lg \in LgCells .. LgCells + MaxLg :
            2 ^ lg >= MinCells /\ (lg = LgCells \/ 2 ^ (lg - 1) < MinCells)) - LgCells

(* A job is an insertion: the key that has no place, the key that was      *)
(* asked for, and where its eviction started and has come to.  It may be   *)
(* part of a rebuilding: then cells of the old table before the next have  *)
(* been seen, and another key may wait for it.                             *)
HashIdle ==
  [op |-> "idle", key |-> NoKey, asked |-> NoKey, arg |-> 0, at |-> 0, lg |-> 0,
   rebuilds |-> FALSE, next |-> 0, waits |-> NoKey]
Unmade == [HashIdle EXCEPT !.op = "unmade"]
Attempt(key, asked) == [HashIdle EXCEPT !.op = "try", !.key = key, !.asked = asked]
Growing(key, asked, lg) == [HashIdle EXCEPT !.op = "grow", !.key = key, !.asked = asked, !.lg = lg]

HashInit ==
  /\ hash \in Hashes
  /\ ckh = NoTable /\ old = NoTable /\ job = Unmade
  /\ inserted = {} /\ refused = {} /\ failures = 0

-----------------------------------------------------------------------------
(* ckh_new; the memory may be missing. *)
ckh_new ==
  /\ job.op = "unmade"
  /\ ckh' = [tab |-> EmptyTab(LgMin), lg |-> LgMin, count |-> 0]
  /\ job' = HashIdle
  /\ UNCHANGED <<hash, old, inserted, refused, failures>>

ckh_delete ==
  /\ job.op = "idle"
  /\ ckh' = NoTable /\ job' = Unmade
  /\ inserted' = {} /\ refused' = {}
  /\ UNCHANGED <<hash, old, failures>>

(* A key that is not in the table, as an assertion has it. *)
ckh_insert(key) ==
  /\ job.op = "idle" /\ failures < MaxFailures
  /\ key \notin inserted /\ ~ckh_isearch(key)
  /\ job' = Attempt(key, key)
  /\ UNCHANGED <<hash, ckh, old, inserted, refused, failures>>

(* ckh_rebuild of the table o, with nins of its keys in the new one: the   *)
(* next is inserted, until they are as many as the table counts.  Then the *)
(* insertion that waited follows.                                          *)
NextCell(tab, from) ==
  CHOOSE k \in DOMAIN tab :
    /\ k >= from /\ tab[k] # NoKey
    /\ \A m \in DOMAIN tab : m >= from /\ tab[m] # NoKey => k <= m

Rebuild(nins, o, from, asked, waits) ==
  IF nins < o.count
  THEN LET k == NextCell(o.tab, from)
       IN /\ job' = [Attempt(o.tab[k], asked) EXCEPT !.rebuilds = TRUE, !.next = k + 1, !.waits = waits]
          /\ old' = o
  ELSE /\ job' = IF waits = NoKey THEN HashIdle ELSE Attempt(waits, asked)
       /\ old' = NoTable

(* An insertion into the table succeeded.  That is the end of ckh_insert,  *)
(* unless the table is being rebuilt.                                      *)
Succeeds(tab) ==
  /\ ckh' = [ckh EXCEPT !.tab = tab, !.count = @ + 1]
  /\ IF job.rebuilds
     THEN Rebuild(ckh.count + 1, old, job.next, job.asked, job.waits) /\ UNCHANGED inserted
     ELSE job' = HashIdle /\ inserted' = inserted \cup {job.asked} /\ UNCHANGED old
  /\ UNCHANGED <<hash, refused, failures>>

(* Slip: the count is not set back. *)
BackOutUncounted(o) == [o EXCEPT !.count = ckh.count]
(* A rebuilding failed: the old table is back. *)
BackOut(o) == o

(* An insertion failed for want of a place, with this key left over: the   *)
(* table has to grow; to twice the size that was tried if a rebuilding to  *)
(* grow failed, and not at all if one to shrink did.                       *)
Fails(tab, key) ==
  /\ IF job.rebuilds
     THEN /\ ckh' = BackOut(old) /\ old' = NoTable
          /\ job' = IF job.waits = NoKey THEN HashIdle ELSE Growing(job.waits, job.asked, ckh.lg + 1)
     ELSE /\ ckh' = [ckh EXCEPT !.tab = tab]
          /\ job' = Growing(key, job.asked, ckh.lg + 1)
          /\ UNCHANGED old
  /\ UNCHANGED <<hash, inserted, refused, failures>>

(* ckh_try_insert: the primary, then the secondary bucket, and then one to *)
(* evict from.                                                             *)
Place(tab, k, key) == [tab EXCEPT ![k] = key]

TryInsert ==
  /\ job.op = "try"
  /\ LET free(i) == FreeCells(ckh.tab, Bucket(job.key, i))
     IN \/ \E k \in free(1) : Succeeds(Place(ckh.tab, k, job.key))
        \/ free(1) = {} /\ \E k \in free(2) : Succeeds(Place(ckh.tab, k, job.key))
        \/ /\ free(1) = {} /\ free(2) = {}
           /\ job' = [job EXCEPT !.op = "evict", !.arg = Bucket(job.key, 2), !.at = Bucket(job.key, 2)]
           /\ UNCHANGED <<hash, ckh, old, inserted, refused, failures>>

(* ckh_evict_reloc_insert, one round: a key is evicted from the bucket and *)
(* goes to its other one.                                                  *)
OtherBucket(key, b) == IF Bucket(key, 2) = b THEN Bucket(key, 1) ELSE Bucket(key, 2)

Evict ==
  /\ job.op = "evict"
  /\ \E k \in CellsOf(ckh.tab, job.at) :
       LET key == ckh.tab[k]
           tab == Place(ckh.tab, k, job.key)
           other == OtherBucket(key, job.at)
           free == FreeCells(tab, other)
       IN \/ other = job.arg /\ Fails(tab, key)
          \/ other # job.arg /\ \E m \in free : Succeeds(Place(tab, m, key))
          \/ /\ other # job.arg /\ free = {}
             /\ ckh' = [ckh EXCEPT !.tab = tab]
             /\ job' = [job EXCEPT !.key = key, !.at = other]
             /\ UNCHANGED <<hash, old, inserted, refused, failures>>

(* The new table is swapped in, and filled from the old one. *)
SwappedIn(lg) == [tab |-> EmptyTab(lg), lg |-> lg, count |-> 0]

(* ckh_grow, to a table there is memory for. *)
ckh_grow ==
  /\ job.op = "grow" /\ job.lg <= MaxLg
  /\ ckh' = SwappedIn(job.lg)
  /\ Rebuild(0, ckh, 0, job.asked, job.key)
  /\ UNCHANGED <<hash, inserted, refused, failures>>

(* There is none: ckh_insert fails, and whichever key is left over by now  *)
(* is dropped.                                                             *)
GrowFails ==
  /\ job.op = "grow"
  /\ job' = HashIdle
  /\ failures' = failures + 1
  /\ refused' = refused \cup {job.asked}
  /\ UNCHANGED <<hash, ckh, old, inserted>>

(* ckh_remove, and ckh_shrink when few are left: without memory, or when   *)
(* the keys do not fit, the table stays as it is.                          *)
Shrinks(count) == count < 2 ^ (ckh.lg + LgCells - 2) /\ ckh.lg > LgMin

ckh_remove(key) ==
  /\ job.op = "idle"
  /\ inserted' = inserted \ {key} /\ refused' = refused \ {key}
  /\ \/ ~ckh_isearch(key) /\ key \in inserted /\ UNCHANGED <<ckh, old, job>>
     \/ /\ ckh_isearch(key)
        /\ \E k \in DOMAIN ckh.tab :
             LET left == [ckh EXCEPT !.tab = Place(@, k, NoKey), !.count = @ - 1]
             IN /\ ckh.tab[k] = key
                /\ \/ ckh' = left /\ UNCHANGED <<old, job>>
                   \/ /\ Shrinks(left.count)
                      /\ ckh' = SwappedIn(ckh.lg - 1)
                      /\ Rebuild(0, left, 0, NoKey, NoKey)
  /\ UNCHANGED <<hash, failures>>

HashStep ==
  \/ ckh_new \/ ckh_delete \/ TryInsert \/ Evict \/ ckh_grow \/ GrowFails
  \/ \E key \in HKeys : ckh_insert(key) \/ ckh_remove(key)

HashSpec == HashInit /\ [][HashStep]_hashVars

-----------------------------------------------------------------------------
(* Properties.                                                             *)

(* Between calls every key in the table is where a search looks for it,    *)
(* once, and the count is right, however often evictions, growing,         *)
(* shrinking and their failures have moved the keys about.  What was       *)
(* inserted is there, except for as many keys as insertions failed: one of *)
(* those leaves a key out that need not be its own.                        *)
KeysKept ==
  job.op = "idle" =>
    LET stored == Stored(ckh.tab)
    IN /\ \A key \in stored :
            ckh_isearch(key) /\ Cardinality({k \in DOMAIN ckh.tab : ckh.tab[k] = key}) = 1
       /\ ckh.count = Cardinality(stored)
       /\ stored \subseteq inserted \cup refused
       /\ Cardinality(inserted \ stored) <= failures
=============================================================================
