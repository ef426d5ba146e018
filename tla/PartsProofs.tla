---------------------------- MODULE PartsProofs ----------------------------
(***************************************************************************)
(* Proofs about the parts of betakit that other parts use: the memory      *)
(* manager of Memory.tla with its lock in MemoryThreads.tla, the error log *)
(* of ErrorLog.tla, the queue of Queue.tla, the stack of Stack.tla and the *)
(* cuckoo hash table of CuckooHash.tla.  They share no name but those of   *)
(* arithmetic, of sets and of sequences.                                   *)
(*                                                                         *)
(* The queue keeps its cursors, its flags and the order of its items, for  *)
(* every depth and every number of additions.  KeepsOrder is not           *)
(* inductive: what comes out next depends on what the cells hold and on    *)
(* how often tail has passed head.  Ordered says that: the cells below     *)
(* tail were written since tail was last at the base, and while head has   *)
(* not been passed the cells from head on are older.                       *)
(*                                                                         *)
(* The hash table keeps its keys for every set of keys, every pair of hash *)
(* functions and every size of the buckets.  That no key is lost is seen   *)
(* from what belongs to the table: the keys in it and the one in hand; or, *)
(* while it is rebuilt, those of the old table and the one that waits.  No *)
(* step of an eviction or a rebuilding changes that; only a key that is    *)
(* inserted, removed or dropped does.                                      *)
(*                                                                         *)
(* The stack is that of a client that makes any call at any time, for      *)
(* every depth, every set of items and both widths of a pointer.  Its      *)
(* invariant places stack_top for each status, on either side of the       *)
(* block's ends, and says that nothing was stored at or below the lowest   *)
(* top of a stack that can still be pushed to.                             *)
(*                                                                         *)
(* The memory manager is proved for every set of blocks and every size of  *)
(* the table.                                                              *)
(*                                                                         *)
(* The error log is proved for every size of the buffer and of its         *)
(* records, and every set of errors the program reports.  Its invariant    *)
(* says what the flags can be: a log with a buffer has LOCK clear, and     *)
(* FULL set once the cursor has reached the length asked for; a log        *)
(* without one is as it was linked, or has every flag set.                 *)
(***************************************************************************)
EXTENDS MemoryThreads, ErrorLog, Queue, CuckooHash, Stack, FiniteSetTheorems, SequenceTheorems,
        WellFoundedInduction, TLAPS

-----------------------------------------------------------------------------
(* The queue.                                                              *)

BelowTail == 0 .. queue_tail - 1
FromHead == queue_head .. queue_end

(* What queue_get can return now is newer than what it returned before. *)
HeadIsNext == settled < cells[queue_head] /\ cells[queue_head] <= added

(* The last lap of tail wrote added items, in their order. *)
LapAscends ==
  \A i \in BelowTail :
    /\ cells[i] <= added
    /\ \A j \in BelowTail : i < j => cells[i] < cells[j]

(* A head not passed by a circular tail has older items before it. *)
HeadLags ==
  Circular /\ queue_head >= queue_tail =>
    \A i \in FromHead :
      /\ cells[i] <= added
      /\ \A j \in FromHead : i < j => cells[i] < cells[j]
      /\ \A j \in BelowTail : cells[i] < cells[j]

Ordered == ~Undefined /\ ~Empty => HeadIsNext /\ LapAscends /\ HeadLags

QueueInv == TypesOfQueue /\ FlagsAgree /\ settled <= added /\ Ordered
-----------------------------------------------------------------------------
(* An empty queue satisfies what is said of the items of the others. *)
LEMMA QueueInit == InitQueue => QueueInv
  BY QueueAssumption
  DEF InitQueue, QueueInv, TypesOfQueue, FlagsAgree, Ordered, Undefined, Flags, Cells, Junk

LEMMA InitStep ==
  ASSUME QueueInv, NEW depth \in 0 .. MaxDepth, NEW circular \in BOOLEAN,
         queue_init(depth, circular)
  PROVE  QueueInv'
<1>1. TypesOfQueue'
  BY QueueAssumption
  DEF QueueInv, TypesOfQueue, queue_init, Flags, Cells, Junk, BKIT_MIN_QUEUE_DEPTH
<1>2. FlagsAgree' /\ Ordered'
  BY DEF queue_init, FlagsAgree, Ordered, Undefined, Empty, Full, Circular, Ready
<1> QED BY <1>1, <1>2 DEF QueueInv, queue_init

LEMMA AddStep ==
  ASSUME QueueInv, queue_add
  PROVE  QueueInv'
<1> DEFINE at == WritePosition
<1>1. /\ at \in 0 .. queue_end /\ queue_end \in Cells
      /\ added \in Nat /\ settled \in Nat /\ MaxDepth \in Nat
  BY QueueAssumption DEF WritePosition, QueueInv, TypesOfQueue, Cells
<1>2. cells' = [cells EXCEPT ![at] = added + 1] /\ added' = added + 1
      /\ UNCHANGED <<queue_end, queue_head, settled, got>> /\ Advanced(at)
      /\ ~Undefined /\ ~Full /\ Ready /\ added < MaxAdds
  BY DEF queue_add, Accepts
<1>3. at \in Cells /\ cells \in [Cells -> Int]
  BY <1>1, QueueAssumption DEF Cells, QueueInv, TypesOfQueue, Junk
<1>4. /\ cells'[at] = added + 1
      /\ \A i \in Cells : i # at => cells'[i] = cells[i]
  BY <1>2, <1>3
<1>5. /\ queue_flags' \in {queue_flags \ {"EMPTY"}, (queue_flags \ {"EMPTY"}) \cup {"FULL"}}
      /\ ~Undefined' /\ ~Empty' /\ Ready' /\ (Circular' <=> Circular)
  BY <1>2 DEF Advanced, Undefined, Empty, Ready, Circular
<1>6. \/ at < queue_end /\ queue_tail' = at + 1 /\ ~Full'
      \/ at = queue_end /\ Circular /\ queue_tail' = 0 /\ ~Full'
      \/ at = queue_end /\ ~Circular /\ queue_tail' = queue_end /\ Full'
  BY <1>1, <1>2 DEF Advanced, Full, Cells
<1>7. TypesOfQueue'
  <2>1. queue_flags' \subseteq Flags
    BY <1>5 DEF QueueInv, TypesOfQueue, Flags
  <2>2. queue_tail' \in 0 .. queue_end'
    BY <1>1, <1>2, <1>6 DEF Cells
  <2>3. cells' \in [Cells -> Nat \cup {Junk}]
    BY <1>1, <1>2, <1>3 DEF QueueInv, TypesOfQueue
  <2> QED BY <1>2, <2>1, <2>2, <2>3, QueueAssumption DEF QueueInv, TypesOfQueue
<1>8. Empty => queue_head = 0
  BY <1>2 DEF QueueInv, FlagsAgree
<1>9. queue_head \in 0 .. queue_end /\ queue_head \in Cells
  BY <1>1, QueueAssumption DEF QueueInv, TypesOfQueue, Cells
<1>10. ~Circular => queue_head < at \/ (queue_head = 0 /\ at = 0)
  BY <1>1, <1>2, <1>8 DEF QueueInv, FlagsAgree, WritePosition
<1>11. FlagsAgree'
  BY <1>1, <1>2, <1>5, <1>6, <1>9, <1>10 DEF FlagsAgree, Cells
<1>12. \A i \in 0 .. at - 1 :
         /\ cells[i] <= added
         /\ \A j \in 0 .. at - 1 : i < j => cells[i] < cells[j]
  BY <1>1, <1>2 DEF QueueInv, Ordered, LapAscends, BelowTail, WritePosition
<1>13. settled <= added /\ (at # queue_head => HeadIsNext)
  BY <1>1, <1>2, <1>8 DEF QueueInv, Ordered, WritePosition
<1>14. HeadIsNext'
  BY <1>1, <1>2, <1>3, <1>4, <1>9, <1>13 DEF HeadIsNext
<1>15. \A i \in 0 .. at :
         /\ cells'[i] <= added'
         /\ \A j \in 0 .. at : i < j => cells'[i] < cells'[j]
  <2> SUFFICES ASSUME NEW i \in 0 .. at
               PROVE  /\ cells'[i] <= added'
                      /\ \A j \in 0 .. at : i < j => cells'[i] < cells'[j]
    OBVIOUS
  <2>1. i \in Cells /\ (i # at => i \in 0 .. at - 1)
    BY <1>1 DEF Cells
  <2>2. cells'[i] <= added' /\ (i # at => cells'[i] = cells[i] /\ cells[i] <= added)
    BY <1>2, <1>3, <1>4, <1>12, <2>1, <1>1
  <2>3. ASSUME NEW j \in 0 .. at, i < j
        PROVE  cells'[i] < cells'[j]
    <3>1. i # at /\ j \in Cells
      BY <1>1, <2>3 DEF Cells
    <3>2. CASE j = at
      BY <1>1, <1>3, <1>4, <2>1, <2>2, <3>1, <3>2
    <3>3. CASE j # at
      <4>1. j \in 0 .. at - 1
        BY <1>1, <3>3
      <4> QED BY <1>4, <1>12, <2>1, <2>3, <3>1, <3>3, <4>1
    <3> QED BY <3>2, <3>3
  <2> QED BY <2>2, <2>3
<1>16. LapAscends'
  <2>1. BelowTail' \subseteq 0 .. at
    BY <1>1, <1>6 DEF BelowTail, Cells
  <2> QED BY <1>15, <2>1 DEF LapAscends
<1>17. HeadLags'
  <2> SUFFICES ASSUME Circular', queue_head' >= queue_tail'
               PROVE  HeadLags'
    BY DEF HeadLags
  <2>1. CASE at = queue_end
    <3>1. BelowTail' = {} /\ FromHead' \subseteq 0 .. at
      BY <1>1, <1>2, <1>5, <1>6, <1>9, <2>1 DEF BelowTail, FromHead, Cells
    <3> QED BY <1>15, <3>1 DEF HeadLags
  <2>2. CASE at < queue_end
    <3>1. queue_tail' = at + 1 /\ queue_head >= at + 1 /\ Circular
      BY <1>1, <1>2, <1>5, <1>6, <2>2 DEF Cells
    <3>2. ~Empty /\ at = queue_tail
      BY <1>1, <1>8, <3>1 DEF WritePosition
    <3>3. HeadLags /\ queue_head >= queue_tail
      BY <1>1, <1>2, <1>9, <3>1, <3>2 DEF QueueInv, Ordered, Cells
    <3>4. FromHead' = FromHead /\ FromHead \subseteq Cells
          /\ \A i \in FromHead : i # at
      BY <1>1, <1>2, <1>9, <3>1 DEF FromHead, Cells
    <3>5. BelowTail' = BelowTail \cup {at} /\ BelowTail \subseteq Cells
          /\ \A i \in BelowTail : i # at
      BY <1>1, <3>1, <3>2 DEF BelowTail, Cells
    <3>6. \A i \in FromHead : cells'[i] = cells[i] /\ cells[i] <= added /\ cells[i] \in Int
      BY <1>3, <1>4, <3>1, <3>3, <3>4 DEF HeadLags
    <3>7. \A i, j \in FromHead : i < j => cells'[i] < cells'[j]
      BY <3>1, <3>3, <3>6 DEF HeadLags
    <3>8. \A i \in FromHead, j \in BelowTail : cells'[i] < cells'[j]
      BY <1>4, <3>1, <3>3, <3>5, <3>6 DEF HeadLags
    <3>9. \A i \in FromHead : cells'[i] < cells'[at] /\ cells'[i] <= added'
      BY <1>1, <1>2, <1>4, <3>6
    <3> QED BY <3>4, <3>5, <3>7, <3>8, <3>9 DEF HeadLags
  <2> QED BY <1>1, <2>1, <2>2 DEF Cells
<1>18. (settled <= added)'
  BY <1>1, <1>2, <1>13
<1> QED BY <1>7, <1>11, <1>14, <1>16, <1>17, <1>18 DEF QueueInv, Ordered

(* The item at the head was added, after everything returned so far. *)
LEMMA HeadIsAdded ==
  ASSUME QueueInv, GetItem
  PROVE  /\ HeadIsNext /\ LapAscends /\ HeadLags
         /\ got' = cells[queue_head] /\ settled' = cells[queue_head]
         /\ got' \in settled + 1 .. added
<1>1. HeadIsNext /\ LapAscends /\ HeadLags
  BY DEF QueueInv, Ordered, GetItem, Gives
<1>2. cells[queue_head] \in Int
  BY QueueAssumption DEF QueueInv, TypesOfQueue, Cells, Junk
<1>3. settled \in Nat /\ added \in Nat
  BY QueueAssumption DEF QueueInv, TypesOfQueue
<1> QED BY <1>1, <1>2, <1>3 DEF GetItem, HeadIsNext

LEMMA GetStep ==
  ASSUME QueueInv, GetItem
  PROVE  QueueInv'
<1>1. /\ queue_head \in 0 .. queue_end /\ queue_tail \in 0 .. queue_end
      /\ queue_end \in Nat /\ added \in Nat /\ settled \in Nat /\ MaxDepth \in Nat
      /\ queue_end \in Cells /\ cells \in [Cells -> Int]
  BY QueueAssumption DEF QueueInv, TypesOfQueue, Cells, Junk
<1>2. /\ ~Undefined /\ ~Empty /\ Ready
      /\ UNCHANGED <<queue_end, cells, added>>
      /\ MoveHead(queue_head + 1)
  BY DEF GetItem, Gives
<1>3. /\ HeadIsNext /\ LapAscends /\ HeadLags
      /\ settled' = cells[queue_head]
      /\ got' \in settled + 1 .. added /\ settled' = got'
  BY HeadIsAdded
<1>4. got' \in 0 .. MaxAdds /\ settled' \in 0 .. MaxAdds /\ settled' <= added'
  BY <1>1, <1>2, <1>3, QueueAssumption DEF QueueInv, TypesOfQueue
<1>5. CASE Overtakes(queue_head + 1)
  <2>1. queue_reset
    BY <1>2, <1>5 DEF MoveHead
  <2>2. TypesOfQueue'
    BY <1>1, <1>2, <1>4, <2>1 DEF queue_reset, QueueInv, TypesOfQueue, Flags
  <2>3. FlagsAgree' /\ Ordered'
    BY <2>1 DEF queue_reset, FlagsAgree, Ordered, Undefined, Empty, Full, Circular, Ready
  <2> QED BY <1>4, <2>2, <2>3 DEF QueueInv
<1>6. CASE ~Overtakes(queue_head + 1)
  <2>1. /\ queue_head' = Wrapped(queue_head + 1)
        /\ queue_flags' = queue_flags \cup (IF WrapsEmpty(queue_head + 1) THEN {"EMPTY"} ELSE {})
        /\ queue_tail' = queue_tail
    BY <1>2, <1>6 DEF MoveHead
  <2>2. queue_head' \in 0 .. queue_end
    BY <1>1, <2>1 DEF Wrapped
  <2>3. TypesOfQueue'
    BY <1>1, <1>2, <1>4, <2>1, <2>2 DEF QueueInv, TypesOfQueue, Flags
  <2>4. /\ Undefined' = Undefined /\ Full' = Full
        /\ Circular' = Circular /\ Ready' = Ready
        /\ Empty' => WrapsEmpty(queue_head + 1)
    BY <1>2, <2>1 DEF Undefined, Full, Circular, Ready, Empty
  <2>5. ~Circular => queue_head + 1 < queue_tail /\ queue_head' = queue_head + 1
    BY <1>1, <1>6, <2>1 DEF Overtakes, Wrapped
  <2>6. FlagsAgree'
    <3>1. Empty' => queue_head' = 0 /\ Circular
      BY <1>1, <2>1, <2>4 DEF WrapsEmpty, Wrapped
    <3> QED BY <1>1, <1>2, <2>1, <2>4, <2>5, <3>1 DEF QueueInv, FlagsAgree
  <2>7. LapAscends'
    BY <1>2, <1>3, <2>1 DEF LapAscends, BelowTail
  <2>8. ASSUME ~Empty'
        PROVE  \/ queue_head' = queue_head + 1 /\ queue_head + 1 <= queue_end
               \/ queue_head' = 0 /\ queue_head = queue_end /\ 0 < queue_tail /\ Circular
    <3>1. ~WrapsEmpty(queue_head + 1)
      BY <2>1, <2>8 DEF Empty
    <3> QED BY <1>1, <1>6, <2>1, <3>1 DEF WrapsEmpty, Wrapped, Overtakes
  <2>9. ASSUME ~Empty'
        PROVE  HeadIsNext'
    <3>1. CASE queue_head' = queue_head + 1 /\ queue_head < queue_tail
      <4>1. queue_head + 1 < queue_tail
        BY <1>1, <1>6, <3>1, <2>8, <2>9 DEF Overtakes, Wrapped
      <4>2. queue_head \in BelowTail /\ queue_head + 1 \in BelowTail
        BY <1>1, <4>1 DEF BelowTail
      <4>3. \A j \in BelowTail : queue_head < j => cells[queue_head] < cells[j]
        BY <1>3, <4>2 DEF LapAscends
      <4>4. cells[queue_head + 1] <= added
        BY <1>3, <4>2 DEF LapAscends
      <4>5. cells[queue_head] < cells[queue_head + 1]
        BY <1>1, <4>2, <4>3
      <4> QED BY <1>2, <1>3, <3>1, <4>4, <4>5 DEF HeadIsNext
    <3>2. CASE queue_head' = queue_head + 1 /\ queue_head >= queue_tail
      <4>1. Circular /\ queue_head + 1 <= queue_end
        BY <1>1, <2>5, <2>8, <2>9, <3>2
      <4>2. queue_head \in FromHead /\ queue_head + 1 \in FromHead
        BY <1>1, <4>1 DEF FromHead
      <4>3. \A j \in FromHead : queue_head < j => cells[queue_head] < cells[j]
        BY <1>3, <3>2, <4>1, <4>2 DEF HeadLags
      <4>4. cells[queue_head + 1] <= added
        BY <1>3, <3>2, <4>1, <4>2 DEF HeadLags
      <4>5. cells[queue_head] < cells[queue_head + 1]
        BY <1>1, <4>2, <4>3
      <4> QED BY <1>2, <1>3, <3>2, <4>4, <4>5 DEF HeadIsNext
    <3>3. CASE queue_head' = 0 /\ queue_head = queue_end /\ 0 < queue_tail /\ Circular
      <4>1. queue_head \in FromHead /\ 0 \in BelowTail /\ queue_head >= queue_tail
        BY <1>1, <3>3 DEF FromHead, BelowTail
      <4>2. cells[queue_head] < cells[0] /\ cells[0] <= added
        BY <1>1, <1>3, <3>3, <4>1 DEF HeadLags, LapAscends
      <4> QED BY <1>2, <1>3, <3>3, <4>2 DEF HeadIsNext
    <3> QED BY <1>1, <2>8, <2>9, <3>1, <3>2, <3>3
  <2>10. ASSUME ~Empty'
         PROVE  HeadLags'
    <3> SUFFICES ASSUME Circular', queue_head' >= queue_tail'
                 PROVE  HeadLags'
      BY DEF HeadLags
    <3>1. queue_head' = queue_head + 1 /\ queue_head + 1 <= queue_end
      BY <1>1, <2>1, <2>8, <2>10
    <3>2. Circular /\ queue_head >= queue_tail
      BY <1>1, <1>6, <2>1, <2>4, <3>1 DEF Overtakes, Wrapped
    <3>3. FromHead' \subseteq FromHead /\ BelowTail' = BelowTail
      BY <1>1, <1>2, <2>1, <3>1 DEF FromHead, BelowTail
    <3> QED BY <1>2, <1>3, <3>2, <3>3 DEF HeadLags
  <2>11. Ordered'
    BY <2>7, <2>9, <2>10 DEF Ordered
  <2> QED BY <1>4, <2>3, <2>6, <2>11 DEF QueueInv
<1> QED BY <1>5, <1>6

LEMMA CleanStep ==
  ASSUME QueueInv, queue_clean
  PROVE  QueueInv'
<1>1. TypesOfQueue'
  BY QueueAssumption DEF QueueInv, TypesOfQueue, queue_clean, Flags, Cells, Junk
<1>2. Undefined'
  BY DEF queue_clean, Undefined
<1>3. (settled <= added)'
  BY <1>1, QueueAssumption DEF queue_clean, QueueInv, TypesOfQueue
<1> QED BY <1>1, <1>2, <1>3 DEF QueueInv, FlagsAgree, Ordered

LEMMA StutterStep ==
  ASSUME QueueInv, UNCHANGED <<queue_flags, cursors, cells, added, settled>>,
         got' \in {got, 0}
  PROVE  QueueInv'
<1>1. TypesOfQueue'
  BY QueueAssumption DEF QueueInv, TypesOfQueue, cursors
<1> QED
  BY <1>1 DEF QueueInv, FlagsAgree, Ordered, HeadIsNext, LapAscends, HeadLags, BelowTail,
              FromHead, Undefined, Empty, Full, Circular, Ready, cursors

(* The cursors, the flags and the order of the items are kept by every     *)
(* call of queue.c, for every depth and every number of additions.         *)
THEOREM QueueInvariance == SpecQueue => []QueueInv
<1>1. ASSUME QueueInv, [NextQueue]_queueVars
      PROVE  QueueInv'
  <2>1. CASE \E depth \in 0 .. MaxDepth, circular \in BOOLEAN : queue_init(depth, circular)
    BY <1>1, <2>1, InitStep
  <2>2. CASE queue_add
    BY <1>1, <2>2, AddStep
  <2>3. CASE GetItem
    BY <1>1, <2>3, GetStep
  <2>4. CASE GetNull \/ UNCHANGED queueVars
    BY <1>1, <2>4, StutterStep DEF GetNull, queueVars, cursors
  <2>5. CASE queue_clean
    BY <1>1, <2>5, CleanStep
  <2> QED BY <1>1, <2>1, <2>2, <2>3, <2>4, <2>5 DEF NextQueue, queue_get
<1> QED BY QueueInit, <1>1, PTL DEF SpecQueue

(* queue.c never moves a cursor out of the block it allocated. *)
THEOREM QueueTypeCorrect == SpecQueue => []TypesOfQueue
<1>1. QueueInv => TypesOfQueue
  BY DEF QueueInv
<1> QED BY <1>1, QueueInvariance, PTL

(* queue_add finds the head of an EMPTY queue at the base, where it writes *)
(* next; only linear queues written to their end are FULL; the lock is     *)
(* free between calls.                                                     *)
THEOREM FlagsCorrect == SpecQueue => []FlagsAgree
<1>1. QueueInv => FlagsAgree
  BY DEF QueueInv
<1> QED BY <1>1, QueueInvariance, PTL

(* queue_get returns added items only, each at most once, in their order,  *)
(* however often a circular tail overtakes the head.                       *)
THEOREM OrderKept == SpecQueue => KeepsOrder
<1>1. InitQueue => Fifo!Init
  BY DEF InitQueue, Fifo!Init
<1>2. ASSUME QueueInv, [NextQueue]_queueVars
      PROVE  [Fifo!Next]_(Fifo!fifoVars)
  <2>1. CASE \E depth \in 0 .. MaxDepth, circular \in BOOLEAN : queue_init(depth, circular)
    BY <2>1 DEF queue_init, Fifo!fifoVars
  <2>2. CASE queue_add
    BY <2>2 DEF queue_add, Fifo!Next, Fifo!Add
  <2>3. CASE GetItem
    <3>1. got' \in settled + 1 .. added /\ settled' = got' /\ added' = added
      BY <1>2, <2>3, HeadIsAdded DEF GetItem
    <3> QED BY <3>1 DEF Fifo!Next, Fifo!Get
  <2>4. CASE GetNull
    BY <2>4 DEF GetNull, Fifo!Next, Fifo!GetNothing
  <2>5. CASE queue_clean
    BY <2>5 DEF queue_clean, Fifo!Next, Fifo!Discard
  <2>6. CASE UNCHANGED queueVars
    BY <2>6 DEF queueVars, Fifo!fifoVars
  <2> QED BY <1>2, <2>1, <2>2, <2>3, <2>4, <2>5, <2>6 DEF NextQueue, queue_get
<1> QED BY <1>1, <1>2, QueueInvariance, PTL DEF SpecQueue, KeepsOrder, Fifo!Spec

-----------------------------------------------------------------------------
(* The hash table.                                                         *)

Values == HKeys \cup {NoKey}

(* Cell k is in one of the two buckets of a key. *)
AtHome(h, key, k, lg) == \E i \in {1, 2} : k \div 2 ^ LgCells = h[key][i] % 2 ^ lg

(* A sound array of cells: every key once, in one of its buckets. *)
SoundTab(h, tab, lg) ==
  /\ DOMAIN tab \subseteq Nat
  /\ tab \in [DOMAIN tab -> Values]
  /\ \A k, m \in DOMAIN tab : tab[k] # NoKey /\ tab[k] = tab[m] => k = m
  /\ \A k \in DOMAIN tab : tab[k] # NoKey => AtHome(h, tab[k], k, lg)

Sound(h, t) ==
  /\ t = [tab |-> t.tab, lg |-> t.lg, count |-> t.count]
  /\ SoundTab(h, t.tab, t.lg)
  /\ t.count = Cardinality(Stored(t.tab))

-----------------------------------------------------------------------------
(* Tables.                                                                 *)

(* The least of a set of numbers. *)
LEMMA Least ==
  ASSUME NEW S, S # {}, S \subseteq Nat
  PROVE  \E k \in S : \A j \in S : k <= j
<1>1. PICK k \in S : \A j \in S : ~(<<j, k>> \in OpToRel(<, Nat))
  BY NatLessThanWellFounded, WFMin
<1>2. ASSUME NEW j \in S PROVE k <= j
  <2>1. j \in Nat /\ k \in Nat
    OBVIOUS
  <2>2. ~(j < k)
    BY <1>1, <2>1 DEF OpToRel
  <2> QED  BY <2>1, <2>2
<1> QED  BY <1>2

(* The keys in a table are finitely many. *)
LEMMA StoredFinite ==
  ASSUME NEW h, NEW tab, NEW lg, SoundTab(h, tab, lg)
  PROVE  /\ Stored(tab) \subseteq HKeys /\ NoKey \notin Stored(tab)
         /\ IsFiniteSet(Stored(tab)) /\ Cardinality(Stored(tab)) \in Nat
<1>1. Stored(tab) \subseteq HKeys /\ NoKey \notin Stored(tab)
  BY DEF SoundTab, Stored, Values
<1>2. IsFiniteSet(HKeys)
  BY CuckooAssumption
<1>3. IsFiniteSet(Stored(tab))
  BY <1>1, <1>2, FS_Subset
<1> QED  BY <1>1, <1>3, FS_CardinalityType

(* A table has none of the keys when it is new. *)
LEMMA EmptySound ==
  ASSUME NEW h, NEW lg
  PROVE  /\ SoundTab(h, EmptyTab(lg), lg) /\ Stored(EmptyTab(lg)) = {}
         /\ Cardinality(Stored(EmptyTab(lg))) = 0
<1>1. PICK S : S = 0 .. 2 ^ (lg + LgCells) - 1
  OBVIOUS
<1>2. S \subseteq Nat
  BY <1>1
<1>3. EmptyTab(lg) = [k \in S |-> NoKey]
  BY <1>1 DEF EmptyTab
<1>4. SoundTab(h, EmptyTab(lg), lg)
  BY <1>2, <1>3 DEF SoundTab, Values
<1>5. Stored(EmptyTab(lg)) = {}
  BY <1>3 DEF Stored
<1> QED  BY <1>4, <1>5, FS_EmptySet

LEMMA NoTableSound ==
  ASSUME NEW h
  PROVE  Sound(h, NoTable) /\ Stored(NoTable.tab) = {}
<1>1. NoTable.tab = [k \in {} |-> NoKey] /\ NoTable.count = 0
      /\ NoTable = [tab |-> NoTable.tab, lg |-> NoTable.lg, count |-> NoTable.count]
  BY DEF NoTable
<1>2. SoundTab(h, NoTable.tab, NoTable.lg)
  BY <1>1 DEF SoundTab
<1>3. Stored(NoTable.tab) = {}
  BY <1>1 DEF Stored
<1> QED  BY <1>1, <1>2, <1>3, FS_EmptySet DEF Sound

(* What a cell is given takes the place of what it held. *)
LEMMA PlaceSound ==
  ASSUME NEW h, NEW tab, NEW lg, SoundTab(h, tab, lg),
         NEW k \in DOMAIN tab, NEW key \in Values, key \notin Stored(tab),
         key # NoKey => AtHome(h, key, k, lg)
  PROVE  /\ SoundTab(h, Place(tab, k, key), lg)
         /\ DOMAIN Place(tab, k, key) = DOMAIN tab
         /\ \A m \in DOMAIN tab : Place(tab, k, key)[m] = IF m = k THEN key ELSE tab[m]
         /\ Stored(Place(tab, k, key)) = (Stored(tab) \ {tab[k]}) \cup ({key} \ {NoKey})
<1>1. PICK new : new = Place(tab, k, key)
  OBVIOUS
<1>2. DOMAIN new = DOMAIN tab /\ \A m \in DOMAIN tab : new[m] = IF m = k THEN key ELSE tab[m]
  BY <1>1 DEF Place
<1>3. new \in [DOMAIN tab -> Values]
  BY <1>1 DEF Place, SoundTab
<1>4. \A m \in DOMAIN tab : tab[m] # NoKey => tab[m] \in Stored(tab)
  BY DEF Stored
<1>5. \A m, n \in DOMAIN new : new[m] # NoKey /\ new[m] = new[n] => m = n
  BY <1>2, <1>4 DEF SoundTab
<1>6. \A m \in DOMAIN new : new[m] # NoKey => AtHome(h, new[m], m, lg)
  BY <1>2 DEF SoundTab
<1>7. SoundTab(h, new, lg)
  BY <1>2, <1>3, <1>5, <1>6 DEF SoundTab
<1>8. ASSUME NEW v PROVE v \in Stored(new) <=> v \in (Stored(tab) \ {tab[k]}) \cup ({key} \ {NoKey})
  <2>1. v \in Stored(new) <=> v # NoKey /\ \E m \in DOMAIN tab : new[m] = v
    BY <1>2 DEF Stored
  <2>2. v \in Stored(tab) <=> v # NoKey /\ \E m \in DOMAIN tab : tab[m] = v
    BY DEF Stored
  <2>3. v # NoKey /\ v # tab[k] => ((\E m \in DOMAIN tab : new[m] = v) <=> v = key \/ \E m \in DOMAIN tab : tab[m] = v)
    BY <1>2
  <2>4. v # NoKey /\ v = tab[k] => ((\E m \in DOMAIN tab : new[m] = v) <=> v = key)
    BY <1>2 DEF SoundTab
  <2> QED  BY <2>1, <2>2, <2>3, <2>4
<1>9. Stored(new) = (Stored(tab) \ {tab[k]}) \cup ({key} \ {NoKey})
  BY <1>8
<1> QED  BY <1>1, <1>2, <1>7, <1>9

(* A key goes into a free cell: it is one key more. *)
LEMMA PlaceFree ==
  ASSUME NEW h, NEW tab, NEW lg, SoundTab(h, tab, lg), NEW k \in DOMAIN tab, tab[k] = NoKey,
         NEW key \in HKeys, key \notin Stored(tab), AtHome(h, key, k, lg)
  PROVE  /\ SoundTab(h, Place(tab, k, key), lg)
         /\ Stored(Place(tab, k, key)) = Stored(tab) \cup {key}
         /\ Cardinality(Stored(Place(tab, k, key))) = Cardinality(Stored(tab)) + 1
<1>1. key # NoKey /\ key \in Values
  BY CuckooAssumption DEF Values
<1>2. /\ SoundTab(h, Place(tab, k, key), lg)
      /\ Stored(Place(tab, k, key)) = (Stored(tab) \ {tab[k]}) \cup ({key} \ {NoKey})
  BY <1>1, PlaceSound
<1>3. NoKey \notin Stored(tab) /\ IsFiniteSet(Stored(tab))
  BY StoredFinite
<1>4. Stored(Place(tab, k, key)) = Stored(tab) \cup {key}
  BY <1>1, <1>2, <1>3
<1>5. Cardinality(Stored(tab) \cup {key}) = Cardinality(Stored(tab)) + 1
  BY <1>3, FS_AddElement
<1> QED  BY <1>2, <1>4, <1>5

(* A key takes the cell of another: they are as many. *)
LEMMA PlaceOver ==
  ASSUME NEW h, NEW tab, NEW lg, SoundTab(h, tab, lg), NEW k \in DOMAIN tab, tab[k] # NoKey,
         NEW key \in HKeys, key \notin Stored(tab), AtHome(h, key, k, lg)
  PROVE  /\ SoundTab(h, Place(tab, k, key), lg)
         /\ tab[k] \in Stored(tab) /\ tab[k] \notin Stored(Place(tab, k, key))
         /\ Stored(Place(tab, k, key)) \cup {tab[k]} = Stored(tab) \cup {key}
         /\ Cardinality(Stored(Place(tab, k, key))) = Cardinality(Stored(tab))
<1>1. key # NoKey /\ key \in Values
  BY CuckooAssumption DEF Values
<1>2. /\ SoundTab(h, Place(tab, k, key), lg)
      /\ Stored(Place(tab, k, key)) = (Stored(tab) \ {tab[k]}) \cup ({key} \ {NoKey})
  BY <1>1, PlaceSound
<1>3. PICK S : S = Stored(tab)
  OBVIOUS
<1>4. PICK e : e = tab[k]
  OBVIOUS
<1>5. e \in S /\ NoKey \notin S /\ IsFiniteSet(S) /\ Cardinality(S) \in Nat /\ key \notin S
  BY <1>3, <1>4, StoredFinite DEF Stored
<1>6. Stored(Place(tab, k, key)) = (S \ {e}) \cup {key} /\ key # e
  BY <1>1, <1>2, <1>3, <1>4, <1>5
<1>7. IsFiniteSet(S \ {e}) /\ Cardinality(S \ {e}) = Cardinality(S) - 1
  BY <1>5, FS_RemoveElement
<1>8. Cardinality((S \ {e}) \cup {key}) = Cardinality(S \ {e}) + 1
  BY <1>5, <1>7, FS_AddElement
<1>9. Cardinality((S \ {e}) \cup {key}) = Cardinality(S)
  BY <1>5, <1>7, <1>8
<1> QED  BY <1>2, <1>3, <1>4, <1>5, <1>6, <1>9

(* The cell of a key is cleared: it is one key less. *)
LEMMA PlaceNull ==
  ASSUME NEW h, NEW tab, NEW lg, SoundTab(h, tab, lg), NEW k \in DOMAIN tab, tab[k] # NoKey
  PROVE  /\ SoundTab(h, Place(tab, k, NoKey), lg)
         /\ Stored(Place(tab, k, NoKey)) = Stored(tab) \ {tab[k]}
         /\ Cardinality(Stored(Place(tab, k, NoKey))) = Cardinality(Stored(tab)) - 1
<1>1. NoKey \in Values /\ NoKey \notin Stored(tab) /\ IsFiniteSet(Stored(tab)) /\ tab[k] \in Stored(tab)
  BY StoredFinite DEF Values, Stored
<1>2. /\ SoundTab(h, Place(tab, k, NoKey), lg)
      /\ Stored(Place(tab, k, NoKey)) = (Stored(tab) \ {tab[k]}) \cup ({NoKey} \ {NoKey})
  BY <1>1, PlaceSound
<1>3. Stored(Place(tab, k, NoKey)) = Stored(tab) \ {tab[k]}
  BY <1>2
<1> QED  BY <1>1, <1>2, <1>3, FS_RemoveElement

-----------------------------------------------------------------------------
(* The inductive invariant.                                                *)

(* The keys of a table that a rebuilding has not come to. *)
Ahead(tab, from) == {tab[k] : k \in {m \in DOMAIN tab : m >= from}} \ {NoKey}

(* What belongs to the table. *)
Whole(c, o, j) ==
  IF j.rebuilds THEN Stored(o.tab) \cup ({j.waits} \ {NoKey})
                ELSE Stored(c.tab) \cup ({j.key} \ {NoKey})

(* While the old table o is rebuilt in c, each of its keys is in c, in hand*)
(* or ahead, and no other key is.                                          *)
Refills(h, c, o, j) ==
  /\ Sound(h, o) /\ j.next \in Nat
  /\ j.waits \in Values /\ j.waits \notin Stored(o.tab)
  /\ Stored(c.tab) \cup {j.key} \cup Ahead(o.tab, j.next) = Stored(o.tab)
  /\ j.key \notin Ahead(o.tab, j.next)
  /\ Stored(c.tab) \cap Ahead(o.tab, j.next) = {}

(* A key is evicted from a bucket of the key in hand, and it is full. *)
Crowded(h, c, j) ==
  /\ \E i \in {1, 2} : j.at = h[j.key][i] % 2 ^ c.lg
  /\ FreeCells(c.tab, j.at) = {}

(* Someone asked for a key to be inserted, and is not told yet. *)
Asked(j) == j.op \in {"try", "evict", "grow"} /\ (j.rebuilds => j.waits # NoKey)

Shaped(j) ==
  /\ j = [op |-> j.op, key |-> j.key, asked |-> j.asked, arg |-> j.arg, at |-> j.at,
          lg |-> j.lg, rebuilds |-> j.rebuilds, next |-> j.next, waits |-> j.waits]
  /\ j.op \in {"unmade", "idle", "try", "evict", "grow"} /\ j.rebuilds \in BOOLEAN
  /\ j.rebuilds => j.op \in {"try", "evict"}

JobInv(h, c, o, j) ==
  /\ Shaped(j)
  /\ j.op = "unmade" => Stored(c.tab) = {}
  /\ j.op \in {"unmade", "idle"} => j.key = NoKey
  /\ j.op \in {"try", "evict", "grow"} => j.key \in HKeys /\ j.key \notin Stored(c.tab)
  /\ j.op = "evict" => Crowded(h, c, j)
  /\ j.rebuilds => Refills(h, c, o, j)
  /\ j.asked # NoKey <=> Asked(j)
  /\ j.asked # NoKey => j.asked \in Whole(c, o, j)

(* What the callers were told of what belongs to the table: the keys       *)
(* inserted in it, those refused, and how many failures there were.        *)
History(whole, asked, told, denied, n) ==
  /\ told \subseteq HKeys /\ denied \subseteq HKeys /\ n \in Nat
  /\ whole \subseteq told \cup denied \cup {asked}
  /\ Cardinality(told \ whole) <= n

HashInv ==
  /\ Sound(hash, ckh)
  /\ JobInv(hash, ckh, old, job)
  /\ History(Whole(ckh, old, job), job.asked, inserted, refused, failures)

-----------------------------------------------------------------------------
(* Steps of a job.                                                         *)

LEMMA WholeType ==
  ASSUME NEW h, NEW c, NEW o, NEW j, Sound(h, c), JobInv(h, c, o, j)
  PROVE  Whole(c, o, j) \subseteq HKeys /\ NoKey \notin Whole(c, o, j)
<1>1. Stored(c.tab) \subseteq HKeys /\ NoKey \notin Stored(c.tab)
  BY StoredFinite DEF Sound
<1>2. CASE j.rebuilds
  <2>1. Stored(o.tab) \subseteq HKeys /\ NoKey \notin Stored(o.tab)
    BY <1>2, StoredFinite DEF Sound, JobInv, Refills
  <2> QED  BY <1>2, <2>1 DEF JobInv, Refills, Whole, Values
<1>3. CASE ~j.rebuilds
  <2>1. j.key \in HKeys \cup {NoKey}
    BY DEF JobInv, Shaped
  <2> QED  BY <1>1, <1>3, <2>1 DEF Whole
<1> QED  BY <1>2, <1>3

(* The first key ahead of a rebuilding is taken from what is ahead. *)
LEMMA NextAhead ==
  ASSUME NEW h, NEW tab, NEW lg, SoundTab(h, tab, lg), NEW from \in Nat, Ahead(tab, from) # {}
  PROVE  LET k == NextCell(tab, from)
         IN /\ k + 1 \in Nat /\ tab[k] \in HKeys /\ tab[k] \notin Ahead(tab, k + 1)
            /\ Ahead(tab, from) = Ahead(tab, k + 1) \cup {tab[k]}
<1>1. PICK S : S = {m \in DOMAIN tab : m >= from /\ tab[m] # NoKey}
  OBVIOUS
<1>2. S # {} /\ S \subseteq Nat
  BY <1>1 DEF Ahead, SoundTab
<1>3. PICK n \in S : \A m \in S : n <= m
  BY <1>2, Least
<1>4. PICK k : k = NextCell(tab, from)
  OBVIOUS
<1>5. /\ k \in DOMAIN tab /\ k >= from /\ tab[k] # NoKey
      /\ \A m \in DOMAIN tab : m >= from /\ tab[m] # NoKey => k <= m
  BY <1>1, <1>3, <1>4 DEF NextCell
<1>6. k \in Nat /\ DOMAIN tab \subseteq Nat
  BY <1>5 DEF SoundTab
<1>7. tab[k] \in HKeys
  BY <1>5 DEF SoundTab, Values
<1>8. ASSUME NEW v PROVE v \in Ahead(tab, from) <=> v \in Ahead(tab, k + 1) \cup {tab[k]}
  <2>1. v \in Ahead(tab, from) <=> v # NoKey /\ \E m \in DOMAIN tab : m >= from /\ tab[m] = v
    BY DEF Ahead
  <2>2. v \in Ahead(tab, k + 1) <=> v # NoKey /\ \E m \in DOMAIN tab : m >= k + 1 /\ tab[m] = v
    BY DEF Ahead
  <2>3. ASSUME NEW m \in DOMAIN tab, tab[m] = v, v # NoKey PROVE m >= from <=> m >= k + 1 \/ m = k
    <3>1. m \in Nat
      BY <1>6
    <3>2. m >= from => k <= m
      BY <1>5, <2>3
    <3> QED  BY <1>5, <1>6, <3>1, <3>2
  <2> QED  BY <1>5, <2>1, <2>2, <2>3
<1>9. tab[k] \notin Ahead(tab, k + 1)
  <2>1. SUFFICES ASSUME NEW m \in DOMAIN tab, m >= k + 1, tab[m] = tab[k] PROVE FALSE
    BY DEF Ahead
  <2>2. m = k
    BY <1>5, <2>1 DEF SoundTab
  <2> QED  BY <1>6, <2>1, <2>2
<1>10. Ahead(tab, from) = Ahead(tab, k + 1) \cup {tab[k]}
  BY <1>8
<1> QED  BY <1>4, <1>6, <1>7, <1>9, <1>10

(* A rebuilding goes on with the next key, or is over: what belonged to    *)
(* the table still does.                                                   *)
LEMMA Rebuilds ==
  ASSUME NEW h, NEW c, Sound(h, c), NEW o, Sound(h, o), NEW from \in Nat,
         NEW asked, NEW waits \in Values, waits \notin Stored(o.tab),
         Stored(c.tab) \cup Ahead(o.tab, from) = Stored(o.tab),
         Stored(c.tab) \cap Ahead(o.tab, from) = {},
         asked # NoKey <=> waits # NoKey,
         asked # NoKey => asked \in Stored(o.tab) \cup {waits},
         Rebuild(c.count, o, from, asked, waits)
  PROVE  /\ JobInv(h, c, old', job') /\ job'.asked = asked
         /\ Whole(c, old', job') = Stored(o.tab) \cup ({waits} \ {NoKey})
<1>1. /\ IsFiniteSet(Stored(o.tab)) /\ o.count = Cardinality(Stored(o.tab))
      /\ c.count = Cardinality(Stored(c.tab)) /\ Stored(c.tab) \subseteq HKeys
      /\ NoKey \notin Stored(o.tab) /\ c.count \in Nat /\ o.count \in Nat
  BY StoredFinite DEF Sound
<1>2. CASE c.count < o.count
  <2>1. Ahead(o.tab, from) # {}
    <3>1. Stored(c.tab) # Stored(o.tab)
      BY <1>1, <1>2
    <3> QED  BY <3>1
  <2>2. PICK k : k = NextCell(o.tab, from)
    OBVIOUS
  <2>3. PICK key : key = o.tab[k]
    OBVIOUS
  <2>4. /\ k + 1 \in Nat /\ key \in HKeys /\ key \notin Ahead(o.tab, k + 1)
        /\ Ahead(o.tab, from) = Ahead(o.tab, k + 1) \cup {key}
    BY <2>1, <2>2, <2>3, NextAhead DEF Sound
  <2>5. PICK j : j = [Attempt(key, asked) EXCEPT !.rebuilds = TRUE, !.next = k + 1, !.waits = waits]
    OBVIOUS
  <2>6. job' = j /\ old' = o
    BY <1>2, <2>2, <2>3, <2>5 DEF Rebuild
  <2>7. /\ Shaped(j) /\ j.op = "try" /\ j.key = key /\ j.asked = asked /\ j.rebuilds
        /\ j.next = k + 1 /\ j.waits = waits
    BY <2>5 DEF Attempt, HashIdle, Shaped
  <2>8. Whole(c, o, j) = Stored(o.tab) \cup ({waits} \ {NoKey})
    BY <2>7 DEF Whole
  <2>9. Refills(h, c, o, j)
    BY <2>4, <2>7 DEF Refills
  <2>10. key \notin Stored(c.tab)
    BY <2>4
  <2>11. j.asked # NoKey <=> Asked(j)
    BY <2>7 DEF Asked
  <2>12. j.asked # NoKey => j.asked \in Whole(c, o, j)
    BY <2>7, <2>8
  <2>13. JobInv(h, c, o, j)
    BY <2>4, <2>7, <2>9, <2>10, <2>11, <2>12 DEF JobInv
  <2> QED  BY <2>6, <2>7, <2>8, <2>13
<1>3. CASE ~(c.count < o.count)
  <2>1. Stored(c.tab) = Stored(o.tab)
    <3>1. Stored(c.tab) \in SUBSET Stored(o.tab)
      OBVIOUS
    <3>2. Cardinality(Stored(c.tab)) <= Cardinality(Stored(o.tab))
      BY <1>1, <3>1, FS_Subset
    <3>3. Cardinality(Stored(c.tab)) = Cardinality(Stored(o.tab))
      BY <1>1, <1>3, <3>2
    <3> QED  BY <1>1, <3>1, <3>3, FS_Subset
  <2>2. PICK j : j = IF waits = NoKey THEN HashIdle ELSE Attempt(waits, asked)
    OBVIOUS
  <2>3. job' = j
    BY <1>3, <2>2 DEF Rebuild
  <2>4. /\ Shaped(j) /\ j.op = (IF waits = NoKey THEN "idle" ELSE "try")
        /\ j.key = waits /\ j.asked = asked /\ ~j.rebuilds
    BY <2>2 DEF Attempt, HashIdle, Shaped
  <2>5. Whole(c, old', j) = Stored(o.tab) \cup ({waits} \ {NoKey})
    BY <2>1, <2>4 DEF Whole
  <2>6. waits # NoKey => waits \in HKeys
    BY DEF Values
  <2>7. j.asked # NoKey <=> Asked(j)
    BY <2>4 DEF Asked
  <2>8. j.asked # NoKey => j.asked \in Whole(c, old', j)
    BY <2>4, <2>5
  <2>9. JobInv(h, c, old', j)
    BY <2>1, <2>4, <2>6, <2>7, <2>8 DEF JobInv
  <2> QED  BY <2>3, <2>4, <2>5, <2>9
<1> QED  BY <1>2, <1>3
-----------------------------------------------------------------------------
(* The callers.                                                            *)

(* Keys are finitely many. *)
LEMMA KeysFinite ==
  ASSUME NEW S, S \subseteq HKeys
  PROVE  IsFiniteSet(S) /\ Cardinality(S) \in Nat
<1>1. IsFiniteSet(HKeys)
  BY CuckooAssumption
<1>2. S \in SUBSET HKeys
  OBVIOUS
<1>3. IsFiniteSet(S)
  BY <1>1, <1>2, FS_Subset
<1> QED  BY <1>3, FS_CardinalityType

(* Fewer keys are missing when fewer were told to be there, or more belong *)
(* to the table.                                                           *)
LEMMA FewerMissing ==
  ASSUME NEW S, NEW T, S \subseteq HKeys, T \subseteq S, NEW n, Cardinality(S) <= n, n \in Nat
  PROVE  Cardinality(T) <= n
<1>1. IsFiniteSet(S) /\ Cardinality(S) \in Nat /\ Cardinality(T) \in Nat /\ T \in SUBSET S
  BY KeysFinite
<1>2. Cardinality(T) <= Cardinality(S)
  BY <1>1, FS_Subset
<1> QED  BY <1>1, <1>2

-----------------------------------------------------------------------------
(* Insertions.                                                             *)

(* With the table that follows from the insertion of the key in hand, the  *)
(* job goes on to the next.                                                *)
LEMMA Succeeded ==
  ASSUME HashInv, job.op \in {"try", "evict"}, NEW tab, SoundTab(hash, tab, ckh.lg),
         Stored(tab) = Stored(ckh.tab) \cup {job.key},
         Cardinality(Stored(tab)) = Cardinality(Stored(ckh.tab)) + 1, Succeeds(tab)
  PROVE  HashInv'
<1>1. PICK h : h = hash
  OBVIOUS
<1>2. PICK c : c = ckh
  OBVIOUS
<1>3. PICK o : o = old
  OBVIOUS
<1>4. PICK j : j = job
  OBVIOUS
<1>5. PICK d : d = [c EXCEPT !.tab = tab, !.count = @ + 1]
  OBVIOUS
<1>6. Sound(h, c) /\ JobInv(h, c, o, j) /\ History(Whole(c, o, j), j.asked, inserted, refused, failures)
  BY <1>1, <1>2, <1>3, <1>4 DEF HashInv
<1>7. hash' = h /\ ckh' = d /\ refused' = refused /\ failures' = failures
  BY <1>1, <1>2, <1>5 DEF Succeeds
<1>8. /\ d.tab = tab /\ d.lg = c.lg /\ d.count = c.count + 1
      /\ d = [tab |-> d.tab, lg |-> d.lg, count |-> d.count]
  BY <1>5, <1>6 DEF Sound
<1>9. Sound(h, d)
  BY <1>1, <1>2, <1>6, <1>8 DEF Sound
<1>10. j.op \in {"try", "evict"} /\ Stored(d.tab) = Stored(c.tab) \cup {j.key} /\ j.key \in HKeys
  BY <1>2, <1>4, <1>6, <1>8 DEF JobInv
<1>11. Whole(c, o, j) \subseteq HKeys /\ NoKey \notin Whole(c, o, j) /\ NoKey \notin HKeys
  BY <1>6, WholeType, CuckooAssumption
<1>12. CASE j.rebuilds
  <2>1. Rebuild(d.count, o, j.next, j.asked, j.waits) /\ inserted' = inserted
    BY <1>2, <1>3, <1>4, <1>8, <1>12 DEF Succeeds
  <2>2. Refills(h, c, o, j)
    BY <1>6, <1>12 DEF JobInv
  <2>3. Whole(c, o, j) = Stored(o.tab) \cup ({j.waits} \ {NoKey})
    BY <1>12 DEF Whole
  <2>4. j.asked # NoKey <=> j.waits # NoKey
    BY <1>6, <1>10, <1>12 DEF JobInv, Asked
  <2>5. j.asked # NoKey => j.asked \in Stored(o.tab) \cup {j.waits}
    BY <1>6, <2>3 DEF JobInv
  <2>6. /\ Sound(h, o) /\ j.next \in Nat /\ j.waits \in Values /\ j.waits \notin Stored(o.tab)
        /\ Stored(d.tab) \cup Ahead(o.tab, j.next) = Stored(o.tab)
        /\ Stored(d.tab) \cap Ahead(o.tab, j.next) = {}
    BY <1>10, <2>2 DEF Refills
  <2>7. /\ JobInv(h, d, old', job') /\ job'.asked = j.asked
        /\ Whole(d, old', job') = Whole(c, o, j)
    <3>1. PICK f : f = j.next
      OBVIOUS
    <3>2. PICK a : a = j.asked
      OBVIOUS
    <3>3. PICK w : w = j.waits
      OBVIOUS
    <3>4. /\ Sound(h, o) /\ f \in Nat /\ w \in Values /\ w \notin Stored(o.tab)
          /\ Stored(d.tab) \cup Ahead(o.tab, f) = Stored(o.tab)
          /\ Stored(d.tab) \cap Ahead(o.tab, f) = {}
      BY <2>6, <3>1, <3>3
    <3>5. a # NoKey <=> w # NoKey
      BY <2>4, <3>2, <3>3
    <3>6. a # NoKey => a \in Stored(o.tab) \cup {w}
      BY <2>5, <3>2, <3>3
    <3>7. Rebuild(d.count, o, f, a, w)
      BY <2>1, <3>1, <3>2, <3>3
    <3>8. /\ JobInv(h, d, old', job') /\ job'.asked = a
          /\ Whole(d, old', job') = Stored(o.tab) \cup ({w} \ {NoKey})
      BY <1>9, <3>4, <3>5, <3>6, <3>7, Rebuilds
    <3> QED BY <2>3, <3>2, <3>3, <3>8
  <2> QED  BY <1>6, <1>7, <1>9, <2>1, <2>7 DEF HashInv
<1>13. CASE ~j.rebuilds
  <2>1. job' = HashIdle /\ old' = o /\ inserted' = inserted \cup {j.asked}
    BY <1>3, <1>4, <1>13 DEF Succeeds
  <2>2. PICK i : i = HashIdle
    OBVIOUS
  <2>3. Shaped(i) /\ i.op = "idle" /\ i.key = NoKey /\ i.asked = NoKey /\ ~i.rebuilds
    BY <2>2 DEF HashIdle, Shaped
  <2>4. Whole(d, o, i) = Whole(c, o, j)
    BY <1>10, <1>11, <1>13, <2>3 DEF Whole
  <2>5. JobInv(h, d, o, i)
    BY <2>3 DEF JobInv, Asked
  <2>6. j.asked # NoKey /\ j.asked \in Whole(c, o, j)
    BY <1>6, <1>10, <1>13 DEF JobInv, Asked
  <2>7. PICK W : W = Whole(c, o, j)
    OBVIOUS
  <2>8. /\ inserted \subseteq HKeys /\ refused \subseteq HKeys /\ failures \in Nat
        /\ W \subseteq inserted \cup refused \cup {j.asked} /\ Cardinality(inserted \ W) <= failures
    BY <1>6, <2>7 DEF History
  <2>9. (inserted \cup {j.asked}) \ W = inserted \ W
    BY <2>6, <2>7
  <2>10. History(W, i.asked, inserted', refused, failures)
    BY <1>11, <2>1, <2>6, <2>7, <2>8, <2>9 DEF History
  <2> QED  BY <1>7, <1>9, <2>1, <2>2, <2>4, <2>5, <2>7, <2>10 DEF HashInv
<1> QED  BY <1>12, <1>13

(* Where the table has to grow, another key may be the one in hand.        *)
LEMMA Failed ==
  ASSUME HashInv, job.op \in {"try", "evict"}, NEW tab, SoundTab(hash, tab, ckh.lg),
         NEW key \in HKeys, key \notin Stored(tab),
         Stored(tab) \cup {key} = Stored(ckh.tab) \cup {job.key},
         Cardinality(Stored(tab)) = Cardinality(Stored(ckh.tab)), Fails(tab, key)
  PROVE  HashInv'
<1>1. PICK h : h = hash
  OBVIOUS
<1>2. PICK c : c = ckh
  OBVIOUS
<1>3. PICK o : o = old
  OBVIOUS
<1>4. PICK j : j = job
  OBVIOUS
<1>6. Sound(h, c) /\ JobInv(h, c, o, j) /\ History(Whole(c, o, j), j.asked, inserted, refused, failures)
  BY <1>1, <1>2, <1>3, <1>4 DEF HashInv
<1>7. hash' = h /\ inserted' = inserted /\ refused' = refused /\ failures' = failures
  BY <1>1 DEF Fails
<1>8. NoKey \notin HKeys /\ j.op \in {"try", "evict"} /\ j.key \in HKeys
  BY <1>4, <1>6, CuckooAssumption DEF JobInv
<1>9. SUFFICES ASSUME NEW d, NEW u, NEW i, ckh' = d, old' = u, job' = i
               PROVE  /\ Sound(h, d) /\ JobInv(h, d, u, i) /\ i.asked = j.asked
                      /\ Whole(d, u, i) = Whole(c, o, j)
  BY <1>6, <1>7 DEF HashInv
<1>10. CASE j.rebuilds
  <2>1. /\ d = o
        /\ i = IF j.waits = NoKey THEN HashIdle ELSE Growing(j.waits, j.asked, c.lg + 1)
    BY <1>2, <1>3, <1>4, <1>9, <1>10 DEF Fails, BackOut
  <2>2. Refills(h, c, o, j)
    BY <1>6, <1>10 DEF JobInv
  <2>3. Sound(h, o) /\ j.waits \in Values /\ j.waits \notin Stored(o.tab)
    BY <2>2 DEF Refills
  <2>4. Whole(c, o, j) = Stored(o.tab) \cup ({j.waits} \ {NoKey})
    BY <1>10 DEF Whole
  <2>5. j.asked # NoKey <=> j.waits # NoKey
    BY <1>6, <1>8, <1>10 DEF JobInv, Asked
  <2>6. j.asked # NoKey => j.asked \in Whole(c, o, j)
    BY <1>6 DEF JobInv
  <2>7. /\ Shaped(i) /\ i.op = (IF j.waits = NoKey THEN "idle" ELSE "grow")
        /\ i.key = j.waits /\ i.asked = j.asked /\ ~i.rebuilds
    BY <2>1, <2>5 DEF HashIdle, Growing, Shaped
  <2>8. Whole(d, u, i) = Whole(c, o, j)
    BY <2>1, <2>4, <2>7 DEF Whole
  <2>9. i.asked # NoKey <=> Asked(i)
    BY <2>5, <2>7 DEF Asked
  <2>10. JobInv(h, d, u, i)
    BY <1>8, <2>1, <2>3, <2>6, <2>7, <2>8, <2>9 DEF JobInv, Values
  <2> QED  BY <2>1, <2>3, <2>7, <2>8, <2>10
<1>11. CASE ~j.rebuilds
  <2>1. /\ d = [c EXCEPT !.tab = tab] /\ u = o /\ i = Growing(key, j.asked, c.lg + 1)
    BY <1>2, <1>3, <1>4, <1>9, <1>11 DEF Fails
  <2>2. /\ d.tab = tab /\ d.lg = c.lg /\ d.count = c.count
        /\ d = [tab |-> d.tab, lg |-> d.lg, count |-> d.count]
    BY <1>6, <2>1 DEF Sound
  <2>3. Sound(h, d)
    BY <1>1, <1>2, <1>6, <2>2 DEF Sound
  <2>4. /\ Shaped(i) /\ i.op = "grow" /\ i.key = key /\ i.asked = j.asked /\ ~i.rebuilds
    BY <2>1 DEF Growing, HashIdle, Shaped
  <2>5. Whole(d, u, i) = Whole(c, o, j)
    BY <1>2, <1>4, <1>8, <1>11, <2>2, <2>4 DEF Whole
  <2>6. j.asked # NoKey /\ j.asked \in Whole(c, o, j)
    BY <1>6, <1>8, <1>11 DEF JobInv, Asked
  <2>7. JobInv(h, d, u, i)
    BY <2>2, <2>4, <2>5, <2>6 DEF JobInv, Asked
  <2> QED  BY <2>3, <2>4, <2>5, <2>7
<1> QED  BY <1>10, <1>11
(* A search finds the keys that are in the table. *)
LEMMA Searches ==
  ASSUME Sound(hash, ckh), NEW key \in HKeys
  PROVE  ckh_isearch(key) <=> key \in Stored(ckh.tab)
<1>1. key # NoKey
  BY CuckooAssumption
<1>2. SoundTab(hash, ckh.tab, ckh.lg)
  BY DEF Sound
<1>3. ASSUME ckh_isearch(key) PROVE key \in Stored(ckh.tab)
  BY <1>1, <1>3 DEF ckh_isearch, CellsOf, Stored
<1>4. ASSUME key \in Stored(ckh.tab) PROVE ckh_isearch(key)
  <2>1. PICK k \in DOMAIN ckh.tab : ckh.tab[k] = key
    BY <1>4 DEF Stored
  <2>2. PICK i \in {1, 2} : k \div 2 ^ LgCells = hash[key][i] % 2 ^ ckh.lg
    BY <1>1, <1>2, <2>1 DEF SoundTab, AtHome
  <2> QED  BY <2>1, <2>2 DEF ckh_isearch, CellsOf, Bucket, BucketAt
<1> QED  BY <1>3, <1>4

LEMMA TryInsertKeeps ==
  ASSUME HashInv, TryInsert
  PROVE  HashInv'
<1>1. PICK h : h = hash
  OBVIOUS
<1>2. PICK c : c = ckh
  OBVIOUS
<1>3. PICK o : o = old
  OBVIOUS
<1>4. PICK j : j = job
  OBVIOUS
<1>5. Sound(h, c) /\ JobInv(h, c, o, j) /\ History(Whole(c, o, j), j.asked, inserted, refused, failures)
  BY <1>1, <1>2, <1>3, <1>4 DEF HashInv
<1>6. j.op = "try" /\ j.key \in HKeys /\ j.key \notin Stored(c.tab) /\ SoundTab(h, c.tab, c.lg)
      /\ c.count = Cardinality(Stored(c.tab))
  BY <1>4, <1>5 DEF JobInv, TryInsert, Sound
<1>7. ASSUME NEW i \in {1, 2}, NEW k \in FreeCells(ckh.tab, Bucket(job.key, i)),
             Succeeds(Place(ckh.tab, k, job.key))
      PROVE  HashInv'
  <2>1. k \in DOMAIN c.tab /\ c.tab[k] = NoKey /\ AtHome(h, j.key, k, c.lg)
    BY <1>1, <1>2, <1>4, <1>7 DEF FreeCells, CellsOf, Bucket, BucketAt, AtHome
  <2>2. /\ SoundTab(h, Place(c.tab, k, j.key), c.lg)
        /\ Stored(Place(c.tab, k, j.key)) = Stored(c.tab) \cup {j.key}
        /\ Cardinality(Stored(Place(c.tab, k, j.key))) = Cardinality(Stored(c.tab)) + 1
    BY <1>6, <2>1, PlaceFree
  <2>3. PICK tab : tab = Place(c.tab, k, j.key)
    OBVIOUS
  <2>4. /\ SoundTab(hash, tab, ckh.lg) /\ Stored(tab) = Stored(ckh.tab) \cup {job.key}
        /\ Cardinality(Stored(tab)) = Cardinality(Stored(ckh.tab)) + 1 /\ Succeeds(tab)
    BY <1>1, <1>2, <1>4, <1>7, <2>2, <2>3
  <2>5. job.op \in {"try", "evict"}
    BY <1>4, <1>6
  <2> QED  BY <2>4, <2>5, Succeeded
<1>8. ASSUME FreeCells(ckh.tab, Bucket(job.key, 2)) = {},
             job' = [job EXCEPT !.op = "evict", !.arg = Bucket(job.key, 2), !.at = Bucket(job.key, 2)],
             UNCHANGED <<hash, ckh, old, inserted, refused, failures>>
      PROVE  HashInv'
  <2>1. PICK i : i = [j EXCEPT !.op = "evict", !.arg = Bucket(job.key, 2), !.at = Bucket(job.key, 2)]
    OBVIOUS
  <2>2. Shaped(j)
    BY <1>5 DEF JobInv
  <2>3. /\ Shaped(i) /\ i.op = "evict" /\ i.key = j.key /\ i.asked = j.asked
        /\ i.at = Bucket(job.key, 2) /\ i.rebuilds = j.rebuilds /\ i.next = j.next /\ i.waits = j.waits
    BY <2>1, <2>2 DEF Shaped
  <2>4. Whole(c, o, i) = Whole(c, o, j)
    BY <2>3 DEF Whole
  <2>5. i.at = h[i.key][2] % 2 ^ c.lg
    BY <1>1, <1>2, <1>4, <2>3 DEF Bucket, BucketAt
  <2>6. Crowded(h, c, i)
    BY <1>2, <1>8, <2>3, <2>5 DEF Crowded
  <2>7. i.rebuilds => Refills(h, c, o, i)
    BY <1>5, <2>3 DEF JobInv, Refills
  <2>8. Asked(i) <=> Asked(j)
    BY <1>6, <2>3 DEF Asked
  <2>9. JobInv(h, c, o, i)
    BY <1>5, <1>6, <2>3, <2>4, <2>6, <2>7, <2>8 DEF JobInv
  <2>10. job' = i /\ hash' = h /\ ckh' = c /\ old' = o /\ inserted' = inserted
         /\ refused' = refused /\ failures' = failures
    BY <1>1, <1>2, <1>3, <1>4, <1>8, <2>1
  <2> QED  BY <1>5, <2>3, <2>4, <2>9, <2>10 DEF HashInv
<1> QED  BY <1>7, <1>8 DEF TryInsert

LEMMA EvictKeeps ==
  ASSUME HashInv, Evict
  PROVE  HashInv'
<1>1. PICK h : h = hash
  OBVIOUS
<1>2. PICK c : c = ckh
  OBVIOUS
<1>3. PICK o : o = old
  OBVIOUS
<1>4. PICK j : j = job
  OBVIOUS
<1>5. Sound(h, c) /\ JobInv(h, c, o, j) /\ History(Whole(c, o, j), j.asked, inserted, refused, failures)
  BY <1>1, <1>2, <1>3, <1>4 DEF HashInv
<1>6. /\ j.op = "evict" /\ j.key \in HKeys /\ j.key \notin Stored(c.tab) /\ SoundTab(h, c.tab, c.lg)
      /\ Crowded(h, c, j)
  BY <1>4, <1>5 DEF JobInv, Evict, Sound
<1>7. PICK k \in CellsOf(c.tab, j.at) :
        LET key == c.tab[k]
            tab == Place(c.tab, k, j.key)
            other == OtherBucket(key, j.at)
            free == FreeCells(tab, other)
        IN \/ other = j.arg /\ Fails(tab, key)
           \/ other # j.arg /\ \E m \in free : Succeeds(Place(tab, m, key))
           \/ /\ other # j.arg /\ free = {}
              /\ ckh' = [c EXCEPT !.tab = tab]
              /\ job' = [j EXCEPT !.key = key, !.at = other]
              /\ UNCHANGED <<hash, old, inserted, refused, failures>>
  BY <1>2, <1>4 DEF Evict
<1>8. PICK e : e = c.tab[k]
  OBVIOUS
<1>9. PICK tab : tab = Place(c.tab, k, j.key)
  OBVIOUS
<1>10. PICK other : other = OtherBucket(e, j.at)
  OBVIOUS
<1>11. \/ Fails(tab, e)
       \/ \E m \in FreeCells(tab, other) : Succeeds(Place(tab, m, e))
       \/ /\ FreeCells(tab, other) = {}
          /\ ckh' = [c EXCEPT !.tab = tab]
          /\ job' = [j EXCEPT !.key = e, !.at = other]
          /\ UNCHANGED <<hash, old, inserted, refused, failures>>
  BY <1>7, <1>8, <1>9, <1>10
<1>12. k \in DOMAIN c.tab /\ c.tab[k] # NoKey /\ AtHome(h, j.key, k, c.lg)
  BY <1>6, <1>7 DEF Crowded, FreeCells, CellsOf, AtHome
<1>13. /\ SoundTab(h, tab, c.lg) /\ e \in Stored(c.tab) /\ e \notin Stored(tab)
       /\ Stored(tab) \cup {e} = Stored(c.tab) \cup {j.key}
       /\ Cardinality(Stored(tab)) = Cardinality(Stored(c.tab))
  BY <1>6, <1>8, <1>9, <1>12, PlaceOver
<1>14. e \in HKeys
  BY <1>6, <1>13, StoredFinite
<1>15. PICK i \in {1, 2} : other = h[e][i] % 2 ^ c.lg
  BY <1>1, <1>2, <1>10 DEF OtherBucket, Bucket, BucketAt
<1>16. job.op \in {"try", "evict"}
  BY <1>4, <1>6
<1>17. CASE Fails(tab, e)
  <2>1. /\ SoundTab(hash, tab, ckh.lg) /\ Stored(tab) \cup {e} = Stored(ckh.tab) \cup {job.key}
        /\ Cardinality(Stored(tab)) = Cardinality(Stored(ckh.tab)) /\ Fails(tab, e)
    BY <1>1, <1>2, <1>4, <1>13, <1>17
  <2> QED  BY <1>13, <1>14, <1>16, <2>1, Failed
<1>18. CASE \E m \in FreeCells(tab, other) : Succeeds(Place(tab, m, e))
  <2>1. PICK m \in FreeCells(tab, other) : Succeeds(Place(tab, m, e))
    BY <1>18
  <2>2. m \in DOMAIN tab /\ tab[m] = NoKey /\ AtHome(h, e, m, c.lg)
    BY <1>15, <2>1 DEF FreeCells, CellsOf, AtHome
  <2>3. PICK new : new = Place(tab, m, e)
    OBVIOUS
  <2>4. /\ SoundTab(h, new, c.lg) /\ Stored(new) = Stored(tab) \cup {e}
        /\ Cardinality(Stored(new)) = Cardinality(Stored(tab)) + 1
    BY <1>13, <1>14, <2>2, <2>3, PlaceFree
  <2>5. /\ SoundTab(hash, new, ckh.lg) /\ Stored(new) = Stored(ckh.tab) \cup {job.key}
        /\ Cardinality(Stored(new)) = Cardinality(Stored(ckh.tab)) + 1 /\ Succeeds(new)
    BY <1>1, <1>2, <1>4, <1>13, <2>1, <2>3, <2>4
  <2> QED  BY <1>16, <2>5, Succeeded
<1>19. CASE /\ FreeCells(tab, other) = {}
            /\ ckh' = [c EXCEPT !.tab = tab]
            /\ job' = [j EXCEPT !.key = e, !.at = other]
            /\ UNCHANGED <<hash, old, inserted, refused, failures>>
  <2>1. PICK d : d = [c EXCEPT !.tab = tab]
    OBVIOUS
  <2>2. PICK q : q = [j EXCEPT !.key = e, !.at = other]
    OBVIOUS
  <2>3. /\ d.tab = tab /\ d.lg = c.lg /\ d.count = c.count
        /\ d = [tab |-> d.tab, lg |-> d.lg, count |-> d.count]
    BY <1>5, <2>1 DEF Sound
  <2>4. Sound(h, d)
    BY <1>5, <1>13, <2>3 DEF Sound
  <2>5. Shaped(j)
    BY <1>5 DEF JobInv
  <2>6. /\ Shaped(q) /\ q.op = "evict" /\ q.key = e /\ q.asked = j.asked
        /\ q.at = other /\ q.rebuilds = j.rebuilds /\ q.next = j.next /\ q.waits = j.waits
    BY <1>6, <2>2, <2>5 DEF Shaped
  <2>7. NoKey \notin HKeys
    BY CuckooAssumption
  <2>8. Whole(d, o, q) = Whole(c, o, j)
    BY <1>6, <1>13, <1>14, <2>3, <2>6, <2>7 DEF Whole
  <2>9. Crowded(h, d, q)
    BY <1>15, <1>19, <2>3, <2>6 DEF Crowded
  <2>10. ASSUME q.rebuilds PROVE Refills(h, d, o, q)
    <3>1. Refills(h, c, o, j)
      BY <1>5, <2>6, <2>10 DEF JobInv
    <3>2. PICK A : A = Ahead(o.tab, j.next)
      OBVIOUS
    <3>3. /\ Stored(c.tab) \cup {j.key} \cup A = Stored(o.tab) /\ j.key \notin A
          /\ Stored(c.tab) \cap A = {}
      BY <3>1, <3>2 DEF Refills
    <3>4. /\ Stored(tab) \cup {e} \cup A = Stored(o.tab) /\ e \notin A
          /\ Stored(tab) \cap A = {}
      BY <1>13, <3>3
    <3> QED  BY <2>3, <2>6, <3>1, <3>2, <3>4 DEF Refills
  <2>11. Asked(q) <=> Asked(j)
    BY <1>6, <2>6 DEF Asked
  <2>12. JobInv(h, d, o, q)
    BY <1>5, <1>13, <1>14, <2>3, <2>6, <2>8, <2>9, <2>10, <2>11 DEF JobInv
  <2>13. job' = q /\ hash' = h /\ ckh' = d /\ old' = o /\ inserted' = inserted
         /\ refused' = refused /\ failures' = failures
    BY <1>1, <1>3, <1>19, <2>1, <2>2
  <2> QED  BY <1>5, <2>4, <2>6, <2>8, <2>12, <2>13 DEF HashInv
<1> QED  BY <1>11, <1>17, <1>18, <1>19
-----------------------------------------------------------------------------
(* Growing and shrinking.                                                  *)

(* Nothing of the old table has been seen when a rebuilding starts. *)
LEMMA AllAhead ==
  ASSUME NEW h, NEW tab, NEW lg, SoundTab(h, tab, lg)
  PROVE  Ahead(tab, 0) = Stored(tab)
<1>1. \A k \in DOMAIN tab : k >= 0
  BY DEF SoundTab
<1> QED  BY <1>1 DEF Ahead, Stored

LEMMA SwappedSound ==
  ASSUME NEW h, NEW lg
  PROVE  Sound(h, SwappedIn(lg)) /\ Stored(SwappedIn(lg).tab) = {} /\ SwappedIn(lg).count = 0
<1>1. /\ SwappedIn(lg).tab = EmptyTab(lg) /\ SwappedIn(lg).lg = lg /\ SwappedIn(lg).count = 0
      /\ SwappedIn(lg) = [tab |-> SwappedIn(lg).tab, lg |-> SwappedIn(lg).lg, count |-> SwappedIn(lg).count]
  BY DEF SwappedIn
<1> QED  BY <1>1, EmptySound DEF Sound

(* A rebuilding that starts from a table o. *)
LEMMA Starts ==
  ASSUME NEW h, NEW o, Sound(h, o), NEW lg, NEW asked, NEW waits \in Values,
         waits \notin Stored(o.tab), asked # NoKey <=> waits # NoKey,
         asked # NoKey => asked \in Stored(o.tab) \cup {waits}, Rebuild(0, o, 0, asked, waits)
  PROVE  /\ Sound(h, SwappedIn(lg)) /\ JobInv(h, SwappedIn(lg), old', job') /\ job'.asked = asked
         /\ Whole(SwappedIn(lg), old', job') = Stored(o.tab) \cup ({waits} \ {NoKey})
<1>1. PICK c : c = SwappedIn(lg)
  OBVIOUS
<1>2. Sound(h, c) /\ Stored(c.tab) = {} /\ c.count = 0
  BY <1>1, SwappedSound
<1>3. Ahead(o.tab, 0) = Stored(o.tab)
  BY AllAhead DEF Sound
<1>4. Stored(c.tab) \cup Ahead(o.tab, 0) = Stored(o.tab) /\ Stored(c.tab) \cap Ahead(o.tab, 0) = {}
  BY <1>2, <1>3
<1>5. Rebuild(c.count, o, 0, asked, waits)
  BY <1>2
<1>6. /\ JobInv(h, c, old', job') /\ job'.asked = asked
      /\ Whole(c, old', job') = Stored(o.tab) \cup ({waits} \ {NoKey})
  BY <1>2, <1>4, <1>5, Rebuilds
<1> QED  BY <1>1, <1>2, <1>6

LEMMA GrowKeeps ==
  ASSUME HashInv, ckh_grow
  PROVE  HashInv'
<1>1. PICK h : h = hash
  OBVIOUS
<1>2. PICK c : c = ckh
  OBVIOUS
<1>3. PICK o : o = old
  OBVIOUS
<1>4. PICK j : j = job
  OBVIOUS
<1>5. Sound(h, c) /\ JobInv(h, c, o, j) /\ History(Whole(c, o, j), j.asked, inserted, refused, failures)
  BY <1>1, <1>2, <1>3, <1>4 DEF HashInv
<1>6. /\ ckh' = SwappedIn(j.lg) /\ Rebuild(0, c, 0, j.asked, j.key)
      /\ hash' = h /\ inserted' = inserted /\ refused' = refused /\ failures' = failures
  BY <1>1, <1>2, <1>4 DEF ckh_grow
<1>7. j.op = "grow" /\ ~j.rebuilds /\ j.key \in HKeys /\ j.key \notin Stored(c.tab)
  BY <1>4, <1>5 DEF ckh_grow, JobInv, Shaped
<1>8. j.key # NoKey /\ j.key \in Values
  BY <1>7, CuckooAssumption DEF Values
<1>9. Whole(c, o, j) = Stored(c.tab) \cup ({j.key} \ {NoKey})
  BY <1>7 DEF Whole
<1>10. j.asked # NoKey /\ j.asked \in Whole(c, o, j)
  BY <1>5, <1>7 DEF JobInv, Asked
<1>11. /\ Sound(h, SwappedIn(j.lg)) /\ JobInv(h, SwappedIn(j.lg), old', job') /\ job'.asked = j.asked
       /\ Whole(SwappedIn(j.lg), old', job') = Stored(c.tab) \cup ({j.key} \ {NoKey})
  <2>1. j.asked # NoKey <=> j.key # NoKey
    BY <1>8, <1>10
  <2>2. j.asked # NoKey => j.asked \in Stored(c.tab) \cup {j.key}
    BY <1>9, <1>10
  <2> QED  BY <1>5, <1>6, <1>7, <1>8, <2>1, <2>2, Starts
<1> QED  BY <1>5, <1>6, <1>9, <1>11 DEF HashInv

(* The key in hand is dropped: one more is missing, after one more failure.*)
LEMMA GrowFailsKeeps ==
  ASSUME HashInv, GrowFails
  PROVE  HashInv'
<1>1. PICK h : h = hash
  OBVIOUS
<1>2. PICK c : c = ckh
  OBVIOUS
<1>3. PICK o : o = old
  OBVIOUS
<1>4. PICK j : j = job
  OBVIOUS
<1>5. Sound(h, c) /\ JobInv(h, c, o, j) /\ History(Whole(c, o, j), j.asked, inserted, refused, failures)
  BY <1>1, <1>2, <1>3, <1>4 DEF HashInv
<1>6. j.op = "grow" /\ ~j.rebuilds /\ j.key \in HKeys /\ j.key \notin Stored(c.tab) /\ NoKey \notin HKeys
  BY <1>4, <1>5, CuckooAssumption DEF GrowFails, JobInv, Shaped
<1>7. PICK i : i = HashIdle
  OBVIOUS
<1>8. /\ job' = i /\ hash' = h /\ ckh' = c /\ old' = o /\ inserted' = inserted
      /\ refused' = refused \cup {j.asked} /\ failures' = failures + 1
  BY <1>1, <1>2, <1>3, <1>4, <1>7 DEF GrowFails
<1>9. Shaped(i) /\ i.op = "idle" /\ i.key = NoKey /\ i.asked = NoKey /\ ~i.rebuilds
  BY <1>7 DEF HashIdle, Shaped
<1>10. PICK S : S = Stored(c.tab)
  OBVIOUS
<1>11. Whole(c, o, j) = S \cup {j.key} /\ Whole(c, o, i) = S
  BY <1>6, <1>9, <1>10 DEF Whole
<1>12. JobInv(h, c, o, i)
  BY <1>9 DEF JobInv, Asked
<1>13. j.asked \in HKeys
  BY <1>5, <1>6, WholeType DEF JobInv, Asked
<1>14. /\ inserted \subseteq HKeys /\ refused \subseteq HKeys /\ failures \in Nat
       /\ S \cup {j.key} \subseteq inserted \cup refused \cup {j.asked}
       /\ Cardinality(inserted \ (S \cup {j.key})) <= failures
  BY <1>5, <1>11 DEF History
<1>15. Cardinality(inserted \ S) <= failures + 1
  <2>1. PICK T : T = inserted \ (S \cup {j.key})
    OBVIOUS
  <2>2. IsFiniteSet(T) /\ Cardinality(T) \in Nat /\ Cardinality(T) <= failures
    BY <1>14, <2>1, KeysFinite
  <2>3. Cardinality(T \cup {j.key}) <= failures + 1
    <3>1. Cardinality(T \cup {j.key}) = IF j.key \in T THEN Cardinality(T) ELSE Cardinality(T) + 1
      BY <2>2, FS_AddElement
    <3>2. PICK n \in Nat : n = failures
      BY <1>14
    <3>3. PICK m \in Nat : m = Cardinality(T)
      BY <2>2
    <3>4. m <= n
      BY <2>2, <3>2, <3>3
    <3>5. Cardinality(T \cup {j.key}) \in {m, m + 1}
      BY <3>1, <3>3
    <3> QED  BY <3>2, <3>4, <3>5
  <2>4. inserted \ S \subseteq T \cup {j.key} /\ T \cup {j.key} \subseteq HKeys
    BY <1>6, <1>14, <2>1
  <2>5. failures + 1 \in Nat
    BY <1>14
  <2> QED  BY <2>3, <2>4, <2>5, FewerMissing
<1>16. History(S, i.asked, inserted, refused \cup {j.asked}, failures + 1)
  BY <1>13, <1>14, <1>15 DEF History
<1> QED  BY <1>5, <1>8, <1>11, <1>12, <1>16 DEF HashInv

-----------------------------------------------------------------------------
(* The other calls.                                                        *)

LEMMA NewKeeps ==
  ASSUME HashInv, ckh_new
  PROVE  HashInv'
<1>1. ckh' = SwappedIn(LgMin) /\ job' = HashIdle
      /\ UNCHANGED <<hash, old, inserted, refused, failures>> /\ job.op = "unmade"
  BY DEF ckh_new, SwappedIn
<1>2. PICK d : d = SwappedIn(LgMin)
  OBVIOUS
<1>3. Sound(hash, d) /\ Stored(d.tab) = {}
  BY <1>2, SwappedSound
<1>4. PICK i : i = HashIdle
  OBVIOUS
<1>5. Shaped(i) /\ i.op = "idle" /\ i.key = NoKey /\ i.asked = NoKey /\ ~i.rebuilds
  BY <1>4 DEF HashIdle, Shaped
<1>6. PICK j : j = job
  OBVIOUS
<1>7. JobInv(hash, ckh, old, j) /\ History(Whole(ckh, old, j), j.asked, inserted, refused, failures)
      /\ j.op = "unmade"
  BY <1>1, <1>6 DEF HashInv
<1>8. ~j.rebuilds /\ Stored(ckh.tab) = {} /\ j.key = NoKey /\ j.asked = NoKey
  BY <1>7 DEF JobInv, Asked, Shaped
<1>9. Whole(ckh, old, j) = {} /\ Whole(d, old, i) = {}
  BY <1>3, <1>5, <1>8 DEF Whole
<1>10. JobInv(hash, d, old, i)
  BY <1>5 DEF JobInv, Asked
<1>11. History(Whole(d, old, i), i.asked, inserted, refused, failures)
  BY <1>5, <1>7, <1>8, <1>9
<1> QED  BY <1>1, <1>2, <1>3, <1>4, <1>10, <1>11 DEF HashInv

(* Nothing is left. *)
LEMMA NothingKeeps ==
  ASSUME NEW h, NEW o, NEW n \in Nat
  PROVE  /\ Sound(h, NoTable) /\ JobInv(h, NoTable, o, Unmade)
         /\ History(Whole(NoTable, o, Unmade), Unmade.asked, {}, {}, n)
<1>1. PICK i : i = Unmade
  OBVIOUS
<1>2. Shaped(i) /\ i.op = "unmade" /\ i.key = NoKey /\ i.asked = NoKey /\ ~i.rebuilds
  BY <1>1 DEF Unmade, HashIdle, Shaped
<1>3. Sound(h, NoTable) /\ Stored(NoTable.tab) = {}
  BY NoTableSound
<1>4. JobInv(h, NoTable, o, i)
  BY <1>2, <1>3 DEF JobInv, Asked
<1>5. Whole(NoTable, o, i) = {}
  BY <1>2, <1>3 DEF Whole
<1>6. Cardinality({}) = 0
  BY FS_EmptySet
<1>7. History(Whole(NoTable, o, i), i.asked, {}, {}, n)
  BY <1>5, <1>6 DEF History
<1> QED  BY <1>1, <1>3, <1>4, <1>7

LEMMA DeleteKeeps ==
  ASSUME HashInv, ckh_delete
  PROVE  HashInv'
<1>1. failures \in Nat
  BY DEF HashInv, History
<1>2. /\ ckh' = NoTable /\ job' = Unmade /\ inserted' = {} /\ refused' = {}
      /\ hash' = hash /\ old' = old /\ failures' = failures
  BY DEF ckh_delete
<1> QED  BY <1>1, <1>2, NothingKeeps DEF HashInv

LEMMA InsertKeeps ==
  ASSUME HashInv, NEW key \in HKeys, ckh_insert(key)
  PROVE  HashInv'
<1>1. PICK j : j = job
  OBVIOUS
<1>2. Sound(hash, ckh) /\ JobInv(hash, ckh, old, j)
      /\ History(Whole(ckh, old, j), j.asked, inserted, refused, failures)
  BY <1>1 DEF HashInv
<1>3. /\ job' = Attempt(key, key) /\ UNCHANGED <<hash, ckh, old, inserted, refused, failures>>
      /\ j.op = "idle" /\ ~ckh_isearch(key)
  BY <1>1 DEF ckh_insert
<1>4. PICK S : S = Stored(ckh.tab)
  OBVIOUS
<1>5. key \notin S /\ key # NoKey
  BY <1>2, <1>3, <1>4, Searches, CuckooAssumption
<1>6. Whole(ckh, old, j) = S /\ j.asked = NoKey
  BY <1>2, <1>3, <1>4 DEF JobInv, Shaped, Asked, Whole
<1>7. PICK i : i = Attempt(key, key)
  OBVIOUS
<1>8. Shaped(i) /\ i.op = "try" /\ i.key = key /\ i.asked = key /\ ~i.rebuilds
  BY <1>7 DEF Attempt, HashIdle, Shaped
<1>9. Whole(ckh, old, i) = S \cup {key}
  BY <1>4, <1>5, <1>8 DEF Whole
<1>10. JobInv(hash, ckh, old, i)
  BY <1>4, <1>5, <1>8, <1>9 DEF JobInv, Asked
<1>11. /\ inserted \subseteq HKeys /\ refused \subseteq HKeys /\ failures \in Nat
       /\ S \subseteq inserted \cup refused \cup {NoKey} /\ Cardinality(inserted \ S) <= failures
  BY <1>2, <1>6 DEF History
<1>12. NoKey \notin S
  BY <1>2, <1>4 DEF Stored
<1>13. Cardinality(inserted \ (S \cup {key})) <= failures
  <2>1. inserted \ S \subseteq HKeys /\ inserted \ (S \cup {key}) \subseteq inserted \ S
    BY <1>11
  <2> QED  BY <1>11, <2>1, FewerMissing
<1>14. History(S \cup {key}, key, inserted, refused, failures)
  BY <1>11, <1>12, <1>13 DEF History
<1> QED  BY <1>2, <1>3, <1>7, <1>8, <1>9, <1>10, <1>14 DEF HashInv

LEMMA RemoveKeeps ==
  ASSUME HashInv, NEW key \in HKeys, ckh_remove(key)
  PROVE  HashInv'
<1>1. PICK h : h = hash
  OBVIOUS
<1>2. PICK c : c = ckh
  OBVIOUS
<1>3. PICK j : j = job
  OBVIOUS
<1>4. Sound(h, c) /\ JobInv(h, c, old, j)
      /\ History(Whole(c, old, j), j.asked, inserted, refused, failures)
  BY <1>1, <1>2, <1>3 DEF HashInv
<1>5. /\ j.op = "idle" /\ hash' = h /\ failures' = failures
      /\ inserted' = inserted \ {key} /\ refused' = refused \ {key}
  BY <1>1, <1>3 DEF ckh_remove
<1>6. PICK S : S = Stored(c.tab)
  OBVIOUS
<1>7. /\ ~j.rebuilds /\ j.key = NoKey /\ j.asked = NoKey /\ Whole(c, old, j) = S /\ NoKey \notin S
      /\ key # NoKey
  BY <1>4, <1>5, <1>6, CuckooAssumption DEF JobInv, Shaped, Asked, Whole, Stored
<1>8. /\ inserted \subseteq HKeys /\ refused \subseteq HKeys /\ failures \in Nat
      /\ S \subseteq inserted \cup refused \cup {NoKey} /\ Cardinality(inserted \ S) <= failures
  BY <1>4, <1>7 DEF History
<1>9. History(S \ {key}, NoKey, inserted', refused', failures')
  <2>1. (inserted \ {key}) \ (S \ {key}) \subseteq inserted \ S /\ inserted \ S \subseteq HKeys
    BY <1>8
  <2>2. Cardinality((inserted \ {key}) \ (S \ {key})) <= failures
    BY <1>8, <2>1, FewerMissing
  <2>3. S \ {key} \subseteq (inserted \ {key}) \cup (refused \ {key}) \cup {NoKey}
    BY <1>8
  <2> QED  BY <1>5, <1>8, <2>2, <2>3 DEF History
<1>10. CASE ~ckh_isearch(key) /\ UNCHANGED <<ckh, old, job>>
  <2>1. key \notin S
    BY <1>1, <1>2, <1>4, <1>6, <1>10, Searches
  <2>2. Whole(c, old, j) = S \ {key} /\ j.asked = NoKey
    BY <1>7, <2>1
  <2>3. ckh' = c /\ job' = j /\ old' = old
    BY <1>2, <1>3, <1>10
  <2> QED  BY <1>4, <1>5, <1>9, <2>2, <2>3 DEF HashInv
<1>11. ASSUME NEW k \in DOMAIN c.tab, c.tab[k] = key, NEW left,
              left = [c EXCEPT !.tab = Place(@, k, NoKey), !.count = @ - 1],
              \/ ckh' = left /\ UNCHANGED <<old, job>>
              \/ ckh' = SwappedIn(c.lg - 1) /\ Rebuild(0, left, 0, NoKey, NoKey)
       PROVE  HashInv'
  <2>1. /\ left.tab = Place(c.tab, k, NoKey) /\ left.lg = c.lg /\ left.count = c.count - 1
        /\ left = [tab |-> left.tab, lg |-> left.lg, count |-> left.count]
    BY <1>4, <1>11 DEF Sound
  <2>2. SoundTab(h, c.tab, c.lg) /\ c.count = Cardinality(Stored(c.tab))
    BY <1>4 DEF Sound
  <2>3. /\ SoundTab(h, left.tab, c.lg) /\ Stored(left.tab) = S \ {key}
        /\ Cardinality(Stored(left.tab)) = Cardinality(Stored(c.tab)) - 1
    BY <1>6, <1>7, <1>11, <2>1, <2>2, PlaceNull
  <2>4. Sound(h, left)
    BY <2>1, <2>2, <2>3 DEF Sound
  <2>5. CASE ckh' = left /\ UNCHANGED <<old, job>>
    <3>1. Whole(left, old, j) = S \ {key}
      BY <1>7, <2>3 DEF Whole
    <3>2. JobInv(h, left, old, j)
      BY <1>4, <1>5, <1>7 DEF JobInv
    <3>3. ckh' = left /\ job' = j /\ old' = old
      BY <1>3, <2>5
    <3> QED  BY <1>5, <1>7, <1>9, <2>4, <3>1, <3>2, <3>3 DEF HashInv
  <2>6. CASE ckh' = SwappedIn(c.lg - 1) /\ Rebuild(0, left, 0, NoKey, NoKey)
    <3>1. NoKey \in Values /\ NoKey \notin Stored(left.tab)
      BY <1>7, <2>3 DEF Values
    <3>2. PICK d : d = SwappedIn(c.lg - 1)
      OBVIOUS
    <3>3. /\ Sound(h, d) /\ JobInv(h, d, old', job') /\ job'.asked = NoKey
          /\ Whole(d, old', job') = Stored(left.tab) \cup ({NoKey} \ {NoKey})
      BY <2>4, <2>6, <3>1, <3>2, Starts
    <3>4. Whole(d, old', job') = S \ {key}
      BY <2>3, <3>3
    <3> QED  BY <1>5, <1>9, <2>6, <3>2, <3>3, <3>4 DEF HashInv
  <2> QED  BY <1>11, <2>5, <2>6
<1> QED  BY <1>2, <1>10, <1>11 DEF ckh_remove

-----------------------------------------------------------------------------
(* ckh_new establishes the invariant of the hash table, and every step of  *)
(* ckh_insert, ckh_remove, of an eviction and of a rebuilding, ckh.c:125-  *)
(* 500, keeps it.                                                          *)
THEOREM HashInvariance ==
  /\ HashInit => HashInv
  /\ HashInv /\ [HashStep]_hashVars => HashInv'
<1>1. ASSUME HashInit PROVE HashInv
  <2>1. 0 \in Nat
    OBVIOUS
  <2>2. /\ ckh = NoTable /\ job = Unmade /\ inserted = {} /\ refused = {} /\ failures = 0
    BY <1>1 DEF HashInit
  <2> QED  BY <2>1, <2>2, NothingKeeps DEF HashInv
<1>2. ASSUME HashInv, HashStep PROVE HashInv'
  BY <1>2, TryInsertKeeps, EvictKeeps, GrowKeeps, GrowFailsKeeps, NewKeeps, DeleteKeeps,
     InsertKeeps, RemoveKeeps DEF HashStep
<1>3. ASSUME HashInv, UNCHANGED hashVars PROVE HashInv'
  BY <1>3 DEF HashInv, hashVars
<1> QED  BY <1>1, <1>2, <1>3

(* The table of ckh.c loses no key but the one that each failed insertion  *)
(* leaves out: between calls every key stored is where a search looks,     *)
(* once, and is counted, whatever the hash functions are.                  *)
THEOREM NoKeyIsLost == HashSpec => []KeysKept
<1>1. ASSUME HashInv PROVE KeysKept
  <2>1. SUFFICES ASSUME job.op = "idle"
                 PROVE  /\ \A key \in Stored(ckh.tab) :
                             ckh_isearch(key) /\ Cardinality({k \in DOMAIN ckh.tab : ckh.tab[k] = key}) = 1
                        /\ ckh.count = Cardinality(Stored(ckh.tab))
                        /\ Stored(ckh.tab) \subseteq inserted \cup refused
                        /\ Cardinality(inserted \ Stored(ckh.tab)) <= failures
    BY DEF KeysKept
  <2>2. /\ Sound(hash, ckh) /\ JobInv(hash, ckh, old, job)
        /\ History(Whole(ckh, old, job), job.asked, inserted, refused, failures)
    BY <1>1 DEF HashInv
  <2>3. SoundTab(hash, ckh.tab, ckh.lg) /\ ckh.count = Cardinality(Stored(ckh.tab))
    BY <2>2 DEF Sound
  <2>4. Stored(ckh.tab) \subseteq HKeys /\ NoKey \notin Stored(ckh.tab)
    BY <2>3, StoredFinite
  <2>5. Whole(ckh, old, job) = Stored(ckh.tab) /\ job.asked = NoKey
    BY <2>1, <2>2 DEF JobInv, Shaped, Asked, Whole
  <2>6. ASSUME NEW key \in Stored(ckh.tab)
        PROVE  ckh_isearch(key) /\ Cardinality({k \in DOMAIN ckh.tab : ckh.tab[k] = key}) = 1
    <3>1. PICK k \in DOMAIN ckh.tab : ckh.tab[k] = key /\ key # NoKey
      BY <2>6 DEF Stored
    <3>2. {m \in DOMAIN ckh.tab : ckh.tab[m] = key} = {k}
      BY <2>3, <3>1 DEF SoundTab
    <3>3. Cardinality({k}) = 1
      BY FS_Singleton
    <3>4. ckh_isearch(key)
      BY <2>2, <2>4, Searches
    <3> QED  BY <3>2, <3>3, <3>4
  <2>7. /\ Stored(ckh.tab) \subseteq inserted \cup refused
        /\ Cardinality(inserted \ Stored(ckh.tab)) <= failures
    BY <2>2, <2>4, <2>5 DEF History
  <2> QED  BY <2>3, <2>6, <2>7
<1> QED  BY <1>1, HashInvariance, PTL DEF HashSpec
-----------------------------------------------------------------------------
(* The stack.                                                              *)

(* Where the top of a stack can be.                                        *)
TopPlaced ==
  /\ stack_status = "empty" => (stack_top = 0 /\ lowest = -1) \/ ~Within(stack_top)
  /\ stack_status = "ready" => lowest <= stack_top /\ stack_top <= Depth + 1
  /\ stack_status = "full" => stack_top = Depth + 2
  /\ word = 32 => lowest = -1
  /\ ~Usable => stack_top = 0

(* Nothing was stored at or below the lowest top of a stack that is not    *)
(* dead.                                                                   *)
BelowIsUnset ==
  Holding \/ Within(stack_top) => \A i \in Addressed : i <= lowest => block[i] = Unset

StackIInv == StackTypeOK /\ TopPlaced /\ BelowIsUnset /\ OverrunBounded

(* The comparison of stack.c, on either width. *)
LEMMA WithinMeans ==
  ASSUME StackTypeOK
  PROVE  /\ Depth \in Nat /\ Underrun \in Nat
         /\ stack_top \in Int /\ lowest \in Int /\ lowest <= -1
         /\ -Underrun - 1 <= stack_top /\ stack_top <= Depth + 2
         /\ word \in {32, 64}
         /\ \A t \in Int : Within(t) <=> t <= Depth + 1 /\ (word = 32 => t >= 0)
<1>1. Depth \in Nat /\ Underrun \in Nat /\ word \in {32, 64}
  BY StackAssumption DEF StackTypeOK
<1>2. /\ stack_top \in Int /\ lowest \in Int /\ lowest <= -1
      /\ -Underrun - 1 <= stack_top /\ stack_top <= Depth + 2
  BY <1>1 DEF StackTypeOK
<1>3. \A t \in Int : Within(t) <=> t <= Depth + 1 /\ (word = 32 => t >= 0)
  BY <1>1 DEF Within, stack_depth
<1> QED BY <1>1, <1>2, <1>3

LEMMA StoredStep ==
  ASSUME StackIInv, NEW x \in Items, PushStored(x), word' = word
  PROVE  StackIInv'
<1> DEFINE top == IF stack_status = "empty" THEN stack_top ELSE stack_top + 1
<1>1. /\ stack_status \in {"empty", "ready"} /\ Within(stack_top)
      /\ result' = "ok" /\ lowest' = lowest
      /\ stack_top' = top /\ block' = [block EXCEPT ![top] = x]
      /\ stack_status' = IF Within(top) THEN "ready" ELSE "full"
  BY DEF PushStored
<1>2. /\ Depth \in Nat /\ Underrun \in Nat
      /\ stack_top \in Int /\ lowest \in Int /\ lowest <= -1
      /\ -Underrun - 1 <= lowest
      /\ word \in {32, 64}
      /\ stack_top <= Depth + 1 /\ (word = 32 => stack_top >= 0)
  <2>1. StackTypeOK
    BY DEF StackIInv
  <2> QED BY <1>1, <2>1, WithinMeans DEF StackTypeOK
<1>3. /\ top \in Int /\ lowest < top /\ top <= Depth + 2 /\ (word = 32 => top >= 0)
  <2>1. TopPlaced
    BY DEF StackIInv
  <2>2. CASE stack_status = "empty"
    BY <1>1, <1>2, <2>1, <2>2 DEF TopPlaced
  <2>3. CASE stack_status = "ready"
    BY <1>1, <1>2, <2>1, <2>3 DEF TopPlaced
  <2> QED BY <1>1, <2>2, <2>3
<1>4. top \in Addressed
  BY <1>2, <1>3 DEF Addressed
<1>5. Within(top) <=> top <= Depth + 1
  BY <1>2, <1>3 DEF Within, stack_depth
<1>6. stack_status' = "ready" \/ (stack_status' = "full" /\ top = Depth + 2)
  BY <1>1, <1>2, <1>3, <1>5
<1>7. StackTypeOK'
  BY <1>1, <1>2, <1>3, <1>4, <1>6 DEF StackIInv, StackTypeOK, Addressed
<1>8. TopPlaced'
  <2>1. word = 32 => lowest = -1
    BY DEF StackIInv, TopPlaced
  <2>2. stack_status' = "ready" => top <= Depth + 1
    BY <1>1, <1>5
  <2> QED BY <1>1, <1>2, <1>3, <1>6, <2>1, <2>2 DEF TopPlaced, Usable
<1>9. BelowIsUnset'
  <2> SUFFICES ASSUME NEW i \in Addressed, i <= lowest
               PROVE  block'[i] = Unset
    BY <1>1 DEF BelowIsUnset, Addressed
  <2>1. i \in Int /\ i # top
    BY <1>2, <1>3 DEF Addressed
  <2>2. block'[i] = block[i]
    BY <1>1, <1>4, <2>1 DEF StackIInv, StackTypeOK
  <2> QED BY <1>1, <2>2 DEF StackIInv, BelowIsUnset
<1>10. OverrunBounded'
  <2> SUFFICES ASSUME NEW i \in Addressed, block'[i] # Unset
               PROVE  i <= Depth + 2 /\ i >= lowest /\ (word = 32 => i >= -1)
    BY <1>1 DEF OverrunBounded, Addressed
  <2>1. CASE i = top
    BY <1>2, <1>3, <2>1
  <2>2. CASE i # top
    <3>1. block'[i] = block[i]
      BY <1>1, <1>4, <2>2 DEF StackIInv, StackTypeOK
    <3> QED BY <3>1 DEF StackIInv, OverrunBounded
  <2> QED BY <2>1, <2>2
<1> QED BY <1>7, <1>8, <1>9, <1>10 DEF StackIInv

LEMMA PushStep ==
  ASSUME StackIInv, NEW x \in Items, stack_push(x), word' = word
  PROVE  StackIInv'
<1>1. CASE PushStored(x)
  BY <1>1, StoredStep
<1>2. CASE ~PushStored(x)
  <2>1. /\ UNCHANGED <<stack_top, block, lowest>>
        /\ \/ stack_status' = stack_status /\ result' \in {"ok", "error"}
           \/ stack_status = "unknown" /\ stack_status' = "crashed" /\ result' = result
    BY <1>2 DEF stack_push, PushRefused, PushDropped, Crash
  <2>2. stack_top' = stack_top /\ block' = block /\ lowest' = lowest
    BY <2>1
  <2>3. StackTypeOK'
    BY <2>1, <2>2 DEF StackIInv, StackTypeOK, Addressed
  <2>4. TopPlaced'
    BY <2>1, <2>2 DEF StackIInv, TopPlaced, Usable, Within, stack_depth
  <2>5. BelowIsUnset'
    BY <2>1, <2>2 DEF StackIInv, BelowIsUnset, Holding, Within, stack_depth, Addressed
  <2>6. OverrunBounded'
    BY <2>2 DEF StackIInv, OverrunBounded, Addressed
  <2> QED BY <2>3, <2>4, <2>5, <2>6 DEF StackIInv
<1> QED BY <1>1, <1>2

LEMMA OutsideStep ==
  ASSUME StackIInv, Holding, stack_top \in Addressed, result' = block[stack_top],
         PopOutside, word' = word
  PROVE  StackIInv'
<1>1. /\ ~Within(stack_top) /\ stack_status' = "empty"
      /\ stack_top' = stack_top /\ lowest' = lowest
      /\ block' = [block EXCEPT ![stack_top] = NoItem]
  BY DEF PopOutside
<1>2. StackTypeOK /\ TopPlaced
  BY DEF StackIInv
<1>3. StackTypeOK'
  BY <1>1, <1>2 DEF StackTypeOK, Addressed
<1>4. ~Within(stack_top)'
  BY <1>1 DEF Within, stack_depth
<1>5. TopPlaced'
  BY <1>1, <1>2, <1>4 DEF TopPlaced, Usable
<1>6. BelowIsUnset'
  BY <1>1, <1>4 DEF BelowIsUnset, Holding
<1>7. OverrunBounded'
  <2> SUFFICES ASSUME NEW i \in Addressed, block'[i] # Unset
               PROVE  i <= Depth + 2 /\ i >= lowest /\ (word = 32 => i >= -1)
    BY <1>1 DEF OverrunBounded, Addressed
  <2>1. CASE i = stack_top
    <3>1. /\ Depth \in Nat /\ stack_top \in Int /\ stack_top <= Depth + 2 /\ lowest <= -1
          /\ lowest \in Int
      BY <1>2, WithinMeans
    <3>2. lowest <= stack_top /\ (word = 32 => lowest = -1)
      BY <1>2, <3>1 DEF TopPlaced, Holding
    <3> QED BY <2>1, <3>1, <3>2
  <2>2. CASE i # stack_top
    <3>1. block'[i] = block[i]
      BY <1>1, <1>2, <2>2 DEF StackTypeOK
    <3> QED BY <3>1 DEF StackIInv, OverrunBounded
  <2> QED BY <2>1, <2>2
<1> QED BY <1>3, <1>5, <1>6, <1>7 DEF StackIInv

LEMMA TopStep ==
  ASSUME StackIInv, Holding, stack_top \in Addressed, result' = block[stack_top],
         PopTop, word' = word
  PROVE  StackIInv' /\ stack_status = "ready"
<1>1. /\ Within(stack_top) /\ stack_top' = stack_top - 1 /\ block' = block
      /\ stack_status' = IF Within(stack_top - 1) THEN "ready" ELSE stack_status
      /\ lowest' = IF stack_top - 1 < lowest THEN stack_top - 1 ELSE lowest
  BY DEF PopTop
<1>2. StackTypeOK /\ TopPlaced
  BY DEF StackIInv
<1>3. /\ Depth \in Nat /\ Underrun \in Nat
      /\ stack_top \in Int /\ lowest \in Int /\ lowest <= -1
      /\ -Underrun - 1 <= lowest
      /\ stack_top <= Depth + 1 /\ (word = 32 => stack_top >= 0)
      /\ -Underrun <= stack_top
  BY <1>1, <1>2, WithinMeans DEF StackTypeOK, Addressed
<1>4. stack_status = "ready" /\ stack_status' = "ready" /\ lowest <= stack_top
  BY <1>1, <1>2, <1>3 DEF TopPlaced, Holding
<1>5. /\ lowest' \in Int /\ lowest' <= stack_top - 1 /\ lowest' <= lowest
      /\ -Underrun - 1 <= lowest' /\ lowest' <= -1
      /\ word = 32 => lowest' = -1
  BY <1>1, <1>2, <1>3, <1>4 DEF TopPlaced
<1>6. StackTypeOK'
  BY <1>1, <1>2, <1>3, <1>4, <1>5 DEF StackTypeOK, Addressed
<1>7. TopPlaced'
  BY <1>1, <1>2, <1>3, <1>4, <1>5 DEF TopPlaced, Usable
<1>8. BelowIsUnset'
  BY <1>1, <1>3, <1>4, <1>5 DEF StackIInv, BelowIsUnset, Holding, Addressed
<1>9. OverrunBounded'
  <2> SUFFICES ASSUME NEW i \in Addressed, block[i] # Unset
               PROVE  i <= Depth + 2 /\ i >= lowest' /\ (word = 32 => i >= -1)
    BY <1>1 DEF OverrunBounded, Addressed
  <2>1. i <= Depth + 2 /\ i >= lowest /\ (word = 32 => i >= -1) /\ i \in Int
    BY <1>3 DEF StackIInv, OverrunBounded, Addressed
  <2> QED BY <1>3, <1>5, <2>1
<1> QED BY <1>4, <1>6, <1>7, <1>8, <1>9 DEF StackIInv

LEMMA PopStep ==
  ASSUME StackIInv, stack_pop, word' = word
  PROVE  StackIInv'
<1>1. CASE Holding /\ stack_top \in Addressed /\ result' = block[stack_top] /\ PopOutside
  BY <1>1, OutsideStep
<1>2. CASE Holding /\ stack_top \in Addressed /\ result' = block[stack_top] /\ PopTop
  BY <1>2, TopStep
<1>3. CASE stack_status \notin {"ready", "full"}
  <2>1. /\ stack_top' = stack_top /\ block' = block /\ lowest' = lowest
        /\ \/ stack_status' = stack_status /\ result' = NoItem
           \/ stack_status = "null" /\ stack_status' = "crashed" /\ result' = result
    BY <1>3 DEF stack_pop, Holding, Crash
  <2>2. StackTypeOK'
    BY <2>1 DEF StackIInv, StackTypeOK, Addressed
  <2>3. TopPlaced'
    BY <2>1 DEF StackIInv, TopPlaced, Usable, Within, stack_depth
  <2>4. BelowIsUnset' /\ OverrunBounded'
    BY <2>1 DEF StackIInv, BelowIsUnset, Holding, Within, stack_depth, Addressed,
                OverrunBounded
  <2> QED BY <2>2, <2>3, <2>4 DEF StackIInv
<1> QED BY <1>1, <1>2, <1>3 DEF stack_pop, Holding

(* A block stack_init or stack_clean leaves behind holds nothing yet. *)
LEMMA FreshStep ==
  ASSUME StackIInv, stack_init \/ stack_clean, word' = word
  PROVE  StackIInv'
<1>1. /\ stack_top' = 0 /\ lowest' = -1 /\ block' = [i \in Addressed |-> Unset]
      /\ stack_status' \in {"null", "unknown", "error", "empty"}
      /\ result' \in {NoItem, "ok"}
  BY DEF stack_init, stack_clean
<1>2. Depth \in Nat /\ Underrun \in Nat /\ Underrun >= 1
  BY StackAssumption
<1> QED BY <1>1, <1>2 DEF StackIInv, StackTypeOK, TopPlaced, BelowIsUnset, OverrunBounded,
                          Usable, Holding, Addressed

LEMMA StackInitInv == StackInit => StackIInv
<1> SUFFICES ASSUME StackInit PROVE StackIInv
  OBVIOUS
<1>1. Depth \in Nat /\ Underrun \in Nat /\ Underrun >= 1 /\ WordSizes \subseteq {32, 64}
  BY StackAssumption
<1> QED BY <1>1 DEF StackInit, StackIInv, StackTypeOK, TopPlaced, BelowIsUnset,
                    OverrunBounded, Usable, Holding, Addressed

(* Where the top is and what the block holds, in every state that any      *)
(* order of calls of stack.c can bring about.                              *)
THEOREM StackInvariance == StackSpec => []StackIInv
<1>1. ASSUME StackIInv, [StackNext]_stackVars
      PROVE  StackIInv'
  <2>1. CASE StackNext
    <3>1. word' = word
      BY <2>1 DEF StackNext
    <3>2. CASE stack_init \/ stack_clean
      BY <1>1, <3>1, <3>2, FreshStep
    <3>3. ASSUME NEW x \in Items, stack_push(x)
          PROVE  StackIInv'
      BY <1>1, <3>1, <3>3, PushStep
    <3>4. CASE stack_pop
      BY <1>1, <3>1, <3>4, PopStep
    <3> QED BY <2>1, <3>2, <3>3, <3>4 DEF StackNext
  <2>2. CASE UNCHANGED stackVars
    BY <1>1, <2>2 DEF stackVars, StackIInv, StackTypeOK, TopPlaced, BelowIsUnset,
                      OverrunBounded, Usable, Holding, Within, stack_depth, Addressed
  <2> QED BY <1>1, <2>1, <2>2
<1> QED BY StackInitInv, <1>1, PTL DEF StackSpec

(* Whatever the client calls, on 32 and on 64 bits, stack.c writes at most *)
(* two cells behind its block, and before it no further than pops of       *)
(* nothing have taken the top.                                             *)
THEOREM NoOverrun == StackSpec => [](OverrunBounded /\ StackTypeOK)
<1>1. StackIInv => OverrunBounded /\ StackTypeOK
  BY DEF StackIInv
<1> QED BY <1>1, StackInvariance, PTL
-----------------------------------------------------------------------------
(* The stack against the stack it is meant to be.                          *)

LEMMA HeldIs ==
  ASSUME StackIInv
  PROVE  /\ ~Holding => Held = <<>>
         /\ Holding => /\ lowest <= stack_top
                       /\ stack_top - lowest \in Nat
                       /\ Held = [i \in 1 .. stack_top - lowest |-> block[lowest + i]]
                       /\ Len(Held) = stack_top - lowest
<1>1. /\ Depth \in Nat /\ stack_top \in Int /\ lowest \in Int /\ lowest <= -1
  BY WithinMeans DEF StackIInv
<1>2. CASE ~Holding
  BY <1>2 DEF Held
<1>3. CASE Holding
  <2>1. lowest <= stack_top
    BY <1>1, <1>3 DEF StackIInv, TopPlaced, Holding
  <2>2. stack_top - lowest \in Nat
    BY <1>1, <2>1
  <2>3. Held = [i \in 1 .. stack_top - lowest |-> block[lowest + i]]
    BY <1>3 DEF Held
  <2> QED BY <1>3, <2>1, <2>2, <2>3
<1> QED BY <1>2, <1>3

LEMMA StoredIsLifo ==
  ASSUME StackIInv, NEW x \in Items, PushStored(x), word' = word
  PROVE  AbstractStack!Push(x)
<1> DEFINE top == IF stack_status = "empty" THEN stack_top ELSE stack_top + 1
           count == top - 1 - lowest
<1>1. /\ stack_status \in {"empty", "ready"} /\ Within(stack_top)
      /\ result' = "ok" /\ lowest' = lowest
      /\ stack_top' = top /\ block' = [block EXCEPT ![top] = x]
      /\ stack_status' = IF Within(top) THEN "ready" ELSE "full"
  BY DEF PushStored
<1>2. /\ Depth \in Nat /\ Underrun \in Nat
      /\ stack_top \in Int /\ lowest \in Int /\ lowest <= -1
      /\ -Underrun - 1 <= lowest
      /\ stack_top <= Depth + 1 /\ (word = 32 => stack_top >= 0)
  BY <1>1, WithinMeans DEF StackIInv, StackTypeOK
<1>3. StackIInv'
  BY StoredStep
<1>4. Holding' /\ (stack_status' = "full" => ~Within(top))
  BY <1>1 DEF Holding
<1>5. top \in Int /\ lowest < top /\ top <= Depth + 2
  <2>1. TopPlaced
    BY DEF StackIInv
  <2>2. CASE stack_status = "empty"
    BY <1>1, <1>2, <2>1, <2>2 DEF TopPlaced
  <2>3. CASE stack_status = "ready"
    BY <1>1, <1>2, <2>1, <2>3 DEF TopPlaced
  <2> QED BY <1>1, <2>2, <2>3
<1>6. count \in Nat /\ Held = [i \in 1 .. count |-> block[lowest + i]]
  <2>1. CASE stack_status = "empty"
    <3>1. Held = <<>> /\ count = 0
      BY <1>1, <1>2, <2>1 DEF StackIInv, TopPlaced, Held, Holding
    <3> QED BY <3>1
  <2>2. CASE stack_status = "ready"
    BY <1>2, <2>2, HeldIs DEF Holding
  <2> QED BY <1>1, <2>1, <2>2
<1>7. Held' = [i \in 1 .. count + 1 |-> block'[lowest + i]]
  <2>1. count + 1 = top - lowest
    BY <1>2, <1>5
  <2>2. Held' = [i \in 1 .. top - lowest |-> block'[lowest + i]]
    BY <1>1, <1>4 DEF Held
  <2> QED BY <2>1, <2>2
<1>8. \A i \in 1 .. count : block'[lowest + i] = block[lowest + i]
  <2> SUFFICES ASSUME NEW i \in 1 .. count
               PROVE  block'[lowest + i] = block[lowest + i]
    OBVIOUS
  <2>1. lowest + i \in Addressed /\ lowest + i # top
    BY <1>2, <1>5, <1>6 DEF Addressed
  <2> QED BY <1>1, <2>1 DEF StackIInv, StackTypeOK
<1>9. block'[lowest + (count + 1)] = x
  <2>1. lowest + (count + 1) = top
    BY <1>2, <1>5
  <2>2. top \in Addressed
    BY <1>2, <1>5 DEF Addressed
  <2> QED BY <1>1, <2>1, <2>2 DEF StackIInv, StackTypeOK
<1>10. Held' = Append(Held, x)
  BY <1>6, <1>7, <1>8, <1>9
<1>11. State = "live" /\ State' = "live"
  <2>1. stack_status' = "ready" => Within(top)
    BY <1>1
  <2>2. Within(stack_top)' <=> Within(top)
    BY <1>1 DEF Within, stack_depth
  <2> QED BY <1>1, <2>1, <2>2 DEF State, Usable, Dead
<1> QED BY <1>1, <1>10, <1>11 DEF AbstractStack!Push

LEMMA PushIsLifo ==
  ASSUME StackIInv, NEW x \in Items, stack_push(x), word' = word
  PROVE  \/ AbstractStack!Push(x) \/ AbstractStack!Refuse \/ AbstractStack!Lose
         \/ UNCHANGED AbstractStack!lifoVars
<1>1. CASE PushStored(x)
  BY <1>1, StoredIsLifo
<1>2. CASE PushRefused
  <2>1. /\ stack_status \in {"null", "full", "error"} /\ result' = "error"
        /\ stack_status' = stack_status /\ stack_top' = stack_top
        /\ block' = block /\ lowest' = lowest
    BY <1>2 DEF PushRefused
  <2>2. Held' = Held /\ State' = State
    BY <2>1 DEF Held, Holding, State, Usable, Dead, Within, stack_depth
  <2>3. CASE stack_status = "full"
    <3>1. Holding /\ stack_top = Depth + 2
      BY <2>3 DEF StackIInv, TopPlaced, Holding
    <3>2. Depth \in Nat /\ lowest \in Int
      BY WithinMeans DEF StackIInv
    <3>3. Len(Held) = Depth + 3 + (-1 - lowest)
      BY <3>1, <3>2, HeldIs
    <3> QED BY <2>1, <2>2, <3>3 DEF AbstractStack!Refuse, AbstractStack!Full
  <2>4. CASE stack_status # "full"
    <3>1. State = "absent"
      BY <2>1, <2>4 DEF State, Usable
    <3> QED BY <2>1, <2>2, <3>1 DEF AbstractStack!Refuse
  <2> QED BY <2>3, <2>4
<1>3. CASE PushDropped
  <2>1. /\ stack_status \in {"empty", "ready"} /\ ~Within(stack_top) /\ result' = "ok"
        /\ stack_status' = stack_status /\ stack_top' = stack_top
        /\ block' = block /\ lowest' = lowest
    BY <1>3 DEF PushDropped
  <2>2. Held' = Held /\ State' = State
    BY <2>1 DEF Held, Holding, State, Usable, Dead, Within, stack_depth
  <2>3. State = "dead"
    BY <2>1 DEF State, Usable, Dead
  <2> QED BY <2>1, <2>2, <2>3 DEF AbstractStack!Lose
<1>4. CASE stack_status = "unknown" /\ Crash
  <2>1. /\ stack_status = "unknown" /\ stack_status' = "crashed" /\ stack_top' = stack_top
        /\ block' = block /\ lowest' = lowest /\ result' = result
    BY <1>4 DEF Crash
  <2>2. Held' = Held /\ State' = State
    BY <2>1 DEF Held, Holding, State, Usable
  <2> QED BY <2>1, <2>2 DEF AbstractStack!lifoVars
<1> QED BY <1>1, <1>2, <1>3, <1>4 DEF stack_push

LEMMA OutsideIsLifo ==
  ASSUME StackIInv, Holding, stack_top \in Addressed, result' = block[stack_top],
         PopOutside, word' = word
  PROVE  AbstractStack!Pop \/ AbstractStack!PopNothing
<1>1. /\ ~Within(stack_top) /\ stack_status' = "empty"
      /\ stack_top' = stack_top /\ lowest' = lowest
  BY DEF PopOutside
<1>2. /\ Depth \in Nat /\ stack_top \in Int /\ lowest \in Int /\ lowest <= -1
      /\ stack_top <= Depth + 2 /\ word \in {32, 64}
      /\ stack_top <= Depth + 1 => word = 32 /\ stack_top < 0
  BY <1>1, WithinMeans DEF StackIInv
<1>3. /\ lowest <= stack_top /\ stack_top - lowest \in Nat
      /\ Held = [i \in 1 .. stack_top - lowest |-> block[lowest + i]]
      /\ Len(Held) = stack_top - lowest
  BY HeldIs
<1>4. Held' = <<>> /\ State' = "dead"
  <2>1. ~Within(stack_top)'
    BY <1>1 DEF Within, stack_depth
  <2> QED BY <1>1, <2>1 DEF Held, Holding, State, Usable, Dead
<1>5. CASE stack_top = Depth + 2
  <2>1. stack_top - lowest >= 1
    BY <1>2, <1>5
  <2>2. Held # <<>>
    BY <1>3, <2>1
  <2>3. Held[Len(Held)] = block[stack_top]
    BY <1>2, <1>3, <2>1
  <2>4. result' = AbstractStack!Last(Held)
    BY <2>3 DEF AbstractStack!Last
  <2>5. Len(Held) = Depth + 3 + (-1 - lowest)
    BY <1>2, <1>3, <1>5
  <2> QED BY <1>1, <1>4, <2>2, <2>4, <2>5
          DEF AbstractStack!Pop, AbstractStack!Kills, AbstractStack!Full
<1>6. CASE stack_top # Depth + 2
  <2>1. word = 32 /\ stack_top = -1 /\ lowest = -1
    BY <1>2, <1>3, <1>6 DEF StackIInv, TopPlaced
  <2>2. Held = <<>>
    BY <1>3, <2>1
  <2>3. block[stack_top] = Unset
    BY <2>1 DEF StackIInv, BelowIsUnset
  <2>4. State = "dead"
    <3>1. stack_status = "ready"
      BY <1>6 DEF StackIInv, TopPlaced, Holding
    <3> QED BY <1>1, <3>1 DEF State, Usable, Dead
  <2> QED BY <1>1, <1>4, <2>2, <2>3, <2>4 DEF AbstractStack!PopNothing
<1> QED BY <1>5, <1>6

LEMMA TopIsLifo ==
  ASSUME StackIInv, Holding, stack_top \in Addressed, result' = block[stack_top],
         PopTop, word' = word
  PROVE  AbstractStack!Pop \/ AbstractStack!PopNothing
<1>1. /\ Within(stack_top) /\ stack_top' = stack_top - 1 /\ block' = block
      /\ stack_status' = IF Within(stack_top - 1) THEN "ready" ELSE stack_status
      /\ lowest' = IF stack_top - 1 < lowest THEN stack_top - 1 ELSE lowest
  BY DEF PopTop
<1>2. /\ Depth \in Nat /\ stack_top \in Int /\ lowest \in Int /\ lowest <= -1
      /\ word \in {32, 64}
      /\ stack_top <= Depth + 1 /\ (word = 32 => stack_top >= 0)
  BY <1>1, WithinMeans DEF StackIInv
<1>3. StackIInv' /\ stack_status = "ready" /\ stack_status' = "ready"
  BY <1>1, TopStep
<1>4. /\ lowest <= stack_top /\ stack_top - lowest \in Nat
      /\ Held = [i \in 1 .. stack_top - lowest |-> block[lowest + i]]
      /\ Len(Held) = stack_top - lowest
  BY HeldIs
<1>5. State = "live"
  BY <1>1, <1>3 DEF State, Usable, Dead
<1>6. (State' = "dead") <=> (word = 32 /\ stack_top = 0)
  <2>1. Within(stack_top - 1) <=> (word = 32 => stack_top - 1 >= 0)
    BY <1>2, WithinMeans DEF StackIInv
  <2>2. Within(stack_top)' <=> Within(stack_top - 1)
    BY <1>1 DEF Within, stack_depth
  <2> QED BY <1>2, <1>3, <2>1, <2>2 DEF State, Usable, Dead
<1>7. State' \in {"live", "dead"}
  BY <1>3 DEF State, Usable
<1>8. Held' = [i \in 1 .. (stack_top - 1) - lowest' |-> block[lowest' + i]]
  BY <1>1, <1>3 DEF Held, Holding
<1>9. CASE stack_top = lowest
  <2>1. lowest' = stack_top - 1
    BY <1>1, <1>2, <1>9
  <2>2. Held = <<>> /\ Held' = <<>>
    BY <1>2, <1>4, <1>8, <1>9, <2>1
  <2>3. block[stack_top] = Unset
    <3>1. stack_top <= lowest
      BY <1>2, <1>9
    <3> QED BY <3>1 DEF StackIInv, BelowIsUnset
  <2>4. State' = "live"
    BY <1>2, <1>6, <1>7, <1>9
  <2>5. -1 - lowest' = (-1 - lowest) + 1
    BY <1>2, <1>9, <2>1
  <2> QED BY <1>5, <2>2, <2>3, <2>4, <2>5 DEF AbstractStack!PopNothing
<1>10. CASE stack_top # lowest
  <2>1. lowest' = lowest /\ stack_top - lowest >= 1
    BY <1>1, <1>2, <1>4, <1>10
  <2>2. Held # <<>> /\ Held[Len(Held)] = block[stack_top]
    BY <1>2, <1>4, <2>1
  <2>3. result' = AbstractStack!Last(Held)
    BY <2>2 DEF AbstractStack!Last
  <2>4. Held' = AbstractStack!Front(Held)
    BY <1>2, <1>4, <1>8, <2>1 DEF AbstractStack!Front
  <2>5. Len(Held) # Depth + 3 + (-1 - lowest)
    BY <1>2, <1>4
  <2>6. CASE word = 32 /\ stack_top = 0
    <3>1. lowest = -1 /\ stack_top - lowest = 1
      <4>1. lowest = -1
        BY <2>6 DEF StackIInv, TopPlaced
      <4> QED BY <2>6, <4>1
    <3>2. Len(Held) = 1
      BY <1>4, <3>1
    <3>3. stack_top - 1 - lowest' = 0
      BY <1>2, <2>1, <3>1
    <3>4. Held' = <<>>
      BY <1>8, <3>3
    <3> QED BY <1>6, <2>1, <2>2, <2>3, <2>6, <3>2, <3>4 DEF AbstractStack!Pop, AbstractStack!Kills
  <2>7. CASE ~(word = 32 /\ stack_top = 0)
    <3>1. State' = "live"
      BY <1>6, <1>7, <2>7
    <3>2. ~(word = 32 /\ Len(Held) = 1)
      BY <1>2, <1>4, <2>7 DEF StackIInv, TopPlaced
    <3> QED BY <1>5, <2>1, <2>2, <2>3, <2>4, <2>5, <3>1, <3>2
            DEF AbstractStack!Pop, AbstractStack!Kills, AbstractStack!Full
  <2> QED BY <2>6, <2>7
<1> QED BY <1>9, <1>10

LEMMA PopIsLifo ==
  ASSUME StackIInv, stack_pop, word' = word
  PROVE  \/ AbstractStack!Pop \/ AbstractStack!PopNothing
         \/ UNCHANGED AbstractStack!lifoVars
<1>1. CASE Holding /\ stack_top \in Addressed /\ result' = block[stack_top] /\ PopOutside
  BY <1>1, OutsideIsLifo
<1>2. CASE Holding /\ stack_top \in Addressed /\ result' = block[stack_top] /\ PopTop
  BY <1>2, TopIsLifo
<1>3. CASE ~Holding
  <2>1. /\ stack_top' = stack_top /\ block' = block /\ lowest' = lowest
        /\ \/ stack_status' = stack_status /\ result' = NoItem
           \/ stack_status = "null" /\ stack_status' = "crashed" /\ result' = result
    BY <1>3 DEF stack_pop, Crash
  <2>2. Held = <<>> /\ Held' = <<>>
    BY <1>3, <2>1 DEF Held, Holding
  <2>3. State' = State
    BY <2>1 DEF State, Usable, Dead, Within, stack_depth
  <2>4. -1 - lowest' = -1 - lowest
    BY <2>1
  <2>5. CASE result' = NoItem
    <3>1. AbstractStack!PopNothing
      BY <2>2, <2>3, <2>4, <2>5 DEF AbstractStack!PopNothing
    <3> QED BY <3>1
  <2>6. CASE result' = result
    <3>1. (word = 32)' = (word = 32)
      OBVIOUS
    <3>2. UNCHANGED AbstractStack!lifoVars
      BY <2>2, <2>3, <2>4, <2>6, <3>1 DEF AbstractStack!lifoVars
    <3> QED BY <3>2
  <2>7. result' = NoItem \/ result' = result
    BY <2>1
  <2> QED BY <2>5, <2>6, <2>7
<1>4. CASE Holding
  <2>1. Holding /\ stack_top \in Addressed /\ result' = block[stack_top]
    BY <1>4 DEF stack_pop, Holding, Crash
  <2>2. PopOutside \/ PopTop
    BY <1>4 DEF stack_pop, Holding, Crash
  <2> QED BY <1>1, <1>2, <2>1, <2>2, Zenon
<1> QED BY <1>3, <1>4, Zenon

(* The stack of stack.c keeps to the abstract stack for every depth and on *)
(* both widths: last in first out until the pop of a full stack, or on 32  *)
(* bits of the last item, loses what is left.                              *)
THEOREM StackIsLifo == StackSpec => IsLifo
<1>1. StackInit => AbstractStack!Init
  <2> SUFFICES ASSUME StackInit PROVE AbstractStack!Init
    OBVIOUS
  <2>1. Held = <<>> /\ State = "absent"
    BY DEF StackInit, Held, Holding, State, Usable
  <2>2. -1 - lowest = 0 /\ result = NoItem
    BY DEF StackInit
  <2> QED BY <2>1, <2>2 DEF AbstractStack!Init
<1>2. ASSUME StackIInv, [StackNext]_stackVars
      PROVE  [AbstractStack!Next]_(AbstractStack!lifoVars)
  <2>1. CASE StackNext
    <3>1. word' = word
      BY <2>1 DEF StackNext
    <3>2. CASE stack_init \/ stack_clean
      <4>1. /\ Held' = <<>> /\ -1 - lowest' = 0
            /\ \/ State' = "live" /\ result' = "ok"
               \/ State' = "absent" /\ result' \in {"ok", NoItem}
        <5>1. stack_top' = 0 /\ lowest' = -1
          BY <3>2 DEF stack_init, stack_clean
        <5>2. Within(stack_top)'
          <6>1. Depth \in Nat
            BY StackAssumption
          <6> QED BY <5>1, <6>1 DEF Within, stack_depth
        <5>3. CASE stack_init
          BY <5>1, <5>2, <5>3 DEF stack_init, Held, Holding, State, Usable, Dead
        <5>4. CASE stack_clean
          BY <5>1, <5>2, <5>4 DEF stack_clean, Held, Holding, State, Usable, Dead
        <5> QED BY <3>2, <5>3, <5>4
      <4> QED BY <3>1, <4>1 DEF AbstractStack!Next, AbstractStack!Clear
    <3>3. ASSUME NEW x \in Items, stack_push(x)
          PROVE  [AbstractStack!Next]_(AbstractStack!lifoVars)
      BY <1>2, <3>1, <3>3, PushIsLifo DEF AbstractStack!Next
    <3>4. CASE stack_pop
      BY <1>2, <3>1, <3>4, PopIsLifo DEF AbstractStack!Next
    <3> QED BY <2>1, <3>2, <3>3, <3>4 DEF StackNext
  <2>2. CASE UNCHANGED stackVars
    BY <2>2 DEF stackVars, Held, Holding, State, Usable, Dead, Within, stack_depth,
                AbstractStack!lifoVars
  <2> QED BY <1>2, <2>1, <2>2
<1> QED BY <1>1, <1>2, StackInvariance, PTL DEF StackSpec, IsLifo, AbstractStack!Spec
-----------------------------------------------------------------------------
(* The memory manager.                                                     *)

USE DEF Allocators, Faults

Pointers == Blocks \cup {Null}

(* The slots whose contents mem_free may act on. *)
InUse == IF alloc_used >= TrackerSize THEN Slots ELSE 0 .. memory_tracker_loc - 1

(* A block found in a slot in use, if the client still holds it, belongs   *)
(* to the allocator that is installed now.                                 *)
TrackedBelongs ==
  \A i \in InUse : ptr_track[i] \in held => owner[ptr_track[i]] = calls

(* Before mem_init has run nothing is counted; afterwards some allocator   *)
(* is installed.                                                           *)
InitGuards ==
  /\ ~mem_init_state => alloc_used = 0
  /\ mem_init_state => calls \in Allocators

(* The inductive invariant. *)
IInv ==
  /\ TypeOK
  /\ CountTracksSlots
  /\ HeldIsLive
  /\ InitGuards
  /\ TrackedBelongs

-----------------------------------------------------------------------------
(* The table after the scan of mem_free.                                   *)

(* Swapping puts nothing into a table but NULL and the pointer swapped. *)
LEMMA SwappedRange ==
  ASSUME NEW t \in [Slots -> Pointers], NEW n \in Int, NEW p \in Pointers
  PROVE  /\ Swapped(t, n, p) \in [Slots -> Pointers]
         /\ \A i \in Slots : Swapped(t, n, p)[i] \in {t[i], Null, p}
  BY DEF Swapped, Pointers

(* The scan of mem_free puts nothing into the table but NULL and the       *)
(* pointer it looks for.                                                   *)
LEMMA ScanTableRange ==
  ASSUME NEW t \in [Slots -> Pointers], NEW n \in Int, NEW p \in Pointers
  PROVE  /\ ScanTable(t, n, p) \in [Slots -> Pointers]
         /\ \A i \in Slots : ScanTable(t, n, p)[i] \in {t[i], Null, p}
<1> DEFINE u == [Swapped(t, n, p) EXCEPT ![n - 2] = Null]
<1>1. /\ u \in [Slots -> Pointers]
      /\ \A i \in Slots : u[i] \in {t[i], Null, p}
  BY SwappedRange DEF Pointers
<1>2. /\ Swapped(u, n - 1, p) \in [Slots -> Pointers]
      /\ \A i \in Slots : Swapped(u, n - 1, p)[i] \in {u[i], Null, p}
  <2> HIDE DEF u
  <2> QED BY <1>1, SwappedRange
<1>3. ScanTable(t, n, p) \in {t, Swapped(t, n, p), u, Swapped(u, n - 1, p)}
  BY DEF ScanTable
<1> HIDE DEF u
<1> QED BY <1>1, <1>2, <1>3, SwappedRange
-----------------------------------------------------------------------------
(* Each operation preserves the inductive invariant.                       *)

LEMMA SlotFacts ==
  ASSUME TypeOK, CountTracksSlots
  PROVE  /\ alloc_used = 0 => memory_tracker_loc = 0
         /\ InUse \subseteq Slots
         /\ alloc_used = 0 => InUse = {}
         /\ 0 .. memory_tracker_loc - 1 \subseteq InUse
         /\ alloc_used > 0 /\ memory_tracker_loc = 0 => 0 \in InUse
  BY MemoryAssumption DEF TypeOK, CountTracksSlots, InUse, Slots

LEMMA InitIInv == Init => IInv
<1> SUFFICES ASSUME Init PROVE IInv
  OBVIOUS
<1>1. TypeOK
  <2>1. memory_tracker_loc \in Slots
    BY MemoryAssumption DEF Init, Slots
  <2>2. ptr_track \in [Slots -> Blocks \cup {Null}]
    BY DEF Init
  <2>3. owner \in [Blocks -> Allocators \cup {"free"}]
    BY DEF Init
  <2> QED BY <2>1, <2>2, <2>3 DEF Init, TypeOK
<1>2. CountTracksSlots /\ InitGuards
  BY DEF Init, CountTracksSlots, InitGuards
<1>3. HeldIsLive /\ TrackedBelongs
  BY DEF Init, HeldIsLive, TrackedBelongs
<1> QED BY <1>1, <1>2, <1>3 DEF IInv

(* Storing a block: the new slot joins those in use, and its block belongs *)
(* to the allocator that has just returned it.                             *)
LEMMA TrackIInv ==
  ASSUME IInv, NEW b \in Free, Track(b),
         alloc_used' = InitUsed + 1 \/ (WrapsAround /\ alloc_used' = 0)
  PROVE  IInv'
<1> USE DEF IInv
<1>1. b \in Blocks /\ owner[b] = "free" /\ b \notin held
  BY DEF Free, HeldIsLive, Live
<1>2. InitCalls \in Allocators /\ InitUsed \in Nat
  BY DEF InitCalls, InitUsed, InitGuards, TypeOK
<1>3. memory_tracker_loc' = 0 \/ memory_tracker_loc' = memory_tracker_loc + 1
  BY DEF Track
<1>4. TypeOK'
  BY <1>1, <1>2, MemoryAssumption DEF TypeOK, Track, WrapsAround, mem_init, Slots
<1>5. InitUsed = memory_tracker_loc \/ InitUsed >= memory_tracker_loc + TrackerSize
  BY SlotFacts DEF InitUsed, InitGuards, CountTracksSlots
<1>6. CountTracksSlots'
  BY <1>2, <1>5, MemoryAssumption
     DEF TypeOK, Track, CountTracksSlots, WrapsAround, Slots
<1>7. HeldIsLive'
  BY <1>1, <1>2 DEF HeldIsLive, Track, Live, Free, TypeOK
<1>8. InitGuards'
  BY <1>2 DEF InitGuards, Track, mem_init
<1>9. InUse' \subseteq InUse \cup {memory_tracker_loc}
  BY <1>2, <1>5, <1>6, MemoryAssumption
     DEF TypeOK, Track, WrapsAround, InUse, Slots, InitUsed, InitGuards
<1>10. ASSUME NEW i \in InUse', ptr_track'[i] \in held'
       PROVE  owner'[ptr_track'[i]] = calls'
  <2>1. i \in Slots /\ memory_tracker_loc \in Slots
    BY <1>9, SlotFacts DEF TypeOK
  <2>2. CASE ptr_track'[i] = b
    BY <2>2, <1>1 DEF Track, mem_init, TypeOK
  <2>3. CASE ptr_track'[i] # b
    <3>1. i \in InUse /\ ptr_track'[i] = ptr_track[i] /\ ptr_track[i] \in held
      BY <2>1, <2>3, <1>9, <1>10 DEF Track, TypeOK
    <3>2. owner'[ptr_track[i]] = owner[ptr_track[i]]
      BY <3>1, <2>3, <1>1 DEF Track, TypeOK
    <3>3. calls' = calls
      BY <3>1, SlotFacts DEF Track, mem_init, InitCalls, InitGuards
    <3> QED BY <3>1, <3>2, <3>3 DEF TrackedBelongs
  <2> QED BY <2>2, <2>3
<1>11. TrackedBelongs'
  BY <1>10 DEF TrackedBelongs
<1> QED BY <1>4, <1>6, <1>7, <1>8, <1>11

LEMMA TrackFailedIInv ==
  ASSUME IInv, TrackFailed
  PROVE  IInv'
<1> USE DEF IInv
<1>1. InitCalls \in Allocators /\ InitUsed \in Nat /\ InitUsed = alloc_used
  BY DEF InitCalls, InitUsed, InitGuards, TypeOK
<1>2. TypeOK'
  BY <1>1 DEF TypeOK, TrackFailed, mem_init, heap
<1>3. CountTracksSlots' /\ HeldIsLive' /\ InitGuards'
  BY <1>1 DEF CountTracksSlots, HeldIsLive, Live, Free, InitGuards, TrackFailed,
              mem_init, heap
<1>4. InUse' = InUse
  BY <1>1 DEF InUse, TrackFailed
<1>5. ASSUME NEW i \in InUse', ptr_track'[i] \in held'
      PROVE  owner'[ptr_track'[i]] = calls'
  <2>1. ptr_track'[i] = ptr_track[i]
    BY <1>4, <1>5, SlotFacts, MemoryAssumption DEF TrackFailed, heap, TypeOK
  <2>2. calls' = calls
    BY <1>4, <1>5, SlotFacts DEF TrackFailed, mem_init, InitCalls, InitGuards
  <2> QED BY <1>4, <1>5, <2>1, <2>2 DEF TrackedBelongs, TrackFailed, heap
<1> QED BY <1>2, <1>3, <1>5 DEF TrackedBelongs

LEMMA ReallocIInv ==
  ASSUME IInv, NEW p \in held \cup {Null}, mem_realloc(p)
  PROVE  IInv'
<1> USE DEF IInv
<1>1. /\ InitUsed = alloc_used /\ InitUsed \in Nat
      /\ calls' = "libc" /\ mem_init_state'
      /\ UNCHANGED <<alloc_used, memory_tracker_loc, ptr_track, heap_error>>
  BY DEF InitUsed, InitGuards, TypeOK, mem_realloc, mem_init
<1>2. InUse # {} => calls = "libc"
  BY <1>1, SlotFacts DEF mem_realloc, InitCalls, InitGuards
<1>3. CASE UNCHANGED heap
  BY <1>1, <1>2, <1>3
     DEF TypeOK, CountTracksSlots, HeldIsLive, Live, Free, InitGuards,
         TrackedBelongs, InUse, heap
<1>4. ASSUME NEW q \in Free, p = Null,
             owner' = [owner EXCEPT ![q] = "libc"], held' = held \cup {q}
      PROVE  IInv'
  BY <1>1, <1>2, <1>4
     DEF TypeOK, CountTracksSlots, HeldIsLive, Live, Free, InitGuards,
         TrackedBelongs, InUse
<1>5. ASSUME NEW q \in Free, p # Null, owner[p] = "libc",
             owner' = [owner EXCEPT ![p] = "free", ![q] = "libc"],
             held' = (held \ {p}) \cup {q}
      PROVE  IInv'
  BY <1>1, <1>2, <1>5
     DEF TypeOK, CountTracksSlots, HeldIsLive, Live, Free, InitGuards,
         TrackedBelongs, InUse
<1> QED BY <1>3, <1>4, <1>5 DEF mem_realloc

(* What reaches the installed free is a block that allocator owns. *)
LEMMA PassedIsSound ==
  ASSUME IInv, NEW p \in held \cup {Null}, PassedToFree(p)
  PROVE  FreeFaults(p) = {}
<1> USE DEF IInv
<1>1. CASE p = Null
  BY <1>1 DEF FreeFaults
<1>2. CASE p # Null
  <2>1. PICK i \in InUse : ptr_track[i] = p
    BY SlotFacts DEF PassedToFree, ScanFrees, Matches
  <2>2. owner[p] = calls
    BY <1>2, <2>1 DEF TrackedBelongs
  <2> QED BY <2>2 DEF FreeFaults
<1> QED BY <1>1, <1>2

LEMMA ReclaimFacts ==
  ASSUME TypeOK, NEW F
  PROVE  /\ Reclaim(F) \in [Blocks -> Allocators \cup {"free"}]
         /\ \A b \in Blocks \ F : Reclaim(F)[b] = owner[b]
  BY DEF Reclaim, TypeOK

(* What a call of mem_free that returns may do to the state. *)
FreeEffect(p) ==
  /\ UNCHANGED <<mem_init_state, calls, heap_error>>
  /\ held' = held \ {p}
  /\ owner' \in {owner, Reclaim({p})}
  /\ ptr_track' \in [Slots -> Pointers]
  /\ \A i \in Slots : ptr_track'[i] \in {ptr_track[i], Null, p}
  /\ \/ UNCHANGED <<alloc_used, memory_tracker_loc>>
     \/ alloc_used' = 0 /\ memory_tracker_loc' = 0
     \/ /\ alloc_used > 0 /\ alloc_used' = alloc_used - 1
        /\ memory_tracker_loc > 1
        /\ memory_tracker_loc' = memory_tracker_loc - 1

LEMMA FreeReturnsEffect ==
  ASSUME IInv, NEW p \in held \cup {Null}, FreeReturns(p)
  PROVE  FreeEffect(p)
<1> USE DEF IInv
<1>0. /\ p \in Pointers /\ ptr_track \in [Slots -> Pointers]
      /\ memory_tracker_loc \in Nat /\ memory_tracker_loc \in Slots
      /\ alloc_used \in Nat
  BY MemoryAssumption DEF TypeOK, Pointers, Slots
<1>1. CASE ~(mem_init_state /\ alloc_used > 0)
  BY <1>0, <1>1 DEF FreeReturns, FreeEffect
<1>2. CASE FreeAtZero(p) /\ alloc_used > 0
  BY <1>0, <1>2 DEF FreeReturns, FreeAtZero, FreeEffect, Pointers
<1>3. CASE FreeByScan(p) /\ alloc_used > 0
  <2>1. /\ ptr_track' \in [Slots -> Pointers]
        /\ \A i \in Slots : ptr_track'[i] \in {ptr_track[i], Null, p}
    BY <1>0, <1>3, ScanTableRange DEF FreeByScan
  <2>2. ScanFrees(ptr_track, memory_tracker_loc, p) => memory_tracker_loc > 1
    BY <1>0 DEF ScanFrees, Matches
  <2> QED BY <1>0, <1>3, <2>1, <2>2 DEF FreeReturns, FreeByScan, FreeEffect
<1> QED BY <1>1, <1>2, <1>3 DEF FreeReturns

LEMMA FreeIInv ==
  ASSUME IInv, NEW p \in held \cup {Null}, mem_free(p)
  PROVE  IInv'
<1> USE DEF IInv
<1>1. ~FreeFails(p)
  BY PassedIsSound DEF FreeFails
<1>2. FreeEffect(p)
  BY <1>1, FreeReturnsEffect DEF mem_free
<1>3. /\ alloc_used \in Nat /\ memory_tracker_loc \in Slots
      /\ memory_tracker_loc \in Nat /\ TrackerSize \in Nat \ {0}
  BY MemoryAssumption DEF TypeOK, Slots
<1>4. /\ alloc_used' \in Nat /\ memory_tracker_loc' \in Slots
      /\ memory_tracker_loc' \in Nat
  BY <1>2, <1>3 DEF FreeEffect, Slots
<1>5. CountTracksSlots'
  <2>1. CASE UNCHANGED <<alloc_used, memory_tracker_loc>>
    BY <2>1 DEF CountTracksSlots
  <2>2. CASE alloc_used' = 0 /\ memory_tracker_loc' = 0
    BY <2>2 DEF CountTracksSlots
  <2>3. CASE /\ alloc_used' = alloc_used - 1
             /\ memory_tracker_loc' = memory_tracker_loc - 1
    BY <1>3, <2>3 DEF CountTracksSlots
  <2> QED BY <1>2, <2>1, <2>2, <2>3 DEF FreeEffect
<1>6. /\ owner' \in [Blocks -> Allocators \cup {"free"}]
      /\ \A b \in held' : owner'[b] = owner[b]
  BY <1>2, ReclaimFacts DEF FreeEffect, TypeOK
<1>7. TypeOK'
  BY <1>2, <1>4, <1>6 DEF TypeOK, FreeEffect, Pointers
<1>8. HeldIsLive'
  BY <1>2, <1>6, <1>7 DEF HeldIsLive, Live, Free, TypeOK, FreeEffect
<1>9. InitGuards'
  BY <1>2, <1>3 DEF InitGuards, FreeEffect
<1>10. InUse' \subseteq InUse
  BY <1>2, <1>3, <1>5 DEF InUse, CountTracksSlots, FreeEffect, Slots
<1>11. ASSUME NEW i \in InUse', ptr_track'[i] \in held'
       PROVE  owner'[ptr_track'[i]] = calls'
  <2>1. i \in InUse /\ i \in Slots
    BY <1>10, SlotFacts
  <2>2. ptr_track'[i] # p /\ ptr_track'[i] # Null
    BY <1>2, <1>11, MemoryAssumption DEF TypeOK, FreeEffect
  <2>3. ptr_track'[i] = ptr_track[i] /\ ptr_track[i] \in held
    BY <1>2, <1>11, <2>1, <2>2 DEF FreeEffect
  <2> QED BY <1>2, <1>6, <1>11, <2>1, <2>3 DEF TrackedBelongs, FreeEffect
<1> QED BY <1>5, <1>7, <1>8, <1>9, <1>11 DEF TrackedBelongs

(* A collection leaves nothing in use, so that the next allocator may be   *)
(* installed: mem_gc and mem_changecalls.                                  *)
LEMMA CollectIInv ==
  ASSUME IInv, Collect,
         UNCHANGED calls \/ calls' \in Allocators
  PROVE  IInv'
<1> USE DEF IInv
<1>1. alloc_used' = 0 /\ memory_tracker_loc' = 0
  BY SlotFacts DEF Collect, GcRuns, InitGuards, TypeOK
<1>2. /\ ptr_track' \in [Slots -> Pointers]
      /\ held' \subseteq held
      /\ owner' \in [Blocks -> Allocators \cup {"free"}]
      /\ \A b \in held' : owner'[b] = owner[b]
  <2>1. CASE GcRuns
    BY <2>1, ReclaimFacts DEF Collect, TypeOK, Pointers
  <2>2. CASE ~GcRuns
    BY <2>2 DEF Collect, TypeOK, Pointers, heap
  <2> QED BY <2>1, <2>2
<1>3. 0 \in Slots
  BY MemoryAssumption DEF Slots
<1>4. TypeOK'
  BY <1>1, <1>2, <1>3 DEF Collect, TypeOK, Pointers
<1>5. CountTracksSlots' /\ InUse' = {}
  BY <1>1, MemoryAssumption DEF CountTracksSlots, InUse
<1>6. HeldIsLive'
  BY <1>2, <1>4 DEF HeldIsLive, Live, Free, TypeOK
<1>7. InitGuards'
  BY <1>1 DEF InitGuards, Collect
<1> QED BY <1>4, <1>5, <1>6, <1>7 DEF TrackedBelongs

(* A step that ends in undefined behaviour changes heap_error only. *)
LEMMA FaultIInv ==
  ASSUME IInv, heap_error' \in Faults, UNCHANGED <<tracker, heap>>
  PROVE  IInv'
  BY DEF IInv, TypeOK, CountTracksSlots, HeldIsLive, Live, Free, InitGuards,
         TrackedBelongs, InUse, tracker, heap

LEMMA GcIInv ==
  ASSUME IInv, GcFails
  PROVE  IInv'
<1>1. heap_error' \in Faults
  BY DEF GcFails, GcFaults, FreeFaults
<1> QED BY <1>1, FaultIInv DEF GcFails

LEMMA NextIInv == IInv /\ [Next]_vars => IInv'
<1> SUFFICES ASSUME IInv, [Next]_vars PROVE IInv'
  OBVIOUS
<1>1. CASE mem_alloc
  BY <1>1, TrackIInv, TrackFailedIInv DEF mem_alloc
<1>2. CASE mem_clearalloc
  <2>1. ASSUME NEW b \in Free, Track(b),
               alloc_used' = IF WrapsAround THEN 0 ELSE InitUsed + 1
        PROVE  IInv'
    BY <2>1, TrackIInv
  <2> QED BY <1>2, <2>1, TrackFailedIInv DEF mem_clearalloc
<1>3. ASSUME NEW p \in held \cup {Null}, mem_realloc(p) PROVE IInv'
  BY <1>3, ReallocIInv
<1>4. ASSUME NEW p \in held \cup {Null}, mem_free(p) PROVE IInv'
  BY <1>4, FreeIInv
<1>5. CASE mem_gc
  BY <1>5, GcIInv, CollectIInv DEF mem_gc
<1>6. ASSUME NEW a \in Allocators, mem_changecalls(a) PROVE IInv'
  BY <1>6, GcIInv, CollectIInv DEF mem_changecalls
<1>7. CASE UNCHANGED vars
  BY <1>7 DEF vars, IInv, TypeOK, CountTracksSlots, HeldIsLive, Live, Free,
              InitGuards, TrackedBelongs, InUse, tracker, heap
<1> QED
  BY <1>1, <1>2, <1>3, <1>4, <1>5, <1>6, <1>7 DEF Next, bk_jemalloc_calls

(* The inductive invariant holds in every reachable state. *)
THEOREM Invariance == Spec => []IInv
  BY InitIInv, NextIInv, PTL DEF Spec

(* Types: the index of the table never leaves it. *)
THEOREM TypeCorrect == Spec => []TypeOK
<1>1. IInv => TypeOK
  BY DEF IInv
<1> QED BY <1>1, Invariance, PTL

(* The count and the slot index agree, or a wrap-around lies between them. *)
THEOREM CountCorrect == Spec => []CountTracksSlots
<1>1. IInv => CountTracksSlots
  BY DEF IInv
<1> QED BY <1>1, Invariance, PTL

(* Nothing releases a block behind the client's back. *)
THEOREM HeldCorrect == Spec => []HeldIsLive
<1>1. IInv => HeldIsLive
  BY DEF IInv
<1> QED BY <1>1, Invariance, PTL

(* mem_free is never undefined, whatever allocators were installed before. *)
THEOREM FreesCorrect == Spec => FreesAreSound
<1>1. IInv /\ [Next]_vars =>
        [\A p \in held \cup {Null} : mem_free(p) => heap_error' = heap_error]_vars
  <2> SUFFICES ASSUME IInv, NEW p \in held \cup {Null}, mem_free(p)
               PROVE  heap_error' = heap_error
    OBVIOUS
  <2>1. ~FreeFails(p)
    BY PassedIsSound DEF FreeFails
  <2> QED BY <2>1 DEF mem_free, FreeReturns
<1> QED BY <1>1, Invariance, PTL DEF Spec, FreesAreSound
-----------------------------------------------------------------------------
(* The manager implements Heap.tla.                                        *)

LEMMA TrackIsAllocate ==
  ASSUME IInv, NEW b \in Free, Track(b)
  PROVE  HeapSpec!Next
<1>1. InitCalls \in Allocators
  BY DEF IInv, InitCalls, InitGuards
<1>2. HeapSpec!Allocate(b, InitCalls)
  BY DEF HeapSpec!Allocate, Track, Free
<1> QED BY <1>1, <1>2 DEF HeapSpec!Next, Free

LEMMA ReallocIsMove ==
  ASSUME IInv, NEW p \in held \cup {Null}, mem_realloc(p)
  PROVE  HeapSpec!Next \/ UNCHANGED heap
<1>1. ASSUME NEW q \in Free,
             owner' = [owner EXCEPT ![q] = "libc"], held' = held \cup {q}
      PROVE  HeapSpec!Next
  <2>1. HeapSpec!Allocate(q, "libc")
    BY <1>1 DEF HeapSpec!Allocate, Free
  <2> QED BY <2>1 DEF HeapSpec!Next, Free
<1>2. ASSUME NEW q \in Free, p # Null, owner[p] = "libc",
             owner' = [owner EXCEPT ![p] = "free", ![q] = "libc"],
             held' = (held \ {p}) \cup {q}
      PROVE  HeapSpec!Next
  <2>1. HeapSpec!Move(p, q)
    BY <1>2 DEF HeapSpec!Move, Free
  <2>2. p \in Blocks /\ q \in Blocks
    BY <1>2 DEF IInv, TypeOK, Free
  <2> QED BY <2>1, <2>2 DEF HeapSpec!Next
<1> QED BY <1>1, <1>2 DEF mem_realloc

LEMMA FreeIsRelease ==
  ASSUME IInv, NEW p \in held \cup {Null}, mem_free(p)
  PROVE  HeapSpec!Next \/ UNCHANGED heap
<1> USE DEF IInv
<1>1. FreeEffect(p)
  <2>1. ~FreeFails(p)
    BY PassedIsSound DEF FreeFails
  <2> QED BY <2>1, FreeReturnsEffect DEF mem_free
<1>2. Reclaim({p}) = [owner EXCEPT ![p] = "free"]
  BY DEF Reclaim, TypeOK
<1>3. CASE p = Null
  <2>1. p \notin Blocks
    BY <1>3, MemoryAssumption
  <2>2. held' = held
    BY <1>1, <2>1 DEF FreeEffect, TypeOK
  <2>3. Reclaim({p}) = owner
    BY <2>1 DEF Reclaim, TypeOK
  <2> QED BY <1>1, <2>2, <2>3 DEF FreeEffect, heap
<1>4. CASE p \in held
  <2>1. HeapSpec!Release(p)
    BY <1>1, <1>2, <1>4 DEF HeapSpec!Release, FreeEffect
  <2> QED BY <2>1, <1>4 DEF HeapSpec!Next, TypeOK
<1> QED BY <1>3, <1>4

LEMMA CollectIsCollect ==
  ASSUME IInv, Collect
  PROVE  HeapSpec!Next \/ UNCHANGED heap
<1>1. CASE ~GcRuns
  BY <1>1 DEF Collect
<1>2. CASE GcRuns
  <2>1. GcBlocks \subseteq Blocks
    BY DEF GcBlocks, GcSlots, IInv, TypeOK
  <2>2. ASSUME NEW b \in GcBlocks PROVE owner[b] # "free"
    <3>1. FreeFaults(b) = {}
      BY <1>2 DEF Collect, GcFaults
    <3>2. owner[b] = calls
      BY <3>1, <2>1, MemoryAssumption DEF FreeFaults
    <3>3. calls \in Allocators
      BY <1>2 DEF GcRuns, IInv, InitGuards
    <3> QED BY <3>2, <3>3
  <2>3. HeapSpec!Collect(GcBlocks)
    BY <1>2, <2>2 DEF HeapSpec!Collect, Collect, Reclaim
  <2> QED BY <2>1, <2>3 DEF HeapSpec!Next
<1> QED BY <1>1, <1>2

(* The manager keeps the promise of Heap.tla: whatever happens in its      *)
(* table, the client sees blocks handed out, taken back and collected.     *)
THEOREM Refinement == Spec => KeepsHeapPromise
<1>1. Init => HeapSpec!Init
  BY DEF Init, HeapSpec!Init
<1>2. IInv /\ [Next]_vars => [HeapSpec!Next]_(HeapSpec!heapVars)
  <2> SUFFICES ASSUME IInv, [Next]_vars
               PROVE  HeapSpec!Next \/ UNCHANGED heap
    BY DEF HeapSpec!heapVars, heap
  <2>1. CASE mem_alloc
    BY <2>1, TrackIsAllocate DEF mem_alloc, TrackFailed
  <2>2. CASE mem_clearalloc
    BY <2>2, TrackIsAllocate DEF mem_clearalloc, TrackFailed
  <2>3. ASSUME NEW p \in held \cup {Null}, mem_realloc(p)
        PROVE  HeapSpec!Next \/ UNCHANGED heap
    BY <2>3, ReallocIsMove
  <2>4. ASSUME NEW p \in held \cup {Null}, mem_free(p)
        PROVE  HeapSpec!Next \/ UNCHANGED heap
    BY <2>4, FreeIsRelease
  <2>5. CASE mem_gc
    BY <2>5, CollectIsCollect DEF mem_gc, GcFails
  <2>6. ASSUME NEW a \in Allocators, mem_changecalls(a)
        PROVE  HeapSpec!Next \/ UNCHANGED heap
    BY <2>6, CollectIsCollect DEF mem_changecalls, GcFails
  <2>7. CASE UNCHANGED vars
    BY <2>7 DEF vars
  <2> QED
    BY <2>1, <2>2, <2>3, <2>4, <2>5, <2>6, <2>7 DEF Next, bk_jemalloc_calls
<1> QED
  BY <1>1, <1>2, Invariance, PTL DEF Spec, KeepsHeapPromise, HeapSpec!Spec
-----------------------------------------------------------------------------
(* The count never exceeds the number of live blocks.                      *)

LEMMA LiveFinite == IsFiniteSet(Live) /\ Cardinality(Live) \in Nat
  BY MemoryAssumption, FS_Subset, FS_CardinalityType DEF Live, MemoryAssumption

LEMMA LiveGrows ==
  ASSUME TypeOK, NEW b \in Free, NEW a \in Allocators,
         owner' = [owner EXCEPT ![b] = a]
  PROVE  Cardinality(Live') = Cardinality(Live) + 1
<1>1. Live' = Live \cup {b} /\ b \notin Live
  BY DEF Live, Free, TypeOK
<1> QED BY <1>1, LiveFinite, FS_AddElement

LEMMA LiveShrinks ==
  ASSUME TypeOK, NEW p \in Live, owner' = [owner EXCEPT ![p] = "free"]
  PROVE  Cardinality(Live') = Cardinality(Live) - 1
<1>1. Live' = Live \ {p}
  BY DEF Live, Free, TypeOK
<1> QED BY <1>1, LiveFinite, FS_RemoveElement

LEMMA LiveMoves ==
  ASSUME TypeOK, NEW p \in Live, NEW q \in Free, NEW a \in Allocators,
         owner' = [owner EXCEPT ![p] = "free", ![q] = a]
  PROVE  Cardinality(Live') = Cardinality(Live)
<1> DEFINE rest == Live \ {p}
<1>1. /\ IsFiniteSet(rest)
      /\ Cardinality(rest) = Cardinality(Live) - 1
  BY LiveFinite, FS_RemoveElement
<1>2. Live' = rest \cup {q} /\ q \notin rest
  BY DEF Live, Free, TypeOK
<1>3. Cardinality(rest \cup {q}) = Cardinality(rest) + 1
  <2> HIDE DEF rest
  <2> QED BY <1>1, <1>2, FS_AddElement
<1> HIDE DEF rest
<1> QED BY <1>1, <1>2, <1>3, LiveFinite

LEMMA NextCount ==
  IInv /\ CountNeverOverstates /\ [Next]_vars => CountNeverOverstates'
<1> SUFFICES ASSUME IInv, CountNeverOverstates, [Next]_vars
             PROVE  CountNeverOverstates'
  OBVIOUS
<1> USE DEF CountNeverOverstates
<1>0. /\ TypeOK /\ alloc_used \in Nat /\ Cardinality(Live) \in Nat
      /\ InitUsed = alloc_used
  BY LiveFinite DEF IInv, TypeOK, InitUsed, InitGuards
<1>1. \A k \in Nat : k <= 0 => k <= Cardinality(Live')
  <2>1. owner' \in [Blocks -> Allocators \cup {"free"}]
    BY NextIInv DEF IInv, TypeOK
  <2>2. IsFiniteSet(Live')
    BY MemoryAssumption, FS_Subset DEF Live, MemoryAssumption
  <2> QED BY <2>2, FS_CardinalityType
<1>2. ASSUME NEW b \in Free, Track(b),
             alloc_used' = InitUsed + 1 \/ alloc_used' = 0
      PROVE  CountNeverOverstates'
  <2>1. owner' = [owner EXCEPT ![b] = InitCalls] /\ InitCalls \in Allocators
    BY <1>2 DEF Track, InitCalls, IInv, InitGuards
  <2>2. Cardinality(Live') = Cardinality(Live) + 1
    BY <2>1, <1>0, LiveGrows
  <2> QED BY <1>0, <1>2, <2>2
<1>3. CASE TrackFailed
  BY <1>0, <1>3 DEF TrackFailed, heap, Live, Free
<1>4. ASSUME NEW p \in held \cup {Null}, mem_realloc(p)
      PROVE  CountNeverOverstates'
  <2>1. alloc_used' = alloc_used
    BY <1>0, <1>4 DEF mem_realloc
  <2>2. CASE UNCHANGED heap
    BY <2>1, <2>2, <1>0 DEF heap, Live, Free
  <2>3. ASSUME NEW q \in Free, owner' = [owner EXCEPT ![q] = "libc"]
        PROVE  CountNeverOverstates'
    <3> DEFINE a == "libc"
    <3>1. a \in Allocators /\ owner' = [owner EXCEPT ![q] = a]
      BY <2>3
    <3> HIDE DEF a
    <3>2. Cardinality(Live') = Cardinality(Live) + 1
      BY <1>0, <3>1, LiveGrows
    <3> QED BY <1>0, <2>1, <3>2
  <2>4. ASSUME NEW q \in Free, p # Null,
               owner' = [owner EXCEPT ![p] = "free", ![q] = "libc"]
        PROVE  CountNeverOverstates'
    <3>1. p \in Live
      BY <2>4 DEF IInv, HeldIsLive
    <3> QED BY <1>0, <2>1, <2>4, <3>1, LiveMoves
  <2> QED BY <1>4, <2>2, <2>3, <2>4 DEF mem_realloc
<1>5. ASSUME NEW p \in held \cup {Null}, mem_free(p)
      PROVE  CountNeverOverstates'
  <2>1. FreeEffect(p)
    <3>1. ~FreeFails(p)
      BY <1>5, PassedIsSound DEF FreeFails
    <3> QED BY <1>5, <3>1, FreeReturnsEffect DEF mem_free
  <2>2. CASE alloc_used' = 0
    BY <1>1, <2>2
  <2>3. CASE owner' = owner /\ alloc_used' \in {alloc_used, alloc_used - 1}
    BY <1>0, <2>3 DEF Live, Free
  <2>4. CASE /\ owner' = Reclaim({p}) /\ owner' # owner
             /\ alloc_used' = alloc_used - 1
    <3>1. p \in Live
      BY <1>0, <2>4, MemoryAssumption DEF Reclaim, TypeOK, IInv, HeldIsLive
    <3>2. owner' = [owner EXCEPT ![p] = "free"]
      BY <1>0, <2>4 DEF Reclaim, TypeOK
    <3> QED BY <1>0, <2>4, <3>1, <3>2, LiveShrinks
  <2>5. owner' # owner => alloc_used' = 0 \/ alloc_used' = alloc_used - 1
    <3>1. FreeReturns(p)
      BY <1>5, PassedIsSound DEF mem_free, FreeFails
    <3> QED BY <3>1 DEF FreeReturns, FreeAtZero, FreeByScan
  <2> QED BY <1>0, <2>1, <2>2, <2>3, <2>4, <2>5 DEF FreeEffect
<1>6. CASE Collect
  <2>1. alloc_used' = 0
    BY <1>0, <1>6 DEF Collect, GcRuns, IInv, InitGuards
  <2> QED BY <1>1, <2>1
<1>7. CASE UNCHANGED <<alloc_used, owner>>
  BY <1>7, <1>0 DEF Live, Free
<1>8. CASE mem_alloc
  BY <1>8, <1>2, <1>3 DEF mem_alloc
<1>9. CASE mem_clearalloc
  <2>1. ASSUME NEW b \in Free, Track(b),
               alloc_used' = IF WrapsAround THEN 0 ELSE InitUsed + 1
        PROVE  CountNeverOverstates'
    BY <2>1, <1>2
  <2> QED BY <1>9, <2>1, <1>3 DEF mem_clearalloc
<1> QED
  BY <1>4, <1>5, <1>6, <1>7, <1>8, <1>9
     DEF Next, mem_gc, mem_changecalls, bk_jemalloc_calls, GcFails, vars,
         tracker, heap

(* mem_alloc_count never reports more blocks than are live. *)
THEOREM CountSound == Spec => []CountNeverOverstates
<1>1. Init => CountNeverOverstates
  BY LiveFinite DEF Init, CountNeverOverstates
<1> QED BY <1>1, NextCount, Invariance, PTL DEF Spec

-----------------------------------------------------------------------------
(* The lock, in MemoryThreads.tla, for every set of threads and every      *)
(* number of calls.                                                        *)

Places ==
  {"idle", "check", "init", "test", "set", "body", "count", "advance",
   "unlock", "return"}

(* The inductive invariant: every thread is somewhere, and a set flag has  *)
(* a thread behind it.                                                     *)
LockInv ==
  /\ pc \in [Threads -> Places]
  /\ LockHasHolder

(* A step of thread t that neither takes nor releases the lock leaves the  *)
(* flag alone and does not carry t out of the region it protects.          *)
LEMMA MoveKeepsLockInv ==
  ASSUME LockInv, NEW t \in Threads, NEW to \in Places,
         pc' = [pc EXCEPT ![t] = to], UNCHANGED mem_ctl_lock,
         Inside(t) => to \in {"body", "count", "advance", "unlock"}
  PROVE  LockInv'
<1>1. pc' \in [Threads -> Places]
  BY DEF LockInv
<1>2. ASSUME mem_ctl_lock' PROVE \E u \in Threads : Inside(u)'
  <2>1. PICK u \in Threads : Inside(u)
    BY <1>2 DEF LockInv, LockHasHolder
  <2>2. Inside(u)'
    BY <2>1 DEF LockInv, Inside
  <2> QED BY <2>2
<1> QED BY <1>1, <1>2 DEF LockInv, LockHasHolder

LEMMA StepLockInv ==
  ASSUME LockInv, NEW t \in Threads, Call(t) \/ Step(t)
  PROVE  LockInv'
<1> USE DEF Goto, Inside, Places
<1>1. CASE Call(t)
  <2>1. PICK to \in Places : /\ pc' = [pc EXCEPT ![t] = to]
                             /\ pc[t] = "idle"
    BY <1>1 DEF Call
  <2> QED BY <1>1, <2>1, MoveKeepsLockInv DEF Call
<1>2. CASE CheckInit(t)
  <2>1. PICK to \in Places : /\ pc' = [pc EXCEPT ![t] = to]
                             /\ pc[t] = "check"
    BY <1>2 DEF CheckInit
  <2> QED BY <1>2, <2>1, MoveKeepsLockInv DEF CheckInit
<1>3. CASE RunInit(t)
  BY <1>3, MoveKeepsLockInv DEF RunInit
<1>4. CASE TestLock(t)
  BY <1>4, MoveKeepsLockInv DEF TestLock
<1>5. CASE SetLock(t)
  <2>1. pc' \in [Threads -> Places] /\ Inside(t)'
    BY <1>5 DEF SetLock, LockInv
  <2> QED BY <2>1 DEF LockInv, LockHasHolder
<1>6. CASE Store(t)
  BY <1>6, MoveKeepsLockInv DEF Store
<1>7. CASE Count(t)
  BY <1>7, MoveKeepsLockInv DEF Count
<1>8. CASE Advance(t)
  BY <1>8, MoveKeepsLockInv DEF Advance
<1>9. CASE FreeBody(t)
  BY <1>9, MoveKeepsLockInv DEF FreeBody
<1>10. CASE GcBody(t)
  BY <1>10, MoveKeepsLockInv DEF GcBody
<1>11. CASE CountBody(t)
  BY <1>11, MoveKeepsLockInv DEF CountBody
<1>12. CASE Unlock(t)
  <2>1. pc' \in [Threads -> Places] /\ ~mem_ctl_lock'
    BY <1>12 DEF Unlock, LockInv
  <2> QED BY <2>1 DEF LockInv, LockHasHolder
<1>13. CASE Return(t)
  BY <1>13, MoveKeepsLockInv DEF Return
<1> QED
  BY <1>1, <1>2, <1>3, <1>4, <1>5, <1>6, <1>7, <1>8, <1>9, <1>10, <1>11,
     <1>12, <1>13 DEF Step

(* The flag never stays set behind a call that has returned. *)
THEOREM LockNeverOrphaned == ThreadsSpec => []LockHasHolder
<1>1. ThreadsInit => LockInv
  BY DEF ThreadsInit, LockInv, LockHasHolder, Places
<1>2. LockInv /\ [ThreadsNext]_thread_vars => LockInv'
  <2> SUFFICES ASSUME LockInv, [ThreadsNext]_thread_vars PROVE LockInv'
    OBVIOUS
  <2>1. CASE ThreadsNext
    BY <2>1, StepLockInv DEF ThreadsNext
  <2>2. CASE UNCHANGED thread_vars
    BY <2>2 DEF thread_vars, locals, LockInv, LockHasHolder, Inside
  <2> QED BY <2>1, <2>2
<1>3. LockInv => LockHasHolder
  BY DEF LockInv
<1> QED BY <1>1, <1>2, <1>3, PTL DEF ThreadsSpec
-----------------------------------------------------------------------------
(* The error log.                                                          *)

WithBuffer ==
  log.block =>
    /\ ready /\ log.pid
    /\ log.flags \subseteq {BERR_LOGFULL}
    /\ LogSize <= log.cursor => BERR_LOGFULL \in log.flags

WithoutBuffer ==
  ~log.block =>
    /\ log.cursor = 0 /\ text = <<>>
    /\ log.flags = BERR_LOGUNDEF \/ (log.flags = {} /\ ~log.pid)

(* An understated record has an undefined major number, larger than any    *)
(* type, to blame, which berror_set has kept.                              *)
Stated ==
  \A i \in DOMAIN text :
    text[i].own \in Types => text[i].head >= text[i].own \/ error.major > 19

LogIInv ==
  /\ LogTypeOK /\ OverrunWithinRecord
  /\ WithBuffer /\ WithoutBuffer /\ Stated
  /\ error.major >= 0
  /\ NeverSpins /\ CrashOnlyBeforeFirstBlock

LEMMA MajorsAreInts ==
  ASSUME NEW m \in Majors \cup {0}
  PROVE  m \in Int
<1>1. CASE m \in Majors
  BY <1>1, ErrorLogAssumption
<1>2. CASE m = 0
  BY <1>2
<1> QED BY <1>1, <1>2

LEMMA LogInitInv == LogInit => LogIInv
<1> SUFFICES ASSUME LogInit PROVE LogIInv
  OBVIOUS
<1>1. error = NoError /\ text = <<>> /\ wrote = <<>> /\ outcome = "running"
      /\ log.block = FALSE /\ log.cursor = 0 /\ log.flags = {} /\ log.pid = FALSE
      /\ ready = FALSE /\ rt = 0
  BY DEF LogInit
<1>2. LogTypeOK
  <2>1. error \in [major : Majors \cup {0}, minor : SUBSET (0 .. 31)]
    BY <1>1 DEF NoError
  <2>2. log \in [block : BOOLEAN, pid : BOOLEAN, cursor : Nat, flags : SUBSET BERR_LOGUNDEF]
    BY DEF LogInit
  <2>3. text \in Seq(Records) /\ wrote \in Seq(Records)
    BY <1>1, EmptySeq
  <2>4. ready \in BOOLEAN
    BY DEF LogInit
  <2>5. outcome \in {"running", "spinning", "crashed"}
    BY DEF LogInit
  <2>6. rt \in Int
    BY DEF LogInit
  <2> QED BY <2>1, <2>2, <2>3, <2>4, <2>5, <2>6 DEF LogTypeOK
<1>3. OverrunWithinRecord
  BY <1>1, ErrorLogAssumption DEF OverrunWithinRecord
<1>4. WithBuffer /\ WithoutBuffer /\ Stated
  BY <1>1 DEF WithBuffer, WithoutBuffer, Stated
<1>5. error.major >= 0 /\ NeverSpins /\ CrashOnlyBeforeFirstBlock
  BY <1>1 DEF NoError, NeverSpins, CrashOnlyBeforeFirstBlock
<1> QED BY <1>2, <1>3, <1>4, <1>5 DEF LogIInv

(* A refused call leaves the invariant alone. *)
LEMMA RefusedStep ==
  ASSUME LogIInv, NEW status \in Int, Refused(status)
  PROVE  LogIInv'
<1>1. rt' = status /\ outcome' = "running" /\ wrote' = <<>>
      /\ UNCHANGED <<ready, error, log, text>>
  BY DEF Refused, Returns
<1>2. LogTypeOK'
  BY <1>1 DEF LogIInv, LogTypeOK
<1> QED
  BY <1>1, <1>2 DEF LogIInv, OverrunWithinRecord, WithBuffer, WithoutBuffer, Stated,
     NeverSpins, CrashOnlyBeforeFirstBlock

(* The buffer of a log that is not ready is gone, so that an init, when it *)
(* is not refused, finds none.                                             *)
LEMMA LogInitStep ==
  ASSUME LogIInv, _bk_errlog_init
  PROVE  LogIInv'
<1>1. CASE ready
  BY <1>1, RefusedStep DEF _bk_errlog_init, BERR_ANOMAL
<1>2. CASE ~ready
  <2>1. ~log.block
    BY <1>2 DEF LogIInv, WithBuffer, LogTypeOK
  <2>2. ready' = TRUE /\ error' = NoError /\ wrote' = <<>> /\ outcome' = "running"
    BY <1>2, <2>1 DEF _bk_errlog_init, Returns
  <2>3. CASE rt' = -BERR_NOSPACE /\ UNCHANGED <<log, text>>
    <3>1. LogTypeOK'
      BY <2>2, <2>3 DEF LogIInv, LogTypeOK, NoError, BERR_NOSPACE
    <3> QED
      BY <2>1, <2>2, <2>3, <3>1 DEF LogIInv, OverrunWithinRecord, WithBuffer,
         WithoutBuffer, Stated, NeverSpins, CrashOnlyBeforeFirstBlock, NoError
  <2>4. ASSUME rt' = 0, NEW size \in 0 .. LogSize, text' = <<Leftover(size)>>,
               log' = [block |-> TRUE, pid |-> TRUE, cursor |-> 0, flags |-> {}]
        PROVE  LogIInv'
    <3>1. Leftover(size) \in Records
      BY ErrorLogAssumption DEF Leftover, Records, Types, Danger
    <3>2. LogTypeOK'
      BY <2>2, <2>4, <3>1 DEF LogIInv, LogTypeOK, NoError
    <3>3. Stated'
      BY <2>4 DEF Stated, Leftover
    <3> QED
      BY <2>2, <2>4, <3>2, <3>3, ErrorLogAssumption DEF LogIInv, OverrunWithinRecord,
         WithBuffer, WithoutBuffer, NeverSpins, CrashOnlyBeforeFirstBlock, NoError
  <2> QED BY <1>2, <2>1, <2>3, <2>4 DEF _bk_errlog_init, Returns
<1> QED BY <1>1, <1>2

LEMMA WriteReturnsStatus ==
  ASSUME LogIInv
  PROVE  WriteReturns \subseteq Int
<1>1. text \in Seq(Records)
  BY DEF LogIInv, LogTypeOK
<1>2. CASE text = <<>>
  BY <1>2, ErrorLogAssumption DEF WriteReturns, FlushLen
<1>3. CASE text # <<>>
  <2>1. Last(text) \in Records
    BY <1>1, <1>3 DEF Last
  <2>2. Last(text).end \in Nat
    BY <2>1 DEF Records
  <2> QED BY <1>3, <2>2, ErrorLogAssumption DEF WriteReturns, FlushLen
<1> QED BY <1>2, <1>3

LEMMA FlushStep ==
  ASSUME LogIInv, _bk_errlog_flush
  PROVE  LogIInv'
<1>1. CASE ~ready
  BY <1>1, RefusedStep DEF _bk_errlog_flush, LogUndefStatus
<1>2. CASE ready /\ ~log.block
  BY <1>2, RefusedStep DEF _bk_errlog_flush, berror_log_flush, LogRefused, Refused,
     Returns, BERR_INVALID
<1>3. CASE ready /\ log.block
  <2>1. ~Locked
    BY <1>3 DEF LogIInv, WithBuffer, Locked, BERR_LOGLOCK, BERR_LOGFULL
  <2>2. PICK n \in WriteReturns, k \in 0 .. Len(text) :
          /\ rt' = n /\ outcome' = "running" /\ log' = Flushed(n)
          /\ wrote' = SubSeq(text, 1, k)
          /\ UNCHANGED <<ready, error, text>>
    BY <1>3, <2>1 DEF _bk_errlog_flush, berror_log_flush, Returns
  <2>3. n \in Int /\ text \in Seq(Records)
    BY WriteReturnsStatus DEF LogIInv, LogTypeOK
  <2>4. wrote' \in Seq(Records)
    BY <2>2, <2>3, SubSeqProperties
  <2>5. \/ log' = log
        \/ log' = [log EXCEPT !.cursor = 0, !.flags = @ \ {BERR_LOGFULL}]
    BY <2>2 DEF Flushed
  <2>6. log \in [block : BOOLEAN, pid : BOOLEAN, cursor : Nat, flags : SUBSET BERR_LOGUNDEF]
    BY DEF LogIInv, LogTypeOK
  <2>7. /\ log' \in [block : BOOLEAN, pid : BOOLEAN, cursor : Nat, flags : SUBSET BERR_LOGUNDEF]
        /\ log'.block = log.block /\ log'.pid = log.pid
        /\ log'.flags \subseteq log.flags
        /\ log'.cursor = 0 \/ log' = log
    <3>1. CASE log' = log
      BY <2>6, <3>1
    <3>2. CASE log' = [log EXCEPT !.cursor = 0, !.flags = @ \ {BERR_LOGFULL}]
      <4>1. log.flags \ {BERR_LOGFULL} \in SUBSET BERR_LOGUNDEF
        BY <2>6
      <4>2. log' = [log EXCEPT !.cursor = 0, !.flags = log.flags \ {BERR_LOGFULL}]
        BY <2>6, <3>2
      <4> QED BY <2>6, <4>1, <4>2
    <3> QED BY <2>5, <3>1, <3>2
  <2>8. LogTypeOK'
    BY <2>2, <2>3, <2>4, <2>7 DEF LogIInv, LogTypeOK
  <2>9. OverrunWithinRecord' /\ WithBuffer' /\ WithoutBuffer'
    BY <1>3, <2>2, <2>7, ErrorLogAssumption
    DEF LogIInv, OverrunWithinRecord, WithBuffer, WithoutBuffer
  <2>10. Stated' /\ NeverSpins' /\ CrashOnlyBeforeFirstBlock' /\ error'.major >= 0
    BY <2>2 DEF LogIInv, Stated, NeverSpins, CrashOnlyBeforeFirstBlock
  <2> QED BY <2>8, <2>9, <2>10 DEF LogIInv
<1> QED BY <1>1, <1>2, <1>3 DEF LogIInv, LogTypeOK

(* A record goes to an empty text, or behind the one there is. *)
LEMMA TextBeforeIs ==
  ASSUME LogIInv
  PROVE  /\ TextBefore \in Seq(Records)
         /\ \A i \in DOMAIN TextBefore : TextBefore[i] = text[i] /\ i \in DOMAIN text
  BY EmptySeq DEF TextBefore, LogIInv, LogTypeOK

(* What is described and what remains are sets of bits. *)
LEMMA MaskTypes ==
  ASSUME NEW m \in SUBSET (0 .. 31)
  PROVE  Described(Selected(m)) \in SUBSET (-1 .. 31) /\ Remaining(m) \in SUBSET (0 .. 31)
<1>1. Remaining(m) \in SUBSET (0 .. 31)
  BY DEF Remaining
<1>2. \/ Described(Selected(m)) = Danger
      \/ Described(Selected(m)) \in {{}, BERR_EDEADB}
      \/ \E b \in Listed : Described(Selected(m)) = {b}
  BY DEF Described
<1>3. Danger \in SUBSET (-1 .. 31) /\ BERR_EDEADB \in SUBSET (-1 .. 31)
      /\ \A b \in Listed : {b} \in SUBSET (-1 .. 31)
  BY DEF Danger, BERR_EDEADB, Listed
<1>4. Described(Selected(m)) \in SUBSET (-1 .. 31)
  BY <1>2, <1>3
<1> QED BY <1>1, <1>4

(* berror_log keeps the invariant whatever record it is given, as long as  *)
(* the record is well formed and not understated.                          *)
LEMMA LogStep ==
  ASSUME LogIInv, ready, ready' = ready, wrote' = <<>>,
         NEW record \in Records, NEW level \in Int, berror_log(record, level),
         error' \in [major : Majors \cup {0}, minor : SUBSET (0 .. 31)],
         error'.major >= error.major,
         record.own \in Types => record.head >= record.own \/ error'.major > 19
  PROVE  LogIInv'
<1>1. error'.major >= 0 /\ error.major \in Int /\ error'.major \in Int
  <2>1. error.major \in Majors \cup {0} /\ error'.major \in Majors \cup {0}
    BY DEF LogIInv, LogTypeOK
  <2>2. error.major \in Int /\ error'.major \in Int
    BY <2>1, MajorsAreInts
  <2>3. error.major >= 0
    BY DEF LogIInv
  <2> QED BY <2>2, <2>3
<1>2. ~Locked \/ ~IsLogValid
  BY DEF LogIInv, LogTypeOK, WithBuffer, WithoutBuffer, Locked, IsLogValid, BERR_LOGLOCK,
     BERR_LOGFULL, BERR_LOGUNDEF
<1>3. wrote' \in Seq(Records)
  BY EmptySeq
<1>4. CASE /\ UNCHANGED <<log, text>> /\ rt' \in Int
           /\ \/ outcome' = "running"
              \/ outcome' = "crashed" /\ ~log.pid
  <2>1. LogTypeOK'
    BY <1>3, <1>4 DEF LogIInv, LogTypeOK
  <2>2. Stated'
    BY <1>1, <1>4 DEF LogIInv, Stated
  <2> QED
    BY <1>1, <1>4, <2>1, <2>2 DEF LogIInv, OverrunWithinRecord, WithBuffer, WithoutBuffer,
       NeverSpins, CrashOnlyBeforeFirstBlock
<1>5. CASE /\ IsLogValid /\ BERR_LOGFULL \notin log.flags /\ log.block
           /\ Returns(level) /\ LogRecord(record)
  <2> DEFINE end(len) == log.cursor + len
  <2>1. PICK len \in RecordLens :
          /\ text' = Append(TextBefore, [record EXCEPT !.end = end(len)])
          /\ log' = [log EXCEPT !.cursor = end(len), !.flags = FlagsAfter(end(len))]
    BY <1>5 DEF LogRecord
  <2>2. len \in 1 .. RecordMax /\ RecordMax \in Nat /\ LogSize \in Nat \ {0}
    BY ErrorLogAssumption
  <2>3. log \in [block : BOOLEAN, pid : BOOLEAN, cursor : Nat, flags : SUBSET BERR_LOGUNDEF]
    BY DEF LogIInv, LogTypeOK
  <2>4. /\ FlagsAfter(end(len)) \subseteq {BERR_LOGFULL}
        /\ LogSize <= end(len) => BERR_LOGFULL \in FlagsAfter(end(len))
    BY <1>5 DEF FlagsAfter, LogIInv, WithBuffer
  <2>5. FlagsAfter(end(len)) \in SUBSET BERR_LOGUNDEF
    BY <2>4 DEF BERR_LOGFULL, BERR_LOGUNDEF
  <2>6. end(len) \in Nat /\ end(len) < LogSize + RecordMax
    <3>1. log.cursor < LogSize /\ log.cursor \in Nat
      BY <1>5, <2>2, <2>3 DEF LogIInv, WithBuffer
    <3> QED BY <2>2, <3>1
  <2>7. /\ log' \in [block : BOOLEAN, pid : BOOLEAN, cursor : Nat, flags : SUBSET BERR_LOGUNDEF]
        /\ log'.block = log.block /\ log'.pid = log.pid
        /\ log'.cursor = end(len) /\ log'.flags = FlagsAfter(end(len))
    BY <2>1, <2>3, <2>5, <2>6
  <2>8. [record EXCEPT !.end = end(len)] \in Records
    BY <2>6 DEF Records
  <2>9. text' \in Seq(Records)
    BY <2>1, <2>8, TextBeforeIs, AppendProperties
  <2>10. LogTypeOK'
    BY <1>3, <1>5, <2>7, <2>9 DEF LogIInv, LogTypeOK, Returns
  <2>11. Stated'
    <3> SUFFICES ASSUME NEW i \in DOMAIN text', text'[i].own \in Types
                 PROVE  text'[i].head >= text'[i].own \/ error'.major > 19
      BY DEF Stated
    <3>1. Len(text') = Len(TextBefore) + 1 /\ i \in 1 .. Len(TextBefore) + 1
      BY <2>1, <2>8, TextBeforeIs, AppendProperties
    <3>2. CASE i \in 1 .. Len(TextBefore)
      <4>1. text'[i] = text[i] /\ i \in DOMAIN text
        BY <2>1, <2>8, <3>2, TextBeforeIs, AppendProperties
      <4> QED BY <1>1, <4>1 DEF LogIInv, Stated
    <3>3. CASE i = Len(TextBefore) + 1
      <4>1. text'[i] = [record EXCEPT !.end = end(len)]
        BY <2>1, <2>8, <3>3, TextBeforeIs, AppendProperties
      <4>2. text'[i].own = record.own /\ text'[i].head = record.head
        BY <4>1 DEF Records
      <4> QED BY <4>2
    <3> QED BY <3>1, <3>2, <3>3, TextBeforeIs
  <2>12. OverrunWithinRecord' /\ WithBuffer' /\ WithoutBuffer'
    BY <1>5, <2>4, <2>6, <2>7 DEF LogIInv, OverrunWithinRecord, WithBuffer, WithoutBuffer
  <2>13. NeverSpins' /\ CrashOnlyBeforeFirstBlock'
    BY <1>5 DEF Returns, NeverSpins, CrashOnlyBeforeFirstBlock
  <2> QED BY <1>1, <2>10, <2>11, <2>12, <2>13 DEF LogIInv
<1>6. IsLogValid /\ ~log.block => ~log.pid
  BY DEF LogIInv, WithoutBuffer, IsLogValid
<1>7. CASE ~IsLogValid
  BY <1>1, <1>4, <1>7 DEF berror_log, LogRefused, Returns, BERR_INVALID
<1>8. CASE IsLogValid /\ BERR_LOGFULL \in log.flags
  BY <1>1, <1>4, <1>8 DEF berror_log, LogRefused, Returns, BERR_NOSPACE
<1>9. CASE IsLogValid /\ BERR_LOGFULL \notin log.flags /\ ~log.block
  <2>1. Crashes /\ ~log.pid
    BY <1>2, <1>6, <1>9 DEF berror_log
  <2>2. rt' \in Int
    BY <2>1 DEF Crashes, LogIInv, LogTypeOK
  <2> QED BY <1>4, <2>1, <2>2 DEF Crashes
<1>10. CASE IsLogValid /\ BERR_LOGFULL \notin log.flags /\ log.block
  BY <1>2, <1>5, <1>10 DEF berror_log
<1> QED BY <1>7, <1>8, <1>9, <1>10 DEF LogIInv, LogTypeOK

(* The major number only grows, so that the heading of a record is as      *)
(* severe as what was just reported, or undefined numbers hide it.         *)
LEMMA PostStep ==
  ASSUME LogIInv, NEW major \in Majors, NEW minor \in Minors, _bk_errlog_post(major, minor)
  PROVE  LogIInv'
<1>1. CASE ~ready
  BY <1>1, RefusedStep DEF _bk_errlog_post, LogUndefStatus
<1>2. CASE ready
  <2> DEFINE highest == MajorSet(major)
             pending == error.minor \cup minor
             record == [head |-> Heading(highest), own |-> major,
                        desc |-> Described(Selected(pending)), end |-> 0]
  <2>1. /\ error' = [major |-> highest, minor |-> Remaining(pending)]
        /\ berror_log(record, SetLevel(major, minor))
        /\ wrote' = <<>> /\ ready' = ready
    BY <1>2 DEF _bk_errlog_post
  <2>2. /\ error.major \in Majors \cup {0} /\ error.major \in Int /\ error.major >= 0
        /\ major \in Int /\ error.minor \in SUBSET (0 .. 31)
    <3>1. error.major \in Majors \cup {0} /\ error.minor \in SUBSET (0 .. 31)
      BY DEF LogIInv, LogTypeOK
    <3>2. error.major \in Int /\ major \in Int
      BY <3>1, MajorsAreInts
    <3>3. error.major >= 0
      BY DEF LogIInv
    <3> QED BY <3>1, <3>2, <3>3
  <2>3. /\ highest \in Majors \cup {0} /\ highest \in Int
        /\ highest >= error.major /\ highest >= major
    BY <2>2 DEF MajorSet
  <2>4. pending \in SUBSET (0 .. 31)
    BY <2>2, ErrorLogAssumption
  <2>5. Remaining(pending) \in SUBSET (0 .. 31)
        /\ Described(Selected(pending)) \in SUBSET (-1 .. 31)
    BY <2>4, MaskTypes
  <2>6. record \in Records
    <3>1. Heading(highest) \in Types
      BY DEF Heading, Types
    <3> HIDE DEF highest, pending
    <3> QED BY <2>5, <3>1 DEF Records
  <2>7. /\ error' \in [major : Majors \cup {0}, minor : SUBSET (0 .. 31)]
        /\ error'.major = highest
    BY <2>1, <2>3, <2>5
  <2>8. major \in Types => Heading(highest) >= major \/ highest > 19
    BY <2>2, <2>3 DEF Heading, Types
  <2>9. SetLevel(major, minor) \in Int
    BY DEF SetLevel, BERR_LEVEL1, BERR_LEVEL2
  <2>10. record.own = major /\ record.head = Heading(highest)
    OBVIOUS
  <2> HIDE DEF record, highest, pending
  <2> QED BY <1>2, <2>1, <2>3, <2>6, <2>7, <2>8, <2>9, <2>10, LogStep
<1> QED BY <1>1, <1>2 DEF LogIInv, LogTypeOK

(* A freed log has every flag set, and no buffer. *)
LEMMA FreeStep ==
  ASSUME LogIInv, _bk_errlog_free
  PROVE  LogIInv'
<1>1. CASE ~ready
  BY <1>1, RefusedStep DEF _bk_errlog_free, LogUndefStatus
<1>2. CASE ready
  <2>1. error' = NoError /\ ready' = FALSE /\ wrote' = <<>> /\ berror_log_free
    BY <1>2 DEF _bk_errlog_free
  <2>2. wrote' \in Seq(Records) /\ error' \in [major : Majors \cup {0}, minor : SUBSET (0 .. 31)]
        /\ error'.major = 0
    BY <2>1, EmptySeq DEF NoError
  <2>3. ready' \in BOOLEAN
    BY <2>1
  <2>4. CASE ~IsLogValid
    <3>1. rt' = 0 /\ outcome' = "running" /\ UNCHANGED <<log, text>>
      BY <2>1, <2>4 DEF berror_log_free, Returns
    <3>2. ~log.block
      BY <2>4 DEF LogIInv, WithBuffer, IsLogValid, BERR_LOGFULL, BERR_LOGUNDEF
    <3>3. LogTypeOK'
      BY <2>2, <2>3, <3>1 DEF LogIInv, LogTypeOK
    <3>4. Stated'
      BY <3>1, <3>2 DEF LogIInv, WithoutBuffer, Stated
    <3> QED
      BY <2>2, <3>1, <3>2, <3>3, <3>4 DEF LogIInv, OverrunWithinRecord, WithBuffer,
         WithoutBuffer, NeverSpins, CrashOnlyBeforeFirstBlock
  <2>5. CASE IsLogValid
    <3>1. ~Locked
      BY <2>5 DEF LogIInv, WithBuffer, WithoutBuffer, Locked, IsLogValid, BERR_LOGLOCK,
         BERR_LOGFULL
    <3>2. log' = FreedLog /\ text' = <<>> /\ rt' = 0 /\ outcome' = "running"
      BY <2>1, <2>5, <3>1 DEF berror_log_free, Returns
    <3>3. log \in [block : BOOLEAN, pid : BOOLEAN, cursor : Nat, flags : SUBSET BERR_LOGUNDEF]
      BY DEF LogIInv, LogTypeOK
    <3>4. /\ log' \in [block : BOOLEAN, pid : BOOLEAN, cursor : Nat, flags : SUBSET BERR_LOGUNDEF]
          /\ ~log'.block /\ log'.cursor = 0 /\ log'.flags = BERR_LOGUNDEF
      BY <3>2, <3>3 DEF FreedLog
    <3>5. LogTypeOK'
      BY <2>2, <2>3, <3>2, <3>4, EmptySeq DEF LogTypeOK
    <3>6. Stated'
      BY <3>2 DEF Stated
    <3> QED
      BY <2>2, <3>2, <3>4, <3>5, <3>6, ErrorLogAssumption DEF LogIInv, OverrunWithinRecord,
         WithBuffer, WithoutBuffer, NeverSpins, CrashOnlyBeforeFirstBlock
  <2> QED BY <2>4, <2>5
<1> QED BY <1>1, <1>2 DEF LogIInv, LogTypeOK

(* The flags agree with the buffer and the cursor in every state the calls *)
(* of the internal error log can bring about.                              *)
THEOREM LogInvariance == LogSpec => []LogIInv
<1>1. ASSUME LogIInv, [LogNext]_logVars
      PROVE  LogIInv'
  <2>1. CASE _bk_errlog_init
    BY <1>1, <2>1, LogInitStep
  <2>2. ASSUME NEW major \in Majors, NEW minor \in Minors, _bk_errlog_post(major, minor)
        PROVE  LogIInv'
    BY <1>1, <2>2, PostStep
  <2>3. CASE _bk_errlog_flush
    BY <1>1, <2>3, FlushStep
  <2>4. CASE _bk_errlog_free
    BY <1>1, <2>4, FreeStep
  <2>5. CASE UNCHANGED logVars
    BY <1>1, <2>5 DEF logVars, LogIInv, LogTypeOK, OverrunWithinRecord, WithBuffer, WithoutBuffer,
       Stated, NeverSpins, CrashOnlyBeforeFirstBlock
  <2> QED BY <1>1, <2>1, <2>2, <2>3, <2>4, <2>5 DEF LogNext
<1> QED BY LogInitInv, <1>1, PTL DEF LogSpec

(* The state of the error log keeps its types. *)
THEOREM LogTypeCorrect == LogSpec => []LogTypeOK
<1>1. LogIInv => LogTypeOK
  BY DEF LogIInv
<1> QED BY <1>1, LogInvariance, PTL

(* The log runs past the length asked for by less than one record.         *)
THEOREM LogOverrun == LogSpec => []OverrunWithinRecord
<1>1. LogIInv => OverrunWithinRecord
  BY DEF LogIInv
<1> QED BY <1>1, LogInvariance, PTL

(* No init finds a buffer of an earlier one.                               *)
THEOREM BlockOwned == LogSpec => []OwnsBlockWhileReady
<1>1. LogIInv => OwnsBlockWhileReady
  BY DEF LogIInv, WithBuffer, OwnsBlockWhileReady
<1> QED BY <1>1, LogInvariance, PTL

(* No call polls a lock that is not released, and none writes through a    *)
(* null cursor once a buffer has been allocated.                           *)
THEOREM CallsComeBack == LogSpec => [](NeverSpins /\ CrashOnlyBeforeFirstBlock)
<1>1. LogIInv => NeverSpins /\ CrashOnlyBeforeFirstBlock
  BY DEF LogIInv
<1> QED BY <1>1, LogInvariance, PTL

(* A record's heading is as severe as the error reported, unless an        *)
(* undefined major number has been.                                        *)
THEOREM SeverityKept == LogSpec => []NeverUnderstated
<1>1. LogIInv => NeverUnderstated
  BY DEF LogIInv, Stated, NeverUnderstated, Types
<1> QED BY <1>1, LogInvariance, PTL
-----------------------------------------------------------------------------
LEMMA LowestIsMember ==
  ASSUME NEW m \in SUBSET Nat, m # {}
  PROVE  Lowest(m) \in m
<1>1. \E b \in m : \A c \in m : ~(<<c, b>> \in OpToRel(<, Nat))
  BY NatLessThanWellFounded, WFMin
<1>2. PICK b \in m : \A c \in m : ~(<<c, b>> \in OpToRel(<, Nat))
  BY <1>1
<1>3. \A c \in m : b <= c
  <2> TAKE c \in m
  <2>1. c \in Nat /\ b \in Nat
    OBVIOUS
  <2>2. ~(c < b)
    BY <1>2, <2>1 DEF OpToRel
  <2> QED BY <2>1, <2>2
<1> QED BY <1>2, <1>3 DEF Lowest

(* The description of the selected bits tells of each of them. *)
LEMMA SelectedIsTold ==
  ASSUME NEW m \in SUBSET (0 .. 31), NEW b \in Selected(m)
  PROVE  Tells(Described(Selected(m)), b)
<1>1. CASE Described(Selected(m)) = Selected(m)
  BY <1>1 DEF Tells
<1>2. CASE Described(Selected(m)) # Selected(m)
  <2>1. /\ Described(Selected(m)) = Danger
        /\ Selected(m) \notin {{}, BERR_EDEADB}
        /\ \A c \in Listed : Selected(m) # {c}
    BY <1>2 DEF Described
  <2>2. CASE m \cap Listed = {}
    BY <2>1, <2>2 DEF Selected, Tells
  <2>3. CASE m \cap Listed # {}
    <3>1. m # BERR_EDEADB
      BY <2>1 DEF Selected
    <3>2. Lowest(m \cap Listed) \in Listed
      BY <2>3, LowestIsMember DEF Listed
    <3> QED BY <2>1, <2>3, <3>1, <3>2 DEF Selected
  <2> QED BY <2>2, <2>3
<1> QED BY <1>1, <1>2

(* A post that comes back with a status of zero or more has added a record,*)
(* at the cursor and behind nothing that was flushed.                      *)
LEMMA PostAdds ==
  ASSUME LogIInv, NEW record \in Records, NEW level \in Int, 0 <= level, level <= BERR_LEVEL2,
         berror_log(record, level)
  PROVE  \/ UNCHANGED <<log, text>> /\ (outcome' # "running" \/ rt' < 0)
         \/ /\ log.block /\ ~Locked
            /\ \E end \in Nat \ {0} :
                 /\ log'.cursor = end /\ log'.block = log.block
                 /\ [record EXCEPT !.end = end] \in Records
                 /\ text' = Append(TextBefore, [record EXCEPT !.end = end])
<1>1. CASE ~IsLogValid \/ BERR_LOGFULL \in log.flags
  BY <1>1 DEF berror_log, LogRefused, Returns, BERR_INVALID, BERR_NOSPACE, BERR_LEVEL2
<1>2. CASE IsLogValid /\ BERR_LOGFULL \notin log.flags /\ (Locked \/ ~log.block)
  BY <1>2 DEF berror_log, Spins, Crashes
<1>3. CASE IsLogValid /\ BERR_LOGFULL \notin log.flags /\ ~Locked /\ log.block
  <2>1. PICK len \in RecordLens :
          /\ text' = Append(TextBefore, [record EXCEPT !.end = log.cursor + len])
          /\ log' = [log EXCEPT !.cursor = log.cursor + len,
                                !.flags = FlagsAfter(log.cursor + len)]
    BY <1>3 DEF berror_log, LogRecord
  <2>2. log.cursor \in Nat /\ len \in Nat \ {0}
    BY ErrorLogAssumption DEF LogIInv, LogTypeOK
  <2>3. log.cursor + len \in Nat \ {0}
    BY <2>2
  <2>4. log'.cursor = log.cursor + len /\ log'.block = log.block
    BY <2>1 DEF LogIInv, LogTypeOK
  <2>5. [record EXCEPT !.end = log.cursor + len] \in Records
    BY <2>3 DEF Records
  <2> QED BY <1>3, <2>1, <2>3, <2>4, <2>5
<1> QED BY <1>1, <1>2, <1>3

(* What the post of an error logs. *)
LEMMA PostedRecord ==
  ASSUME LogIInv, NEW major \in Majors, NEW minor \in Minors
  PROVE  /\ error.minor \cup minor \in SUBSET (0 .. 31)
         /\ [head |-> Heading(MajorSet(major)), own |-> major,
             desc |-> Described(Selected(error.minor \cup minor)), end |-> 0] \in Records
         /\ SetLevel(major, minor) \in 0 .. BERR_LEVEL2
<1> DEFINE pending == error.minor \cup minor
<1>1. pending \in SUBSET (0 .. 31)
  BY ErrorLogAssumption DEF LogIInv, LogTypeOK
<1>2. Described(Selected(pending)) \in SUBSET (-1 .. 31)
  BY <1>1, MaskTypes
<1>3. Heading(MajorSet(major)) \in Types
  BY DEF Heading, Types
<1>4. SetLevel(major, minor) \in 0 .. BERR_LEVEL2
  BY DEF SetLevel, BERR_LEVEL1, BERR_LEVEL2
<1> HIDE DEF pending
<1>5. [head |-> Heading(MajorSet(major)), own |-> major,
       desc |-> Described(Selected(pending)), end |-> 0] \in Records
  BY <1>2, <1>3 DEF Records
<1> QED BY <1>1, <1>4, <1>5 DEF pending

LEMMA PostReports ==
  ASSUME LogIInv, NEW major \in Majors, NEW minor \in Minors,
         _bk_errlog_post(major, minor), outcome' = "running", rt' >= 0,
         NEW b \in error.minor \cup minor
  PROVE  b \in error'.minor \/ (text' # <<>> /\ Tells(Last(text').desc, b))
<1> DEFINE pending == error.minor \cup minor
           record == [head |-> Heading(MajorSet(major)), own |-> major,
                      desc |-> Described(Selected(pending)), end |-> 0]
<1>1. ready
  BY DEF _bk_errlog_post, Refused, Returns, LogUndefStatus
<1>2. /\ error' = [major |-> MajorSet(major), minor |-> Remaining(pending)]
      /\ berror_log(record, SetLevel(major, minor))
  BY <1>1 DEF _bk_errlog_post
<1>3. pending \in SUBSET (0 .. 31) /\ record \in Records
      /\ SetLevel(major, minor) \in 0 .. BERR_LEVEL2
  BY PostedRecord
<1>4. rt' \in Int
  BY <1>2, <1>3 DEF berror_log, LogRefused, Spins, Crashes, Returns, BERR_INVALID,
     BERR_NOSPACE, BERR_LEVEL2, LogIInv, LogTypeOK
<1>5. record.desc = Described(Selected(pending))
  OBVIOUS
<1> HIDE DEF pending, record
<1>6. PICK end \in Nat \ {0} :
        /\ [record EXCEPT !.end = end] \in Records
        /\ text' = Append(TextBefore, [record EXCEPT !.end = end])
  <2> DEFINE level == SetLevel(major, minor)
  <2>1. level \in Int /\ 0 <= level /\ level <= BERR_LEVEL2
    BY <1>3 DEF BERR_LEVEL2
  <2>2. outcome' = "running" /\ ~(rt' < 0)
    BY <1>4
  <2> HIDE DEF level
  <2>3. berror_log(record, level)
    BY <1>2 DEF level
  <2> QED BY <1>3, <2>1, <2>2, <2>3, PostAdds
<1>7. text' # <<>> /\ Last(text') = [record EXCEPT !.end = end]
  BY <1>6, TextBeforeIs, AppendProperties DEF Last
<1>8. Last(text').desc = Described(Selected(pending))
  BY <1>3, <1>5, <1>7 DEF Records
<1>9. CASE b \in Selected(pending)
  BY <1>3, <1>7, <1>8, <1>9, SelectedIsTold
<1>10. CASE b \notin Selected(pending)
  BY <1>2, <1>10 DEF Remaining, pending
<1> QED BY <1>9, <1>10

(* No minor error is forgotten without a record that tells of it or a      *)
(* negative status, for all masks of errors.                               *)
THEOREM ErrorsReported == LogSpec => ClearedIsReported
<1> DEFINE Reported ==
      \A major \in Majors, minor \in Minors :
        _bk_errlog_post(major, minor) /\ outcome' = "running" /\ rt' >= 0 =>
          \A b \in error.minor \cup minor :
            b \in error'.minor \/ (text' # <<>> /\ Tells(Last(text').desc, b))
<1>1. LogIInv /\ [LogNext]_logVars => [Reported]_logVars
  BY PostReports
<1> QED BY <1>1, LogInvariance, PTL DEF LogSpec, ClearedIsReported
-----------------------------------------------------------------------------
LEMMA PostImplements ==
  ASSUME LogIInv, NEW major \in Majors, NEW minor \in Minors, _bk_errlog_post(major, minor)
  PROVE  AbstractJournal!Report \/ AbstractJournal!Refuse
<1>1. CASE ~ready
  BY <1>1 DEF _bk_errlog_post, Refused, AbstractJournal!Refuse
<1>2. CASE ready
  <2> DEFINE record == [head |-> Heading(MajorSet(major)), own |-> major,
                        desc |-> Described(Selected(error.minor \cup minor)), end |-> 0]
             level == SetLevel(major, minor)
  <2>1. berror_log(record, level) /\ wrote' = <<>>
    BY <1>2 DEF _bk_errlog_post
  <2>2. record \in Records /\ level \in 0 .. BERR_LEVEL2
    BY PostedRecord
  <2>3. level \in Int /\ 0 <= level /\ level <= BERR_LEVEL2
    BY <2>2 DEF BERR_LEVEL2
  <2> HIDE DEF record, level
  <2>4. CASE UNCHANGED <<log, text>>
    BY <2>1, <2>4 DEF AbstractJournal!Refuse
  <2>5. ASSUME NEW end \in Nat \ {0}, log.block,
               log'.cursor = end, log'.block = log.block,
               [record EXCEPT !.end = end] \in Records,
               text' = Append(TextBefore, [record EXCEPT !.end = end])
        PROVE  AbstractJournal!Report
    <3>1. text' # <<>> /\ AbstractJournal!Last(text') = [record EXCEPT !.end = end]
      BY <2>5, TextBeforeIs, AppendProperties DEF AbstractJournal!Last
    <3>2. AbstractJournal!Front(text') = TextBefore
      BY <2>5, TextBeforeIs, AppendProperties DEF AbstractJournal!Front
    <3> QED BY <2>1, <2>5, <3>1, <3>2 DEF AbstractJournal!Report, TextBefore
  <2> QED BY <2>1, <2>2, <2>3, <2>4, <2>5, PostAdds
<1> QED BY <1>1, <1>2 DEF LogIInv, LogTypeOK

(* A write that fails covers no record. *)
LEMMA FlushImplements ==
  ASSUME LogIInv, _bk_errlog_flush
  PROVE  AbstractJournal!Flush \/ AbstractJournal!Refuse
<1>1. CASE ~ready
  BY <1>1 DEF _bk_errlog_flush, Refused, AbstractJournal!Refuse
<1>2. CASE ready /\ ~log.block
  BY <1>2 DEF _bk_errlog_flush, berror_log_flush, LogRefused, AbstractJournal!Refuse
<1>3. CASE ready /\ log.block
  <2>1. ~Locked
    BY <1>3 DEF LogIInv, WithBuffer, Locked, BERR_LOGLOCK, BERR_LOGFULL
  <2>2. PICK n \in WriteReturns, k \in 0 .. Len(text) :
          /\ log' = Flushed(n) /\ Complete(k, n)
          /\ wrote' = SubSeq(text, 1, k)
          /\ UNCHANGED text
    BY <1>3, <2>1 DEF _bk_errlog_flush, berror_log_flush
  <2>3. log'.block = log.block
    BY <2>2 DEF Flushed, LogIInv, LogTypeOK
  <2>4. CASE n >= 0
    <3>1. log'.cursor = 0
      BY <2>2, <2>4 DEF Flushed, LogIInv, LogTypeOK
    <3> QED BY <1>3, <2>2, <2>3, <3>1 DEF AbstractJournal!Flush
  <2>5. CASE ~(n >= 0)
    <3>1. log' = log
      BY <2>2, <2>5 DEF Flushed
    <3>2. text \in Seq(Records)
      BY DEF LogIInv, LogTypeOK
    <3>3. k = 0
      <4> SUFFICES ASSUME k > 0 PROVE FALSE
        BY <3>2
      <4>1. text[k] \in Records
        BY <3>2
      <4>2. text[k].end \in Nat
        BY <4>1 DEF Records
      <4>3. text[k].end <= n /\ n \in Int
        BY <2>2, WriteReturnsStatus DEF Complete
      <4> QED BY <2>5, <4>2, <4>3
    <3>4. wrote' = <<>>
      BY <2>2, <3>3, SubSeqEmpty
    <3> QED BY <2>2, <3>1, <3>4 DEF AbstractJournal!Refuse
  <2> QED BY <2>4, <2>5
<1> QED BY <1>1, <1>2, <1>3 DEF LogIInv, LogTypeOK

LEMMA InitImplements ==
  ASSUME LogIInv, _bk_errlog_init
  PROVE  AbstractJournal!Open \/ AbstractJournal!Refuse
<1>1. CASE UNCHANGED <<log, text>> /\ wrote' = <<>>
  BY <1>1 DEF AbstractJournal!Refuse
<1>2. ASSUME ~ready, wrote' = <<>>, NEW size \in 0 .. LogSize, text' = <<Leftover(size)>>,
             log' = [block |-> TRUE, pid |-> TRUE, cursor |-> 0, flags |-> {}]
      PROVE  AbstractJournal!Open
  <2>1. ~log.block
    BY <1>2 DEF LogIInv, WithBuffer
  <2>2. log'.block /\ log'.cursor = 0
    BY <1>2
  <2> QED BY <1>2, <2>1, <2>2 DEF AbstractJournal!Open
<1>3. CASE ready
  BY <1>1, <1>3 DEF _bk_errlog_init, Refused
<1>4. CASE ~ready
  <2>1. ~log.block
    BY <1>4 DEF LogIInv, WithBuffer
  <2> QED BY <1>1, <1>2, <1>4, <2>1 DEF _bk_errlog_init
<1> QED BY <1>3, <1>4 DEF LogIInv, LogTypeOK

LEMMA FreeImplements ==
  ASSUME LogIInv, _bk_errlog_free
  PROVE  AbstractJournal!Close \/ AbstractJournal!Refuse
<1>1. wrote' = <<>>
  BY DEF _bk_errlog_free, Refused
<1>2. CASE UNCHANGED <<log, text>>
  BY <1>1, <1>2 DEF AbstractJournal!Refuse
<1>3. CASE log' = FreedLog /\ text' = <<>>
  <2>1. log'.block = FALSE /\ log'.cursor = 0
    BY <1>3 DEF FreedLog, LogIInv, LogTypeOK
  <2> QED BY <1>1, <1>3, <2>1 DEF AbstractJournal!Close
<1> QED BY <1>2, <1>3 DEF _bk_errlog_free, Refused, berror_log_free, Spins

(* The error log implements the journal: each write is the beginning of    *)
(* the current batch, for every buffer, write limit and set of errors.     *)
THEOREM JournalKept == LogSpec => KeepsJournal
<1>1. LogInit => AbstractJournal!Init
  BY DEF LogInit, AbstractJournal!Init
<1>2. ASSUME LogIInv, [LogNext]_logVars
      PROVE  [AbstractJournal!Next]_(AbstractJournal!journalVars)
  <2>1. CASE _bk_errlog_init
    BY <1>2, <2>1, InitImplements DEF AbstractJournal!Next
  <2>2. ASSUME NEW major \in Majors, NEW minor \in Minors, _bk_errlog_post(major, minor)
        PROVE  AbstractJournal!Next
    BY <1>2, <2>2, PostImplements DEF AbstractJournal!Next
  <2>3. CASE _bk_errlog_flush
    BY <1>2, <2>3, FlushImplements DEF AbstractJournal!Next
  <2>4. CASE _bk_errlog_free
    BY <1>2, <2>4, FreeImplements DEF AbstractJournal!Next
  <2>5. CASE UNCHANGED logVars
    BY <2>5 DEF logVars, AbstractJournal!journalVars
  <2> QED BY <1>2, <2>1, <2>2, <2>3, <2>4, <2>5 DEF LogNext
<1> QED BY <1>1, <1>2, LogInvariance, PTL DEF LogSpec, KeepsJournal, AbstractJournal!Spec
=============================================================================
