------------------------------- MODULE Arena -------------------------------
(***************************************************************************)
(* An arena of jemalloc, user/src/system/jemalloc/arena.c, among threads:  *)
(* runs of pages cut from chunks, dirty pages and their purge, and one bin *)
(* of small regions.                                                       *)
(*                                                                         *)
(* Pages are numbered; chunk c has the pages c * NP .. c * NP + NP - 1     *)
(* behind its MapBias header pages, so that NP is arena_maxclass in pages. *)
(* The arena is a record that pure operators take and return, one for each *)
(* function of arena.c.  A step of a thread goes from where it takes the   *)
(* arena lock, or the bin lock, to where the code drops it: before it maps *)
(* or unmaps a chunk, before madvise, and between bin and arena.  What it  *)
(* has left to do is its work, a sequence of tasks.                        *)
(*                                                                         *)
(* The red-black trees are sets here; see RedBlack.  Fresh chunks are zero *)
(* (chunk_mmap.c), so no page is ever flagged CHUNK_MAP_UNZEROED.          *)
(***************************************************************************)
EXTENDS Integers, Sequences, FiniteSets, FiniteSetsExt, Functions, SequencesExt

CONSTANTS
  Threads,
  NC,           (* chunks the system can map                               *)
  NP,           (* pages of a chunk behind its header                      *)
  MapBias,      (* header pages of a chunk                                 *)
  RunPages,     (* run_size of the bin, in pages                           *)
  Regs,         (* nregs of the bin                                        *)
  PageSize, Reg0, RegSize,   (* its reg0_offset and reg_size, in one unit  *)
  DirtyMult,    (* 2^opt_lg_dirty_mult                                     *)
  SizeMod,      (* 2^w, of a size_t                                        *)
  Programs,     (* the clients: the calls one makes, and for how many pages *)
  Null

ASSUME ArenaAssumption ==
  /\ {NC, NP, MapBias, Regs, PageSize, Reg0, RegSize, DirtyMult, SizeMod} \subseteq Nat \ {0}
  /\ RunPages \in 1 .. NP
  /\ Reg0 + Regs * RegSize = RunPages * PageSize
  /\ SizeMod > 2 * NC * NP
  /\ Programs \subseteq [calls : SUBSET {"large", "align", "resize", "small", "purge"},
                           pages : SUBSET (1 .. NP)]
  /\ Null \notin Nat

ASSUME ThreadsAssumption == IsFiniteSet(Threads)

Pages == 0 .. NC * NP - 1
Chunks == 0 .. NC - 1
ChunkPages == MapBias + NP              \* chunk_npages
Base(p) == p \div NP                    \* CHUNK_ADDR2BASE
First(c) == c * NP                      \* the page of map[0]
Of(c) == First(c) .. First(c) + NP - 1
Span(p, n) == p .. p + n - 1

VARIABLES
  arena,     (* the arena_t, its chunks, and what the pages hold           *)
  bin,       (* the arena_bin_t and its runs                               *)
  objects,   (* the client's large objects: first page -> pages asked for  *)
  lock,      (* the thread that holds the arena lock, or Null              *)
  work,      (* what each thread has left to do; empty outside a call      *)
  uses       (* the client: one of Programs                                *)

vars == <<arena, bin, objects, lock, work, uses>>

-----------------------------------------------------------------------------
(* The chunk map.  An element has a size in pages (or, in a small run, the *)
(* offset of the page in its run) and flags.                               *)

Elem(n, flags) == [size |-> n, flags |-> flags]
Dirty(e) == e.flags \cap {"dirty"}
IsFree(e) == "allocated" \notin e.flags
Taken == {"large", "allocated"}

Written(map, new) == [p \in Pages |-> IF p \in DOMAIN new THEN new[p] ELSE map[p]]

(* The first and the last page of a free run of n pages say the same.      *)
Framed(map, r, n, flags) == [map EXCEPT ![r] = Elem(n, flags), ![r + n - 1] = Elem(n, flags)]

(* Of what the code leaves in the elements inside a large or a free run,   *)
(* only the dirty flag is ever read again; no more is kept.                *)
Inner(map, r, n) == Written(map, [p \in r + 1 .. r + n - 2 |-> Elem(0, Dirty(map[p]))])

(* Free runs leave the tree for runs that are dirty, or are not, and enter.*)
Trees(a, dirty, leave, enter) ==
  [a EXCEPT !.clean = IF dirty = {} THEN (@ \ leave) \cup enter ELSE @,
            !.dirty = IF dirty = {} THEN @ ELSE (@ \ leave) \cup enter]

(* The lowest of the smallest runs of a tree that have need pages. *)
Fits(a, tree, need) == {r \in tree : a.map[r].size >= need}
BestFit(a, tree, need) ==
  CHOOSE r \in Fits(a, tree, need) :
    \A q \in Fits(a, tree, need) :
      a.map[r].size < a.map[q].size \/ (a.map[r].size = a.map[q].size /\ r <= q)

(* Cuts need pages from the free run r.  That a caller may want zeros, and *)
(* gets them written if the run is dirty, is left out: for a clean run it  *)
(* relies on CleanIsZero, below.                                           *)
RunSplit(a, r, need, large) ==
  LET total == a.map[r].size
      fd == Dirty(a.map[r])
      rest == IF need < total THEN {r + need} ELSE {}
      taken == IF large
               THEN [p \in {r, r + need - 1} |-> Elem(IF p = r THEN need ELSE 0, Taken \cup fd)]
               ELSE [p \in Span(r, need) |-> Elem(p - r, {"allocated"} \cup
                                               IF p \in {r, r + need - 1} THEN fd ELSE {})]
      left == [p \in rest \cup {r + total - 1} |-> Elem(total - need, fd)]
      spent == IF fd = {} THEN 0 ELSE need
  IN [Trees(a, fd, {r}, rest) EXCEPT !.map = Written(Written(@, left), taken),
                                     !.nactive = @ + need,
                                     !.ndirty = @ - spent,
                                     !.cdirty[Base(r)] = @ - spent]

-----------------------------------------------------------------------------
(* Chunks.                                                                 *)

(* arena_chunk_alloc with a spare, and with a chunk just mapped. *)
ReuseSpare(a) ==
  LET r == First(a.spare) IN [Trees(a, Dirty(a.map[r]), {}, {r}) EXCEPT !.spare = Null]

(* Slip: the new chunk counts as being in chunks_dirty. *)
NewChunkListed(a, c) ==
  [a EXCEPT !.mapped = @ \cup {c},
            !.map = Written(@, [p \in Of(c) |->
                       Elem(IF p \in {First(c), First(c) + NP - 1} THEN NP ELSE 0, {})]),
            !.cdirty[c] = 0, !.dirtied = @ \cup {c},
            !.clean = @ \cup {First(c)},
            !.touched = @ \ Of(c)]

NewChunk(a, c) == [NewChunkListed(a, c) EXCEPT !.dirtied = @ \ {c}]

Without(list, c) == RemoveAt(list, CHOOSE i \in DOMAIN list : list[i] = c)

(* A chunk that is one free run becomes the spare.  The spare there was is *)
(* to be unmapped: it is released, and forgotten by the arena.             *)
ChunkDealloc(a, c) ==
  LET old == a.spare
      b == [Trees(a, Dirty(a.map[First(c)]), {First(c)}, {}) EXCEPT !.spare = c]
  IN IF old = Null THEN b
     ELSE LET listed == old \in a.dirtied
          IN [b EXCEPT !.released = old,
                       !.chunks_dirty = IF listed THEN Without(@, old) ELSE @,
                       !.ndirty = IF listed THEN @ - a.cdirty[old] ELSE @]

-----------------------------------------------------------------------------
(* arena_run_dalloc, up to the point where it may purge.                   *)

RunSize(a, r) == IF "large" \in a.map[r].flags THEN a.map[r].size ELSE RunPages

Absorbs(a, p, fd) == IsFree(a.map[p]) /\ Dirty(a.map[p]) = fd

(* Slip: a freed run is not merged with the one in front of it. *)
MergeForward(a, r, n, fd) ==
  LET after == r + n
      next == IF after \in Of(Base(r)) /\ Absorbs(a, after, fd) THEN {after} ELSE {}
  IN [from |-> r, len |-> n + IF next = {} THEN 0 ELSE a.map[after].size, gone |-> next]

(* The free run that r, n pages, becomes part of: its first page, its      *)
(* length, and the free runs that are gone into it.                        *)
Merge(a, r, n, fd) ==
  LET f == MergeForward(a, r, n, fd)
      before == r - 1
      p == a.map[before].size
  IN IF before \in Of(Base(r)) /\ Absorbs(a, before, fd)
     THEN [from |-> r - p, len |-> f.len + p, gone |-> f.gone \cup {r - p}]
     ELSE f

Freed(a, r, fd) ==
  LET n == RunSize(a, r)
      c == Base(r)
      f == MergeForward(a, r, n, fd)
      m == Merge(a, r, n, fd)
      more == IF fd = {} THEN 0 ELSE n
      lists == fd # {} /\ c \notin a.dirtied
      ends == Framed(Framed(Framed(a.map, r, n, fd), r, f.len, fd), m.from, m.len, fd)
  IN [Trees(a, fd, m.gone, {m.from}) EXCEPT
        !.nactive = @ - n,
        !.map = Inner(ends, m.from, m.len),
        !.ndirty = @ + more,
        !.cdirty[c] = @ + more,
        !.chunks_dirty = IF lists THEN Append(@, c) ELSE @,
        !.dirtied = IF lists THEN @ \cup {c} ELSE @]

(* A run is dirty if the caller says so, or if it was when it was cut. *)
DallocFlags(a, r, dirty) == IF dirty THEN {"dirty"} ELSE Dirty(a.map[r])

WithoutWhole(a, c) ==
  IF IsFree(a.map[First(c)]) /\ a.map[First(c)].size = NP THEN ChunkDealloc(a, c) ELSE a

RunDalloc(a, r, dirty) == WithoutWhole(Freed(a, r, DallocFlags(a, r, dirty)), Base(r))

(* The run of old pages at r is cut behind its first head pages, so that   *)
(* either part can be given back as a run of its own.  arena_run_trim_tail *)
(* and arena_run_trim_head differ in the flags of the second part: the     *)
(* latter keeps those the page happens to have.                            *)
Cut(a, r, old, head, kept) ==
  LET fd == Dirty(a.map[r])
      end == Elem(0, Taken \cup fd)
  IN [a EXCEPT !.map = [@ EXCEPT ![r + head - 1] = end, ![r] = Elem(head, Taken \cup fd),
                                 ![r + old - 1] = end,
                                 ![r + head] = Elem(old - head, Taken \cup fd \cup kept)]]

CutTail(a, r, old, new) == Cut(a, r, old, new, {})
CutHead(a, r, old, lead) == Cut(a, r, old, lead, Dirty(a.map[r + lead]))

-----------------------------------------------------------------------------
(* Purging.                                                                *)

(* What a thread sets out to purge; and it counts that into npurgatory.    *)
Commitment(a, all) ==
  (a.ndirty - a.npurgatory - IF all THEN 0 ELSE a.nactive \div DirtyMult) % SizeMod

MustPurge(a) ==
  LET over == a.ndirty - a.npurgatory
  IN over > ChunkPages /\ a.nactive \div DirtyMult < over

Committed(a, n) == [a EXCEPT !.npurgatory = (@ + n) % SizeMod]

(* The first pages of the runs of a chunk, one after the other. *)
Length(a, r) == IF IsFree(a.map[r]) THEN a.map[r].size ELSE RunSize(a, r)
Starts(a, c) ==
  LET last == First(c) + NP - 1
      from[p \in Of(c)] ==
        LET next == p + Length(a, p)
        IN {p} \cup IF next \in p + 1 .. last THEN from[next] ELSE {}
  IN from[First(c)]

(* The dirty runs of a chunk are allocated, so that no other thread takes  *)
(* them while the lock is dropped; so is the chunk, if it is the spare.    *)
DirtyRuns(a, c) == {r \in Starts(a, c) : IsFree(a.map[r]) /\ Dirty(a.map[r]) # {}}

(* Slip: the spare is purged where it is. *)
PurgeSpareInPlace(a, c) == a

Unspared(a, c) == IF c = a.spare THEN ReuseSpare(a) ELSE a

ChunkPurge(a0, c) ==
  LET a == Unspared(a0, c)
      runs == DirtyRuns(a, c)
      LastOf(r) == r + a.map[r].size - 1
  IN [a EXCEPT !.dirty = @ \ runs,
               !.map = Written(@, [p \in UNION {r .. LastOf(r) : r \in runs} |->
                                     IF p \in runs THEN Elem(@[p].size, Taken)
                                     ELSE IF \E r \in runs : p = LastOf(r) THEN Elem(0, Taken)
                                     ELSE Elem(0, {})]),
               !.nactive = @ + SumFunction([r \in runs |-> a.map[r].size]),
               !.ndirty = @ - a.cdirty[c],
               !.cdirty[c] = 0,
               !.chunks_dirty = Without(@, c),
               !.dirtied = @ \ {c}]

-----------------------------------------------------------------------------
(* Small regions.  A run has given out its first next regions, and has     *)
(* those in avail, a stack, back.                                          *)

NFree(b, r) == Regs - b.runs[r].next + Len(b.runs[r].avail)
Held(b, r) == {i \in 0 .. b.runs[r].next - 1 : \A k \in DOMAIN b.runs[r].avail : b.runs[r].avail[k] # i}
Usable(b, r) == r # Null /\ NFree(b, r) > 0

(* The pages a run has used when it has given out next regions. *)
PastFloor(next) == (Reg0 + next * RegSize) \div PageSize   \* slip: a page begun is not counted
Past(next) == (Reg0 + next * RegSize + PageSize - 1) \div PageSize

RegAlloc(b, r) ==
  LET run == b.runs[r]
  IN [b EXCEPT !.runs[r] = IF run.avail # <<>> THEN [run EXCEPT !.avail = Tail(run.avail)]
                           ELSE [run EXCEPT !.next = run.next + 1]]
RegDalloc(b, r, i) == [b EXCEPT !.runs[r].avail = <<i>> \o @]

(* Slip: a current run that is replaced is not kept, though it has regions. *)
LowerRunForgets(b, r) ==
  IF b.cur = Null \/ r < b.cur THEN [b EXCEPT !.cur = r] ELSE [b EXCEPT !.tree = @ \cup {r}]

LowerRun(b, r) ==
  IF b.cur = Null THEN [b EXCEPT !.cur = r]
  ELSE IF r < b.cur
  THEN [b EXCEPT !.cur = r, !.tree = IF NFree(b, b.cur) > 0 THEN @ \cup {b.cur} ELSE @]
  ELSE [b EXCEPT !.tree = @ \cup {r}]

Dissociate(b, r) ==
  IF r = b.cur THEN [b EXCEPT !.cur = Null]
  ELSE IF Regs # 1 THEN [b EXCEPT !.tree = @ \ {r}] ELSE b

LowestRun(b) == IF b.tree = {} THEN Null ELSE Min(b.tree)
WithoutLowest(b) == [b EXCEPT !.tree = @ \ {LowestRun(b)}]

-----------------------------------------------------------------------------
(* The steps of a thread.                                                  *)

Init ==
  /\ arena = [map |-> [p \in Pages |-> Elem(0, {})], clean |-> {}, dirty |-> {},
              chunks_dirty |-> <<>>, dirtied |-> {}, cdirty |-> [c \in Chunks |-> 0],
              spare |-> Null, released |-> Null, mapped |-> {}, touched |-> {},
              nactive |-> 0, ndirty |-> 0, npurgatory |-> 0]
  /\ bin = [cur |-> Null, tree |-> {}, runs |-> <<>>]
  /\ objects = <<>>
  /\ lock = Null
  /\ work = [t \in Threads |-> <<>>]
  /\ uses \in Programs

Idle(t) == work[t] = <<>>
Task(t, name) == ~Idle(t) /\ work[t][1][1] = name
Arg(t) == work[t][1][2]
Rest(t) == Tail(work[t])
MayLock(t) == lock \in {t, Null}

(* Tasks made without the arena lock. *)
Unlocked == {"map", "unmap", "madvise", "bin"}

Does(t, tasks) ==
  /\ work' = [work EXCEPT ![t] = tasks]
  /\ lock' = IF tasks = <<>> \/ tasks[1][1] \in Unlocked THEN Null ELSE t

Touch(a, pages) == [a EXCEPT !.touched = @ \cup pages]

(* Gives run r of arena a back, then does the tasks that brings and those  *)
(* that follow.                                                            *)
GiveRun(t, a, r, dirty, tasks) ==
  \E b \in {RunDalloc(a, r, dirty)} :
    LET soiled == DallocFlags(a, r, dirty) # {}
        unmaps == IF b.released = Null THEN <<>> ELSE <<<<"unmap", b.released>>>>
        purges == IF soiled /\ (b.released # Null \/ MustPurge(b)) THEN <<<<"maybe">>>> ELSE <<>>
    IN arena' = [b EXCEPT !.released = Null] /\ Does(t, unmaps \o purges \o tasks)

(* What becomes of a run that was cut: it is a large object, it is trimmed *)
(* to alignment, or the bin gets it.  An object is the client's from here. *)
Address(p) == Base(p) * ChunkPages + MapBias + (p - First(Base(p)))

Owns(a, r, n) ==
  /\ objects' = [p \in DOMAIN objects \cup {r} |-> IF p = r THEN n ELSE objects[p]]
  /\ UNCHANGED bin

TrimTail(t, a, r, old, new) ==
  /\ Owns(a, r, new)
  /\ IF old = new THEN arena' = Touch(a, Span(r, new)) /\ Does(t, <<>>)
     ELSE GiveRun(t, Touch(CutTail(a, r, old, new), Span(r, new)), r + new, FALSE, <<>>)

Aligned(t, a, r, req) ==
  LET offset == Address(r) % req.align
      lead == req.align - offset
  IN IF offset = 0 THEN TrimTail(t, a, r, req.need, req.size)
     ELSE /\ GiveRun(t, CutHead(a, r, req.need, lead), r, FALSE,
                     <<<<"tail", r + lead, req.need - lead, req.size>>>>)
          /\ UNCHANGED <<bin, objects>>

NewRun(t, a, r) ==
  /\ bin' = [bin EXCEPT !.runs = [p \in DOMAIN @ \cup {r} |->
                IF p = r THEN [next |-> 0, avail |-> <<>>] ELSE @[p]]]
  /\ arena' = Touch(a, Span(r, Past(0)))
  /\ Does(t, <<<<"bin", r>>>>)
  /\ UNCHANGED objects

Cuts(t, a, r, req) ==
  LET b == RunSplit(a, r, req.need, req.for # "bin")
  IN CASE req.for = "object" -> TrimTail(t, b, r, req.need, req.need)
       [] req.for = "align"  -> Aligned(t, b, r, req)
       [] req.for = "bin"    -> NewRun(t, b, r)

FindRun(a, need) ==
  IF Fits(a, a.dirty, need) # {} THEN BestFit(a, a.dirty, need)
  ELSE IF Fits(a, a.clean, need) # {} THEN BestFit(a, a.clean, need)
  ELSE Null

RunAlloc(t, req) ==
  LET r == FindRun(arena, req.need)
  IN /\ MayLock(t)
     /\ IF r # Null THEN Cuts(t, arena, r, req)
        ELSE IF arena.spare # Null THEN Cuts(t, ReuseSpare(arena), First(arena.spare), req)
        ELSE Does(t, <<<<"map", req>>>>) /\ UNCHANGED <<arena, bin, objects>>

(* Back from chunk_alloc with a chunk, or without one: another thread may  *)
(* have given a run back in the meantime.                                  *)
MapChunk(t) ==
  LET req == Arg(t)
      r == FindRun(arena, req.need)
      free == Chunks \ arena.mapped
  IN /\ Task(t, "map") /\ MayLock(t)
     /\ \/ free # {} /\ Cuts(t, NewChunk(arena, Min(free)), First(Min(free)), req)
        \/ r # Null /\ Cuts(t, arena, r, req)
        \/ /\ r = Null
           /\ Does(t, IF req.for = "bin" THEN <<<<"bin", Null>>>> ELSE <<>>)
           /\ UNCHANGED <<arena, bin, objects>>

UnmapChunk(t) ==
  /\ Task(t, "unmap")
  /\ arena' = [arena EXCEPT !.mapped = @ \ {Arg(t)}, !.dirtied = @ \ {Arg(t)},
                            !.cdirty[Arg(t)] = 0, !.touched = @ \ Of(Arg(t)),
                            !.map = Written(@, [p \in Of(Arg(t)) |-> Elem(0, {})])]
  /\ work' = [work EXCEPT ![t] = Rest(t)]
  /\ UNCHANGED <<bin, objects, lock>>

-----------------------------------------------------------------------------
(* arena_purge, one chunk at a time.                                       *)

MaybePurge(t) ==
  LET n == Commitment(arena, FALSE)
  IN /\ Task(t, "maybe") /\ MayLock(t)
     /\ IF MustPurge(arena)
        THEN arena' = Committed(arena, n) /\ Does(t, <<<<"purge", n>>>> \o Rest(t))
        ELSE Does(t, Rest(t)) /\ UNCHANGED arena
     /\ UNCHANGED <<bin, objects>>

arena_purge_all(t) ==
  LET n == Commitment(arena, TRUE)
  IN /\ Idle(t) /\ MayLock(t) /\ n # 0
     /\ arena' = Committed(arena, n)
     /\ Does(t, <<<<"purge", n>>>>)
     /\ UNCHANGED <<bin, objects>>

(* Chunks at the front of chunks_dirty that have no dirty pages any more   *)
(* leave the list.                                                         *)
Shortened(a) ==
  LET full == {i \in DOMAIN a.chunks_dirty : a.cdirty[a.chunks_dirty[i]] # 0}
      gone == IF full = {} THEN Len(a.chunks_dirty) ELSE Min(full) - 1
  IN [a EXCEPT !.chunks_dirty = SubSeq(@, gone + 1, Len(@)),
               !.dirtied = @ \ {a.chunks_dirty[i] : i \in 1 .. gone}]

(* Slip: that a thread will purge more than it said is not told the arena. *)
RaisedUntold(a, n, m) == a

Raised(a, n, m) == Committed(a, m - n)

PurgeChunk(t) ==
  LET n == Arg(t)
      a == Shortened(arena)
      c == Head(a.chunks_dirty)
      d == a.cdirty[c]
      m == Max({n, d})
      runs == DirtyRuns(Unspared(a, c), c)
  IN /\ Task(t, "purge") /\ MayLock(t)
     /\ IF n = 0 THEN UNCHANGED arena /\ Does(t, Rest(t))
        ELSE IF a.chunks_dirty = <<>>
        THEN arena' = Committed(a, -n) /\ Does(t, Rest(t))
        ELSE /\ arena' = ChunkPurge(Committed(Raised(a, n, m), -d), c)
             /\ Does(t, <<<<"madvise", runs>>, <<"return", runs>>, <<"purge", (m - d) % SizeMod>>>>
                         \o Rest(t))
     /\ UNCHANGED <<bin, objects>>

Madvise(t) ==
  /\ Task(t, "madvise")
  /\ arena' = [arena EXCEPT !.touched = @ \ UNION {Span(r, arena.map[r].size) : r \in Arg(t)}]
  /\ work' = [work EXCEPT ![t] = Rest(t)]
  /\ UNCHANGED <<bin, objects, lock>>

ReturnRun(t) ==
  LET r == Min(Arg(t))
      more == Arg(t) \ {r}
  IN /\ Task(t, "return") /\ MayLock(t)
     /\ GiveRun(t, arena, r, FALSE, IF more = {} THEN Rest(t) ELSE <<<<"return", more>>>> \o Rest(t))
     /\ UNCHANGED <<bin, objects>>

-----------------------------------------------------------------------------
(* Calls for large objects, sizes in pages.                                *)

arena_malloc_large(t, n) == Idle(t) /\ RunAlloc(t, [for |-> "object", need |-> n])

(* n pages at a multiple of align pages, cut out of a run that has them    *)
(* wherever it lies; ipalloc comes here if an arena can have such a run.   *)
Oversize(n, align) == IF n >= align THEN n + align - 1 ELSE 2 * align - 1

arena_palloc(t, n, align) ==
  /\ Idle(t) /\ Oversize(n, align) <= NP
  /\ RunAlloc(t, [for |-> "align", need |-> Oversize(n, align), size |-> n, align |-> align])

TrimTailOf(t) ==
  /\ Task(t, "tail") /\ MayLock(t)
  /\ TrimTail(t, arena, work[t][1][2], work[t][1][3], work[t][1][4])

arena_dalloc_large(t, r) ==
  /\ Idle(t) /\ MayLock(t)
  /\ objects' = [p \in DOMAIN objects \ {r} |-> objects[p]]
  /\ GiveRun(t, arena, r, TRUE, <<>>)
  /\ UNCHANGED bin

arena_ralloc_large_shrink(t, r, n) ==
  /\ Idle(t) /\ MayLock(t) /\ n < objects[r]
  /\ objects' = [objects EXCEPT ![r] = n]
  /\ GiveRun(t, CutTail(arena, r, objects[r], n), r + n, TRUE, <<>>)
  /\ UNCHANGED bin

(* The object is to have n pages, and extra more if they are there.  If it *)
(* has n already, what it lacks is a negative number of type size_t: then  *)
(* it does not grow.                                                       *)
Lacks(n, old) == (n - old) % SizeMod

arena_ralloc_large_grow(t, r, n, extra) ==
  LET old == objects[r]
      after == r + old
      follow == arena.map[after].size
      split == IF old + follow <= n + extra THEN follow ELSE n + extra - old
      b == RunSplit(arena, after, split, TRUE)
      fd == Dirty(b.map[r]) \cup Dirty(b.map[after + split - 1])
  IN /\ Idle(t) /\ MayLock(t) /\ n + extra > old
     /\ after \in Of(Base(r)) /\ IsFree(arena.map[after]) /\ follow >= Lacks(n, old)
     /\ arena' = Touch([b EXCEPT !.map =
                          Inner([@ EXCEPT ![r] = Elem(old + split, Taken \cup fd),
                                          ![after + split - 1] = Elem(0, Taken \cup fd)],
                                r, old + split)],
                       Span(after, split))
     /\ Owns(b, r, old + split)
     /\ UNCHANGED <<lock, work>>

-----------------------------------------------------------------------------
(* Calls for small regions.  A step is a critical section of the bin lock. *)

(* The region is taken from run r; its bytes are written. *)
TakesRegion(b, r) ==
  /\ bin' = RegAlloc(b, r)
  /\ arena' = Touch(arena, Span(r, Past(bin'.runs[r].next)))

arena_malloc_small(t) ==
  LET b == [bin EXCEPT !.cur = Null]
      r == LowestRun(b)
  IN /\ Idle(t)
     /\ IF Usable(bin, bin.cur) THEN TakesRegion(bin, bin.cur) /\ UNCHANGED work
        ELSE IF r # Null THEN TakesRegion([WithoutLowest(b) EXCEPT !.cur = r], r) /\ UNCHANGED work
        ELSE bin' = b /\ work' = [work EXCEPT ![t] = <<<<"run">>>>] /\ UNCHANGED arena
     /\ UNCHANGED <<objects, lock>>

RunForBin(t) == Task(t, "run") /\ RunAlloc(t, [for |-> "bin", need |-> RunPages])

(* Back from the arena with a run, or without one: the tree may have one   *)
(* now, and there may be a current one that another thread found.          *)
Refill(t) ==
  LET got == Arg(t)
      r == IF got # Null THEN got ELSE LowestRun(bin)
      b == IF got # Null THEN bin ELSE WithoutLowest(bin)
      spent == RegAlloc(b, b.cur)
      Ends(tasks) == work' = [work EXCEPT ![t] = tasks]
  IN /\ Task(t, "bin")
     /\ IF Usable(b, b.cur)
        THEN /\ arena' = Touch(arena, Span(b.cur, Past(spent.runs[b.cur].next)))
             /\ IF r = Null THEN bin' = spent /\ Ends(<<>>)
                ELSE IF NFree(b, r) = Regs THEN bin' = spent /\ Ends(<<<<"drop", r>>>>)
                ELSE bin' = LowerRun(spent, r) /\ Ends(<<>>)
        ELSE IF r = Null THEN UNCHANGED <<bin, arena>> /\ Ends(<<>>)
        ELSE TakesRegion([b EXCEPT !.cur = r], r) /\ Ends(<<>>)
     /\ UNCHANGED <<objects, lock>>

arena_dalloc_bin(t, r, i) ==
  LET b == RegDalloc(bin, r, i)
  IN /\ Idle(t)
     /\ IF NFree(b, r) = Regs
        THEN bin' = Dissociate(b, r) /\ work' = [work EXCEPT ![t] = <<<<"drop", r>>>>]
        ELSE /\ bin' = IF NFree(b, r) = 1 /\ r # bin.cur THEN LowerRun(b, r) ELSE b
             /\ UNCHANGED work
     /\ UNCHANGED <<arena, objects, lock>>

(* arena_dalloc_bin_run.  Pages that no region ever reached stay clean. *)
DropRun(t) ==
  LET r == Arg(t)
      past == Past(bin.runs[r].next)
      trims == Dirty(arena.map[r]) = {} /\ past < RunPages
      a == IF trims THEN RunDalloc(CutTail(arena, r, RunPages, past), r + past, FALSE) ELSE arena
  IN /\ Task(t, "drop") /\ MayLock(t)
     /\ bin' = [bin EXCEPT !.runs = [p \in DOMAIN @ \ {r} |-> @[p]]]
     /\ GiveRun(t, a, r, TRUE, <<>>)
     /\ UNCHANGED objects

-----------------------------------------------------------------------------
Calls(kind) == kind \in uses.calls

CallLarge(t) ==
  \/ Calls("large") /\ \E n \in uses.pages : arena_malloc_large(t, n)
  \/ Calls("align") /\ \E n \in uses.pages, align \in {2, 4} : arena_palloc(t, n, align)
  \/ \E r \in DOMAIN objects : arena_dalloc_large(t, r)
  \/ /\ Calls("resize")
     /\ \E r \in DOMAIN objects, n \in uses.pages :
          \/ arena_ralloc_large_shrink(t, r, n)
          \/ \E extra \in 0 .. NP - n : arena_ralloc_large_grow(t, r, n, extra)

CallSmall(t) ==
  \/ Calls("small") /\ arena_malloc_small(t)
  \/ \E r \in DOMAIN bin.runs : \E i \in Held(bin, r) : arena_dalloc_bin(t, r, i)

Continue(t) ==
  \/ MapChunk(t) \/ UnmapChunk(t) \/ TrimTailOf(t)
  \/ MaybePurge(t) \/ PurgeChunk(t) \/ Madvise(t) \/ ReturnRun(t)
  \/ RunForBin(t) \/ Refill(t) \/ DropRun(t)

Next ==
  /\ \E t \in Threads :
       CallLarge(t) \/ CallSmall(t) \/ (Calls("purge") /\ arena_purge_all(t)) \/ Continue(t)
  /\ UNCHANGED uses

Spec == Init /\ [][Next]_vars

-----------------------------------------------------------------------------
(* Properties.                                                             *)

(* The arena's chunks: not those a thread is about to unmap. *)
Tasks(t, names) == {task \in Range(work[t]) : task[1] \in names}
Kept == arena.mapped \ {task[2] : task \in UNION {Tasks(t, {"unmap"}) : t \in Threads}}

Runs == UNION {Starts(arena, c) : c \in Kept}
In(c, runs) == {r \in runs : Base(r) = c}

EndOf(r) == r + Length(arena, r) - 1
SizeOf(runs) == SumFunction([r \in runs |-> Length(arena, r)])
Free(runs) == {r \in runs : IsFree(arena.map[r])}
IsDirty(r) == Dirty(arena.map[r]) # {}

(* The map of a chunk that is mapped is cut into runs without a gap.  A    *)
(* free run has equal ends; it is in the tree of its kind, unless its      *)
(* chunk is the spare, which is one free run in no tree.  Two free runs    *)
(* side by side differ in that one is dirty: else they would be one        *)
(* (arena_run_split, arena_run_dalloc, the trims and arena_chunk_purge).   *)
MapMatchesTrees ==
  LET runs == Runs
      free == Free(runs)
      listed == {r \in free : Base(r) # arena.spare}
  IN /\ \A c \in Kept :
          /\ SizeOf(In(c, runs)) = NP
          /\ c = arena.spare => In(c, runs) = {First(c)} /\ First(c) \in free
     /\ \A r \in free :
          /\ arena.map[r] = arena.map[EndOf(r)]
          /\ EndOf(r) + 1 \in In(Base(r), free) => IsDirty(r) # IsDirty(EndOf(r) + 1)
     /\ arena.dirty = {r \in listed : IsDirty(r)}
     /\ arena.clean = listed \ arena.dirty

(* The runs a thread has in its hands between two steps. *)
InHand(t) ==
  UNION {CASE task[1] \in {"madvise", "return"} -> task[2]
           [] task[1] = "tail" -> {task[2]}
           [] OTHER -> {} : task \in Range(work[t])}

(* An allocated run belongs to one large object, with the pages it was     *)
(* asked for, to the bin, or to the one thread that purges or trims it:    *)
(* nothing is given to two owners, and nothing is lost, though purge and   *)
(* trim let go of the lock.                                                *)
EveryRunHasOneOwner ==
  LET runs == Runs
      hands == UNION {InHand(t) : t \in Threads}
  IN /\ runs \ Free(runs) = DOMAIN objects \cup DOMAIN bin.runs \cup hands
     /\ DOMAIN objects \cap DOMAIN bin.runs = {}
     /\ hands \cap (DOMAIN objects \cup DOMAIN bin.runs) = {}
     /\ \A t, u \in Threads : t # u => InHand(t) \cap InHand(u) = {}
     /\ \A r \in DOMAIN objects : Length(arena, r) = objects[r]

(* The counts the purge is decided on are the pages they stand for: ndirty *)
(* those in dirty runs, chunk by chunk, nactive those allocated; and a     *)
(* chunk with dirty pages is in chunks_dirty, once, where arena_purge      *)
(* looks for it (arena_run_dalloc, arena_chunk_dealloc, arena_chunk_purge).*)
DirtyPagesCounted ==
  LET runs == Runs
      free == Free(runs)
  IN /\ \A c \in Kept : arena.cdirty[c] = SizeOf({r \in In(c, free) : IsDirty(r)})
     /\ arena.ndirty = SumFunction([c \in Kept |-> arena.cdirty[c]])
     /\ arena.nactive = SizeOf(runs \ free)
     /\ \A c \in Kept : arena.cdirty[c] > 0 => c \in arena.dirtied
     /\ IsInjective(arena.chunks_dirty) /\ Range(arena.chunks_dirty) = arena.dirtied \cap Kept

(* npurgatory is what the threads that purge have still committed to, so   *)
(* that it is zero when none does, though each of them raises and lowers   *)
(* it on its own (arena_purge).                                            *)
PurgatoryBalanced ==
  LET tasks(t) == {i \in DOMAIN work[t] : work[t][i][1] = "purge"}
      owed(t) == SumFunction([i \in tasks(t) |-> work[t][i][2]])
  IN arena.npurgatory = SumFunction([t \in Threads |-> owed(t)]) % SizeMod

(* No page of a clean free run was ever written since it was mapped or     *)
(* purged: arena_run_split zeroes none for calloc, on the strength of      *)
(* arena_dalloc_bin_run and the trims, which give pages back as clean.     *)
CleanIsZero ==
  \A r \in Free(Runs) :
    ~IsDirty(r) => (r .. EndOf(r)) \cap arena.touched = {}

(* A run of the bin that has regions to give is the current one, or in the *)
(* tree, or in the hands of one thread that will use it or drop it; the    *)
(* tree has no other runs, though arena_bin_malloc_hard lets go of the bin *)
(* while it waits for the arena (arena_bin_lower_run).                     *)
PartRunsAreFound ==
  LET held == {task[2] : task \in UNION {Tasks(t, {"bin", "drop"}) : t \in Threads}} \ {Null}
      part == {r \in DOMAIN bin.runs : NFree(bin, r) > 0}
  IN /\ part \subseteq bin.tree \cup {bin.cur} \cup held
     /\ bin.tree \subseteq part
     /\ bin.cur \notin bin.tree \cup held /\ bin.tree \cap held = {}
=============================================================================
