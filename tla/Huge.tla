-------------------------------- MODULE Huge --------------------------------
(***************************************************************************)
(* The huge allocations of jemalloc among threads: huge.c, with the chunks *)
(* they are made of (chunk.c, chunk_mmap.c), the allocator of the nodes    *)
(* that track them (base.c), and iralloc of jemalloc_internal.h.           *)
(*                                                                         *)
(* Addresses, sizes and alignments are in pages, and a chunk is ChunkPages *)
(* of them.  The kernel puts a mapping wherever there is room.  A step of  *)
(* a thread ends with its next system call, or with its next lock; where   *)
(* it is in its call is its job, what the call was for is in call.         *)
(***************************************************************************)
EXTENDS Integers, Sequences, FiniteSets, SequencesExt, FiniteSetsExt

CONSTANTS
  Threads,
  NPages,        (* the pages there are; the kernel has no others to give  *)
  ChunkPages,    (* chunksize                                              *)
  SizeMod,       (* 2^w, of a size_t                                       *)
  BaseNodes,     (* how many nodes the pages of a base chunk have room for *)
  Ids,           (* names for the objects of the client                    *)
  Programs,      (* the clients: the calls and arguments of each thread    *)
  Null

(* No alignment, or a power of two as ChunkPages and SizeMod are.          *)
Alignments ==
  {0} \cup {a \in 1 .. SizeMod \div 2 : a % ChunkPages = 0 \/ ChunkPages % a = 0}

ASSUME HugeAssumption ==
  /\ {NPages, ChunkPages, SizeMod, BaseNodes} \subseteq Nat \ {0}
  /\ SizeMod % ChunkPages = 0 /\ SizeMod > 2 * NPages /\ ChunkPages <= NPages
  /\ Ids \subseteq Nat /\ Null \notin Nat
  /\ Programs \subseteq [Threads -> [calls : SUBSET {"malloc", "dalloc", "ralloc"},
                                     sizes : SUBSET (1 .. SizeMod - 1),
                                     extras : SUBSET (0 .. SizeMod - 1),
                                     aligns : SUBSET Alignments]]

Pages == 0 .. NPages - 1
Span(p, n) == p .. p + n - 1
CHUNK_CEILING(n) == (((n + ChunkPages - 1) \div ChunkPages) * ChunkPages) % SizeMod
CHUNK_ADDR2OFFSET(p) == p % ChunkPages

VARIABLES
  pages,      (* mapped page -> what it holds                              *)
  tree,       (* the tree huge: its nodes, with address and size           *)
  base_nodes, (* the list of free nodes                                    *)
  base,       (* its chunks, the nodes cut from the last, and all nodes    *)
  base_mtx,   (* the thread that holds it, or Null                         *)
  unaligned,  (* thread -> mmap_unaligned_tls                              *)
  got,        (* thread -> the node and the address it has so far          *)
  job,        (* thread -> where it is in its call                         *)
  call,       (* thread -> the call of its client                          *)
  objects,    (* object of the client -> its address and usable size       *)
  uses,       (* the client: one of Programs                               *)
  fault       (* a call has done what the code relies on it not to do      *)

vars ==
  <<pages, tree, base_nodes, base, base_mtx, unaligned, got, job, call, objects, uses, fault>>

(* A job at op.  A mapping is made of all pages, of which need are for the *)
(* object at a multiple of align; then is what follows it.  The pages at   *)
(* and to are to be given back, lead and tail of them.                     *)
At(op) == [op |-> op, then |-> "insert", all |-> 0, need |-> 0, align |-> 0, retry |-> FALSE,
           at |-> 0, lead |-> 0, to |-> 0, tail |-> 0]

NoCall == [what |-> "none", id |-> Null, from |-> Null, oldsize |-> 0, size |-> 0, extra |-> 0,
           alignment |-> 0, misaligned |-> FALSE, moving |-> FALSE, unmap |-> FALSE, kept |-> 0]

Init ==
  /\ pages = [p \in Span(0, ChunkPages) |-> "base"]
  /\ tree = {}
  /\ base_nodes = <<>>
  /\ base = [cut |-> BaseNodes - 1, chunks |-> {0}, nodes |-> 0]
  /\ base_mtx = Null
  /\ unaligned = [t \in Threads |-> FALSE]
  /\ got = [t \in Threads |-> [node |-> Null, addr |-> Null]]
  /\ job = [t \in Threads |-> At("idle")]
  /\ call = [t \in Threads |-> NoCall]
  /\ objects = <<>>
  /\ uses \in Programs
  /\ fault = FALSE

Task(t, name) == job[t].op = name
Idle(t) == Task(t, "idle")
Does(t, j) == job' = [job EXCEPT ![t] = j]
Calling(t, c) == call' = [call EXCEPT ![t] = c]
Got(t, p) == got' = [got EXCEPT ![t].addr = p]
GotNode(t, n) == got' = [got EXCEPT ![t].node = n]

(* An allocation is over: what goes on with the result, which may be NULL. *)
Handler(t) == IF call[t].moving THEN "moved" ELSE "give"

-----------------------------------------------------------------------------
(* The kernel.                                                             *)

Rooms(n) == {p \in Pages : n > 0 /\ p + n <= NPages /\ Span(p, n) \cap DOMAIN pages = {}}
Mapped(p, n) == [q \in Span(p, n) |-> "zero"]
Over(new, old) == [q \in DOMAIN new \cup DOMAIN old |-> IF q \in DOMAIN new THEN new[q] ELSE old[q]]
Without(m, ps) == [q \in DOMAIN m \ ps |-> m[q]]

(* munmap of n pages; a length that makes no sense is refused. *)
Unmapped(m, p, n) == IF n % SizeMod > NPages THEN m ELSE Without(m, Span(p, n))

-----------------------------------------------------------------------------
(* chunk_alloc_mmap.  Optimistically it maps the pages it was asked for,   *)
(* and if they are not aligned, pages behind them.                         *)

Amount(j) == CASE j.then = "based" -> ChunkPages
               [] j.then = "align" -> j.all
               [] OTHER -> j.need

(* NULL is returned, to base_pages_alloc or to the allocation itself.      *)
Fails(t) ==
  LET next == IF job[t].then = "based" THEN "based" ELSE "insert"
  IN Does(t, [job[t] EXCEPT !.op = next, !.then = next, !.retry = FALSE]) /\ Got(t, Null)

(* Leading and trailing pages are given back before the next step.         *)
Trims(j, at, lead, to, tail, then) ==
  [j EXCEPT !.op = IF lead = 0 /\ tail = 0 THEN then ELSE "trim", !.then = then, !.retry = FALSE,
            !.at = at, !.lead = lead, !.to = to, !.tail = tail]

MapFast(t) ==
  /\ Task(t, "chunk") /\ ~unaligned[t]
  /\ LET size == Amount(job[t])
     IN \/ /\ Rooms(size) = {}
           /\ Fails(t)
           /\ UNCHANGED <<pages, unaligned>>
        \/ \E p \in Rooms(size) :
             /\ pages' = Over(Mapped(p, size), pages)
             /\ IF CHUNK_ADDR2OFFSET(p) = 0
                THEN Does(t, [job[t] EXCEPT !.op = job[t].then]) /\ Got(t, p) /\ UNCHANGED unaligned
                ELSE /\ unaligned' = [unaligned EXCEPT ![t] = TRUE]
                     /\ Does(t, [job[t] EXCEPT !.op = "extend", !.at = p, !.lead = size])
                     /\ UNCHANGED got
  /\ UNCHANGED <<tree, base_nodes, base, base_mtx, call, objects, uses, fault>>

(* Slip: with MAP_FIXED, which replaces what is mapped there. *)
FixedRoom(p, n) == p + n <= NPages
Room(p, n) == p \in Rooms(n)

(* pages_map takes no other address than the one it asks for; the kernel   *)
(* may give another even if there is room there.                           *)
Extend(t) ==
  /\ Task(t, "extend")
  /\ LET p == job[t].at
         size == job[t].lead
         more == ChunkPages - CHUNK_ADDR2OFFSET(p)
     IN \/ /\ Room(p + size, more)
           /\ pages' = Over(Mapped(p + size, more), pages)
           /\ Does(t, Trims(job[t], p, more, 0, 0, job[t].then))
           /\ Got(t, p + more)
        \/ /\ pages' = Unmapped(pages, p, size)
           /\ Does(t, [job[t] EXCEPT !.op = "slow", !.retry = TRUE, !.at = 0, !.lead = 0])
           /\ UNCHANGED got
  /\ UNCHANGED <<tree, base_nodes, base, base_mtx, unaligned, call, objects, uses, fault>>

(* Gives pages back to the kernel, before what is left is used.            *)
TrimHead(t) ==
  /\ Task(t, "trim") /\ job[t].lead # 0
  /\ pages' = Unmapped(pages, job[t].at, job[t].lead)
  /\ Does(t, Trims(job[t], 0, 0, job[t].to, job[t].tail, job[t].then))
  /\ UNCHANGED <<tree, base_nodes, base, base_mtx, unaligned, got, call, objects, uses, fault>>

TrimTail(t) ==
  /\ Task(t, "trim") /\ job[t].lead = 0
  /\ pages' = Unmapped(pages, job[t].to, job[t].tail)
  /\ Does(t, Trims(job[t], 0, 0, 0, 0, job[t].then))
  /\ UNCHANGED <<tree, base_nodes, base, base_mtx, unaligned, got, call, objects, uses, fault>>

StartSlow(t) ==
  /\ Task(t, "chunk") /\ unaligned[t]
  /\ Does(t, [job[t] EXCEPT !.op = "slow"])
  /\ UNCHANGED <<pages, tree, base_nodes, base, base_mtx, unaligned, got, call, objects, uses, fault>>

(* Slip: the trailing pages of an unaligned mapping are left.              *)
TailOfNone(offset) == IF offset = 0 THEN ChunkPages ELSE 0

TailOf(offset) == IF offset = 0 THEN ChunkPages ELSE offset

(* chunk_alloc_mmap_slow. *)
MapSlow(t) ==
  /\ Task(t, "slow")
  /\ LET size == Amount(job[t])
         all == size + ChunkPages
     IN \/ /\ all >= SizeMod \/ Rooms(all) = {}
           /\ Fails(t)
           /\ UNCHANGED <<pages, unaligned>>
        \/ /\ all < SizeMod
           /\ \E p \in Rooms(all) :
                LET offset == CHUNK_ADDR2OFFSET(p)
                    lead == IF offset = 0 THEN 0 ELSE ChunkPages - offset
                IN /\ pages' = Over(Mapped(p, all), pages)
                   /\ Does(t, Trims(job[t], p, lead, p + lead + size, TailOf(offset), job[t].then))
                   /\ Got(t, p + lead)
                   /\ unaligned' = IF offset = 0 /\ ~job[t].retry
                                   THEN [unaligned EXCEPT ![t] = FALSE] ELSE unaligned
  /\ UNCHANGED <<tree, base_nodes, base, base_mtx, call, objects, uses, fault>>

-----------------------------------------------------------------------------
(* Nodes.  They are numbered as they are cut from the base pages.          *)

(* base_node_alloc: from the list; with none there, base_alloc, which      *)
(* takes the lock again.                                                   *)
TakeNode(t) ==
  /\ Task(t, "node") /\ base_mtx = Null
  /\ IF base_nodes # <<>>
     THEN /\ GotNode(t, base_nodes[1]) /\ base_nodes' = Tail(base_nodes)
          /\ Does(t, [job[t] EXCEPT !.op = "chunk"])
     ELSE /\ Does(t, [job[t] EXCEPT !.op = "base"])
          /\ UNCHANGED <<got, base_nodes>>
  /\ UNCHANGED <<pages, tree, base, base_mtx, unaligned, call, objects, uses, fault>>

Roomy(b) == b.cut < BaseNodes

CutNode(t) ==
  /\ Task(t, "base") /\ base_mtx = Null
  /\ IF Roomy(base)
     THEN /\ GotNode(t, base.nodes)
          /\ base' = [base EXCEPT !.cut = @ + 1, !.nodes = @ + 1]
          /\ Does(t, [job[t] EXCEPT !.op = "chunk"])
          /\ UNCHANGED base_mtx
     ELSE /\ base_mtx' = t
          /\ Does(t, [job[t] EXCEPT !.op = "chunk", !.then = "based"])
          /\ UNCHANGED <<got, base>>
  /\ UNCHANGED <<pages, tree, base_nodes, unaligned, call, objects, uses, fault>>

(* base_pages_alloc after chunk_alloc, and the cut.                        *)
CutFirst(t) ==
  /\ Task(t, "based")
  /\ base_mtx' = Null
  /\ LET p == got[t].addr
         next == IF job[t].align = 0 THEN "insert" ELSE "align"
     IN IF p = Null
        THEN /\ Does(t, [job[t] EXCEPT !.op = "insert", !.then = "insert"])
             /\ UNCHANGED <<pages, base, got>>
        ELSE /\ pages' = [q \in DOMAIN pages |->
                            IF q \in Span(p, ChunkPages) THEN "base" ELSE pages[q]]
             /\ base' = [cut |-> 1, chunks |-> base.chunks \cup {p}, nodes |-> base.nodes + 1]
             /\ got' = [got EXCEPT ![t] = [node |-> base.nodes, addr |-> Null]]
             /\ Does(t, [job[t] EXCEPT !.op = "chunk", !.then = next])
  /\ UNCHANGED <<tree, base_nodes, unaligned, call, objects, uses, fault>>

base_node_dealloc(t) ==
  /\ Task(t, "free_node") /\ base_mtx = Null
  /\ base_nodes' = <<got[t].node>> \o base_nodes
  /\ GotNode(t, Null)
  /\ Does(t, At(Handler(t)))
  /\ UNCHANGED <<pages, tree, base, base_mtx, unaligned, call, objects, uses, fault>>

-----------------------------------------------------------------------------
(* huge_malloc and huge_palloc.  A call that returns NULL at once goes on  *)
(* with failed.                                                            *)

huge_malloc(size, failed) ==
  LET csize == CHUNK_CEILING(size)
  IN IF csize = 0 THEN At(failed)
     ELSE [At("node") EXCEPT !.all = csize, !.need = csize]

AllocSize(size, alignment) ==
  (IF size >= alignment THEN CHUNK_CEILING(size) + alignment - ChunkPages
   ELSE 2 * alignment - ChunkPages) % SizeMod

huge_palloc(size, alignment) ==
  [At("node") EXCEPT !.then = "align", !.all = AllocSize(size, alignment),
                     !.need = CHUNK_CEILING(size), !.align = alignment]

(* sa2u finds that the size, rounded up to the alignment, wraps.           *)
TooLarge(size, alignment) == size + alignment >= SizeMod

(* ipalloc, of sizes that are huge; with no alignment, imalloc. *)
ipalloc(size, alignment, failed) ==
  IF alignment <= ChunkPages /\ (alignment = 0 \/ ~TooLarge(size, alignment))
  THEN huge_malloc(size, failed)
  ELSE IF TooLarge(size, alignment) THEN At(failed) ELSE huge_palloc(size, alignment)

(* Cuts the aligned part out of the mapping. *)
AlignChunk(t) ==
  /\ Task(t, "align")
  /\ LET ret == got[t].addr
         j == job[t]
         lead == IF ret % j.align = 0 THEN 0 ELSE j.align - (ret % j.align)
         addr == ret + lead
     IN /\ Does(t, Trims(j, ret, lead, addr + j.need, (j.all - lead - j.need) % SizeMod, "insert"))
        /\ Got(t, addr)
  /\ UNCHANGED <<pages, tree, base_nodes, base, base_mtx, unaligned, call, objects, uses, fault>>

(* Slip: a node whose chunk was not to be had is forgotten. *)
NodeDropped(t) == At(Handler(t))
NodeBack(t) == At("free_node")

(* An address that the tree has already, which it asserts not to be given *)
(* (rb.h:463): between mremap and huge_dalloc(ptr, false) the old one is   *)
(* free for other mappings, while the tree still has it (huge.c:240-262).  *)
Collides(p) == \E n \in tree : n.addr = p

Insert(t) ==
  /\ Task(t, "insert")
  /\ IF got[t].addr = Null
     THEN /\ Does(t, IF got[t].node = Null THEN At(Handler(t)) ELSE NodeBack(t))
          /\ UNCHANGED <<tree, got, fault>>
     ELSE /\ tree' = tree \cup {[node |-> got[t].node, addr |-> got[t].addr, size |-> job[t].need]}
          /\ fault' = (fault \/ Collides(got[t].addr))
          /\ GotNode(t, Null)
          /\ Does(t, At(Handler(t)))
  /\ UNCHANGED <<pages, base_nodes, base, base_mtx, unaligned, call, objects, uses>>

(* huge_dalloc.  The size that is unmapped is the node's.                  *)
Untrack(t) ==
  /\ Task(t, "untrack")
  /\ \E n \in {n \in tree : n.addr = call[t].from} :
       /\ tree' = tree \ {n}
       /\ GotNode(t, n.node)
       /\ Does(t, IF call[t].unmap THEN Trims(job[t], n.addr, n.size, 0, 0, "free_node")
                  ELSE At("free_node"))
  /\ Calling(t, [call[t] EXCEPT !.from = Null])
  /\ UNCHANGED <<pages, base_nodes, base, base_mtx, unaligned, objects, uses, fault>>

-----------------------------------------------------------------------------
(* The client.  It writes its name into every page it is given; an object  *)
(* with a call under way is not among its objects.                         *)

Writes(id, ps) == pages' = [q \in DOMAIN pages |-> IF q \in ps THEN id ELSE pages[q]]
Owns(id, p, n) ==
  objects' = [i \in DOMAIN objects \cup {id} |->
                IF i = id THEN [addr |-> p, size |-> n] ELSE objects[i]]
Disowns(id) == objects' = [i \in DOMAIN objects \ {id} |-> objects[i]]
Busy == {call[u].id : u \in {u \in Threads : ~Idle(u)}}
Calls(t, what) == Idle(t) /\ what \in uses[t].calls

CallMalloc(t, size, alignment) ==
  /\ Calls(t, "malloc") /\ size \in uses[t].sizes /\ alignment \in uses[t].aligns
  /\ \E id \in Ids :
       /\ id \notin DOMAIN objects \cup Busy
       /\ \A i \in Ids : i < id => i \in DOMAIN objects \cup Busy
       /\ Calling(t, [NoCall EXCEPT !.what = "malloc", !.id = id])
  /\ Does(t, ipalloc(size, alignment, "give"))
  /\ UNCHANGED <<pages, tree, base_nodes, base, base_mtx, unaligned, got, objects, uses, fault>>

(* A call returns; of what a moved object held, its first pages are kept.  *)
Give(t) ==
  /\ Task(t, "give")
  /\ LET p == got[t].addr
         id == call[t].id
     IN IF p = Null THEN UNCHANGED <<pages, objects>>
        ELSE \E n \in {n \in tree : n.addr = p} :
               /\ Owns(id, p, n.size)
               /\ Writes(id, Span(p + call[t].kept, n.size - call[t].kept))
  /\ Got(t, Null)
  /\ Does(t, At("idle")) /\ Calling(t, NoCall)
  /\ UNCHANGED <<tree, base_nodes, base, base_mtx, unaligned, uses, fault>>

(* idalloc of a huge object. *)
CallDalloc(t, id) ==
  /\ Calls(t, "dalloc") /\ id \in DOMAIN objects
  /\ Disowns(id)
  /\ Calling(t, [NoCall EXCEPT !.what = "dalloc", !.id = id, !.from = objects[id].addr, !.unmap = TRUE])
  /\ Does(t, At("untrack"))
  /\ UNCHANGED <<pages, tree, base_nodes, base, base_mtx, unaligned, got, uses, fault>>

(* huge_ralloc_no_move. *)
Stays(oldsize, size, extra) ==
  CHUNK_CEILING(oldsize) >= CHUNK_CEILING(size) /\ CHUNK_CEILING(oldsize) <= CHUNK_CEILING(size + extra)

(* Allocating the new object of iralloc and of huge_ralloc.                *)
Replacement(size, alignment, misaligned) ==
  IF misaligned THEN ipalloc(size, alignment, "moved")
  ELSE IF alignment # 0 THEN huge_palloc(size, alignment) ELSE huge_malloc(size, "moved")

(* What ipalloc never asks of huge_palloc, and huge_ralloc may: alignment  *)
(* to less than a chunk, which huge_palloc asserts away (huge.c:91), or    *)
(* with a size that wraps with it.  Less is mapped than the tree is told.  *)
Overreaches(size, alignment, misaligned) ==
  /\ ~misaligned /\ alignment # 0
  /\ alignment % ChunkPages # 0 \/ TooLarge(size, alignment)

(* rallocm asserts that size + extra does not wrap. *)
CallRalloc(t, id, size, extra, alignment) ==
  /\ Calls(t, "ralloc") /\ id \in DOMAIN objects
  /\ size \in uses[t].sizes /\ extra \in uses[t].extras /\ alignment \in uses[t].aligns
  /\ size + extra < SizeMod
  /\ LET p == objects[id].addr
         misaligned == alignment # 0 /\ p % alignment # 0
     IN \E n \in {n \in tree : n.addr = p} :
          /\ misaligned \/ ~Stays(n.size, size, extra)
          /\ Does(t, Replacement(size + extra, alignment, misaligned))
          /\ Calling(t, [NoCall EXCEPT !.what = "ralloc", !.id = id, !.from = p, !.oldsize = n.size,
                        !.size = size, !.extra = extra, !.alignment = alignment,
                        !.misaligned = misaligned, !.moving = TRUE])
          /\ fault' = (fault \/ Overreaches(size + extra, alignment, misaligned))
  /\ Disowns(id)
  /\ UNCHANGED <<pages, tree, base_nodes, base, base_mtx, unaligned, got, uses>>

(* No new object: once more without the extra, or not at all.              *)
NotMoved(t) ==
  /\ Task(t, "moved") /\ got[t].addr = Null
  /\ LET c == call[t]
     IN IF c.extra # 0
        THEN /\ Does(t, Replacement(c.size, c.alignment, c.misaligned))
             /\ Calling(t, [c EXCEPT !.extra = 0])
             /\ fault' = (fault \/ Overreaches(c.size, c.alignment, c.misaligned))
             /\ UNCHANGED objects
        ELSE /\ Owns(c.id, c.from, c.oldsize) /\ Does(t, At("idle")) /\ Calling(t, NoCall)
             /\ UNCHANGED fault
  /\ UNCHANGED <<pages, tree, base_nodes, base, base_mtx, unaligned, got, uses>>

CopySize(size, oldsize) == IF size < oldsize THEN size ELSE oldsize

Moved(t, unmap) ==
  /\ Does(t, At("untrack"))
  /\ LET c == call[t]
     IN Calling(t, [NoCall EXCEPT !.what = "ralloc", !.id = c.id, !.from = c.from, !.unmap = unmap,
                                  !.kept = CopySize(c.size, c.oldsize)])

(* The contents are copied, and the old object is freed.                   *)
CopyObject(t) ==
  /\ Task(t, "moved") /\ got[t].addr # Null
  /\ LET c == call[t]
         new == got[t].addr
         n == CopySize(c.size, c.oldsize)
     IN pages' = [q \in DOMAIN pages |->
                    IF q \in Span(new, n) THEN pages[c.from + (q - new)] ELSE pages[q]]
  /\ Moved(t, TRUE)
  /\ UNCHANGED <<tree, base_nodes, base, base_mtx, unaligned, got, objects, uses, fault>>

(* Or mremap moves them; it may fail, and they are copied.                 *)
RemapObject(t) ==
  /\ Task(t, "moved") /\ got[t].addr # Null /\ ~call[t].misaligned
  /\ call[t].oldsize >= ChunkPages
  /\ LET c == call[t]
         new == got[t].addr
     IN \E n \in {n \in tree : n.addr = new} :
          pages' = Over([q \in Span(new, n.size) |->
                           IF q - new < c.oldsize THEN pages[c.from + (q - new)] ELSE "zero"],
                        Without(pages, Span(c.from, c.oldsize)))
  /\ Moved(t, FALSE)
  /\ UNCHANGED <<tree, base_nodes, base, base_mtx, unaligned, got, objects, uses, fault>>

-----------------------------------------------------------------------------
Next == \E t \in Threads :
  \/ MapFast(t) \/ Extend(t) \/ TrimHead(t) \/ TrimTail(t) \/ StartSlow(t) \/ MapSlow(t)
  \/ TakeNode(t) \/ CutNode(t) \/ CutFirst(t) \/ base_node_dealloc(t)
  \/ AlignChunk(t) \/ Insert(t) \/ Untrack(t)
  \/ \E size \in uses[t].sizes, alignment \in uses[t].aligns : CallMalloc(t, size, alignment)
  \/ \E id \in DOMAIN objects : CallDalloc(t, id)
  \/ \E id \in DOMAIN objects, size \in uses[t].sizes, extra \in uses[t].extras,
        alignment \in uses[t].aligns : CallRalloc(t, id, size, extra, alignment)
  \/ Give(t) \/ NotMoved(t) \/ CopyObject(t) \/ RemapObject(t)

Spec == Init /\ [][Next]_vars

-----------------------------------------------------------------------------
(* Properties.                                                             *)

(* As long as no call has collided or overreached, every object of the     *)
(* client is mapped and holds what was written to it, all of it: no other  *)
(* thread's mapping, trimming, unmapping or remapping touches it, and a    *)
(* move keeps what the sizes have in common (huge.c:219, "Copy at most     *)
(* size bytes").  That an old address may be mapped by others before it    *)
(* is out of the tree does no harm, but for one that starts just there.    *)
HeldIntact ==
  ~fault => \A id \in DOMAIN objects : \A p \in Span(objects[id].addr, objects[id].size) :
    p \in DOMAIN pages /\ pages[p] = id

(* And when no call is under way what is mapped is the base chunks and the *)
(* extents of the tree, which are the client's objects: an unaligned       *)
(* mapping, a trimmed one, a failed call leaves nothing behind             *)
(* (chunk_alloc_mmap_slow, chunk_mmap.c:95).                               *)
NothingLeaks ==
  ~fault /\ (\A t \in Threads : Idle(t)) =>
    /\ DOMAIN pages = UNION ({Span(c, ChunkPages) : c \in base.chunks}
                             \cup {Span(n.addr, n.size) : n \in tree})
    /\ {[addr |-> n.addr, size |-> n.size] : n \in tree} = {objects[id] : id \in DOMAIN objects}
    /\ Cardinality(tree) = Cardinality(DOMAIN objects)

(* A node is in one place: in the tree, in the list of free nodes, or in   *)
(* the hands of one thread; and there are no more than the base pages have *)
(* room for (base_alloc, base.c:45).                                       *)
NodesKept ==
  LET inHand == {t \in Threads : got[t].node # Null}
  IN /\ {n.node : n \in tree} \cup ToSet(base_nodes) \cup {got[t].node : t \in inHand}
          = 0 .. base.nodes - 1
     /\ Cardinality(tree) + Len(base_nodes) + Cardinality(inHand) = base.nodes
     /\ base.cut <= BaseNodes

(* What the tree asserts when a node is inserted (rb.h:463, "cmp != 0"):   *)
(* no two of its nodes have the same address.                              *)
KeysDiffer == \A m, n \in tree : m.addr = n.addr => m = n
=============================================================================
