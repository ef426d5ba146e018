# betakit in TLA+

betakit (bkit) is a C toolbox for embedded programs: a memory manager that can
be pointed at another allocator, containers, an error log, a small menu, a vendored and
trimmed copy of the allocator jemalloc, and the Perl scripts that configure a build. This
directory holds TLA+ modules of its stateful parts, the configurations TLC checks them with,
and proofs checked by TLAPS. Paths below are relative to `user/` of the repository, and in the
sections on jemalloc to `src/system/jemalloc/` or `include/jemalloc/internal/`.

## 1. The system

| component | source | state | operations |
|---|---|---|---|
| memory manager | `src/system/memory.c`, `bjemalloc.c` | table of pointers, slot index, count of blocks, installed callbacks, "initialised" flag, lock flag; all static | `mem_alloc`, `mem_clearalloc`, `mem_realloc`, `mem_free`, `mem_gc`, `mem_alloc_count`, `mem_changecalls`, `bk_jemalloc_calls`; `mem_copy` |
| stack | `src/datastructs/stack.c` | base, top, status, depth | `stack_init`, `stack_push`, `stack_pop`, `stack_clean`, `stack_current_depth` |
| queue | `src/datastructs/queue.c` | base, end, head, tail, flags | `queue_init`, `queue_add`, `queue_get`, `queue_reset`, `queue_clean`, `queue_items`, `queue_status` |
| list | `src/datastructs/list.c` | nodes linked by `next`, perhaps in a ring | create, add, del, find, clean, empty |
| graph | `src/datastructs/graph.c` | nodes, each with a list of edges | connect, self-connect, free, register and compare |
| error log | `src/system/berror.c` | last error, its text, log buffer with cursor, flags and lock | set, log, flush, lock, free, and the `_bk_errlog_*` calls around them |
| menu | `src/ui/cli.c` | list of items, callback | init, additem, addlist, callback, show, user |
| strings, numbers | `src/datastructs/bstring.c`, `number.c` | none | pure functions |
| jemalloc: arenas | `arena.c`, `arena.h` | chunks with a map of pages, trees of free runs, lists and counts of dirty pages, bins; a lock per arena and per bin | runs allocated, trimmed and freed, purge, large objects, small regions |
| jemalloc: size classes | `arena.c`, `jemalloc_internal.h` | tables computed at the start | size to bin, layout of runs, region to index, usable sizes |
| jemalloc: thread caches | `tcache.c`, `tcache.h` | per thread: bins of objects with marks and counters | create, allocate, free, collect, flush, destroy |
| jemalloc: huge objects | `huge.c`, `chunk.c`, `chunk_mmap.c`, `base.c` | a tree of extents, base pages, a list of free nodes; a lock each | map with alignment, free, move with `mremap` |
| jemalloc: start, locks, fork | `jemalloc.c` | array of arenas, who initializes, all locks | `malloc_init_hard`, choice of an arena, fork handlers |
| jemalloc: containers | `rb.h`, `ckh.c` | red-black trees, cuckoo hash tables | insert, remove, search, iterate |
| configuration | `build/*.pm`, `*.pl` | tables of variables behind a lock | parse, ask, write |
| test program, benchmarks | `src/test/hello.c`, `dhrystone.c`, `whetstone.c` | none of interest | clients |

Containers, log and menu get all their memory from the memory manager, and the manager gets it
from libc or jemalloc; graph and menu are built from list nodes. There are no threads inside
betakit. What concurrency there is comes from the program: `memory.c`, `berror.c` and
`queue.c` each carry a lock, and each lock is a flag tested and set in two steps. jemalloc
expects threads: a call goes to the cache of its thread, from there to a bin of the thread's arena,
from there to the arena, and from there to the chunks, under one lock after the other.

What is hard, and what must hold:

* **Memory manager.** Four pieces of state (table, index, count, heap) are changed
  by code that treats them as one, across wrap-around, failed allocation, swaps
  inside the table, collection and a change of allocator. Nothing the client holds
  may be released behind its back, nothing may be passed to an allocator that does
  not own it, and no path may leave the lock set.
* **Stack, queue.** Pointer comparisons decide between full, empty and lapped, and
  states that look alike are told apart by flags. Cursors must stay in the block,
  and items must come out in order and once.
* **List, graph, menu.** Rings, traversal bounds, pointers that were never set, and edges that
  must exist both ways.
* **Error log.** A cursor that may pass its buffer, partial writes, errors described one at a
  time, an init that fails halfway, and a lock that freeing the log leaves set.
* **Arenas.** The lock is dropped around every system call, and other threads change map, trees
  and counts meanwhile. No page may have two owners or none, the counts a purge is decided
  on must be true, and a page said to be zero must be.
* **Thread caches.** Objects are freed by threads other than the one that allocated them, given back in
  passes, and on the way out by destructors that go on allocating. None may be in two places or stay
  with a thread that is gone.
* **Huge objects.** Mapping, trimming, moving and unmapping are system calls of which each can
  fail and between any two of which another thread can take the addresses.
* **Start and fork.** Initialisation calls itself; threads wait for it; a fork takes all the locks.
* **jemalloc's containers.** Some twenty cases of rotation with one shared nil; evictions that must be
  undone when a table cannot grow.

PROJECT.json lists each hazard at its line, and the property that covers it or the
reason there is none.

## 2. The modules

    Heap.tla            abstract: blocks are owned, handed out, given back, collected
      ^ implements
    Memory.tla          memory.c and bjemalloc.c, one thread
      ^ extends
    MemoryThreads.tla <- PartsProofs.tla

    Lifo.tla            <- Stack.tla    <- PartsProofs.tla
    LossyFifo.tla       <- Queue.tla    <- PartsProofs.tla
    Journal.tla         <- ErrorLog.tla <- PartsProofs.tla

    NodeList.tla  <- EdgeGraph.tla, Menu.tla  <- Links.tla  <- LinksProofs.tla
                                                 Links.tla  <- Strays.tla
    LinksProofs.tla, Strays.tla  <- StrayProofs.tla   list.c, graph.c, cli.c together

    TCache.tla    <- TCacheProofs.tla                 tcache.c, and its calls in arena.c, ctl.c
    Boot.tla      <- BootProofs.tla                   the start and the locks of jemalloc.c
    Huge.tla      <- HugeProofs.tla                   huge.c, chunk.c, chunk_mmap.c, base.c
    Arena.tla     <- ArenaRuns.tla <- ArenaProofs.tla arena.c
    RedBlack.tla, CuckooHash.tla                      rb.h, ckh.c
    CuckooHash.tla  <- PartsProofs.tla
    SizeClasses.tla, Text.tla        operators without state

The first four lines of arrows are refinements or extensions as named; in the others `<-` points from
a module to one that extends it. TLC runs the modules `MCMemory`, `MCLinks`, `MCArena`, `MCHuge` and `MCBoot` for one part each, and
two for parts that have nothing in common: `MCUserParts` (`MemoryThreads`, `Queue`, `Stack`, `ErrorLog`) and `MCJemallocParts`
(`TCache`, `RedBlack`, `CuckooHash`), in which the first state says which part a behaviour uses, and the others never move. `MCSizeClasses` and
`MCText` hold assumptions about operators; `MCJemallocParts` and `MCMemory` extend them, so that the runs `jemalloc_parts` and `memory` evaluate these.
`PartsProofs` has the theorems of the small parts, which share only the module.
An operator introduced by a comment "Slip:" is not part of a model. It is a
plausible mistake in the definition after it: PROJECT.json pairs each property
with a slip that breaks it.

### Memory.tla

| state | code |
|---|---|
| `mem_init_state`, `memory_tracker_loc`, `ptr_track` | the statics of these names, `memory.c:29-37` |
| `alloc_used` | `mc.alloc_used` |
| `calls` | the function pointers of `mc`: libc's or jemalloc's |
| `owner` | the heap below: which allocator a block belongs to |
| `held` | pointers the client was given and has not given back |
| `heap_error` | the undefined behaviour that has happened; it stops the system |

There is one action per function, named after it. Every allocating call starts with
the test of `mem_init_state` (`InitCalls`, `InitUsed`). The scan of `mem_free`
(`memory.c:246-265`) changes its own bound and the table it walks over. `ScanTable`
gives its result in closed form: it acts on the first match only and frees once at
most. `MCMemory` contains the loop statement by statement, and its assumption
`ScanIsLoop` compares the two for every table of up to five slots. `mem_gc` is given
by the set of slots it visits. If a block is in two of them, belongs to another
allocator, or the unsigned index passes zero, the call ends in `heap_error`, otherwise
it collects. When several faults are possible, the model takes any of them.

The heap is external code: `malloc` returns any unowned block or NULL; `free` of a
block the callee does not own is undefined. Sizes, and requests of size zero, are not
modelled. The client frees NULL or a block it holds, never twice, and follows the
warning of `mem_realloc` (`memory.c:310`). A client whose block is collected
forgets it.

### MemoryThreads.tla

Each thread has a program counter. The steps are those another thread can observe: the
test of the initialisation flag, `mem_init`, leaving the lock's polling loop, setting
the flag, three steps of `mem_alloc` between lock and unlock, `mem_free`, `mem_gc` and
`mem_alloc_count` there as one step each (their bodies are the actions of Memory.tla),
unlock, and the read of the table for the result. One step for `mem_free` and `mem_gc`
hides interleavings inside them of two threads that both passed the lock. This does not
matter for `LockHasHolder` and `CallsReturn`, for which only the paths out of
these bodies count, and both end at the unlock.

### Stack.tla

`stack_top` is an index from the base. A stack emptied by pops is READY with its top at
-1, the next push moves it to 0: that a push to a new stack does not move the top first
is what makes the two cases agree. The client makes any call at any time: it pushes until the stack is FULL and is refused, pops stacks that
are empty or were never made, and uses them after `stack_clean`. So the memory around the block is modelled as well, two cells behind
it, which `stack_push` writes before it calls the stack FULL, and `Underrun` cells before it, which pops of an emptied stack
reach (`lowest` is a history of how far they got). `Within` is the comparison of `top - base` with `stack_depth`, which is unsigned and 32 bits
wide: where pointers have 32 bits a negative difference is never within it. `word` is the width, chosen once.

`Lifo`, the abstract stack, has the three states that a client can tell apart: it holds items (`live`), it is not there (`absent`), or it
takes every push with status 0 and stores nothing (`dead`): after the first pop of a FULL stack, and on 32 bits once it has been popped empty.
`sunk` counts the pops of nothing: each moves the bottom of the stack down by one.

### Queue.tla

A call is one step; READY, the queue's lock, is then free at the start of every call,
which `FlagsAgree` states. Items are numbered by the client, so that the order in which they
come out can be compared with the order in which they were accepted. A missing queue and an
UNDEFINED one refuse all calls alike and are one state. `queue_reset` is not declared
in `queue.h` and is reached through `queue_get` only.

What the code does and the abstract queue allows: a linear queue becomes FULL when it has
been written to its end, even if most of it was read by then, and loses its last item when it
is drained; a circular one is overwritten when it is lapped, and most drains of it end in a
reset after which it is linear.

### ErrorLog.tla

This is betakit's own log, reached through the `_bk_errlog_*` calls, in one thread.

| state | code |
|---|---|
| `ready`, `error` | `_bk_errorlog_ready`; `_bk_error_last` (the minor errors as a set of bits) |
| `log` | `_bk_errlog`: its flags; `cursor` is `sz_log_ptr - sz_log`; `block` says whether the buffer and the pointers into it are set; `pid` whether an init has got as far as filling them in |
| `text` | what a reader finds from `sz_log` to the first NUL: records, each with the offset it ends at |
| `outcome` | whether the last call came back, polls a lock that nobody will release, or wrote through a null cursor |
| `rt`, `wrote` | the last return value; the records the last flush put into the file in full |

A record is abstracted to what it tells (the heading, the error described, the major
number of the caller), and its length to any member of `RecordLens`. After a flush the
cursor is at the start and the old text still there; the next record then ends the text
(`TextBefore`). `_bk_errlog_init` sets `ready` even if it got no memory, and `berror_log` does
not look for a buffer: that is the `crashed` outcome. `write` returns -1, or any number of bytes up to
those it was given. The file is always open, and descriptors are not counted. Clients
that call `berror_log` on a log of their own, with prefixes of their own, and the lock
among threads are not modelled.

`Journal.tla` is the abstract log: reports are appended to a batch, a flush shows a beginning of it
and, if it succeeds, the next report starts a new one. Text behind the batch is never shown.

### NodeList.tla, EdgeGraph.tla, Menu.tla, Links.tla

| state | code |
|---|---|
| `live`, `next`, `data` | the list nodes: which cells are in use, and their fields |
| `edges`, `compare`, `up` | the nodes of the graph: first edge, registered function, which are in use |
| `menu_choices`, `menu_count`, ... | the fields of the menu; `added` is a history of what was added |
| `outcome`, `rt` | whether the last call came back, follows a pointer that is none (`crashed`) or goes round for ever (`spinning`); its return value |

`list_create_node` sets neither `next` nor `metadata`, which then hold a member of `Fresh`: null, `Junk`, which
ends the system when followed, or a pointer to a cell, in use or not. `list_clean` frees what it finds in `metadata` (`list.c:232`).
A loop over a list is the sequence `Walk` of the cells it visits,
and where the loop stops is a function of that walk; a walk longer than there are cells is a loop that
does not end. `node_connect`, with its labels and jumps, is
one operator per case: a new list of edges (`StartList`), a search of the other's (`ConnectBeta`), or of its own
(`ConnectListed`).
`Links` composes the three: they take their cells from the same memory, and one program uses lists
and menu, another the graph. The client adds to a list a node that is in none, or the list's
first node, which makes a ring, as `list.c` describes it. It calls `list_clean` for a node behind which it put none; in `Strays`, whatever the
node's `next` happens to hold is then freed.

`Strays` is the program with memory as it is. `unset` is a history of the cells whose `next` was never stored; such a cell that holds a pointer to a
cell is a stray one. `astray` is set by a call that goes along a stray pointer in order to change a list (`Walked` says which lists each call goes
through), or that frees a cell in use: from there on lists of different owners may be one, and what is promised of graph and menu
ends. What `list_find` and `list_del` do is promised of any list whatever.

The properties state what holds with its exceptions, and two runs show that comments of the code deny the exceptions: `list_del` returns
0 for a node that is absent from a ring, and `list_find` does not look at a ring's last node (`RingsHandled`);
`node_connect` adds no edge to a node whose list of edges ends and does not lead to the other node, and returns 0 all the same (`SuccessConnects`).
Besides, `list_empty` on a list with two nodes behind its head goes through memory it has released
(`crashed`), and `node_connect` can give a node two edges to another behind a first edge to a third. Title and prompt of the menu
are not modelled; the parser it calls (`cli_parser.c`) is a stub that returns NULL.

### Arena.tla

The arena is a record: `map` (an element of the chunk map per page: size and flags), the trees
`clean` and `dirty` of free runs as sets, `chunks_dirty` with the `dirtied` flags, `spare`, and the
counts `nactive`, `ndirty`, `npurgatory` and, per chunk, `cdirty`. `touched` is a history: the pages
written since they were mapped or purged. Pure operators take and return the record, one for each function:
`RunSplit`, `RunDalloc`, `CutTail` and `CutHead`, `ChunkDealloc`, `ChunkPurge`. A step of a
thread ends where the code drops a lock: before it maps or unmaps a chunk, before `madvise`, and
between bin and arena. What is left of the call is the thread's `work`, a sequence of tasks.
There is one bin, whose runs keep their next region and a stack of regions given
back, like `arena_run_t`. The kernel's pages are zero, so nothing is ever flagged UNZEROED.

### TCache.tla

An object is a triple of arena, bin and number; the arenas are sets of free objects here. A cache is
itself an object (`tcache_create` takes it from an arena). Flushes go arena by arena and stash what belongs to
others; a step ends at each lock. A thread ends in rounds of destructors: the cleanup of the cache marks it by
the addresses 1 and 2, code that frees or allocates afterwards makes it anew, and POSIX repeats
the round at most `Rounds` times. `thread.arena` and `thread.tcache.flush` of `ctl.c` are calls of the
client. `low` is `low_water`, the mark that
collections go by; `most` is a history: what the bin had when it was first collected after its last use, and a quarter of
that, rounded down, for each collection since.
A flush keeps its chain in its task (`list`), and what it stashes, last met first, becomes the chain of the next pass
(`Stashed`). `Places` names everywhere an object can be at an instant, between two passes of a flush too: with the client, in
an arena, the region of a cache, in the chain of a bin, in a call that is about to free it, in a stash.

### Huge.tla

Addresses are pages. `pages` maps each mapped page to what it holds; the kernel puts a mapping
wherever there is room, and any call may fail. Each system call, each lock and each access to the tree
is a step. `chunk_alloc_mmap` first maps without alignment, then extends in place, then maps more than it needs
and trims. `huge_ralloc` moves by `mremap` with a fixed address. `base.c` cuts nodes from base chunks.
Where a thread is in its call is its `job`, with the sizes it maps and the pages it has to give back; `call` is what its client
asked for, and `got` the node and the address it has so far. Whether a mapping is for the object itself, for an aligned part of it or
for base pages (`then`) is all that tells the callers of `chunk_alloc` apart; a call that fails goes on at `Handler`. A mapping of no
page at all is refused (`Rooms`), and sums of sizes wrap as a `size_t` does (`SizeMod`). `fault` is a history:
a call has inserted an address that the tree had already (`Collides`: the assertion of `rb.h:463`), or has had `huge_palloc` map less than it
cuts out (`Overreaches`: the assertion of `huge.c:91`, and sums that wrap). The code prevents neither. `HeldIntact` and `NothingLeaks` hold until then, in every
interleaving of every call, and the run `huge_race` shows the first fault.

### Boot.tla

A call is the sequence of locks it takes and drops (`small`, `large`, `huge` calls, extension of
the arenas, fork), and a step is one of these. The first caller runs `malloc_init_hard`, whose own
allocations enter it again. A fork keeps all threads in the parent and one in the child; the
model follows either. `prefork` and `postfork` run as often as they were registered (`handlers`: never, if
`pthread_atfork` failed), the first taking the locks in one order and the second giving them back in another, each
lock a step. That locks do nothing until a second thread exists (LAZY_LOCK) is left out.

### RedBlack.tla, CuckooHash.tla

`RedBlack` winds a path of nodes down from the root and unwinds it as the macros do, pointer by
pointer, nil included. `CuckooHash` makes the loops inside a call actions, with every choice the
pseudo-random generator could make, so that growing, shrinking and their failures happen with the table in
any state an eviction chain can leave. The table is one array of cells, as in the code, and `ckh_rebuild` walks the
old one cell by cell (`NextCell`) while the new one fills, until as many keys are in it as the old one counted; on failure the
record `old` is what is put back (`BackOut`). Hash functions are external: one pair per program. `inserted`, `refused` and `failures`
are history: what the calls told their callers.

### SizeClasses.tla, Text.tla

These are evaluated at their real scale. `SizeClasses` computes the tables of `arena_boot` and
`arena_new` from the options (both pointer widths, quantum and cacheline limits from 2^4 to 2^11, chunks of 2^13, 2^16 and
2^22 bytes): the table written into the source agrees with the computed one, each size gets the least
class that holds it, runs fit and their regions are aligned, the division by multiplication in
`arena_run_regind` is exact, and `sa2u` refuses or rounds as its comments say. Sizes wrap at 2^30, which stands for
the 2^32 or 2^64 of a `size_t`.

`Text` has `bstring.c`, `number.c` except `number_rand`, and `mem_copy`, each compared with what it should
compute. The assumptions state what the code does where it is surprising: `bk_strcpy` writes a second NUL one past the end;
`bk_strlen` counts the NUL; `bk_AtBash` sends a capital to a small letter and back to itself; `number_mul`
truncates to 32 bits; `number_lsbit(0)` is 65; `mem_copy` is complete up to one word only, and returns five more than
it was asked for.

## 3. Runs

| run | instance | shows |
|---|---|---|
| `memory` | 5 blocks, 4 slots, symmetric blocks; 42,942 states | count and index (`CountTracksSlots`); held blocks are live (`HeldIsLive`); sound frees (`FreesAreSound`); implements `Heap`; the assumptions of `MCText` |
| `user_parts` | threads: 2, with 2 calls each, 3 blocks, 3 slots. Queue: depth 0 to 4, both kinds, 10 additions. Stack: depth 2, 2 different items, 2 cells before the block, both word sizes. Log: buffer of 4 cells, records of 2 or 3, a flush of 4 at most, 3 major numbers (one undefined), 3 masks of minor ones; 277,611 states in all | a set lock has a holder, every call returns; flags and cursors of the queue, `LossyFifo`, FULL ends; how far the stack writes, `Lifo`; overrun of the log, no spinning, severity, what is cleared is reported, `Journal` |
| `links` | 5 cells, 3 graph nodes, 2 values, 2 texts and 3 items of a menu; `next` of a new cell null or a pointer to a certain cell; one stray cell at a time; 61,762 states | deletion and search do what they should in any list; until a call goes astray, connection does up to the named exceptions, and the menu keeps its order while lists come and go |
| `arena` | 2 threads, 2 chunks of 3 pages, runs of 2 pages with 2 regions, three clients, 2 runs at a time; 195,623 states | page map, trees and counts agree; each run has one owner; commitments of purges add up; clean pages are zero; runs with free regions are found |
| `huge` | 2 threads, 10 pages, chunks of 2, 3 objects, clients that align, move and fail, up to the first fault; 2,400,948 states | what the client holds stays mapped and intact; nothing leaks; each node is in one place |
| `jemalloc_parts` | caches: 2 threads, 2 arenas, 7 small and 3 large objects, bins of 4 and 2, two rounds of destructors, five clients. Trees of up to 12 nodes. Hash table: 4 keys in buckets of 2, all pairs of hash values from a set of 4, tables to 8 buckets, 2 failures; 459,084 states in all | each object in one place, marks and counts, unused bins drain, a dead thread keeps nothing; left-leaning red-black trees, searches and iterations agree; keys survive evictions and failures; the assumptions of `MCSizeClasses` |
| `boot` | 3 threads, 2 arenas, one thread calls twice; 268,428 states | every call returns; the child's locks are free; arenas are used evenly |
| `gc_double_free` | 4 blocks, 4 slots | violation of `NoDoubleFree` |
| `stack_overrun` | the stack of `user_parts`, 64 bits | violation of `NeverOverruns` |
| `list_rings`, `connect_status` | as `links`, new cells null | violations of `RingsHandled`, `SuccessConnects` |
| `huge_race` | as `huge`, one thread moves and one allocates | violation of `KeysDiffer` |

Bounds. In `memory` the table is smaller than the set of blocks, so the index wraps
around, the count exceeds the table, and blocks are reused while stale copies of them are in
the table; the scan needs four slots to have a match, a last slot, the slot before it and
another. No counter is capped: the count is bounded by the live blocks, which
`CountSound` proves. In `user_parts`, `MaxCalls` bounds the calls of each
thread; two calls suffice for a thread to free or collect what it allocated while another is
initialising or in the lock. `MaxAdds` bounds the additions to the queue; ten lap a queue of
four twice, and fill, drain and fill it again. A stack of depth two is FULL with five items, the last two behind its block, and `Underrun` stops the
client two cells before it, from where pushes climb back. In the log nothing is capped: a full one refuses
records. Four cells take two records, the second of which fills them exactly or runs past
the end; a flush can be shorter than the text, as the 770 bytes `_berror_strlen` counts at most
are shorter than a buffer of 1 MB that has taken more than a few records.

In `links` three cells of the client are enough for a first, a middle and a last node, and three menu
items of two texts for the one that is placed behind the first. The cell that new ones may point to is not in use at first, and then in any list, so that
a stray pointer leads into a list of the same owner, of another, or into memory given back; nothing is explored beyond the call that goes along it. In `arena` a chunk of three pages has a free run before and
behind an allocated one, two chunks make one the spare while the other is in use, and the
clients divide the calls among them: aligning and resizing, the bin, purging. `FewRuns` bounds the runs allocated at a
time. In `jemalloc_parts`, bins of four and two objects are full, below the mark and empty within three collections. In `huge`, ten pages hold an object of two chunks and the room to map it with
alignment, and fragment; sizes of 30 and 31 pages make `CHUNK_CEILING` and the slow path wrap. In `boot`, two calls are
enough to allocate and then fork. All trees that any order of calls reaches with
twelve keys are explored, and the hash values of the table make keys share one bucket, two, or be apart in the largest table only.

Symmetry and views. `memory`, `links` and `arena` use symmetry of what is
interchangeable, and none of them checks liveness. The views leave out what neither a step nor a property reads
later: in `links` the last call, whose property is about the step, and the fields of cells not in use or reached by nobody; in `jemalloc_parts` which
of several equal objects is where, and the fields of removed nodes, which insertion
resets.

Fairness. Of the threads of `user_parts` it is assumed that one inside a call keeps being scheduled (weak
fairness of its steps; `usleep` returns); nobody has to make a call. `CallsReturn` is about
paths that forget the lock: calls are bounded, so one thread is not starved by others that
take the lock again and again, which the polling loop does not exclude. Of its queue, that the
client calls `queue_get` again and again; `FullClears` says that this suffices. `boot` assumes that a thread
inside a call keeps being scheduled as long as its process has it; since calls are
bounded, this is all that a mutex needs. The one thread of a child is excepted from `CallsReturn`: it may find a lock of a bin held. The other runs check safety and assume nothing. `IdleBinsDrain` is
stated as a bound, a quarter of what the last collection left after each, since nothing in the code makes a thread allocate, and
collections are counted in allocations.

Deadlock is not checked in `memory` and `links` (undefined behaviour ends the system), `user_parts` (the same of stack and log; threads run out of calls), `jemalloc_parts`
and `boot` (threads run out of calls, or end), `huge` (a client of few calls
may have none it can make), and `arena` (no purge is due and every run is taken). That nobody waits for ever is
`CallsReturn` in `user_parts` and `boot`, and `NeverSpins` in `user_parts`.

Five runs show disagreements between the code and its comments or assertions:

* `gc_double_free`: a client
  allocates three blocks, frees one and collects; the freed block is still in the table and is freed again
  (`memory.c:338` says this is fixed).
* `stack_overrun`: a stack of depth `d` has `d + 1` cells and takes `d + 3` items (`stack.c:138`; "a lot of checks are in place to avoid memory errors", `8-9`).
* `list_rings`: in a ring `list_del` answers 0 for a node that is not there, and `list_find` misses one that is (`list.c:142`, `194`; "can take care of circular
  lists also", `109-118`, `170-178`).
* `connect_status`: `node_connect` takes the 2 of `is_node_connected`, which stands for no edge, for an edge, makes none and returns 0 (`graph.c:270`; "-ve on
  failure, >= 0 on success", `223`).
* `huge_race`: between `mremap` and `huge_dalloc` another thread is given the old address and inserts it (`huge.c:240-262`; `assert(cmp != 0)`, `rb.h:463`).

### What else the models show

These follow from the definitions, without a run of their own.

* Memory manager. `mem_gc` starts at the far end of the table and visits as many slots as there are blocks: with fewer blocks than slots in use it misses some (`memory.c:369`, against the comment
  at `163`), and they stay allocated. The first allocation initialises, and so replaces what `bk_jemalloc_calls` installed before it (`memory.c:130`;
  `hello.c` uses this order). `mem_alloc` reads its result after the unlock (`153`), so that two
  threads can be given one block.
* Stack and log. Once the first item of a FULL stack was popped (on 32 bits: once a stack was popped empty), `stack_push` returns 0 and stores nothing. A flush writes 770 bytes at most and then empties the log (`berror.c:697`).
* Start of jemalloc. When the array of arenas cannot be allocated, `malloc_initializer` stays set, other
  threads wait for ever and the initializing one goes on without arenas (`jemalloc.c:597`). An initialisation tried
  again registers the fork handlers twice, and the next fork locks itself out. Bin locks and the lock of the
  initialisation are not taken before a fork, so that a child may find them held. `CallsReturn` and
  `ChildLocksFree` name these exceptions. `malloc_ncpus` overwrites its error value (`jemalloc.c:231-235`).
* Huge objects. `huge_ralloc` calls `huge_palloc` for any alignment,
  though `huge.c:91` asserts one of a chunk or more, and without the overflow check of `sa2u`: less is mapped than the tree is told. A mapping with
  nothing to trim is trimmed by an `munmap` of length zero.
* Arenas. Two overlapping `arena_purge_all` may commit to more than there is, and the assertion at `arena.c:856`
  compares numbers that have wrapped. The comment at `arena.c:1845` (the current run is the lowest that is not full) does not hold.
* Thread caches. A cache created in the last round of destructors is left behind. `thread.arena` changes the arena of
  a thread and not that of its cache. `arenas_extend` returns the first arena when it fails, so that the error path
  of `thread.arena` is never taken. `thread.tcache.flush` after the cleanup destroys a cache at address 1 or 2.
* Cuckoo tables. An insertion that fails for want of memory may leave out a key other than the one it was asked
  to insert. Whether evictions end is up to the generator and not checked.

## 4. Proofs

All theorems hold for every value of the constants under the named assumptions of the
modules.

* **PartsProofs, the memory manager.** `IInv` joins `TypeOK`, `CountTracksSlots` and `HeldIsLive` with two
  facts none of them is inductive without: nothing is counted before `mem_init` has run,
  and `TrackedBelongs`, that a block found in a slot in use belongs to the installed allocator
  if the client still holds it. A change of allocator keeps the second only because the collection before
  it brings the count to zero, so that no slot is in use. From it follow the soundness
  of `mem_free` (`FreesCorrect`) and the refinement of `Heap` (`Refinement`).
  `CountSound` uses a second invariant with cardinalities of the live blocks.
  Of the lock in `MemoryThreads`, `LockNeverOrphaned` says that for any number of threads the flag is set only
  while one of them is between lock and unlock. Mutual exclusion is not claimed: it is false.
* **PartsProofs, the stack.** For a client that makes any call at any time: how far the stack writes outside its block, and the
  refinement of `Lifo` on either word size. `StackIInv` says where the top can be in each status (FULL only two cells behind the block; READY between `lowest` and one cell behind it; EMPTY at the base of a new stack, or
  where no push will move it) and that nothing was ever stored at `lowest` or below, so that the items are what lies above it, up to the top.
* **PartsProofs, the queue.** The order of items is not inductive: what comes out next depends on how often
  the tail has passed the head. `Ordered` says what the cells hold: those below the
  tail ascend, since they were written in the tail's last lap; while a circular tail has not
  passed the head, those from the head on ascend too and are older. `OrderKept` is the
  refinement of `LossyFifo`.
* **PartsProofs, the error log.** The flags decide everything: `WithBuffer` says that a log with a buffer has
  LOCK clear, and FULL set once the cursor has reached the length asked for; `WithoutBuffer` says
  that one without a buffer is as it was linked or has every flag set. Together they give the
  bound on the overrun, and that no call after a free reaches the polling loop. For `NeverUnderstated` the
  invariant also has to say who is to blame for an understated record (`Stated`).
  `ErrorsReported` follows the selection of the bit described next; `JournalKept` is the
  refinement of `Journal`.
* **BootProofs.** `Shape` says which tasks a thread can have behind which others, for a work of any length, and one conjunct per kind
  of task says what its thread holds when it comes to it: an `unlock` is of a lock it holds or will have taken by then,
  `array` and `choose` run under their lock, `fork` comes with all the locks of `ForkSet` held or yet to be taken before it.
  Without the last, `ChildCanAllocate` cannot be proved: that the forking thread holds these locks when the others stop says that no other
  does. That `jemalloc_prefork` takes every one of them needs the arenas in ascending order (`ArenaLocks`), which is a bijection;
  this is proved by well-founded descent (`SortedExists`). `ArenasShared` needs the count of threads per arena: those before
  `next_arena` have one more than the others (`RoundRobin`). The assumption is that there are finitely many threads, and an arena at least.
* **TCacheProofs.** The invariant is one of each thread. `Shape` lists what it can have left to do: at most a flush, and behind it one of a few
  endings. `Agrees` relates count, chain and mark of a bin in the middle of every call, where they disagree: in a
  flush the count is still the old one, in `arena_tcache_fill_small` it is still zero. `Emptied` says that a cache
  being destroyed has been emptied as far as it has come. `Lives` ties cache, `tcache_tls` and key to the round of destructors.
  `CountsAgree` and `ExitLeavesNothing` are what is left of them between calls and after the last round.
  For `EveryObjectHasOneOwner` the invariant is `Partition`, relative to the first: each object has exactly one place (`Unique`), those in
  an arena were cut from it (`AtHome`), and no chain has an object twice (`Simple`). Each step is then a single object carried from
  one place to another (`Carry`), or, in a pass of a flush, the chain split between an arena and the stash; that the stash has
  the objects of the other arenas, each once, is `StashedLists`. The objects need not be finite in number, and any
  number of arenas, threads and rounds is allowed; bins hold two objects at least, as `tcache_boot` and `tcache_create` make them.
  `UnusedBinsDrain` is relative to the first invariant as well (`Drains`): the mark of a bin left alone since a collection is its count, so that the
  next collection takes three quarters of all it has, rounded up; while that flush is under way, what it is to leave is within the bound, whoever
  else is at work. Passes over the other arenas and calls about other bins change neither.
* **HugeProofs.** `NodesKept` alone is not inductive: whether a thread drops a node depends on where it is in its call.
  `Hand` says in which jobs a thread has a node and an address, and what its allocation may go on with; `Purpose` ties the job to the call;
  `Apart` is needed for the sum: a node already in the list would leave the union as it is and still lengthen the list. A step then
  carries one node, from list, base pages or tree to a hand or from a hand to list or tree. No assumption is made about
  sizes or alignments there: `EveryNodeKept` covers those that wrap.
  `HeldIntact` and `NothingLeaks` come from a second invariant on top of it, `EInv`. `Separate` says whose each mapped page is: a base
  chunk's, an extent's of the tree, or a thread's (`Mine`: the mapping it is about to use, and the pieces it is about to give back), and never two of these.
  `Tracked` says that each extent is known to exactly one object, one call that is to free or move it (`Froms`) or one that made it
  (`News`); `Suits` what has been copied in the middle of a move; `Layout` and `Sized` where the pieces lie and that they sum up to the mapping.
  A system call only adds pages to those of its thread or takes some away (`Follows`), which leaves all extents alone; a lock step hands pages
  on, from thread to extent and back (`BecomesExtent`, `BecomesPieces`, `BecomesBase`). The arithmetic of the slow path and of the alignment is in
  `MapsSlowMine` and `AlignFits`: lead, object and tail are the mapping, and the result is a multiple of a chunk. From `mremap` to `huge_dalloc` the
  old extent is `Vacated`: still in the tree, and no longer mapped. Another thread may be given its pages meanwhile; `Separate` therefore speaks of the
  other extents only, and `Froms` says that the thread that is to take the extent out will not unmap it. What is left is an address that the tree has twice:
  that, and a mapping that is smaller than what `huge_palloc` cuts out of it, are what `fault` records, and the theorems are about executions up to there. No
  restriction is put on the clients: any thread may make any call, with any size, extra and alignment.
* **PartsProofs, the hash table.** `Sound` says of a table in any state that its keys are in one of their buckets, once, and counted; every step keeps
  it of the table in use, and during a rebuilding also of the old one. What a step could lose is seen from what belongs to the
  table (`Whole`): its keys and the one in hand, or, during a rebuilding, the keys of the old table and the one that waits. `Refills` says
  that then each old key is in the new table, in hand, or in a cell not yet seen, and in one of these only; hence the walk always finds the next cell
  before it has as many keys as the old table counted, and then has all of them. No eviction, growth, shrinking or backing
  out changes `Whole`: only an insertion, a removal, and a failed growth, which drops the key in hand, whichever it is by then. So
  the callers miss at most one key per failure (`History`). The theorem is for every finite set of keys,
  all hash functions and all sizes; nothing about the sizes of the tables is used but that search and insertion take the same remainders.

* **LinksProofs and StrayProofs.** The loops are taken first, by themselves: `Path` and `Reach` are the walks of the model over any cells and pointers. That a walk
  as long as the number of cells has seen every cell it ever will (`RowExists`, `ReachFacts`) is where finiteness is used. `StepsTo`
  is a loop that stops at a cell of a set; `FindsRight` and `DelRight` are then `list_find` and `list_del`. `ListFindCorrect` and `ListDelCorrect` need no
  more than that live cells are cells, whatever pointers new cells hold: they are theorems of `Strays`.
  `LinksProofs` goes on to what client, graph and menu are to each other while no new cell holds a pointer to a cell (`NoStalePointers`), which
  the code does not grant: its `IInv` is proved to be kept by every step under this hypothesis (`Stepping`), and listed as a lemma, not as a result.

* **ArenaRuns and ArenaProofs.** The arena's lock is let go in the middle of most operations, so none of the properties is inductive, and
  the invariant has to say what each thread has in its hands meanwhile. `ArenaRuns` takes the operators first, without a
  step. `Good(a, A, K)` says that a record is sound when the runs `A` are allocated and the chunks `K` in use: the runs of a chunk leave no gap,
  both ends of each carry its size and flags, each free run is in its tree, and two free neighbours, not merged, are one dirty and one clean.
  `Counted` and `Zero` add the counts of dirty and active pages and the pages nobody wrote to; `Fine` is all three. Splitting, merging, cutting
  either end off, taking and giving a chunk, and the two halves of a purge carry `Fine` from one set of allocated runs
  to the next. `ArenaProofs` says who has which of these: `World` parts the allocated runs into objects, runs of the bin and what the
  lists of tasks name, and the mapped chunks into those in use and those some thread is about to unmap. `ListOk`
  orders a list by the `Rank` of its tasks, so that a thread trims, purges or returns one thing at a time; `Claims` is what it knows of the
  runs it names (a run to be returned counts as clean already, but its pages are so only once they have been advised). A step is `Begun` from what the thread
  has and `Ended` in its new list, and it is nearly always one run that goes from one place to another. `BinInv` says the same of the
  bin: a run with regions to give is current, in the tree, or in the hands of one thread, between its two locks.
  `IInv` joins the three, from `ArenaAssumption` alone; `MapMatchesTrees`, `EveryRunHasOneOwner`, `DirtyPagesCounted`,
  `CleanIsZero` and `PartRunsAreFound` are read off it. `PurgatoryBalanced` needs in addition that there are finitely many threads
  (`ThreadsAssumption`). Relative to `IInv` it is inductive: a list has at most one `purge`, by `Rank`, so what a thread owes is one number
  (`Owed`), and each step leaves both this number and `npurgatory` alone (`Even`), or moves both by the same amount modulo
  `SizeMod` (`Pays`). That the numbers wrap when two `arena_purge_all` overlap does no harm to the balance.

`TypeOK` of Memory, Queue, Stack, ErrorLog, Boot, TCache and Huge, `CountSound`, `Apart` of Huge, and `OwnsBlockWhileReady` of ErrorLog are proved and
have no run: what TLC could add on a small instance the proofs contain.

Only model-checked: `CallsReturn` (both) and `FullClears`, which are liveness properties; `ScanIsLoop` and the assumptions of
`MCText` and `MCSizeClasses`, which are about recursion over data; `Balanced` and
`SearchesAgree` of trees, which rest on recursive definitions; and `TwiceOnlyBehindFirst`, `ConnectJoins` and `MenuKeepsOrder` of lists with stray pointers. Every other property that a passing run checks is a theorem.

## 5. Not modelled

* Of the memory manager: the debug calls (`mem_stat`, `_bk_mem_enable`, `_bk_mem_disable`), block sizes, the
  32-bit comparison of pointers in `mem_free`.
* Of the error log: clients that call `berror_log` on logs of their own, and its lock among threads. Of the queue: two callers
  at a time.
* Of jemalloc: what this configuration does not compile (`jemalloc_defs.h` has TINY, TCACHE, LAZY_LOCK and
  MREMAP_FIXED, and leaves STATS, PROF, DSS, SWAP, FILL, DEBUG, ZONE and XMALLOC undefined): `stats.c`,
  `prof.c`, `chunk_dss.c`, `chunk_swap.c`, `zone.c`; the parsing of options; the tree of names of `mallctl`; several bins in
  one arena at a time; the ring and list macros, which are sequences where they are used.
* `number_rand`, which polls clock and `rand`; title, prompt and input of the menu.
* The configuration scripts, which run once, before the program exists, in one thread
  (`bkparse.pm:510` returns without unlocking; the next lock would spin); the test program, a sequential client that the modelled
  clients generalise; the benchmarks, timing loops without state.

## 6. Plan

Done: the memory manager with one and several threads, stack, queue, error log, list, graph and menu; jemalloc's arenas, caches,
huge objects, start, locks and containers; all of these with proofs, but for the red-black tree; size classes, strings and numbers.

Next: the red-black tree with rotations as steps on a function from nodes to children, so that its balance becomes
an invariant that can be proved. And modules: `ErrorLogThreads`, the log's lock as a test and a set, with a free that races with threads that
poll; `QueueThreads`, with the early release of READY; `mem_changecalls` in `MemoryThreads`, which takes the
lock twice.
