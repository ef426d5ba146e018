----------------------------- MODULE SizeClasses -----------------------------
(***************************************************************************)
(* The size classes of jemalloc, arena.c, arena.h and jemalloc_internal.h: *)
(* what arena_boot and arena_new compute once from the options, and the    *)
(* arithmetic on it that every call relies on.  The numbers are those of   *)
(* the build (TINY, pages of 4096 bytes, no PROF and no DEBUG); o is a     *)
(* record of what can differ:                                              *)
(*   ptr     LG_SIZEOF_PTR (2 in jemalloc_defs.h; 3 where pointers have 64 *)
(*           bits)                                                         *)
(*   q, c    opt_lg_qspace_max, opt_lg_cspace_max                          *)
(*   chunk   opt_lg_chunk                                                  *)
(* and b, a record of what arena_boot leaves, has these fields too.  Sizes *)
(* wrap at SIZE_MOD, a bound: TLC's integers end before 2^32.              *)
(***************************************************************************)
EXTENDS Integers, Sequences, SequencesExt, Folds

LG_QUANTUM == 4
LG_CACHELINE == 6
LG_SUBPAGE == 8
PAGE_SIZE == 2^12
SIZE_MOD == 2^30

(* The options malloc_conf_init lets through: it restores the defaults     *)
(* when the two spaces do not leave each other room.                       *)
LgSpaces == LG_QUANTUM .. 11
Default == [q |-> 7, c |-> 9]
Spaces == {s \in [q : LgSpaces, c : LgSpaces] : s.q + 1 < s.c}
Options(ptrs, chunks) == {[ptr |-> p, q |-> s.q, c |-> s.c, chunk |-> k] :
                            p \in ptrs, s \in Spaces, k \in chunks}

(* The least multiple of 2^lg that is >= s, and the least power of two.    *)
Ceiling(s, lg) == (((s + 2^lg - 1) % SIZE_MOD) \div 2^lg) * 2^lg
pow2_ceil(x) == 2^(CHOOSE k \in 0 .. 29 : 2^k >= x /\ \A j \in 0 .. k - 1 : 2^j < x)

(* ffs: the number, from 1, of the least bit that is set, or 0.            *)
ffs(x) == IF x = 0 THEN 0
          ELSE 1 + CHOOSE k \in 0 .. 30 : x % 2^(k + 1) # 0 /\ x % 2^k = 0

Words(o, n) == n * 2^o.ptr
RunHeader(o) == Ceiling(Words(o, 3) + 4, o.ptr)       \* sizeof(arena_run_t)
MapElement(o) == Words(o, 3)                          \* sizeof(arena_chunk_map_t)
MapOffset(o) == Words(o, 5)                           \* offsetof(arena_chunk_t, map)

-----------------------------------------------------------------------------
(* arena_boot.                                                             *)

Above(max, lg) == IF Ceiling(max, lg) = max THEN max + 2^lg ELSE Ceiling(max, lg)

HeaderSize(o, bias) == MapOffset(o) + MapElement(o) * (2^(o.chunk - 12) - bias)
NextBias(o, bias) == Ceiling(HeaderSize(o, bias), 12) \div PAGE_SIZE
map_bias(o) == NextBias(o, NextBias(o, NextBias(o, 0)))

arena_boot(o) ==
  LET qspace_max == 2^o.q
      cspace_min == Above(qspace_max, LG_CACHELINE)
      cspace_max == 2^o.c
      sspace_min == Above(cspace_max, LG_SUBPAGE)
      sspace_max == PAGE_SIZE - 2^LG_SUBPAGE
  IN  [ptr |-> o.ptr, q |-> o.q, c |-> o.c, chunk |-> o.chunk,
       qspace_max |-> qspace_max, cspace_min |-> cspace_min, cspace_max |-> cspace_max,
       sspace_min |-> sspace_min, sspace_max |-> sspace_max,
       ntbins |-> LG_QUANTUM - o.ptr,
       nqbins |-> qspace_max \div 2^LG_QUANTUM,
       ncbins |-> (cspace_max - cspace_min) \div 2^LG_CACHELINE + 1,
       nsbins |-> (sspace_max - sspace_min) \div 2^LG_SUBPAGE + 1,
       maxclass |-> 2^o.chunk - map_bias(o) * PAGE_SIZE]

-----------------------------------------------------------------------------
(* The bins of arena_new.  A sequence: bin i is its element i + 1.         *)

Spaced(n, first, lg) == [i \in 1 .. n |-> first + (i - 1) * 2^lg]
RegSizes(b) == [i \in 1 .. b.ntbins |-> 2^(b.ptr + i - 1)]
               \o Spaced(b.nqbins, 2^LG_QUANTUM, LG_QUANTUM)
               \o Spaced(b.ncbins, b.cspace_min, LG_CACHELINE)
               \o Spaced(b.nsbins, b.sspace_min, LG_SUBPAGE)

RUN_MAX_OVRHD == 61
RUN_MAX_OVRHD_RELAX == 6144

(* A run of run_size bytes: as many regions as leave room for the header.  *)
Fit(b, reg_size, run_size) ==
  LET nregs == (run_size - RunHeader(b)) \div reg_size
  IN  [reg_size |-> reg_size, run_size |-> run_size, nregs |-> nregs,
       reg0_offset |-> run_size - nregs * reg_size]

Expands(b, try) ==
  /\ try.run_size <= b.maxclass
  /\ RUN_MAX_OVRHD * (try.reg_size * 8) > RUN_MAX_OVRHD_RELAX
  /\ try.reg0_offset * 2^12 > RUN_MAX_OVRHD * try.run_size
  /\ RunHeader(b) < PAGE_SIZE

(* A page at a time, until the next page is not worth it.                  *)
arena_bin_run_size_calc(b, reg_size, min_run_size) ==
  LET Try(k) == Fit(b, reg_size, min_run_size + k * PAGE_SIZE)
  IN  Try(CHOOSE k \in 0 .. 2^(b.chunk - 12) :
            ~Expands(b, Try(k + 1)) /\ \A j \in 1 .. k : Expands(b, Try(j)))

(* No bin has smaller runs than the one before.                            *)
ArenaBins(b) ==
  FoldLeft(LAMBDA bins, size :
             Append(bins, arena_bin_run_size_calc(b, size,
                            IF bins = <<>> THEN PAGE_SIZE ELSE Last(bins).run_size)),
           <<>>, RegSizes(b))

-----------------------------------------------------------------------------
(* small_size2bin: which bin serves a size from 1 to small_maxclass.       *)

(* const_small_size2bin: how many sizes each bin serves, bin by bin.       *)
ConstBlocks(ptr) ==
  (IF ptr = 2 THEN <<4, 4, 8>> ELSE <<8, 8>>)
  \o [i \in 1 .. 7 |-> 16] \o [i \in 1 .. 6 |-> 64] \o [i \in 1 .. 13 |-> 256]

(* small_size2bin_init_hard.                                               *)
HardBin(b, i) ==
  CASE i < 2^b.ptr -> ffs(pow2_ceil(2^b.ptr) \div 2^(b.ptr + 1))
    [] i \in 2^b.ptr .. 2^LG_QUANTUM - 1 -> ffs(pow2_ceil(i) \div 2^(b.ptr + 1))
    [] i \in 2^LG_QUANTUM .. b.qspace_max ->
         b.ntbins + Ceiling(i, LG_QUANTUM) \div 2^LG_QUANTUM - 1
    [] i \in b.qspace_max + 1 .. b.cspace_max ->
         b.ntbins + b.nqbins + (Ceiling(i, LG_CACHELINE) - b.cspace_min) \div 2^LG_CACHELINE
    [] OTHER ->
         b.ntbins + b.nqbins + b.ncbins + (Ceiling(i, LG_SUBPAGE) - b.sspace_min) \div 2^LG_SUBPAGE

-----------------------------------------------------------------------------
(* arena_run_regind: the number of the region diff bytes behind the first  *)
(* one; a product of unsigned numbers in place of a division.              *)

SIZE_INV(s) == 2^21 \div s + 1
arena_run_regind(size, diff) ==
  LET scale == 2^(ffs(size) - 1)
      d == diff \div scale
      s == size \div scale
  IN  CASE s = 1 -> d
        [] s \in 3 .. 31 -> (d * SIZE_INV(s)) \div 2^21
        [] OTHER -> d \div s

-----------------------------------------------------------------------------
(* s2u and sa2u: the size a call really gets; 0 when it does not fit in a  *)
(* size_t.  small has the reg_size of each small size.                     *)

s2u(b, small, size) ==
  CASE size <= b.sspace_max -> small[size]
    [] size \in b.sspace_max + 1 .. b.maxclass -> Ceiling(size, 12)
    [] OTHER -> Ceiling(size, b.chunk)

(* The run arena_palloc is to cut the object from.                         *)
OverSize(usize, alignment) ==
  (IF usize >= alignment THEN usize + alignment - PAGE_SIZE
   ELSE 2 * alignment - PAGE_SIZE + SIZE_MOD) % SIZE_MOD

sa2u(b, small, size, lg) ==
  LET asked == Ceiling(size, lg)
      alignment == Ceiling(2^lg, 12)
      usize == Ceiling(size, 12)
  IN  CASE asked < size -> 0
        [] asked >= size /\ asked <= b.maxclass /\ lg <= 12 ->
             IF asked <= b.sspace_max THEN small[asked] ELSE Ceiling(asked, 12)
        [] OTHER ->
             CASE usize < size \/ usize + alignment >= SIZE_MOD -> 0
               [] OTHER -> Ceiling(usize, IF OverSize(usize, alignment) <= b.maxclass
                                            THEN 12 ELSE b.chunk)
=============================================================================
