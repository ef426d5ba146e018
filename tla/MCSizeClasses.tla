---------------------------- MODULE MCSizeClasses ----------------------------
(***************************************************************************)
(* What the size classes promise, for all the values of lg_qspace_max and  *)
(* lg_cspace_max and both widths of a pointer.  There is no state: TLC     *)
(* evaluates the assumptions when a run extends this module.               *)
(***************************************************************************)
EXTENDS SizeClasses

Widths == {2, 3}
Small(b, bins) == [i \in 1 .. b.sspace_max |-> bins[HardBin(b, i) + 1].reg_size]
Plain == Options(Widths, {22})          \* chunks of 4 MiB, the default

(* The table in the source, for the default options, is the one that       *)
(* small_size2bin_init_hard would compute.                                 *)
ASSUME TablesAgree ==
  \A ptr \in Widths :
    LET b == arena_boot([ptr |-> ptr, q |-> Default.q, c |-> Default.c, chunk |-> 22])
        blocks == ConstBlocks(ptr)
        end == [k \in 0 .. Len(blocks) |-> FoldLeft(+, 0, SubSeq(blocks, 1, k))]
    IN  /\ end[Len(blocks)] = b.sspace_max
        /\ \A k \in 1 .. Len(blocks) : \A i \in end[k - 1] + 1 .. end[k] : HardBin(b, i) = k - 1

(* Each size goes to the smallest class that holds it, there are no more   *)
(* classes than a uint8_t can tell, and each class ends where it should.   *)
ASSUME ClassIsLeast ==
  \A o \in Plain :
    LET b == arena_boot(o)
        size == RegSizes(b)
    IN  /\ Len(size) < 256 /\ size[Len(size)] = b.sspace_max
        /\ \A i \in 1 .. Len(size) - 1 : size[i] < size[i + 1]
        /\ \A i \in 1 .. b.sspace_max :
             LET k == HardBin(b, i) + 1
             IN  i <= size[k] /\ (k > 1 => size[k - 1] < i)

(* The map of a chunk fits in the header pages that arena_boot reckons,    *)
(* and every bin's runs fit in a chunk and hold a region behind a header;  *)
(* down to chunks of two pages.                                            *)
ASSUME RunsFit ==
  \A o \in Options(Widths, {13, 16, 22}) :
    LET b == arena_boot(o)
        bins == ArenaBins(b)
    IN  /\ HeaderSize(o, map_bias(o)) <= map_bias(o) * PAGE_SIZE
        /\ \A i \in DOMAIN bins :
             /\ bins[i].nregs > 0 /\ bins[i].run_size <= b.maxclass
             /\ bins[i].reg0_offset >= RunHeader(b)

(* The multiplication in arena_run_regind divides: it finds each region of *)
(* each bin, and its product stays below 2^32 (here: below 2^31, where     *)
(* TLC's integers end).                                                    *)
ASSUME RegIndIsExact ==
  \A o \in Plain :
    LET bins == ArenaBins(arena_boot(o))
    IN  \A i \in DOMAIN bins : \A n \in 0 .. bins[i].nregs - 1 :
          arena_run_regind(bins[i].reg_size, n * bins[i].reg_size) = n

(* What sa2u's comment says of the small classes: each region lies at a    *)
(* multiple of the least power of two in its size, up to a page.           *)
ASSUME RegionsAreAligned ==
  \A o \in Plain :
    LET bins == ArenaBins(arena_boot(o))
    IN  \A i \in DOMAIN bins : bins[i].reg0_offset % 2^(ffs(bins[i].reg_size) - 1) = 0

(* The sizes around which sa2u and s2u decide.                             *)
Edges(b) ==
  {s \in UNION {x - 17 .. x + 17 : x \in {17, 128, 512, b.sspace_max, PAGE_SIZE, b.maxclass,
                                        2^b.chunk, SIZE_MOD \div 2, SIZE_MOD - PAGE_SIZE,
                                        SIZE_MOD - 2^b.chunk, SIZE_MOD - 2 * 2^b.chunk, SIZE_MOD}} :
     s \in 1 .. SIZE_MOD - 1}

(* A size with an alignment is refused only when they leave less than a    *)
(* chunk of a size_t; otherwise the class is no smaller than the size, is  *)
(* itself aligned, or is cut from a run with room to align it, or is a     *)
(* number of chunks that leaves room in a size_t for what                  *)
(* huge_palloc maps to align it; and for a byte sa2u agrees with s2u.      *)
ASSUME Sa2uIsSound ==
  \A o \in Options(Widths, {16, 22}) :
    LET b == arena_boot(o)
        small == Small(b, ArenaBins(b))
    IN  \A size \in Edges(b) :
          /\ sa2u(b, small, size, 0) = s2u(b, small, size)
          /\ \A lg \in 0 .. 29 :
               LET usize == sa2u(b, small, size, lg)
               IN  IF usize = 0 THEN size > SIZE_MOD - 2^b.chunk - 2^lg
                   ELSE /\ usize >= size
                        /\ \/ lg <= 12 /\ usize % 2^lg = 0
                           \/ /\ usize > b.maxclass /\ usize % 2^b.chunk = 0
                              /\ usize + 2^lg - 2^b.chunk < SIZE_MOD
                           \/ OverSize(Ceiling(size, 12), 2^lg) \in
                                usize + 2^lg - PAGE_SIZE .. b.maxclass
=============================================================================
