----------------------------- MODULE ArenaRuns ------------------------------
(***************************************************************************)
(* What the operations of Arena.tla make of an arena record, whatever the  *)
(* number of chunks and pages: lemmas about the operators alone, without a *)
(* step or a variable, on which ArenaProofs.tla builds.                    *)
(*                                                                         *)
(* Good(a, A, K) says that arena a is sound when the runs A are allocated  *)
(* and the chunks K are in use: both ends of every run carry its size and  *)
(* its flags, the runs of a chunk leave no gap (arena_mapbits_*_set are    *)
(* only called on ends), each free run is in the tree of its kind and its  *)
(* free neighbours are of the other kind.  Taking a run, cutting it and    *)
(* giving it back, joined to its neighbours or not, carry Good from one    *)
(* set of allocated runs to the next: arena_run_split, arena_run_dalloc,   *)
(* arena_chunk_alloc, arena_chunk_dealloc, the trims and the two halves of *)
(* arena_chunk_purge.  Counted and Zero add the counts of dirty and active *)
(* pages and what is known of pages nobody wrote to; Fine is all three.    *)
(***************************************************************************)
EXTENDS Arena, FiniteSetTheorems, WellFoundedInduction, SequenceTheorems, TLAPS

-----------------------------------------------------------------------------
(* Pages and chunks.                                                       *)

LEMMA Numbers ==
  /\ NC \in Nat \ {0} /\ NP \in Nat \ {0} /\ MapBias \in Nat \ {0}
  /\ Regs \in Nat \ {0} /\ PageSize \in Nat \ {0} /\ RegSize \in Nat \ {0}
  /\ DirtyMult \in Nat \ {0} /\ RunPages \in 1 .. NP /\ RunPages \in Nat
BY ArenaAssumption

LEMMA DivIs ==
  ASSUME NEW x \in Int, NEW n \in Nat \ {0}
  PROVE  /\ x \div n \in Int
         /\ \A q \in Int : x \div n = q <=> q * n <= x /\ x <= q * n + n - 1
OBVIOUS

(* The pages of a chunk. *)
LEMMA BaseIs ==
  ASSUME NEW p \in Int
  PROVE  /\ Base(p) \in Int
         /\ \A c \in Int : /\ First(c) \in Int
                           /\ Base(p) = c <=> First(c) <= p /\ p <= First(c) + NP - 1
BY Numbers, DivIs DEF Base, First

LEMMA PageIs ==
  ASSUME NEW p \in Int
  PROVE  p \in Pages <=> Base(p) \in Chunks
<1>1. Base(p) \in Int /\ NC * NP \in Int /\ NC \in Nat \ {0} /\ NP \in Nat \ {0}
  BY BaseIs, Numbers
<1>2. PICK b \in Int : b = Base(p) /\ b * NP <= p /\ p <= b * NP + NP - 1
  BY <1>1, BaseIs DEF First
<1>3. p >= 0 => b >= 0
  BY <1>1, <1>2
<1>4. b >= 0 => p >= 0
  BY <1>1, <1>2
<1>5. p < NC * NP => b < NC
  BY <1>1, <1>2
<1>6. b < NC => p < NC * NP
  BY <1>1, <1>2
<1> QED  BY <1>1, <1>2, <1>3, <1>4, <1>5, <1>6 DEF Pages, Chunks

(* Pages between two of a chunk are in it. *)
LEMMA Between ==
  ASSUME NEW p \in Int, NEW q \in Int, NEW x \in Int, p <= x, x <= q, Base(p) = Base(q)
  PROVE  Base(x) = Base(p)
<1>1. PICK c \in Int : c = Base(p)
  BY BaseIs
<1>2. First(c) \in Int /\ First(c) <= p /\ p <= First(c) + NP - 1
  BY <1>1, BaseIs
<1>3. First(c) <= q /\ q <= First(c) + NP - 1
  BY <1>1, BaseIs
<1>4. First(c) <= x /\ x <= First(c) + NP - 1
  BY <1>2, <1>3, Numbers
<1> QED  BY <1>1, <1>4, BaseIs

LEMMA ChunkSpan ==
  ASSUME NEW c \in Chunks
  PROVE  /\ c \in Int /\ First(c) \in Pages /\ Base(First(c)) = c
         /\ First(c) + NP - 1 \in Pages /\ Base(First(c) + NP - 1) = c
         /\ Of(c) = {p \in Pages : Base(p) = c}
<1>1. c \in Int /\ First(c) \in Int /\ NP \in Nat \ {0}
  BY BaseIs, Numbers DEF Chunks
<1>2. Base(First(c)) = c /\ Base(First(c) + NP - 1) = c
  <2>1. PICK p \in Int, q \in Int : p = First(c) /\ q = First(c) + NP - 1
    BY <1>1
  <2>2. First(c) <= p /\ p <= First(c) + NP - 1 /\ First(c) <= q /\ q <= First(c) + NP - 1
    BY <1>1, <2>1
  <2>3. Base(p) = c /\ Base(q) = c
    BY <1>1, <2>1, <2>2, BaseIs
  <2> QED  BY <2>1, <2>3
<1>3. First(c) \in Pages /\ First(c) + NP - 1 \in Pages
  BY <1>1, <1>2, PageIs
<1>4. ASSUME NEW p \in Of(c) PROVE p \in Pages /\ Base(p) = c
  <2>1. p \in Int /\ First(c) <= p /\ p <= First(c) + NP - 1
    BY <1>1 DEF Of
  <2> QED  BY <1>1, <2>1, BaseIs, PageIs
<1>5. ASSUME NEW p \in Pages, Base(p) = c PROVE p \in Of(c)
  <2>1. p \in Int
    BY DEF Pages
  <2> QED  BY <1>1, <1>5, <2>1, BaseIs DEF Of
<1> QED  BY <1>1, <1>2, <1>3, <1>4, <1>5

-----------------------------------------------------------------------------
(* Runs that lie side by side in the chunks K, and leave no gap.           *)

Tiles(a, R, K) ==
  /\ \A r \in R : /\ r \in Pages /\ Length(a, r) \in Nat \ {0} /\ Base(r) \in K
                  /\ Base(r + Length(a, r) - 1) = Base(r)
  /\ \A r, q \in R : r < q => r + Length(a, r) <= q
  /\ \A p \in Pages : Base(p) \in K => \E r \in R : r <= p /\ p < r + Length(a, r)

LEMMA TileEnds ==
  ASSUME NEW a, NEW R, NEW K, Tiles(a, R, K), NEW r \in R
  PROVE  /\ r \in Int /\ r >= 0 /\ Length(a, r) \in Nat /\ Length(a, r) >= 1
         /\ r + Length(a, r) - 1 \in Pages
         /\ Base(r) \in Chunks /\ First(Base(r)) <= r /\ First(Base(r)) \in Int
         /\ r + Length(a, r) <= First(Base(r)) + NP
         /\ \A p \in r .. r + Length(a, r) - 1 : p \in Pages /\ Base(p) = Base(r)
<1>1. r \in Int /\ r >= 0 /\ Length(a, r) \in Nat \ {0} /\ r \in Pages
  BY DEF Tiles, Pages
<1>2. Base(r) \in Chunks /\ Base(r) \in Int
  BY <1>1, PageIs, BaseIs
<1>3. Base(r + Length(a, r) - 1) = Base(r) /\ r + Length(a, r) - 1 \in Int
  BY <1>1 DEF Tiles
<1>4. First(Base(r)) <= r /\ First(Base(r)) \in Int
  BY <1>1, <1>2, BaseIs
<1>5. r + Length(a, r) - 1 <= First(Base(r)) + NP - 1
  BY <1>2, <1>3, BaseIs
<1>6. \A p \in r .. r + Length(a, r) - 1 : p \in Pages /\ Base(p) = Base(r)
  <2> SUFFICES ASSUME NEW p \in r .. r + Length(a, r) - 1 PROVE p \in Pages /\ Base(p) = Base(r)
    OBVIOUS
  <2>1. p \in Int /\ r <= p /\ p <= r + Length(a, r) - 1
    BY <1>1
  <2>2. Base(p) = Base(r)
    BY <1>1, <1>3, <2>1, Between
  <2> QED  BY <1>2, <2>1, <2>2, PageIs
<1>7. r + Length(a, r) - 1 \in r .. r + Length(a, r) - 1
  BY <1>1
<1> QED  BY <1>1, <1>2, <1>4, <1>5, <1>6, <1>7, Numbers

(* The run of a page is the only one. *)
LEMMA TileOne ==
  ASSUME NEW a, NEW R, NEW K, Tiles(a, R, K), NEW r \in R, NEW q \in R, NEW p,
         p \in r .. r + Length(a, r) - 1, p \in q .. q + Length(a, q) - 1
  PROVE  r = q
<1>1. r \in Int /\ q \in Int /\ Length(a, r) \in Nat /\ Length(a, q) \in Nat
  BY TileEnds
<1>2. (r < q => r + Length(a, r) <= q) /\ (q < r => q + Length(a, q) <= r)
  BY DEF Tiles
<1> QED  BY <1>1, <1>2

(* Behind a run there is the end of the chunk or another run. *)
LEMMA TileNext ==
  ASSUME NEW a, NEW R, NEW K, Tiles(a, R, K), NEW r \in R,
         Base(r + Length(a, r)) = Base(r)
  PROVE  r + Length(a, r) \in R
<1>1. r \in Int /\ Length(a, r) \in Nat /\ Length(a, r) >= 1 /\ Base(r) \in K /\ Base(r) \in Chunks
  BY TileEnds DEF Tiles
<1>2. r + Length(a, r) \in Pages
  BY <1>1, PageIs
<1>3. PICK q \in R : q <= r + Length(a, r) /\ r + Length(a, r) < q + Length(a, q)
  BY <1>1, <1>2 DEF Tiles
<1>4. q \in Int /\ Length(a, q) \in Nat
  BY TileEnds
<1>5. ASSUME q # r + Length(a, r) PROVE FALSE
  <2>1. r + Length(a, r) - 1 \in q .. q + Length(a, q) - 1
        /\ r + Length(a, r) - 1 \in r .. r + Length(a, r) - 1
    BY <1>1, <1>3, <1>4, <1>5
  <2>2. q = r
    BY <2>1, TileOne
  <2> QED  BY <1>1, <1>3, <2>2
<1> QED  BY <1>5

(* In front of it there is the beginning of the chunk or another run. *)
LEMMA TileBefore ==
  ASSUME NEW a, NEW R, NEW K, Tiles(a, R, K), NEW r \in R, Base(r - 1) = Base(r)
  PROVE  \E q \in R : q + Length(a, q) = r /\ Base(q) = Base(r) /\ q < r
<1>1. r \in Int /\ Length(a, r) \in Nat /\ Length(a, r) >= 1 /\ Base(r) \in K /\ Base(r) \in Chunks
  BY TileEnds DEF Tiles
<1>2. r - 1 \in Pages
  BY <1>1, PageIs
<1>3. PICK q \in R : q <= r - 1 /\ r - 1 < q + Length(a, q)
  BY <1>1, <1>2 DEF Tiles
<1>4. q \in Int /\ Length(a, q) \in Nat
      /\ \A p \in q .. q + Length(a, q) - 1 : Base(p) = Base(q)
  BY TileEnds
<1>5. q + Length(a, q) <= r
  BY <1>1, <1>3 DEF Tiles
<1>6. Base(r - 1) = Base(q)
  BY <1>1, <1>3, <1>4
<1> QED  BY <1>1, <1>3, <1>4, <1>5, <1>6

(* Other lengths for other runs. *)
LEMMA TileSame ==
  ASSUME NEW a, NEW b, NEW R, NEW K, Tiles(a, R, K),
         \A r \in R : Length(b, r) = Length(a, r)
  PROVE  Tiles(b, R, K)
BY DEF Tiles

(* A run is cut in two. *)
LEMMA TileSplit ==
  ASSUME NEW a, NEW b, NEW R, NEW K, Tiles(a, R, K), NEW r \in R, NEW h \in Nat,
         h >= 1, h < Length(a, r),
         \A q \in R \ {r} : Length(b, q) = Length(a, q),
         Length(b, r) = h, Length(b, r + h) = Length(a, r) - h
  PROVE  Tiles(b, R \cup {r + h}, K) /\ r + h \notin R
<1> DEFINE s == r + h
           n == Length(a, r)
<1>1. r \in Int /\ n \in Nat /\ s \in Int /\ s + (n - h) = r + n
      /\ \A p \in r .. r + n - 1 : p \in Pages /\ Base(p) = Base(r)
  BY TileEnds
<1>2. s \in r .. r + n - 1 /\ r + h - 1 \in r .. r + n - 1 /\ r + n - 1 \in r .. r + n - 1 /\ r \in r .. r + n - 1
  BY <1>1
<1>3. s \notin R
  BY <1>1 DEF Tiles
<1>4. ASSUME NEW q \in R \cup {s}
      PROVE  /\ q \in Pages /\ Length(b, q) \in Nat \ {0} /\ Base(q) \in K
             /\ Base(q + Length(b, q) - 1) = Base(q)
  <2>1. CASE q = r
    BY <1>1, <1>2, <2>1 DEF Tiles
  <2>2. CASE q = s
    <3>1. Base(s) = Base(r) /\ s \in Pages /\ Base(r + n - 1) = Base(r) /\ Base(r) \in K
      BY <1>1, <1>2 DEF Tiles
    <3>2. Length(b, s) \in Nat \ {0} /\ s + Length(b, s) - 1 = r + n - 1
      BY <1>1
    <3> QED  BY <2>2, <3>1, <3>2
  <2>3. CASE q \in R \ {r}
    BY <2>3 DEF Tiles
  <2> QED  BY <1>4, <2>1, <2>2, <2>3
<1>5. ASSUME NEW q \in R \cup {s}, NEW u \in R \cup {s}, q < u
      PROVE  q + Length(b, q) <= u
  <2>1. CASE q \in R \ {r} /\ u \in R
    BY <1>5, <2>1 DEF Tiles
  <2>2. CASE q = r /\ u \in R
    <3>1. r + n <= u /\ u \in Int
      BY <1>5, <2>2, TileEnds DEF Tiles
    <3> QED  BY <1>1, <2>2, <3>1
  <2>3. CASE q = r /\ u = s
    BY <1>1, <2>3
  <2>4. CASE q = s /\ u \in R
    <3>1. u \in Int /\ r < u
      BY <1>1, <1>5, <2>4, TileEnds
    <3>2. r + n <= u
      BY <2>4, <3>1 DEF Tiles
    <3> QED  BY <1>1, <2>4, <3>1, <3>2
  <2>5. CASE q \in R \ {r} /\ u = s
    <3>1. q \in Int /\ Length(a, q) \in Nat /\ Length(a, q) >= 1
      BY <2>5, TileEnds
    <3>2. q < r
      <4>1. ~(r < q)
        <5>1. r < q => r + n <= q
          BY <2>5 DEF Tiles
        <5> QED  BY <1>1, <1>5, <2>5, <3>1, <5>1
      <4> QED  BY <1>1, <2>5, <3>1, <4>1
    <3>3. q + Length(a, q) <= r
      BY <2>5, <3>2 DEF Tiles
    <3> QED  BY <1>1, <2>5, <3>1, <3>3
  <2> QED  BY <1>1, <1>5, <2>1, <2>2, <2>3, <2>4, <2>5
<1>6. ASSUME NEW p \in Pages, Base(p) \in K
      PROVE  \E q \in R \cup {s} : q <= p /\ p < q + Length(b, q)
  <2>1. PICK q \in R : q <= p /\ p < q + Length(a, q)
    BY <1>6 DEF Tiles
  <2>2. CASE q # r
    BY <2>1, <2>2
  <2>3. CASE q = r
    <3>1. p \in Int
      BY DEF Pages
    <3>2. p < s => r <= p /\ p < r + Length(b, r)
      BY <1>1, <2>1, <2>3, <3>1
    <3>3. p >= s => s <= p /\ p < s + Length(b, s)
      BY <1>1, <2>1, <2>3, <3>1
    <3> QED  BY <1>1, <3>1, <3>2, <3>3
  <2> QED  BY <2>2, <2>3
<1> HIDE DEF s
<1>7. Tiles(b, R \cup {s}, K)
  BY <1>4, <1>5, <1>6 DEF Tiles
<1> QED  BY <1>3, <1>7 DEF s

(* Two neighbours become one. *)
LEMMA TileJoin ==
  ASSUME NEW a, NEW b, NEW R, NEW K, Tiles(a, R, K), NEW r \in R, NEW s \in R,
         s = r + Length(a, r), Base(s) = Base(r),
         \A q \in R \ {r, s} : Length(b, q) = Length(a, q),
         Length(b, r) = Length(a, r) + Length(a, s)
  PROVE  Tiles(b, R \ {s}, K)
<1> DEFINE n == Length(a, r)
           m == Length(a, s)
<1>1. r \in Int /\ n \in Nat /\ n >= 1 /\ s \in Int /\ m \in Nat /\ m >= 1
      /\ r \in Pages /\ Base(r) \in K /\ Base(s + m - 1) = Base(s)
  BY TileEnds DEF Tiles
<1>2. r \in R \ {s}
  BY <1>1
<1>3. ASSUME NEW q \in R \ {s}
      PROVE  /\ q \in Pages /\ Length(b, q) \in Nat \ {0} /\ Base(q) \in K
             /\ Base(q + Length(b, q) - 1) = Base(q)
  <2>1. CASE q = r
    <3>1. r + Length(b, r) - 1 = s + m - 1 /\ Length(b, r) \in Nat \ {0}
      BY <1>1
    <3> QED  BY <1>1, <2>1, <3>1
  <2>2. CASE q # r
    BY <2>2 DEF Tiles
  <2> QED  BY <2>1, <2>2
<1>4. ASSUME NEW q \in R \ {s}, NEW u \in R \ {s}, q < u
      PROVE  q + Length(b, q) <= u
  <2>1. CASE q # r
    BY <1>4, <2>1 DEF Tiles
  <2>2. CASE q = r
    <3>1. s <= u /\ u \in Int
      BY <1>4, <2>2, TileEnds DEF Tiles
    <3>2. s < u
      BY <1>1, <3>1
    <3>3. s + m <= u
      BY <3>2 DEF Tiles
    <3> QED  BY <1>1, <2>2, <3>1, <3>3
  <2> QED  BY <2>1, <2>2
<1>5. ASSUME NEW p \in Pages, Base(p) \in K
      PROVE  \E q \in R \ {s} : q <= p /\ p < q + Length(b, q)
  <2>1. PICK q \in R : q <= p /\ p < q + Length(a, q)
    BY <1>5 DEF Tiles
  <2>2. p \in Int
    BY DEF Pages
  <2>3. CASE q \notin {r, s}
    BY <2>1, <2>3
  <2>4. CASE q \in {r, s}
    <3>1. r <= p /\ p < r + Length(b, r)
      BY <1>1, <2>1, <2>2, <2>4
    <3> QED  BY <1>2, <3>1
  <2> QED  BY <2>3, <2>4
<1> QED  BY <1>3, <1>4, <1>5 DEF Tiles

(* A chunk comes, as one run, or goes. *)
LEMMA TileNew ==
  ASSUME NEW a, NEW b, NEW R, NEW K, Tiles(a, R, K), NEW c \in Chunks, c \notin K,
         \A q \in R : Length(b, q) = Length(a, q),
         Length(b, First(c)) = NP
  PROVE  Tiles(b, R \cup {First(c)}, K \cup {c}) /\ First(c) \notin R
<1>1. /\ c \in Int /\ First(c) \in Pages /\ Base(First(c)) = c /\ First(c) \in Int
      /\ First(c) + NP - 1 \in Pages /\ Base(First(c) + NP - 1) = c /\ NP \in Nat \ {0}
  BY ChunkSpan, Numbers DEF Pages
<1>2. First(c) \notin R
  BY <1>1 DEF Tiles
<1>3. ASSUME NEW q \in R
      PROVE  ~(First(c) <= q /\ q < First(c) + NP)
             /\ ~(q <= First(c) /\ First(c) < q + Length(a, q)) /\ q \in Int
  <2>0. Base(q) \in K
    BY DEF Tiles
  <2>1. q \in Int /\ Length(a, q) \in Nat /\ Base(q) # c
        /\ \A p \in q .. q + Length(a, q) - 1 : Base(p) = Base(q)
    BY <2>0, TileEnds
  <2>2. ~(First(c) <= q /\ q <= First(c) + NP - 1)
    BY <1>1, <2>1, BaseIs
  <2>3. First(c) \notin q .. q + Length(a, q) - 1
    BY <1>1, <2>1
  <2> QED  BY <1>1, <2>1, <2>2, <2>3
<1>4. ASSUME NEW q \in R \cup {First(c)}
      PROVE  /\ q \in Pages /\ Length(b, q) \in Nat \ {0} /\ Base(q) \in K \cup {c}
             /\ Base(q + Length(b, q) - 1) = Base(q)
  BY <1>1 DEF Tiles
<1>5. ASSUME NEW q \in R \cup {First(c)}, NEW u \in R \cup {First(c)}, q < u
      PROVE  q + Length(b, q) <= u
  <2>1. CASE q \in R /\ u \in R
    BY <1>5, <2>1 DEF Tiles
  <2>2. CASE q = First(c) /\ u \in R
    BY <1>1, <1>3, <1>5, <2>2
  <2>3. CASE q \in R /\ u = First(c)
    <3>1. q \in Int /\ Length(a, q) \in Nat
      BY <2>3, TileEnds
    <3> QED  BY <1>1, <1>3, <1>5, <2>3, <3>1
  <2> QED  BY <1>1, <1>5, <2>1, <2>2, <2>3
<1>6. ASSUME NEW p \in Pages, Base(p) \in K \cup {c}
      PROVE  \E q \in R \cup {First(c)} : q <= p /\ p < q + Length(b, q)
  <2>1. CASE Base(p) \in K
    BY <2>1 DEF Tiles
  <2>2. CASE Base(p) = c
    <3>1. p \in Int
      BY DEF Pages
    <3>2. First(c) <= p /\ p <= First(c) + NP - 1
      BY <1>1, <2>2, <3>1, BaseIs
    <3> QED  BY <1>1, <3>1, <3>2
  <2> QED  BY <1>6, <2>1, <2>2
<1>7. Tiles(b, R \cup {First(c)}, K \cup {c})
  BY <1>4, <1>5, <1>6 DEF Tiles
<1> QED  BY <1>2, <1>7

LEMMA TileDrop ==
  ASSUME NEW a, NEW R, NEW K, Tiles(a, R, K), NEW c \in Chunks,
         First(c) \in R, Length(a, First(c)) = NP
  PROVE  /\ Tiles(a, R \ {First(c)}, K \ {c})
         /\ \A q \in R : Base(q) = c => q = First(c)
<1>1. /\ c \in Int /\ First(c) \in Pages /\ Base(First(c)) = c /\ First(c) \in Int
      /\ NP \in Nat \ {0}
  BY ChunkSpan, Numbers DEF Pages
<1>2. ASSUME NEW q \in R, Base(q) = c PROVE q = First(c)
  <2>1. q \in Int /\ Length(a, q) \in Nat /\ Length(a, q) >= 1
    BY TileEnds
  <2>2. First(c) <= q /\ q <= First(c) + NP - 1
    BY <1>1, <1>2, <2>1, BaseIs
  <2>3. q \in First(c) .. First(c) + Length(a, First(c)) - 1 /\ q \in q .. q + Length(a, q) - 1
    BY <1>1, <2>1, <2>2
  <2> QED  BY <2>3, TileOne
<1>3. ASSUME NEW p \in Pages, Base(p) \in K \ {c}
      PROVE  \E q \in R \ {First(c)} : q <= p /\ p < q + Length(a, q)
  <2>1. PICK q \in R : q <= p /\ p < q + Length(a, q)
    BY <1>3 DEF Tiles
  <2>2. q \in Int /\ p \in Int /\ Length(a, q) \in Nat
    BY TileEnds DEF Pages
  <2>3. p \in q .. q + Length(a, q) - 1
    BY <2>1, <2>2
  <2>4. Base(q) = Base(p)
    BY <2>3, TileEnds
  <2> QED  BY <1>1, <1>3, <2>1, <2>4
<1>4. Tiles(a, R \ {First(c)}, K \ {c})
  BY <1>2, <1>3 DEF Tiles
<1> QED  BY <1>2, <1>4

-----------------------------------------------------------------------------
(* Sums of natural numbers.                                                *)

LEMMA LeastNumber ==
  ASSUME NEW B \in SUBSET Nat, B # {}
  PROVE  \E n \in B : \A m \in B : n <= m
<1>1. PICK k \in B : \A m \in B : ~(<<m, k>> \in OpToRel(<, Nat))
  BY NatLessThanWellFounded, WFMin
<1>2. ASSUME NEW m \in B PROVE k <= m
  <2>1. ~(m < k)
    BY <1>1 DEF OpToRel
  <2> QED  BY <2>1
<1> QED  BY <1>2

LEMMA CardLess ==
  ASSUME NEW S, IsFiniteSet(S), NEW x \in S
  PROVE  /\ IsFiniteSet(S \ {x}) /\ Cardinality(S \ {x}) = Cardinality(S) - 1
         /\ Cardinality(S) - 1 \in Nat
BY FS_RemoveElement, FS_CardinalityType, FS_EmptySet

(* As many things as f says for the elements of s. *)
Heap(f, s) == {h \in s \X Nat : 1 <= h[2] /\ h[2] <= f[h[1]]}

LEMMA HeapOfOne ==
  ASSUME NEW s, NEW x \in s, NEW f, f[x] \in Nat
  PROVE  /\ IsFiniteSet(Heap(f, {x})) /\ Cardinality(Heap(f, {x})) = f[x]
         /\ Heap(f, s) = Heap(f, {x}) \cup Heap(f, s \ {x})
         /\ Heap(f, {x}) \cap Heap(f, s \ {x}) = {}
<1> DEFINE b == [k \in 1 .. f[x] |-> <<x, k>>]
<1>1. b \in Bijection(1 .. f[x], Heap(f, {x}))
  <2>1. \A h \in Heap(f, {x}) : h = <<x, h[2]>> /\ h[2] \in 1 .. f[x]
    BY DEF Heap
  <2>2. \A k \in 1 .. f[x] : <<x, k>> \in Heap(f, {x})
    BY DEF Heap
  <2>3. b \in [1 .. f[x] -> Heap(f, {x})]
    BY <2>2
  <2>4. \A h \in Heap(f, {x}) : \E k \in 1 .. f[x] : b[k] = h
    BY <2>1
  <2>5. \A k \in 1 .. f[x] : \A m \in 1 .. f[x] : b[k] = b[m] => k = m
    OBVIOUS
  <2> HIDE DEF b
  <2> QED  BY <2>3, <2>4, <2>5 DEF Bijection, Injection, Surjection, IsInjective
<1>2. IsFiniteSet(1 .. f[x]) /\ Cardinality(1 .. f[x]) = f[x]
  BY FS_Interval
<1>3. IsFiniteSet(Heap(f, {x})) /\ Cardinality(Heap(f, {x})) = f[x]
  BY <1>1, <1>2, FS_Bijection DEF ExistsBijection
<1> QED  BY <1>3 DEF Heap

LEMMA HeapFinite ==
  ASSUME NEW S, IsFiniteSet(S), NEW f, \A x \in S : f[x] \in Nat
  PROVE  IsFiniteSet(Heap(f, S))
<1> DEFINE Bad == {n \in Nat : \E s \in SUBSET S : Cardinality(s) = n /\ ~IsFiniteSet(Heap(f, s))}
<1>1. ASSUME Bad # {} PROVE FALSE
  <2>1. PICK n \in Bad : \A m \in Bad : n <= m
    BY <1>1, LeastNumber
  <2>2. PICK s \in SUBSET S : Cardinality(s) = n /\ ~IsFiniteSet(Heap(f, s))
    BY <2>1
  <2>3. IsFiniteSet(s)
    BY FS_Subset
  <2>4. CASE s = {}
    <3>1. Heap(f, s) = {}
      BY <2>4 DEF Heap
    <3> QED  BY <2>2, <3>1, FS_EmptySet
  <2>5. CASE s # {}
    <3>1. PICK x \in s : TRUE
      BY <2>5
    <3>2. IsFiniteSet(s \ {x}) /\ Cardinality(s \ {x}) = n - 1 /\ n - 1 \in Nat
      BY <2>2, <2>3, <3>1, CardLess
    <3>3. IsFiniteSet(Heap(f, s \ {x}))
      BY <2>1, <2>2, <3>2
    <3>4. IsFiniteSet(Heap(f, {x})) /\ Heap(f, s) = Heap(f, {x}) \cup Heap(f, s \ {x})
      BY <3>1, HeapOfOne
    <3>5. IsFiniteSet(Heap(f, {x}) \cup Heap(f, s \ {x}))
      BY <3>3, <3>4, FS_Union
    <3> QED  BY <2>2, <3>4, <3>5
  <2> QED  BY <2>4, <2>5
<1> QED  BY <1>1, FS_CardinalityType

LEMMA HeapLess ==
  ASSUME NEW S, IsFiniteSet(S), NEW f, \A x \in S : f[x] \in Nat, NEW x \in S
  PROVE  /\ Cardinality(Heap(f, S)) = f[x] + Cardinality(Heap(f, S \ {x}))
         /\ Cardinality(Heap(f, S)) \in Nat /\ Cardinality(Heap(f, S \ {x})) \in Nat
<1>1. IsFiniteSet(S \ {x})
  BY FS_RemoveElement
<1>2. IsFiniteSet(Heap(f, S \ {x})) /\ IsFiniteSet(Heap(f, S))
  BY <1>1, HeapFinite
<1>3. /\ IsFiniteSet(Heap(f, {x})) /\ Cardinality(Heap(f, {x})) = f[x]
      /\ Heap(f, S) = Heap(f, {x}) \cup Heap(f, S \ {x})
      /\ Heap(f, {x}) \cap Heap(f, S \ {x}) = {}
  BY HeapOfOne
<1> DEFINE U == Heap(f, {x})
           V == Heap(f, S \ {x})
<1> HIDE DEF U, V
<1>4. /\ Cardinality(U \cup V) = Cardinality(U) + Cardinality(V) - Cardinality(U \cap V)
      /\ Cardinality(U) \in Nat /\ Cardinality(V) \in Nat
  BY <1>2, <1>3, FS_Union, FS_CardinalityType DEF U, V
<1>5. Cardinality(U \cap V) = 0
  BY <1>3, FS_EmptySet DEF U, V
<1>6. Cardinality(U \cup V) = Cardinality(U) + Cardinality(V)
  BY <1>4, <1>5
<1> QED  BY <1>2, <1>3, <1>4, <1>6 DEF U, V

LEMMA SumIsHeap ==
  ASSUME NEW f, IsFiniteSet(DOMAIN f), \A x \in DOMAIN f : f[x] \in Nat
  PROVE  SumFunction(f) = Cardinality(Heap(f, DOMAIN f))
<1> DEFINE S == DOMAIN f
           Rec(it) == it = [s \in SUBSET S |->
                             IF s = {} THEN 0
                             ELSE f[CHOOSE x \in s : TRUE] + it[s \ {CHOOSE x \in s : TRUE}]]
           g == [s \in SUBSET S |-> Cardinality(Heap(f, s))]
           iter == CHOOSE it : Rec(it)
<1>1. ASSUME NEW s \in SUBSET S, NEW x \in s
      PROVE  g[s] = f[x] + g[s \ {x}]
  <2>1. IsFiniteSet(s)
    BY FS_Subset
  <2> QED  BY <2>1, HeapLess
<1>2. g[{}] = 0
  <2>1. Heap(f, {}) = {}
    BY DEF Heap
  <2> QED  BY <2>1, FS_EmptySet
<1>3. Rec(g)
  <2> SUFFICES ASSUME NEW s \in SUBSET S, s # {}
               PROVE  g[s] = f[CHOOSE x \in s : TRUE] + g[s \ {CHOOSE x \in s : TRUE}]
    BY <1>2
  <2>1. (CHOOSE x \in s : TRUE) \in s
    OBVIOUS
  <2> QED  BY <1>1, <2>1
<1>4. Rec(iter)
  BY <1>3
<1> HIDE DEF iter
<1>5. iter[{}] = 0 /\ \A s \in SUBSET S : s # {} =>
        iter[s] = f[CHOOSE x \in s : TRUE] + iter[s \ {CHOOSE x \in s : TRUE}]
  BY <1>4
<1> HIDE DEF g
<1> DEFINE Bad == {n \in Nat : \E s \in SUBSET S : Cardinality(s) = n /\ iter[s] # g[s]}
<1>6. ASSUME Bad # {} PROVE FALSE
  <2>1. PICK n \in Bad : \A m \in Bad : n <= m
    BY <1>6, LeastNumber
  <2>2. PICK s \in SUBSET S : Cardinality(s) = n /\ iter[s] # g[s]
    BY <2>1
  <2>3. IsFiniteSet(s) /\ s # {}
    BY <1>2, <1>5, <2>2, FS_Subset
  <2>4. PICK x : x = (CHOOSE y \in s : TRUE) /\ x \in s
    BY <2>3
  <2>5. Cardinality(s \ {x}) = n - 1 /\ n - 1 \in Nat
    BY <2>2, <2>3, <2>4, CardLess
  <2>6. iter[s \ {x}] = g[s \ {x}]
    BY <2>1, <2>2, <2>5
  <2> QED  BY <1>1, <1>5, <2>2, <2>3, <2>4, <2>6
<1>7. iter[S] = g[S]
  <2>1. Cardinality(S) \in Nat
    BY FS_CardinalityType
  <2> QED  BY <1>6, <2>1
<1>8. SumFunction(f) = iter[S]
  BY DEF SumFunction, SumFunctionOnSet, FoldFunctionOnSet, MapThenFoldSet, iter
<1> QED  BY <1>7, <1>8 DEF g

(* What a sum is: the rest of the proofs uses no more. *)
LEMMA SumIs ==
  ASSUME NEW S, IsFiniteSet(S), NEW f \in [S -> Nat]
  PROVE  /\ SumFunction(f) \in Nat
         /\ S = {} => SumFunction(f) = 0
         /\ \A x \in S : SumFunction(f) = f[x] + SumFunction([y \in S \ {x} |-> f[y]])
<1>1. SumFunction(f) = Cardinality(Heap(f, S))
  BY SumIsHeap
<1>2. SumFunction(f) \in Nat
  BY <1>1, HeapFinite, FS_CardinalityType
<1>3. S = {} => SumFunction(f) = 0
  BY <1>1, FS_EmptySet DEF Heap
<1>4. ASSUME NEW x \in S PROVE SumFunction(f) = f[x] + SumFunction([y \in S \ {x} |-> f[y]])
  <2> DEFINE h == [y \in S \ {x} |-> f[y]]
  <2>1. IsFiniteSet(S \ {x})
    BY FS_RemoveElement
  <2>2. DOMAIN h = S \ {x} /\ \A y \in S \ {x} : h[y] \in Nat
    OBVIOUS
  <2>3. Heap(h, S \ {x}) = Heap(f, S \ {x})
    BY DEF Heap
  <2>4. SumFunction(h) = Cardinality(Heap(h, S \ {x}))
    BY <2>1, <2>2, SumIsHeap
  <2> QED  BY <1>1, <2>3, <2>4, HeapLess
<1> QED  BY <1>2, <1>3, <1>4

-----------------------------------------------------------------------------
(* Runs in the map: those that are allocated and those that are free.      *)

AllFlags == {"dirty", "large", "allocated"}
FreeFlags == {{}, {"dirty"}}
Elems == [size : Int, flags : SUBSET AllFlags]

AllocRun(a, r) == /\ "allocated" \in a.map[r].flags
                  /\ "allocated" \in a.map[r + Length(a, r) - 1].flags
FreeRun(a, r) == /\ a.map[r].flags \in FreeFlags
                 /\ a.map[r + Length(a, r) - 1] = a.map[r]

Kind(a, r, A, F) == \/ r \in A /\ r \notin F /\ AllocRun(a, r)
                    \/ r \in F /\ r \notin A /\ FreeRun(a, r)

Laid(a, A, F, K) == /\ Tiles(a, A \cup F, K)
                    /\ \A r \in A \cup F : Kind(a, r, A, F)

(* The maps of a and b differ only within the runs D, of the runs R of a.  *)
Changes(a, b, D, R) ==
  D \subseteq R /\ \A p \in Pages : b.map[p] # a.map[p] => \E d \in D : p \in d .. d + Length(a, d) - 1

(* In b, run q of a says the same of itself. *)
Same(a, b, q) == /\ b.map[q] = a.map[q] /\ Length(b, q) = Length(a, q)
                 /\ b.map[q + Length(a, q) - 1] = a.map[q + Length(a, q) - 1]

LEMMA PagesBeside ==
  ASSUME NEW a, NEW b, NEW R, NEW K, Tiles(a, R, K), NEW D, Changes(a, b, D, R),
         NEW q \in R, q \notin D
  PROVE  \A p \in q .. q + Length(a, q) - 1 : b.map[p] = a.map[p]
<1>1. \A p \in q .. q + Length(a, q) - 1 : p \in Pages
  BY TileEnds
<1>2. ASSUME NEW p \in q .. q + Length(a, q) - 1 PROVE b.map[p] = a.map[p]
  <2>1. \A d \in D : p \notin d .. d + Length(a, d) - 1
    BY TileOne DEF Changes
  <2> QED  BY <1>1, <2>1 DEF Changes
<1> QED  BY <1>2

LEMMA Beside ==
  ASSUME NEW a, NEW b, NEW R, NEW K, Tiles(a, R, K), NEW D, Changes(a, b, D, R),
         NEW q \in R, q \notin D
  PROVE  Same(a, b, q)
<1>1. q \in Int /\ Length(a, q) \in Nat /\ Length(a, q) >= 1
  BY TileEnds
<1>3. q \in q .. q + Length(a, q) - 1 /\ q + Length(a, q) - 1 \in q .. q + Length(a, q) - 1
  BY <1>1
<1>4. \A p \in q .. q + Length(a, q) - 1 : b.map[p] = a.map[p]
  BY PagesBeside
<1>5. b.map[q] = a.map[q] /\ b.map[q + Length(a, q) - 1] = a.map[q + Length(a, q) - 1]
  BY <1>3, <1>4
<1>6. Length(b, q) = Length(a, q)
  BY <1>5 DEF Length, RunSize
<1> QED  BY <1>5, <1>6 DEF Same

LEMMA LengthBeside ==
  ASSUME NEW a, NEW b, NEW A, NEW F, NEW K, Laid(a, A, F, K), NEW D,
         Changes(a, b, D, A \cup F)
  PROVE  \A q \in (A \cup F) \ D : Length(b, q) = Length(a, q)
<1>0. Tiles(a, A \cup F, K)
  BY DEF Laid
<1>1. PICK R : R = A \cup F
  OBVIOUS
<1>2. Tiles(a, R, K) /\ Changes(a, b, D, R)
  BY <1>0, <1>1
<1>3. \A q \in R : q \notin D => Same(a, b, q)
  BY <1>2, Beside
<1> QED  BY <1>1, <1>3 DEF Same

LEMMA KindBeside ==
  ASSUME NEW a, NEW b, NEW A, NEW F, NEW K, Laid(a, A, F, K), NEW D,
         Changes(a, b, D, A \cup F), NEW q \in (A \cup F) \ D, NEW A1, NEW F1,
         q \in A <=> q \in A1, q \in F <=> q \in F1
  PROVE  Kind(b, q, A1, F1) /\ Length(b, q) = Length(a, q)
<1>0. Tiles(a, A \cup F, K)
  BY DEF Laid
<1>01. PICK R : R = A \cup F
  OBVIOUS
<1>02. Tiles(a, R, K) /\ Changes(a, b, D, R)
  BY <1>0, <1>01
<1>1. Same(a, b, q)
  <2>1. q \in R /\ q \notin D
    BY <1>01
  <2> QED  BY <1>02, <2>1, Beside
<1>2. Kind(a, q, A, F)
  BY DEF Laid
<1> QED  BY <1>1, <1>2 DEF Kind, AllocRun, FreeRun, Same

(* Runs change their kind. *)
LEMMA LaidTurn ==
  ASSUME NEW a, NEW b, NEW A, NEW F, NEW K, Laid(a, A, F, K), NEW D,
         Changes(a, b, D, A \cup F), NEW A1, NEW F1, A1 \ D = A \ D, F1 \ D = F \ D,
         \A d \in D : Length(b, d) = Length(a, d) /\ Kind(b, d, A1, F1)
  PROVE  Laid(b, A1, F1, K)
<1>1. A1 \cup F1 = A \cup F
  BY DEF Kind, Changes
<1>2. \A q \in (A \cup F) \ D : Kind(b, q, A1, F1) /\ Length(b, q) = Length(a, q)
  BY KindBeside
<1>3. Tiles(b, A \cup F, K)
  BY <1>2, TileSame DEF Laid
<1> QED  BY <1>1, <1>2, <1>3 DEF Laid

LEMMA LaidSplit ==
  ASSUME NEW a, NEW b, NEW A, NEW F, NEW K, Laid(a, A, F, K), NEW r \in A \cup F,
         Changes(a, b, {r}, A \cup F), NEW h \in Nat, h >= 1, h < Length(a, r),
         Length(b, r) = h, Length(b, r + h) = Length(a, r) - h,
         NEW A1, NEW F1, A1 \ {r, r + h} = A \ {r}, F1 \ {r, r + h} = F \ {r},
         Kind(b, r, A1, F1), Kind(b, r + h, A1, F1)
  PROVE  Laid(b, A1, F1, K) /\ r + h \notin A \cup F
<1> DEFINE s == r + h
<1>1. \A q \in (A \cup F) \ {r} : Length(b, q) = Length(a, q)
  BY LengthBeside
<1>2. Tiles(b, (A \cup F) \cup {s}, K) /\ s \notin A \cup F
  BY <1>1, TileSplit DEF Laid
<1>3. r # s
  BY <1>2
<1> HIDE DEF s
<1>4. A1 \ {r, s} = A \ {r} /\ F1 \ {r, s} = F \ {r} /\ Kind(b, s, A1, F1)
  BY DEF s
<1>5. A1 \cup F1 = (A \cup F) \cup {s}
  BY <1>4 DEF Kind
<1>6. ASSUME NEW q \in (A \cup F) \ {r} PROVE Kind(b, q, A1, F1)
  <2>1. q # s
    BY <1>2
  <2> QED  BY <1>4, <2>1, KindBeside
<1>7. \A q \in A1 \cup F1 : Kind(b, q, A1, F1)
  BY <1>4, <1>5, <1>6
<1> QED  BY <1>2, <1>5, <1>7 DEF Laid, s

LEMMA LaidJoin ==
  ASSUME NEW a, NEW b, NEW A, NEW F, NEW K, Laid(a, A, F, K), NEW r \in A \cup F,
         NEW s \in A \cup F, s = r + Length(a, r), Base(s) = Base(r),
         Changes(a, b, {r, s}, A \cup F), Length(b, r) = Length(a, r) + Length(a, s),
         NEW A1, NEW F1, A1 \ {r} = A \ {r, s}, F1 \ {r} = F \ {r, s},
         Kind(b, r, A1, F1)
  PROVE  Laid(b, A1, F1, K)
<1>0. r # s
  BY TileEnds DEF Laid
<1>01. PICK D : D = {r, s}
  OBVIOUS
<1>02. Changes(a, b, D, A \cup F)
  BY <1>01
<1>03. \A q \in (A \cup F) \ D : Length(b, q) = Length(a, q)
  BY <1>02, LengthBeside
<1>1. \A q \in (A \cup F) \ {r, s} : Length(b, q) = Length(a, q)
  BY <1>01, <1>03
<1>2. Tiles(b, (A \cup F) \ {s}, K)
  BY <1>1, TileJoin DEF Laid
<1>5. A1 \cup F1 = (A \cup F) \ {s}
  BY <1>0 DEF Kind
<1>6. ASSUME NEW q \in (A \cup F) \ {r, s} PROVE Kind(b, q, A1, F1)
  BY KindBeside
<1>7. \A q \in A1 \cup F1 : Kind(b, q, A1, F1)
  BY <1>5, <1>6
<1> QED  BY <1>2, <1>5, <1>7 DEF Laid

-----------------------------------------------------------------------------
(* The arena as a record.                                                  *)

Typed(a) ==
  a \in [map : [Pages -> Elems], clean : SUBSET Pages, dirty : SUBSET Pages,
         chunks_dirty : Seq(Chunks), dirtied : SUBSET Chunks, cdirty : [Chunks -> Int],
         spare : Chunks \cup {Null}, released : Chunks \cup {Null}, mapped : SUBSET Chunks,
         touched : SUBSET Int, nactive : Int, ndirty : Int, npurgatory : Int]

IsArena(a) ==
  a = [map |-> a.map, clean |-> a.clean, dirty |-> a.dirty,
       chunks_dirty |-> a.chunks_dirty, dirtied |-> a.dirtied, cdirty |-> a.cdirty,
       spare |-> a.spare, released |-> a.released, mapped |-> a.mapped,
       touched |-> a.touched, nactive |-> a.nactive, ndirty |-> a.ndirty,
       npurgatory |-> a.npurgatory]

FieldsTyped(a) ==
  /\ a.map \in [Pages -> Elems] /\ a.clean \in SUBSET Pages /\ a.dirty \in SUBSET Pages
  /\ a.chunks_dirty \in Seq(Chunks) /\ a.dirtied \in SUBSET Chunks
  /\ a.cdirty \in [Chunks -> Int] /\ a.spare \in Chunks \cup {Null}
  /\ a.released \in Chunks \cup {Null} /\ a.mapped \in SUBSET Chunks
  /\ a.touched \in SUBSET Int /\ a.nactive \in Int /\ a.ndirty \in Int
  /\ a.npurgatory \in Int

LEMMA TypedIs ==
  ASSUME NEW a
  PROVE  Typed(a) <=> IsArena(a) /\ FieldsTyped(a)
<1>1. ASSUME Typed(a) PROVE IsArena(a) /\ FieldsTyped(a)
  <2>1. IsArena(a)
    BY <1>1 DEF Typed, IsArena
  <2>2. FieldsTyped(a)
    BY <1>1 DEF Typed, FieldsTyped
  <2> QED  BY <2>1, <2>2
<1>2. ASSUME IsArena(a), FieldsTyped(a) PROVE Typed(a)
  BY <1>2 DEF Typed, IsArena, FieldsTyped
<1> QED  BY <1>1, <1>2

Split(map, r, need, large) ==
  LET total == map[r].size
      fd == Dirty(map[r])
      rest == IF need < total THEN {r + need} ELSE {}
      taken == IF large
               THEN [p \in {r, r + need - 1} |-> Elem(IF p = r THEN need ELSE 0, Taken \cup fd)]
               ELSE [p \in Span(r, need) |-> Elem(p - r, {"allocated"} \cup
                                               IF p \in {r, r + need - 1} THEN fd ELSE {})]
      left == [p \in rest \cup {r + total - 1} |-> Elem(total - need, fd)]
  IN Written(Written(map, left), taken)

Rests(map, r, need) == IF need < map[r].size THEN {r + need} ELSE {}

RunSplitFields(a, b, r, need, large) ==
  LET fd == Dirty(a.map[r])
      spent == IF fd = {} THEN 0 ELSE need
      rests == Rests(a.map, r, need)
  IN /\ b.map = Split(a.map, r, need, large)
     /\ b.clean = IF fd = {} THEN (a.clean \ {r}) \cup rests ELSE a.clean
     /\ b.dirty = IF fd = {} THEN a.dirty ELSE (a.dirty \ {r}) \cup rests
     /\ b.chunks_dirty = a.chunks_dirty /\ b.dirtied = a.dirtied
     /\ b.spare = a.spare /\ b.released = a.released /\ b.mapped = a.mapped
     /\ b.touched = a.touched /\ b.npurgatory = a.npurgatory
     /\ b.nactive = a.nactive + need /\ b.ndirty = a.ndirty - spent
     /\ b.cdirty = [a.cdirty EXCEPT ![Base(r)] = @ - spent]

LEMMA RunSplitIs ==
  ASSUME NEW a, Typed(a), NEW r \in Pages, NEW need \in Int, NEW large \in BOOLEAN
  PROVE  /\ RunSplitFields(a, RunSplit(a, r, need, large), r, need, large)
         /\ IsArena(RunSplit(a, r, need, large))
<1>1. RunSplitFields(a, RunSplit(a, r, need, large), r, need, large)
  BY DEF RunSplit, Trees, Split, Rests, Typed, RunSplitFields
<1>2. PICK t : t = Trees(a, Dirty(a.map[r]), {r}, Rests(a.map, r, need))
  OBVIOUS
<1>3. IsArena(a)
  BY TypedIs
<1>4. IsArena(t)
  BY <1>2, <1>3 DEF IsArena, Trees
<1>5. RunSplit(a, r, need, large)
        = [t EXCEPT !.map = Split(a.map, r, need, large),
                    !.nactive = @ + need,
                    !.ndirty = @ - IF Dirty(a.map[r]) = {} THEN 0 ELSE need,
                    !.cdirty[Base(r)] = @ - IF Dirty(a.map[r]) = {} THEN 0 ELSE need]
  <2>1. t.map = a.map
    BY <1>2, <1>3 DEF IsArena, Trees
  <2> QED  BY <1>2, <2>1 DEF RunSplit, Split, Rests
<1>6. IsArena(RunSplit(a, r, need, large))
  BY <1>4, <1>5 DEF IsArena
<1> QED  BY <1>1, <1>6

LEMMA WrittenTyped ==
  ASSUME NEW map \in [Pages -> Elems], NEW new, \A p \in DOMAIN new : new[p] \in Elems
  PROVE  Written(map, new) \in [Pages -> Elems]
BY DEF Written

LEMMA CountTyped ==
  ASSUME NEW f \in [Chunks -> Int], NEW x, NEW n \in Int
  PROVE  [f EXCEPT ![x] = @ - n] \in [Chunks -> Int] /\ [f EXCEPT ![x] = @ + n] \in [Chunks -> Int]
<1>1. CASE x \in Chunks
  BY <1>1
<1>2. CASE x \notin Chunks
  BY <1>2
<1> QED  BY <1>1, <1>2

LEMMA ElemTyped ==
  ASSUME NEW n \in Int, NEW flags \in SUBSET AllFlags
  PROVE  Elem(n, flags) \in Elems /\ Elem(n, flags).size = n /\ Elem(n, flags).flags = flags
BY DEF Elem, Elems

LEMMA DirtyIs ==
  ASSUME NEW map \in [Pages -> Elems], NEW r \in Pages
  PROVE  /\ map[r].size \in Int /\ map[r].flags \in SUBSET AllFlags
         /\ Dirty(map[r]) \in SUBSET AllFlags /\ Dirty(map[r]) \in FreeFlags
         /\ map[r].flags \in FreeFlags => Dirty(map[r]) = map[r].flags
         /\ Dirty(map[r]) # {} => Dirty(map[r]) = {"dirty"}
BY DEF Dirty, Elems, AllFlags, FreeFlags

LEMMA SplitTyped ==
  ASSUME NEW map \in [Pages -> Elems], NEW r \in Pages, NEW need \in Int, NEW large \in BOOLEAN
  PROVE  Split(map, r, need, large) \in [Pages -> Elems]
<1> DEFINE total == map[r].size
           fd == Dirty(map[r])
           rest == IF need < total THEN {r + need} ELSE {}
           taken == IF large
               THEN [p \in {r, r + need - 1} |-> Elem(IF p = r THEN need ELSE 0, Taken \cup fd)]
               ELSE [p \in Span(r, need) |-> Elem(p - r, {"allocated"} \cup
                                               IF p \in {r, r + need - 1} THEN fd ELSE {})]
           left == [p \in rest \cup {r + total - 1} |-> Elem(total - need, fd)]
<1>1. total \in Int /\ fd \in SUBSET AllFlags /\ r \in Int
  <2>1. r \in Int
    BY DEF Pages
  <2> QED  BY <2>1, DirtyIs
<1>2. \A p \in DOMAIN left : left[p] \in Elems
  BY <1>1, ElemTyped
<1>3. \A p \in DOMAIN taken : taken[p] \in Elems
  <2>1. CASE large
    <3>1. (Taken \cup fd) \in SUBSET AllFlags
      BY <1>1 DEF Taken, AllFlags
    <3> QED  BY <2>1, <3>1, ElemTyped
  <2>2. CASE ~large
    <3>1. ASSUME NEW p \in Span(r, need)
          PROVE  Elem(p - r, {"allocated"} \cup IF p \in {r, r + need - 1} THEN fd ELSE {}) \in Elems
      <4>1. p - r \in Int
        BY <1>1 DEF Span
      <4>2. ({"allocated"} \cup IF p \in {r, r + need - 1} THEN fd ELSE {}) \in SUBSET AllFlags
        BY <1>1 DEF AllFlags
      <4> QED  BY <4>1, <4>2, ElemTyped
    <3> QED  BY <2>2, <3>1
  <2> QED  BY <2>1, <2>2
<1> HIDE DEF left, taken
<1>4. Written(Written(map, left), taken) \in [Pages -> Elems]
  BY <1>2, <1>3, WrittenTyped
<1>5. Split(map, r, need, large) = Written(Written(map, left), taken)
  BY DEF Split, left, taken
<1> QED  BY <1>4, <1>5

LEMMA RunSplitTyped ==
  ASSUME NEW a, Typed(a), NEW r \in Pages, NEW need \in Int, NEW large \in BOOLEAN,
         Rests(a.map, r, need) \subseteq Pages
  PROVE  Typed(RunSplit(a, r, need, large))
<1>1. Split(a.map, r, need, large) \in [Pages -> Elems]
  BY SplitTyped DEF Typed
<1>2. PICK b : b = RunSplit(a, r, need, large)
  OBVIOUS
<1>3. FieldsTyped(a)
  BY TypedIs
<1>4. FieldsTyped(b)
  <2>1. RunSplitFields(a, b, r, need, large)
    BY <1>2, RunSplitIs
  <2>2. b.clean \in SUBSET Pages /\ b.dirty \in SUBSET Pages
    BY <1>3, <2>1 DEF FieldsTyped, RunSplitFields
  <2>3. PICK spent \in Int : spent = IF Dirty(a.map[r]) = {} THEN 0 ELSE need
    OBVIOUS
  <2>4. b.nactive \in Int /\ b.ndirty \in Int
    BY <1>3, <2>1, <2>3 DEF FieldsTyped, RunSplitFields
  <2>5. b.cdirty = [a.cdirty EXCEPT ![Base(r)] = @ - spent]
    BY <2>1, <2>3 DEF RunSplitFields
  <2>6. b.cdirty \in [Chunks -> Int]
    <3>1. PICK f, x : f = a.cdirty /\ x = Base(r)
      OBVIOUS
    <3>2. f \in [Chunks -> Int]
      BY <1>3, <3>1 DEF FieldsTyped
    <3>3. [f EXCEPT ![x] = @ - spent] \in [Chunks -> Int]
      BY <3>2, CountTyped
    <3> QED  BY <2>5, <3>1, <3>3
  <2> QED  BY <1>1, <1>3, <2>1, <2>2, <2>4, <2>6 DEF FieldsTyped, RunSplitFields
<1>5. IsArena(b)
  BY <1>2, RunSplitIs
<1> QED  BY <1>2, <1>4, <1>5, TypedIs

-----------------------------------------------------------------------------
(* arena_run_split.                                                        *)

(* What the map says of a run that is cut, and of what is left of it.      *)
SplitAt(map, m, r, need, large) ==
  LET total == map[r].size
      fd == Dirty(map[r])
  IN /\ m[r] = IF large THEN Elem(need, Taken \cup fd) ELSE Elem(0, {"allocated"} \cup fd)
     /\ "allocated" \in m[r + need - 1].flags
     /\ need < total => /\ m[r + need] = Elem(total - need, fd)
                        /\ m[r + total - 1] = Elem(total - need, fd)
     /\ \A p \in Pages : p \notin r .. r + total - 1 => m[p] = map[p]

LEMMA SplitIs ==
  ASSUME NEW map \in [Pages -> Elems], NEW r \in Pages, NEW need \in Int, NEW large \in BOOLEAN,
         need >= 1, need <= map[r].size, r + map[r].size - 1 \in Pages, r + need \in Pages \/ need = map[r].size,
         r + need - 1 \in Pages
  PROVE  SplitAt(map, Split(map, r, need, large), r, need, large)
<1> DEFINE total == map[r].size
           fd == Dirty(map[r])
           rest == IF need < total THEN {r + need} ELSE {}
           taken == IF large
               THEN [p \in {r, r + need - 1} |-> Elem(IF p = r THEN need ELSE 0, Taken \cup fd)]
               ELSE [p \in Span(r, need) |-> Elem(p - r, {"allocated"} \cup
                                               IF p \in {r, r + need - 1} THEN fd ELSE {})]
           left == [p \in rest \cup {r + total - 1} |-> Elem(total - need, fd)]
           m == Split(map, r, need, large)
<1>1. total \in Int /\ r \in Int
  <2>1. r \in Int
    BY DEF Pages
  <2> QED  BY <2>1, DirtyIs
<1>2. \A p \in Pages : m[p] = IF p \in DOMAIN taken THEN taken[p]
                              ELSE IF p \in DOMAIN left THEN left[p] ELSE map[p]
  BY DEF Split, Written
<1>3. DOMAIN taken \subseteq Span(r, need) /\ DOMAIN left = rest \cup {r + total - 1}
  BY <1>1 DEF Span
<1>4. r \in DOMAIN taken /\ r + need - 1 \in DOMAIN taken
  BY <1>1 DEF Span
<1>5. taken[r] = IF large THEN Elem(need, Taken \cup fd) ELSE Elem(0, {"allocated"} \cup fd)
  <2>1. CASE large
    BY <2>1
  <2>2. CASE ~large
    <3>1. r \in Span(r, need) /\ r - r = 0
      BY <1>1 DEF Span
    <3> QED  BY <2>2, <3>1
  <2> QED  BY <2>1, <2>2
<1>6. \A p \in DOMAIN taken : "allocated" \in taken[p].flags
  BY DEF Elem, Taken
<1>7. \A p \in DOMAIN left : left[p] = Elem(total - need, fd)
  OBVIOUS
<1> HIDE DEF taken, left, m
<1>8. m[r] = IF large THEN Elem(need, Taken \cup fd) ELSE Elem(0, {"allocated"} \cup fd)
  BY <1>2, <1>4, <1>5
<1>9. "allocated" \in m[r + need - 1].flags
  BY <1>2, <1>4, <1>6
<1>10. ASSUME need < total
       PROVE  m[r + need] = Elem(total - need, fd) /\ m[r + total - 1] = Elem(total - need, fd)
  <2>1. r + need \in Pages /\ r + need \notin Span(r, need) /\ r + total - 1 \notin Span(r, need)
    BY <1>1, <1>10 DEF Span
  <2>2. r + need \in DOMAIN left /\ r + total - 1 \in DOMAIN left
    BY <1>3, <1>10
  <2> QED  BY <1>2, <1>3, <1>7, <2>1, <2>2
<1>11. ASSUME NEW p \in Pages, p \notin r .. r + total - 1 PROVE m[p] = map[p]
  <2>1. p \notin Span(r, need)
    BY <1>1, <1>11 DEF Span
  <2>2. p \notin rest \cup {r + total - 1}
    BY <1>1, <1>11
  <2> QED  BY <1>2, <1>3, <2>1, <2>2
<1> QED  BY <1>8, <1>9, <1>10, <1>11 DEF SplitAt, m

(* What a user of arena_run_split is to know. *)
SplitOut(a, b, r, need, large) ==
  /\ b.map[r] = IF large THEN Elem(need, Taken \cup a.map[r].flags)
                ELSE Elem(0, {"allocated"} \cup a.map[r].flags)
  /\ Length(b, r) = need
  /\ \A q \in Rests(a.map, r, need) : b.map[q] = Elem(a.map[r].size - need, a.map[r].flags)

LEMMA FreeLength ==
  ASSUME NEW a, NEW A, NEW F, NEW K, Typed(a), Laid(a, A, F, K), NEW r \in F
  PROVE  /\ Length(a, r) = a.map[r].size /\ a.map[r].flags \in FreeFlags /\ r \in Pages
         /\ Dirty(a.map[r]) = a.map[r].flags /\ IsFree(a.map[r]) /\ r \notin A
         /\ a.map[r + a.map[r].size - 1] = a.map[r]
<1>1. Kind(a, r, A, F)
  BY DEF Laid
<1>2. FreeRun(a, r) /\ r \notin A
  BY <1>1 DEF Kind
<1>3. r \in Pages /\ a.map \in [Pages -> Elems]
  BY DEF Laid, Tiles, Typed
<1>4. a.map[r].flags \in FreeFlags /\ "allocated" \notin a.map[r].flags
  BY <1>2 DEF FreeRun, FreeFlags
<1>5. Length(a, r) = a.map[r].size /\ IsFree(a.map[r])
  BY <1>4 DEF Length, IsFree
<1>6. Dirty(a.map[r]) = a.map[r].flags
  BY <1>3, <1>4, DirtyIs
<1> QED  BY <1>2, <1>3, <1>4, <1>5, <1>6 DEF FreeRun

LEMMA AllocLength ==
  ASSUME NEW a, NEW A, NEW F, NEW K, Laid(a, A, F, K), NEW r \in A
  PROVE  /\ Length(a, r) = RunSize(a, r) /\ ~IsFree(a.map[r]) /\ r \notin F /\ r \in Pages
         /\ "allocated" \in a.map[r].flags /\ ~IsFree(a.map[r + Length(a, r) - 1])
<1>1. Kind(a, r, A, F)
  BY DEF Laid
<1>2. AllocRun(a, r) /\ r \notin F
  BY <1>1 DEF Kind
<1>3. r \in Pages
  BY DEF Laid, Tiles
<1> QED  BY <1>2, <1>3 DEF AllocRun, Length, IsFree

LEMMA LaidEnds ==
  ASSUME NEW a, NEW A, NEW F, NEW K, Laid(a, A, F, K), NEW r \in A \cup F
  PROVE  /\ r \in Int /\ r >= 0 /\ Length(a, r) \in Nat /\ Length(a, r) >= 1
         /\ r \in Pages /\ r + Length(a, r) - 1 \in Pages
         /\ Base(r) \in Chunks /\ Base(r) \in K
<1>1. Tiles(a, A \cup F, K)
  BY DEF Laid
<1>2. PICK R : R = A \cup F
  OBVIOUS
<1>3. Tiles(a, R, K) /\ r \in R
  BY <1>1, <1>2
<1> QED  BY <1>3, TileEnds DEF Tiles

LEMMA LaidSpan ==
  ASSUME NEW a, NEW A, NEW F, NEW K, Laid(a, A, F, K), NEW r \in A \cup F
  PROVE  \A p \in r .. r + Length(a, r) - 1 : p \in Pages /\ Base(p) = Base(r)
<1>1. PICK R : R = A \cup F
  OBVIOUS
<1>2. Tiles(a, R, K) /\ r \in R
  BY <1>1 DEF Laid
<1> QED  BY <1>2, TileEnds

SplitGives(a, b, A, F, K, r, need, large) ==
  /\ Laid(b, A \cup {r}, (F \ {r}) \cup Rests(a.map, r, need), K)
  /\ SplitOut(a, b, r, need, large)
  /\ Changes(a, b, {r}, A \cup F)
  /\ Rests(a.map, r, need) \cap (A \cup F) = {}
  /\ Rests(a.map, r, need) \subseteq Pages

LEMMA SplitLaid ==
  ASSUME NEW a, NEW A, NEW F, NEW K, Typed(a), Laid(a, A, F, K), NEW r \in F,
         NEW need \in Nat, need >= 1, need <= a.map[r].size, NEW large \in BOOLEAN,
         large \/ need = RunPages,
         NEW b, b.map = Split(a.map, r, need, large)
  PROVE  SplitGives(a, b, A, F, K, r, need, large)
<1> DEFINE total == a.map[r].size
           fd == a.map[r].flags
           rest == Rests(a.map, r, need)
<1>1. /\ Length(a, r) = total /\ fd \in FreeFlags /\ r \in Pages /\ Dirty(a.map[r]) = fd
      /\ r \notin A
  BY FreeLength
<1>2. /\ r \in Int /\ total \in Nat /\ total >= 1 /\ r + total - 1 \in Pages
      /\ \A p \in r .. r + total - 1 : p \in Pages /\ Base(p) = Base(r)
  BY <1>1, LaidEnds, LaidSpan
<1>3. r + need - 1 \in Pages /\ (need < total => r + need \in Pages)
  <2>1. r + need - 1 \in r .. r + total - 1 /\ (need < total => r + need \in r .. r + total - 1)
    BY <1>2
  <2> QED  BY <1>2, <2>1
<1>4. SplitAt(a.map, b.map, r, need, large)
  <2>1. a.map \in [Pages -> Elems]
    BY DEF Typed
  <2>2. r + need \in Pages \/ need = total
    BY <1>2, <1>3
  <2> QED  BY <1>2, <1>3, <2>1, <2>2, SplitIs
<1>5. Changes(a, b, {r}, A \cup F)
  BY <1>1, <1>4 DEF Changes, SplitAt
<1>6. /\ b.map[r] = IF large THEN Elem(need, Taken \cup fd) ELSE Elem(0, {"allocated"} \cup fd)
      /\ "allocated" \in b.map[r + need - 1].flags
      /\ need < total => /\ b.map[r + need] = Elem(total - need, fd)
                         /\ b.map[r + total - 1] = Elem(total - need, fd)
  BY <1>1, <1>4 DEF SplitAt
<1>7. "allocated" \in b.map[r].flags /\ Length(b, r) = need
  <2>1. CASE large
    BY <1>6, <2>1 DEF Elem, Taken, Length, RunSize, IsFree
  <2>2. CASE ~large
    <3>1. b.map[r].flags = {"allocated"} \cup fd
      BY <1>6, <2>2 DEF Elem
    <3>2. "large" \notin b.map[r].flags
      BY <1>1, <3>1 DEF FreeFlags
    <3> QED  BY <2>2, <3>1, <3>2 DEF Length, RunSize, IsFree
  <2> QED  BY <2>1, <2>2
<1>8. AllocRun(b, r)
  BY <1>6, <1>7 DEF AllocRun
<1>9. \A q \in rest : b.map[q] = Elem(total - need, fd)
  BY <1>6 DEF Rests
<1>10. SplitOut(a, b, r, need, large)
  BY <1>6, <1>7, <1>9 DEF SplitOut
<1>11. CASE need = total
  <2>1. rest = {}
    BY <1>2, <1>11 DEF Rests
  <2>2. Kind(b, r, A \cup {r}, F \ {r})
    BY <1>8 DEF Kind
  <2>3. PICK D, A1, F1 : D = {r} /\ A1 = A \cup {r} /\ F1 = F \ {r}
    OBVIOUS
  <2>4. Laid(b, A1, F1, K)
    <3>1. Changes(a, b, D, A \cup F) /\ A1 \ D = A \ D /\ F1 \ D = F \ D
      BY <1>5, <2>3
    <3>2. \A d \in D : Length(b, d) = Length(a, d) /\ Kind(b, d, A1, F1)
      BY <1>1, <1>7, <1>11, <2>2, <2>3
    <3> QED  BY <3>1, <3>2, LaidTurn
  <2>5. Laid(b, A \cup {r}, (F \ {r}) \cup rest, K)
    BY <2>1, <2>3, <2>4
  <2> QED  BY <1>5, <1>10, <2>1, <2>5 DEF SplitGives
<1>12. CASE need < total
  <2>1. PICK s : s = r + need
    OBVIOUS
  <2>2. rest = {s} /\ s \in Int /\ s # r
    BY <1>2, <1>12, <2>1 DEF Rests
  <2>3. b.map[s] = Elem(total - need, fd) /\ b.map[r + total - 1] = Elem(total - need, fd)
    BY <1>6, <1>12, <2>1
  <2>4. IsFree(b.map[s]) /\ Length(b, s) = total - need /\ b.map[s].flags = fd
    BY <1>1, <2>3 DEF IsFree, Elem, FreeFlags, Length
  <2>5. s + Length(b, s) - 1 = r + total - 1
    BY <1>2, <2>1, <2>4
  <2>6. FreeRun(b, s)
    BY <1>1, <2>3, <2>4, <2>5 DEF FreeRun
  <2>7. PICK A1, F1 : A1 = A \cup {r} /\ F1 = (F \ {r}) \cup {s}
    OBVIOUS
  <2>8. s \notin A \cup F
    <3>1. PICK R : R = A \cup F
      OBVIOUS
    <3>2. Tiles(a, R, K) /\ r \in R
      BY <3>1 DEF Laid
    <3>3. \A q \in R : q \in Int /\ (r < q => r + total <= q)
      BY <1>1, <3>2, TileEnds DEF Tiles
    <3> QED  BY <1>2, <1>12, <2>1, <3>1, <3>3
  <2>9. Kind(b, r, A1, F1) /\ Kind(b, s, A1, F1)
    BY <1>1, <1>8, <2>2, <2>6, <2>7, <2>8 DEF Kind
  <2>10. A1 \ {r, s} = A \ {r} /\ F1 \ {r, s} = F \ {r}
    BY <1>1, <2>7, <2>8
  <2>11. Laid(b, A1, F1, K)
    BY <1>1, <1>5, <1>7, <1>12, <2>1, <2>4, <2>9, <2>10, LaidSplit
  <2>12. rest \subseteq Pages
    BY <1>3, <1>12, <2>1, <2>2
  <2> QED  BY <1>5, <1>10, <2>2, <2>7, <2>8, <2>11, <2>12 DEF SplitGives
<1> QED  BY <1>2, <1>11, <1>12

-----------------------------------------------------------------------------
(* The arena as it is whenever a step ends: A are the allocated runs, K    *)
(* its chunks.                                                             *)

SpareRuns(a) == {First(c) : c \in {a.spare} \cap Chunks}
FreeRuns(a) == a.clean \cup a.dirty \cup SpareRuns(a)

(* A free run is where its flags, and its chunk, say. *)
Sorted(a) ==
  /\ \A r \in a.clean : a.map[r].flags = {}
  /\ \A r \in a.dirty : a.map[r].flags = {"dirty"}
  /\ \A r \in SpareRuns(a) : r \notin a.clean \cup a.dirty /\ a.map[r].size = NP

(* Free runs side by side are not alike. *)
Apart(a, F) ==
  \A r, q \in F : q = r + Length(a, r) /\ Base(q) = Base(r) => a.map[q].flags # a.map[r].flags

Listed(a, K) == IsInjective(a.chunks_dirty) /\ Range(a.chunks_dirty) = a.dirtied \cap K

Good(a, A, K) ==
  /\ Typed(a) /\ Laid(a, A, FreeRuns(a), K) /\ Sorted(a) /\ Apart(a, FreeRuns(a))
  /\ Listed(a, K) /\ K \subseteq a.mapped

LEMMA SpareIs ==
  ASSUME NEW a, Typed(a)
  PROVE  /\ a.spare = Null => SpareRuns(a) = {}
         /\ a.spare # Null => a.spare \in Chunks /\ SpareRuns(a) = {First(a.spare)}
<1>1. a.spare \in Chunks \cup {Null}
  BY TypedIs DEF FieldsTyped
<1>2. Null \notin Chunks
  BY ArenaAssumption DEF Chunks
<1>3. a.spare = Null => SpareRuns(a) = {}
  BY <1>2 DEF SpareRuns
<1>4. a.spare # Null => SpareRuns(a) = {First(a.spare)}
  BY <1>1 DEF SpareRuns
<1> QED  BY <1>1, <1>3, <1>4

LEMMA SameBeside ==
  ASSUME NEW a, NEW b, NEW A, NEW F, NEW K, Laid(a, A, F, K), NEW D,
         Changes(a, b, D, A \cup F)
  PROVE  \A q \in A \cup F : q \notin D => Same(a, b, q)
<1>0. Tiles(a, A \cup F, K)
  BY DEF Laid
<1>1. PICK R : R = A \cup F
  OBVIOUS
<1>2. Tiles(a, R, K) /\ Changes(a, b, D, R)
  BY <1>0, <1>1
<1>3. \A q \in R : q \notin D => Same(a, b, q)
  BY <1>2, Beside
<1> QED  BY <1>1, <1>3

(* No run ends where another one is cut. *)
LEMMA NoneEndsIn ==
  ASSUME NEW a, NEW A, NEW F, NEW K, Laid(a, A, F, K), NEW r \in A \cup F, NEW q \in A \cup F,
         NEW h \in Int, h >= 1, h < Length(a, r)
  PROVE  q + Length(a, q) # r + h
<1>1. PICK R : R = A \cup F
  OBVIOUS
<1>2. Tiles(a, R, K) /\ r \in R /\ q \in R
  BY <1>1 DEF Laid
<1>3. /\ r \in Int /\ q \in Int /\ Length(a, r) \in Nat /\ Length(a, q) \in Nat
      /\ Length(a, q) >= 1
  BY <1>2, TileEnds
<1>4. ASSUME q + Length(a, q) = r + h PROVE FALSE
  <2>1. PICK p \in Int : p = r + h - 1
    BY <1>3
  <2>2. p \in r .. r + Length(a, r) - 1 /\ p \in q .. q + Length(a, q) - 1
    BY <1>3, <1>4, <2>1
  <2>3. q = r
    BY <1>2, <2>2, TileOne
  <2> QED  BY <1>3, <1>4, <2>3
<1> QED  BY <1>4

SplitFrees(a, b, r, need) ==
  /\ FreeRuns(b) = (FreeRuns(a) \ {r}) \cup Rests(a.map, r, need)
  /\ SpareRuns(b) = SpareRuns(a)
  /\ b.clean = IF a.map[r].flags = {} THEN (a.clean \ {r}) \cup Rests(a.map, r, need) ELSE a.clean
  /\ b.dirty = IF a.map[r].flags = {} THEN a.dirty ELSE (a.dirty \ {r}) \cup Rests(a.map, r, need)

LEMMA RunSplitFree ==
  ASSUME NEW a, Typed(a), Sorted(a), NEW A, NEW K, Laid(a, A, FreeRuns(a), K),
         NEW r \in a.clean \cup a.dirty,
         NEW b, NEW need, NEW large, RunSplitFields(a, b, r, need, large),
         Rests(a.map, r, need) \cap FreeRuns(a) = {}
  PROVE  SplitFrees(a, b, r, need)
<1>1. Dirty(a.map[r]) = a.map[r].flags
  BY FreeLength DEF FreeRuns
<1>2. SpareRuns(b) = SpareRuns(a)
  BY DEF SpareRuns, RunSplitFields
<1>3. r \notin SpareRuns(a)
  BY DEF Sorted
<1>4. a.map[r].flags = {} => r \in a.clean /\ r \notin a.dirty
  BY DEF Sorted
<1>5. a.map[r].flags # {} => r \notin a.clean /\ r \in a.dirty
  BY DEF Sorted
<1>6. /\ b.clean = IF a.map[r].flags = {} THEN (a.clean \ {r}) \cup Rests(a.map, r, need) ELSE a.clean
      /\ b.dirty = IF a.map[r].flags = {} THEN a.dirty ELSE (a.dirty \ {r}) \cup Rests(a.map, r, need)
  BY <1>1 DEF RunSplitFields
<1>7. FreeRuns(b) = (FreeRuns(a) \ {r}) \cup Rests(a.map, r, need)
  BY <1>2, <1>3, <1>4, <1>5, <1>6 DEF FreeRuns
<1> QED  BY <1>2, <1>6, <1>7 DEF SplitFrees

SplitRuns(a, b, A, r, need) ==
  /\ FreeRuns(b) = (FreeRuns(a) \ {r}) \cup Rests(a.map, r, need)
  /\ Rests(a.map, r, need) \cap FreeRuns(a) = {}
  /\ \A q \in A \cup FreeRuns(a) : q # r => Same(a, b, q)

LEMMA RunSplitGood ==
  ASSUME NEW a, NEW A, NEW K, Good(a, A, K), NEW r \in a.clean \cup a.dirty,
         NEW need \in Nat, need >= 1, need <= a.map[r].size, NEW large \in BOOLEAN,
         large \/ need = RunPages,
         NEW b, b = RunSplit(a, r, need, large)
  PROVE  /\ Good(b, A \cup {r}, K) /\ r \notin A
         /\ SplitOut(a, b, r, need, large) /\ RunSplitFields(a, b, r, need, large)
         /\ SplitRuns(a, b, A, r, need)
         /\ \A q \in A : Same(a, b, q)
<1> DEFINE rest == Rests(a.map, r, need)
           F == FreeRuns(a)
<1>1. Typed(a) /\ Laid(a, A, F, K) /\ Sorted(a) /\ Apart(a, F) /\ Listed(a, K) /\ K \subseteq a.mapped
  BY DEF Good
<1>2. r \in F /\ r \in Pages /\ r \notin A /\ Length(a, r) = a.map[r].size
  BY <1>1, FreeLength DEF FreeRuns
<1>3. RunSplitFields(a, b, r, need, large)
  BY <1>1, <1>2, RunSplitIs
<1>4. b.map = Split(a.map, r, need, large)
  BY <1>3 DEF RunSplitFields
<1>50. SplitGives(a, b, A, F, K, r, need, large)
  BY <1>1, <1>2, <1>4, SplitLaid
<1>5. /\ Laid(b, A \cup {r}, (F \ {r}) \cup rest, K)
      /\ SplitOut(a, b, r, need, large)
      /\ Changes(a, b, {r}, A \cup F)
      /\ rest \cap (A \cup F) = {}
      /\ rest \subseteq Pages
  BY <1>50 DEF SplitGives
<1>6. Typed(b)
  BY <1>1, <1>2, <1>5, RunSplitTyped
<1>70. SplitFrees(a, b, r, need)
  BY <1>1, <1>3, <1>5, RunSplitFree
<1>7. /\ FreeRuns(b) = (F \ {r}) \cup rest
      /\ SpareRuns(b) = SpareRuns(a)
      /\ b.clean = IF a.map[r].flags = {} THEN (a.clean \ {r}) \cup rest ELSE a.clean
      /\ b.dirty = IF a.map[r].flags = {} THEN a.dirty ELSE (a.dirty \ {r}) \cup rest
  BY <1>70 DEF SplitFrees
<1>8. \A q \in A \cup F : q # r => Same(a, b, q)
  BY <1>1, <1>5, SameBeside
<1>9. \A q \in F \ {r} : b.map[q] = a.map[q] /\ Length(b, q) = Length(a, q)
  BY <1>8 DEF Same
<1>10. \A s \in rest : b.map[s].flags = a.map[r].flags /\ b.map[s].size = a.map[r].size - need
  BY <1>5 DEF SplitOut, Elem
<1>11. Sorted(b)
  <2>1. \A q \in b.clean : b.map[q].flags = {}
    BY <1>1, <1>7, <1>9, <1>10 DEF Sorted, FreeRuns
  <2>2. \A q \in b.dirty : b.map[q].flags = {"dirty"}
    <3>1. a.map[r].flags # {} => a.map[r].flags = {"dirty"}
      BY <1>1, <1>2, FreeLength DEF FreeFlags
    <3> QED  BY <1>1, <1>7, <1>9, <1>10, <3>1 DEF Sorted, FreeRuns
  <2>3. \A q \in SpareRuns(b) : q \notin b.clean \cup b.dirty /\ b.map[q].size = NP
    <3>1. \A q \in SpareRuns(a) : q \in F \ {r} /\ q \notin rest
      BY <1>1, <1>5 DEF Sorted, FreeRuns
    <3> QED  BY <1>1, <1>7, <1>9, <3>1 DEF Sorted
  <2> QED  BY <2>1, <2>2, <2>3 DEF Sorted
<1>12. Apart(b, (F \ {r}) \cup rest)
  <2> SUFFICES ASSUME NEW q \in (F \ {r}) \cup rest, NEW u \in (F \ {r}) \cup rest,
                      u = q + Length(b, q), Base(u) = Base(q)
               PROVE  b.map[u].flags # b.map[q].flags
    BY DEF Apart
  <2>1. CASE q \in F \ {r} /\ u \in F \ {r}
    BY <1>1, <1>9, <2>1 DEF Apart
  <2>2. CASE q \in F \ {r} /\ u \in rest
    <3>1. u = r + need /\ need < Length(a, r)
      BY <1>2, <2>2 DEF Rests
    <3>2. q + Length(a, q) # r + need
      BY <1>1, <1>2, <2>2, <3>1, NoneEndsIn
    <3> QED  BY <1>9, <2>2, <3>1, <3>2
  <2>3. CASE q \in rest
    <3>1. q = r + need /\ need < Length(a, r) /\ Length(b, q) = Length(a, r) - need
      <4>1. q = r + need /\ need < Length(a, r)
        BY <1>2, <2>3 DEF Rests
      <4>2. q \in FreeRuns(b)
        BY <1>7, <2>3
      <4>3. Length(b, q) = b.map[q].size
        BY <1>5, <1>6, <1>7, <4>2, FreeLength
      <4> QED  BY <1>2, <1>10, <2>3, <4>1, <4>3
    <3>2. r \in Int /\ Length(a, r) \in Int
      BY <1>1, <1>2, LaidEnds
    <3>3. u = r + Length(a, r)
      BY <3>1, <3>2
    <3>4. u # q /\ u # r
      BY <3>1, <3>2, <3>3
    <3>5. u \in F \ {r}
      BY <2>3, <3>1, <3>4 DEF Rests
    <3>6. Base(q) = Base(r)
      <4>1. q \in r .. r + Length(a, r) - 1
        BY <3>1, <3>2
      <4> QED  BY <1>1, <1>2, <4>1, LaidSpan
    <3>7. a.map[u].flags # a.map[r].flags
      BY <1>1, <1>2, <3>3, <3>5, <3>6 DEF Apart
    <3> QED  BY <1>9, <1>10, <2>3, <3>5, <3>7
  <2> QED  BY <2>1, <2>2, <2>3
<1>13. Listed(b, K) /\ K \subseteq b.mapped
  BY <1>1, <1>3 DEF Listed, RunSplitFields
<1>14. Good(b, A \cup {r}, K)
  BY <1>5, <1>6, <1>7, <1>11, <1>12, <1>13 DEF Good
<1>15. \A q \in A : Same(a, b, q)
  BY <1>2, <1>8
<1>16. SplitRuns(a, b, A, r, need)
  BY <1>5, <1>7, <1>8 DEF SplitRuns
<1> QED  BY <1>2, <1>3, <1>5, <1>14, <1>15, <1>16

-----------------------------------------------------------------------------
(* The trims.                                                              *)

(* But for the map, and what the pages hold, b is a. *)
MapOnly(a, b) ==
  /\ b.clean = a.clean /\ b.dirty = a.dirty /\ b.chunks_dirty = a.chunks_dirty
  /\ b.dirtied = a.dirtied /\ b.cdirty = a.cdirty /\ b.spare = a.spare
  /\ b.released = a.released /\ b.mapped = a.mapped /\ b.nactive = a.nactive
  /\ b.ndirty = a.ndirty /\ b.npurgatory = a.npurgatory

LEMMA FreeBeside ==
  ASSUME NEW a, NEW b, NEW A, NEW K, Good(a, A, K), MapOnly(a, b),
         \A q \in FreeRuns(a) : Same(a, b, q)
  PROVE  FreeRuns(b) = FreeRuns(a) /\ Sorted(b) /\ Apart(b, FreeRuns(a)) /\ Listed(b, K)
         /\ K \subseteq b.mapped
<1>1. FreeRuns(b) = FreeRuns(a) /\ SpareRuns(b) = SpareRuns(a)
  BY DEF FreeRuns, SpareRuns, MapOnly
<1>2. \A q \in FreeRuns(a) : b.map[q] = a.map[q] /\ Length(b, q) = Length(a, q)
  BY DEF Same
<1>3. Sorted(b)
  <2>1. Sorted(a)
    BY DEF Good
  <2>2. \A q \in a.clean \cup a.dirty \cup SpareRuns(a) : b.map[q] = a.map[q]
    BY <1>2 DEF FreeRuns
  <2> QED  BY <1>1, <2>1, <2>2 DEF Sorted, MapOnly
<1>4. Apart(b, FreeRuns(a))
  <2>1. Apart(a, FreeRuns(a))
    BY DEF Good
  <2> QED  BY <1>2, <2>1 DEF Apart
<1>5. Listed(b, K) /\ K \subseteq b.mapped
  BY DEF Listed, MapOnly, Good
<1> QED  BY <1>1, <1>3, <1>4, <1>5

CutMap(map, r, old, head, kept) ==
  LET fd == Dirty(map[r])
      end == Elem(0, Taken \cup fd)
  IN [map EXCEPT ![r + head - 1] = end, ![r] = Elem(head, Taken \cup fd),
                 ![r + old - 1] = end, ![r + head] = Elem(old - head, Taken \cup fd \cup kept)]

CutOut(a, b, r, old, head, kept) ==
  /\ b.map[r] = Elem(head, Taken \cup Dirty(a.map[r]))
  /\ b.map[r + head] = Elem(old - head, Taken \cup Dirty(a.map[r]) \cup kept)
  /\ Length(b, r) = head /\ Length(b, r + head) = old - head
  /\ MapOnly(a, b) /\ b.touched = a.touched

LEMMA CutIs ==
  ASSUME NEW a, Typed(a), NEW r, NEW old, NEW head, NEW kept,
         NEW b, b = Cut(a, r, old, head, kept)
  PROVE  /\ b.map = CutMap(a.map, r, old, head, kept)
         /\ MapOnly(a, b) /\ b.touched = a.touched /\ IsArena(b)
<1>1. IsArena(a)
  BY TypedIs
<1>2. b = [a EXCEPT !.map = CutMap(a.map, r, old, head, kept)]
  BY <1>1 DEF Cut, CutMap, IsArena
<1>3. b.map = CutMap(a.map, r, old, head, kept) /\ MapOnly(a, b) /\ b.touched = a.touched
  BY <1>1, <1>2 DEF IsArena, MapOnly
<1>4. IsArena(b)
  BY <1>1, <1>2 DEF IsArena
<1> QED  BY <1>3, <1>4

LEMMA CutGood ==
  ASSUME NEW a, NEW A, NEW K, Good(a, A, K), NEW r \in A, NEW head \in Nat, NEW old,
         old = Length(a, r), head >= 1, head < old, NEW kept \in FreeFlags,
         NEW b, b = Cut(a, r, old, head, kept)
  PROVE  /\ Good(b, A \cup {r + head}, K) /\ r + head \notin A /\ r + head \in Pages
         /\ CutOut(a, b, r, old, head, kept) /\ FreeRuns(b) = FreeRuns(a)
         /\ \A q \in A \cup FreeRuns(a) : q # r => Same(a, b, q)
<1> DEFINE fd == Dirty(a.map[r])
           F == FreeRuns(a)
<1>1. Typed(a) /\ Laid(a, A, F, K)
  BY DEF Good
<1>2. /\ b.map = CutMap(a.map, r, old, head, kept)
      /\ MapOnly(a, b) /\ b.touched = a.touched /\ IsArena(b)
  BY <1>1, CutIs
<1>3. /\ r \in Int /\ old \in Nat /\ old >= 1 /\ r \in Pages /\ r + old - 1 \in Pages
      /\ \A p \in r .. r + old - 1 : p \in Pages
  BY <1>1, LaidEnds, LaidSpan
<1>4. fd \in FreeFlags /\ a.map \in [Pages -> Elems]
  <2>1. a.map \in [Pages -> Elems]
    BY <1>1 DEF Typed
  <2> QED  BY <1>3, <2>1, DirtyIs
<1>5. r + head - 1 \in Pages /\ r + head \in Pages
  <2>1. r + head - 1 \in r .. r + old - 1 /\ r + head \in r .. r + old - 1
    BY <1>3
  <2> QED  BY <1>3, <2>1
<1>6. PICK end : end = Elem(0, Taken \cup fd)
  OBVIOUS
<1>7. PICK one : one = Elem(head, Taken \cup fd)
  OBVIOUS
<1>8. PICK two : two = Elem(old - head, Taken \cup fd \cup kept)
  OBVIOUS
<1>9. /\ end \in Elems /\ one \in Elems /\ two \in Elems
      /\ one.flags = Taken \cup fd /\ two.flags = Taken \cup fd \cup kept /\ end.flags = Taken \cup fd
      /\ one.size = head /\ two.size = old - head
  <2>1. (Taken \cup fd) \in SUBSET AllFlags /\ (Taken \cup fd \cup kept) \in SUBSET AllFlags
    BY <1>4 DEF Taken, AllFlags, FreeFlags
  <2>2. old - head \in Int
    BY <1>3
  <2> QED  BY <1>6, <1>7, <1>8, <2>1, <2>2, ElemTyped
<1>10. b.map = [a.map EXCEPT ![r + head - 1] = end, ![r] = one,
                             ![r + old - 1] = end, ![r + head] = two]
  BY <1>2, <1>6, <1>7, <1>8 DEF CutMap
<1>11. b.map \in [Pages -> Elems]
  BY <1>4, <1>9, <1>10
<1>12. /\ b.map[r] = one /\ b.map[r + head] = two
       /\ b.map[r + head - 1] \in {one, end}
       /\ b.map[r + old - 1] \in {two, end}
  BY <1>3, <1>4, <1>5, <1>10
<1>13. Typed(b)
  <2>1. FieldsTyped(a)
    BY <1>1, TypedIs
  <2>2. FieldsTyped(b)
    BY <1>2, <1>11, <2>1 DEF FieldsTyped, MapOnly
  <2> QED  BY <1>2, <2>2, TypedIs
<1>14. Changes(a, b, {r}, A \cup F)
  <2>1. ASSUME NEW p \in Pages, p \notin r .. r + old - 1 PROVE b.map[p] = a.map[p]
    <3>1. p # r /\ p # r + head /\ p # r + head - 1 /\ p # r + old - 1
      BY <1>3, <2>1
    <3> QED  BY <1>4, <1>10, <3>1
  <2> QED  BY <2>1 DEF Changes
<1>15. "large" \in one.flags /\ "large" \in two.flags /\ "allocated" \in one.flags
       /\ "allocated" \in two.flags /\ "allocated" \in end.flags
  BY <1>9 DEF Taken
<1>16. Length(b, r) = head /\ Length(b, r + head) = old - head
  BY <1>9, <1>12, <1>15 DEF Length, RunSize, IsFree
<1>17. PICK s : s = r + head
  OBVIOUS
<1>18. s + Length(b, s) - 1 = r + old - 1
  BY <1>3, <1>16, <1>17
<1>19. AllocRun(b, r) /\ AllocRun(b, s)
  BY <1>12, <1>15, <1>16, <1>17, <1>18 DEF AllocRun
<1>20. s \notin A \cup F
  <2>1. PICK R : R = A \cup F
    OBVIOUS
  <2>2. Tiles(a, R, K) /\ r \in R
    BY <1>1, <2>1 DEF Laid
  <2>3. \A q \in R : q \in Int /\ (r < q => r + old <= q)
    BY <2>2, TileEnds DEF Tiles
  <2> QED  BY <1>3, <1>17, <2>1, <2>3
<1>21. r \notin F
  BY <1>1, AllocLength
<1>22. Kind(b, r, A \cup {s}, F) /\ Kind(b, s, A \cup {s}, F)
  BY <1>19, <1>20, <1>21 DEF Kind
<1>23. Laid(b, A \cup {s}, F, K)
  <2>1. PICK A1 : A1 = A \cup {s}
    OBVIOUS
  <2>2. A1 \ {r, s} = A \ {r} /\ F \ {r, s} = F \ {r}
    BY <1>20, <1>21, <2>1
  <2>3. Kind(b, r, A1, F) /\ Kind(b, s, A1, F)
    BY <1>22, <2>1
  <2>4. Laid(b, A1, F, K)
    BY <1>1, <1>14, <1>16, <1>17, <2>2, <2>3, LaidSplit
  <2> QED  BY <2>1, <2>4
<1>24. \A q \in A \cup F : q # r => Same(a, b, q)
  BY <1>1, <1>14, SameBeside
<1>25. \A q \in F : Same(a, b, q)
  BY <1>21, <1>24
<1>26. FreeRuns(b) = F /\ Sorted(b) /\ Apart(b, F) /\ Listed(b, K) /\ K \subseteq b.mapped
  BY <1>2, <1>25, FreeBeside
<1>27. Good(b, A \cup {s}, K)
  BY <1>13, <1>23, <1>26 DEF Good
<1>28. CutOut(a, b, r, old, head, kept)
  BY <1>2, <1>7, <1>8, <1>12, <1>16 DEF CutOut
<1> QED  BY <1>5, <1>17, <1>20, <1>24, <1>26, <1>27, <1>28

-----------------------------------------------------------------------------
(* arena_run_dalloc.                                                       *)

Fwd(a, r, n, fd) == r + n \in Of(Base(r)) /\ Absorbs(a, r + n, fd)
Bwd(a, r, fd) == r - 1 \in Of(Base(r)) /\ Absorbs(a, r - 1, fd)

Follows(a, F, r, s, fd) ==
  s \in F /\ s = r + Length(a, r) /\ Base(s) = Base(r) /\ a.map[s].flags = fd

LEMMA InOf ==
  ASSUME NEW r \in Pages, NEW p \in Int
  PROVE  p \in Of(Base(r)) <=> Base(p) = Base(r)
<1>1. r \in Int /\ Base(r) \in Chunks /\ Base(r) \in Int
  <2>1. r \in Int
    BY DEF Pages
  <2> QED  BY <2>1, PageIs, BaseIs
<1>2. PICK c \in Chunks : c = Base(r)
  BY <1>1
<1>3. Of(c) = {x \in Pages : Base(x) = c}
  BY ChunkSpan
<1>4. Base(p) = c => p \in Pages
  BY PageIs
<1> QED  BY <1>2, <1>3, <1>4

LEMMA FwdIs ==
  ASSUME NEW a, NEW A, NEW F, NEW K, Typed(a), Laid(a, A, F, K), NEW r \in A \cup F,
         NEW fd \in FreeFlags
  PROVE  /\ Fwd(a, r, Length(a, r), fd) => Follows(a, F, r, r + Length(a, r), fd)
         /\ ~Fwd(a, r, Length(a, r), fd) => \A s \in F : ~Follows(a, F, r, s, fd)
<1>1. /\ r \in Int /\ Length(a, r) \in Nat /\ Length(a, r) >= 1 /\ r \in Pages
      /\ r + Length(a, r) \in Int
  BY LaidEnds
<1>2. ASSUME Fwd(a, r, Length(a, r), fd)
      PROVE  Follows(a, F, r, r + Length(a, r), fd)
  <2>1. PICK s : s = r + Length(a, r)
    OBVIOUS
  <2>2. Base(s) = Base(r)
    BY <1>1, <1>2, <2>1, InOf DEF Fwd
  <2>3. s \in A \cup F
    <3>1. PICK R : R = A \cup F
      OBVIOUS
    <3>2. Tiles(a, R, K) /\ r \in R
      BY <3>1 DEF Laid
    <3> QED  BY <2>1, <2>2, <3>1, <3>2, TileNext
  <2>4. IsFree(a.map[s]) /\ Dirty(a.map[s]) = fd
    BY <1>2, <2>1 DEF Fwd, Absorbs
  <2>5. s \in F
    BY <2>3, <2>4, AllocLength
  <2>6. a.map[s].flags = fd
    BY <2>4, <2>5, FreeLength
  <2> QED  BY <2>1, <2>2, <2>5, <2>6 DEF Follows
<1>3. ASSUME NEW s \in F, Follows(a, F, r, s, fd)
      PROVE  Fwd(a, r, Length(a, r), fd)
  <2>1. s = r + Length(a, r) /\ Base(s) = Base(r) /\ a.map[s].flags = fd
    BY <1>3 DEF Follows
  <2>2. s \in Of(Base(r))
    BY <1>1, <2>1, InOf
  <2>3. IsFree(a.map[s]) /\ Dirty(a.map[s]) = fd
    BY <2>1, FreeLength
  <2> QED  BY <2>1, <2>2, <2>3 DEF Fwd, Absorbs
<1> QED  BY <1>2, <1>3

Precedes(a, F, r, q, fd) ==
  /\ q \in F /\ q + Length(a, q) = r /\ Base(q) = Base(r) /\ a.map[q].flags = fd
  /\ a.map[r - 1] = a.map[q]

LEMMA BwdIs ==
  ASSUME NEW a, NEW A, NEW F, NEW K, Typed(a), Laid(a, A, F, K), NEW r \in A \cup F,
         NEW fd \in FreeFlags
  PROVE  /\ Bwd(a, r, fd) => Precedes(a, F, r, r - a.map[r - 1].size, fd)
         /\ ~Bwd(a, r, fd) =>
              \A q \in F : ~(q + Length(a, q) = r /\ Base(q) = Base(r) /\ a.map[q].flags = fd)
<1>1. r \in Int /\ r - 1 \in Int /\ r \in Pages
  BY LaidEnds
<1>2. ASSUME Bwd(a, r, fd) PROVE Precedes(a, F, r, r - a.map[r - 1].size, fd)
  <2>1. Base(r - 1) = Base(r)
    BY <1>1, <1>2, InOf DEF Bwd
  <2>2. PICK q \in A \cup F : q + Length(a, q) = r /\ Base(q) = Base(r) /\ q < r
    <3>1. PICK R : R = A \cup F
      OBVIOUS
    <3>2. Tiles(a, R, K) /\ r \in R
      BY <3>1 DEF Laid
    <3> QED  BY <2>1, <3>1, <3>2, TileBefore
  <2>3. q \in Int /\ Length(a, q) \in Nat /\ q + Length(a, q) - 1 = r - 1
    BY <1>1, <2>2, LaidEnds
  <2>4. IsFree(a.map[r - 1]) /\ Dirty(a.map[r - 1]) = fd
    BY <1>2 DEF Bwd, Absorbs
  <2>5. q \in F
    BY <2>2, <2>3, <2>4, AllocLength
  <2>6. /\ Length(a, q) = a.map[q].size /\ Dirty(a.map[q]) = a.map[q].flags
        /\ a.map[q + a.map[q].size - 1] = a.map[q]
    BY <2>5, FreeLength
  <2>7. a.map[r - 1] = a.map[q]
    BY <2>3, <2>6
  <2>8. q = r - a.map[r - 1].size
    BY <1>1, <2>2, <2>3, <2>6, <2>7
  <2>9. Precedes(a, F, r, q, fd)
    BY <2>2, <2>4, <2>5, <2>6, <2>7 DEF Precedes
  <2> QED  BY <2>8, <2>9
<1>3. ASSUME NEW q \in F, q + Length(a, q) = r, Base(q) = Base(r), a.map[q].flags = fd
      PROVE  Bwd(a, r, fd)
  <2>1. q \in Int /\ Length(a, q) \in Nat /\ Length(a, q) >= 1
    BY LaidEnds
  <2>2. /\ Length(a, q) = a.map[q].size /\ Dirty(a.map[q]) = a.map[q].flags
        /\ IsFree(a.map[q]) /\ a.map[q + a.map[q].size - 1] = a.map[q]
    BY FreeLength
  <2>3. PICK p : p = r - 1
    OBVIOUS
  <2>4. p = q + a.map[q].size - 1 /\ p \in q .. q + Length(a, q) - 1
    BY <1>1, <1>3, <2>1, <2>2, <2>3
  <2>5. Base(p) = Base(q) /\ p \in Pages
    BY <2>4, LaidSpan
  <2>6. p \in Of(Base(r))
    BY <1>1, <1>3, <2>3, <2>5, InOf
  <2>7. a.map[p] = a.map[q]
    BY <2>2, <2>4
  <2> QED  BY <1>3, <2>2, <2>3, <2>6, <2>7 DEF Bwd, Absorbs
<1> QED  BY <1>2, <1>3

(* A run is freed in steps: it turns free, it is joined with its neighbours.*)

LEMMA MapTyped ==
  ASSUME NEW a, Typed(a), NEW m \in [Pages -> Elems]
  PROVE  Typed([a EXCEPT !.map = m]) /\ [a EXCEPT !.map = m].map = m /\ MapOnly(a, [a EXCEPT !.map = m])
<1>1. IsArena(a) /\ FieldsTyped(a)
  BY TypedIs
<1>2. PICK b : b = [a EXCEPT !.map = m]
  OBVIOUS
<1>3. IsArena(b) /\ b.map = m /\ MapOnly(a, b) /\ b.touched = a.touched
  BY <1>1, <1>2 DEF IsArena, MapOnly
<1>4. FieldsTyped(b)
  BY <1>1, <1>3 DEF FieldsTyped, MapOnly
<1> QED  BY <1>2, <1>3, <1>4, TypedIs

LEMMA FramedIs ==
  ASSUME NEW map \in [Pages -> Elems], NEW r \in Pages, NEW n \in Nat, n >= 1,
         r + n - 1 \in Pages, NEW fd \in FreeFlags
  PROVE  LET m == Framed(map, r, n, fd) IN
         /\ m \in [Pages -> Elems] /\ m[r] = Elem(n, fd) /\ m[r + n - 1] = Elem(n, fd)
         /\ \A p \in Pages : p \notin r .. r + n - 1 => m[p] = map[p]
<1>1. PICK e \in Elems : e = Elem(n, fd)
  <2>1. fd \in SUBSET AllFlags
    BY DEF FreeFlags, AllFlags
  <2> QED  BY <2>1, ElemTyped
<1>2. PICK last \in Pages : last = r + n - 1
  OBVIOUS
<1>3. Framed(map, r, n, fd) = [map EXCEPT ![r] = e, ![last] = e]
  BY <1>1, <1>2 DEF Framed
<1>4. r \in r .. r + n - 1 /\ last \in r .. r + n - 1
  BY <1>2 DEF Pages
<1> QED  BY <1>1, <1>2, <1>3, <1>4

(* r is free in b: of n pages, with flags fd. *)
IsFreeRun(b, r, n, fd) == /\ FreeRun(b, r) /\ Length(b, r) = n /\ b.map[r] = Elem(n, fd)

LEMMA FreeRunIs ==
  ASSUME NEW b, NEW r, NEW n, NEW fd \in FreeFlags, b.map[r] = Elem(n, fd),
         b.map[r + n - 1] = Elem(n, fd)
  PROVE  IsFreeRun(b, r, n, fd)
<1>1. b.map[r].flags = fd /\ b.map[r].size = n
  BY DEF Elem
<1>2. Length(b, r) = n
  BY <1>1 DEF Length, IsFree, FreeFlags
<1> QED  BY <1>1, <1>2 DEF IsFreeRun, FreeRun

LEMMA TurnFree ==
  ASSUME NEW a, NEW A, NEW F, NEW K, Typed(a), Laid(a, A, F, K), NEW r \in A,
         NEW fd \in FreeFlags, NEW b, b.map = Framed(a.map, r, Length(a, r), fd)
  PROVE  /\ Laid(b, A \ {r}, F \cup {r}, K) /\ IsFreeRun(b, r, Length(a, r), fd)
         /\ b.map \in [Pages -> Elems] /\ Changes(a, b, {r}, A \cup F)
<1> DEFINE n == Length(a, r)
<1>1. r \in Pages /\ n \in Nat /\ n >= 1 /\ r + n - 1 \in Pages
  BY LaidEnds
<1>2. a.map \in [Pages -> Elems]
  BY DEF Typed
<1>3. /\ b.map \in [Pages -> Elems] /\ b.map[r] = Elem(n, fd) /\ b.map[r + n - 1] = Elem(n, fd)
      /\ \A p \in Pages : p \notin r .. r + n - 1 => b.map[p] = a.map[p]
  BY <1>1, <1>2, FramedIs
<1>4. IsFreeRun(b, r, n, fd)
  BY <1>3, FreeRunIs
<1>5. Changes(a, b, {r}, A \cup F)
  BY <1>3 DEF Changes
<1>6. Laid(b, A \ {r}, F \cup {r}, K)
  <2>1. PICK D, A1, F1 : D = {r} /\ A1 = A \ {r} /\ F1 = F \cup {r}
    OBVIOUS
  <2>2. Changes(a, b, D, A \cup F) /\ A1 \ D = A \ D /\ F1 \ D = F \ D
    BY <1>5, <2>1
  <2>3. \A d \in D : Length(b, d) = Length(a, d) /\ Kind(b, d, A1, F1)
    BY <1>4, <2>1 DEF Kind, IsFreeRun
  <2>4. Laid(b, A1, F1, K)
    BY <2>2, <2>3, LaidTurn
  <2> QED  BY <2>1, <2>4
<1> QED  BY <1>3, <1>4, <1>5, <1>6

JoinGives(a, b, A, F, K, r, s, n, fd) ==
  /\ Laid(b, A, F \ {s}, K) /\ IsFreeRun(b, r, n, fd)
  /\ b.map \in [Pages -> Elems] /\ Changes(a, b, {r, s}, A \cup F)

LEMMA JoinFree ==
  ASSUME NEW a, NEW A, NEW F, NEW K, Typed(a), Laid(a, A, F, K), NEW r \in F, NEW s \in F,
         s = r + Length(a, r), Base(s) = Base(r),
         NEW fd \in FreeFlags, NEW n, n = Length(a, r) + Length(a, s),
         NEW b, b.map = Framed(a.map, r, n, fd)
  PROVE  JoinGives(a, b, A, F, K, r, s, n, fd)
<1>1. /\ r \in Int /\ r \in Pages /\ Length(a, r) \in Nat /\ Length(a, r) >= 1
      /\ s \in Int /\ s \in Pages /\ Length(a, s) \in Nat /\ Length(a, s) >= 1
      /\ s + Length(a, s) - 1 \in Pages
  BY LaidEnds
<1>2. n \in Nat /\ n >= 1 /\ r + n - 1 = s + Length(a, s) - 1 /\ r + n - 1 \in Pages /\ r # s
  BY <1>1
<1>3. a.map \in [Pages -> Elems]
  BY DEF Typed
<1>4. /\ b.map \in [Pages -> Elems] /\ b.map[r] = Elem(n, fd) /\ b.map[r + n - 1] = Elem(n, fd)
      /\ \A p \in Pages : p \notin r .. r + n - 1 => b.map[p] = a.map[p]
  BY <1>1, <1>2, <1>3, FramedIs
<1>5. IsFreeRun(b, r, n, fd)
  BY <1>4, FreeRunIs
<1>6. Changes(a, b, {r, s}, A \cup F)
  <2>1. ASSUME NEW p \in Pages, b.map[p] # a.map[p]
        PROVE  p \in r .. r + Length(a, r) - 1 \/ p \in s .. s + Length(a, s) - 1
    <3>1. p \in r .. r + n - 1
      BY <1>4, <2>1
    <3> QED  BY <1>1, <1>2, <3>1
  <2> QED  BY <2>1 DEF Changes
<1>7. r \notin A /\ s \notin A
  BY FreeLength
<1>8. Laid(b, A, F \ {s}, K)
  <2>1. PICK F1 : F1 = F \ {s}
    OBVIOUS
  <2>2. A \ {r} = A \ {r, s} /\ F1 \ {r} = F \ {r, s}
    BY <1>7, <2>1
  <2>3. Kind(b, r, A, F1)
    BY <1>2, <1>5, <1>7, <2>1 DEF Kind, IsFreeRun
  <2>4. Length(b, r) = Length(a, r) + Length(a, s)
    BY <1>5 DEF IsFreeRun
  <2>5. Laid(b, A, F1, K)
    BY <1>6, <2>2, <2>3, <2>4, LaidJoin
  <2> QED  BY <2>1, <2>5
<1> QED  BY <1>4, <1>5, <1>6, <1>8 DEF JoinGives

LEMMA FrameAgain ==
  ASSUME NEW a, NEW A, NEW F, NEW K, Typed(a), Laid(a, A, F, K), NEW r \in F, NEW fd,
         a.map[r] = Elem(Length(a, r), fd)
  PROVE  Framed(a.map, r, Length(a, r), fd) = a.map
<1>1. a.map[r + Length(a, r) - 1] = a.map[r] /\ a.map \in [Pages -> Elems]
  BY FreeLength DEF Typed
<1> QED  BY <1>1 DEF Framed

LEMMA InnerLaid ==
  ASSUME NEW a, NEW A, NEW F, NEW K, Typed(a), Laid(a, A, F, K), NEW r \in A \cup F,
         NEW b, b.map = Inner(a.map, r, Length(a, r))
  PROVE  /\ Laid(b, A, F, K) /\ \A q \in A \cup F : Same(a, b, q)
         /\ b.map \in [Pages -> Elems]
<1> DEFINE n == Length(a, r)
           new == [p \in r + 1 .. r + n - 2 |-> Elem(0, Dirty(a.map[p]))]
<1>1. /\ r \in Int /\ r \in Pages /\ n \in Nat /\ n >= 1 /\ r + n - 1 \in Pages
      /\ \A p \in r .. r + n - 1 : p \in Pages
  BY LaidEnds, LaidSpan
<1>2. a.map \in [Pages -> Elems]
  BY DEF Typed
<1>3. ASSUME NEW p \in r + 1 .. r + n - 2 PROVE Elem(0, Dirty(a.map[p])) \in Elems
  <2>1. p \in r .. r + n - 1
    BY <1>1
  <2>2. Dirty(a.map[p]) \in SUBSET AllFlags
    BY <1>1, <1>2, <2>1, DirtyIs
  <2> QED  BY <2>2, ElemTyped
<1>4. b.map = Written(a.map, new)
  BY DEF Inner
<1>5. b.map \in [Pages -> Elems]
  BY <1>2, <1>3, <1>4, WrittenTyped
<1>6. \A p \in Pages : p \notin r + 1 .. r + n - 2 => b.map[p] = a.map[p]
  BY <1>4 DEF Written
<1>7. Changes(a, b, {r}, A \cup F)
  <2>1. \A p \in Pages : p \notin r .. r + n - 1 => p \notin r + 1 .. r + n - 2
    BY <1>1
  <2> QED  BY <1>6, <2>1 DEF Changes
<1>8. b.map[r] = a.map[r] /\ b.map[r + n - 1] = a.map[r + n - 1]
  BY <1>1, <1>6
<1>9. Length(b, r) = n
  BY <1>8 DEF Length, RunSize
<1>10. Kind(b, r, A, F)
  <2>1. Kind(a, r, A, F)
    BY DEF Laid
  <2> QED  BY <1>8, <1>9, <2>1 DEF Kind, AllocRun, FreeRun
<1>11. Laid(b, A, F, K)
  <2>1. PICK D : D = {r}
    OBVIOUS
  <2>2. Changes(a, b, D, A \cup F) /\ \A d \in D : Length(b, d) = Length(a, d) /\ Kind(b, d, A, F)
    BY <1>7, <1>9, <1>10, <2>1
  <2> QED  BY <2>2, LaidTurn
<1>12. Same(a, b, r)
  BY <1>8, <1>9 DEF Same
<1>13. \A q \in A \cup F : q # r => Same(a, b, q)
  BY <1>7, SameBeside
<1> QED  BY <1>5, <1>11, <1>12, <1>13

(* b is a after run r was freed: x, of n pages, is the free run it is now  *)
(* part of, and the free runs in gone are part of that, too.               *)
FreedTo(a, b, A, F, K, r, x, n, gone, fd) ==
  /\ Typed(b) /\ Laid(b, A \ {r}, (F \ gone) \cup {x}, K) /\ IsFreeRun(b, x, n, fd)
  /\ gone \subseteq F /\ \A g \in gone : a.map[g].flags = fd /\ Base(g) = Base(r)
  /\ Base(x) = Base(r)
  /\ \A q \in (A \ {r}) \cup (F \ gone) : q # x => Same(a, b, q)

LEMMA SameTrans ==
  ASSUME NEW a, NEW b, NEW c, NEW q, Same(a, b, q), Same(b, c, q)
  PROVE  Same(a, c, q)
BY DEF Same

LEMMA FreedTurn ==
  ASSUME NEW a, NEW A, NEW F, NEW K, Typed(a), Laid(a, A, F, K), NEW r \in A,
         NEW fd \in FreeFlags, NEW b, b = [a EXCEPT !.map = Framed(a.map, r, Length(a, r), fd)]
  PROVE  FreedTo(a, b, A, F, K, r, r, Length(a, r), {}, fd)
<1>1. PICK c : c = [map |-> Framed(a.map, r, Length(a, r), fd)]
  OBVIOUS
<1>2. c.map \in [Pages -> Elems]
  BY <1>1, TurnFree
<1>3. Typed(b) /\ b.map = Framed(a.map, r, Length(a, r), fd)
  BY <1>1, <1>2, MapTyped
<1>4. /\ Laid(b, A \ {r}, F \cup {r}, K) /\ IsFreeRun(b, r, Length(a, r), fd)
      /\ Changes(a, b, {r}, A \cup F)
  BY <1>3, TurnFree
<1>5. \A q \in A \cup F : q # r => Same(a, b, q)
  BY <1>4, SameBeside
<1>6. F \ {} = F
  OBVIOUS
<1> QED  BY <1>3, <1>4, <1>5, <1>6 DEF FreedTo

LEMMA FreedForward ==
  ASSUME NEW a, NEW A, NEW F, NEW K, Typed(a), Laid(a, A, F, K), NEW r \in A,
         NEW fd \in FreeFlags, NEW n, n = Length(a, r), NEW f, f = MergeForward(a, r, n, fd),
         NEW c, FreedTo(a, c, A, F, K, r, r, n, {}, fd),
         NEW b, b = [c EXCEPT !.map = Framed(c.map, r, f.len, fd)]
  PROVE  FreedTo(a, b, A, F, K, r, r, f.len, f.gone, fd) /\ f.from = r /\ f.len \in Nat
<1>1. /\ Typed(c) /\ Laid(c, A \ {r}, F \cup {r}, K) /\ IsFreeRun(c, r, n, fd)
      /\ \A q \in (A \ {r}) \cup F : q # r => Same(a, c, q)
  BY DEF FreedTo
<1>2. r \notin F
  BY AllocLength
<1>3. PICK A1, F1 : A1 = A \ {r} /\ F1 = F \cup {r}
  OBVIOUS
<1>4. Laid(c, A1, F1, K) /\ r \in F1
  BY <1>1, <1>3
<1>5. Length(c, r) = n /\ c.map[r] = Elem(n, fd) /\ n \in Nat
  <2>1. n \in Nat
    BY LaidEnds
  <2> QED  BY <1>1, <2>1 DEF IsFreeRun
<1>6. CASE ~Fwd(a, r, n, fd)
  <2>1. f = [from |-> r, len |-> n + 0, gone |-> {}]
    BY <1>6 DEF MergeForward, Fwd
  <2>2. f.from = r /\ f.len = n /\ f.gone = {}
    BY <1>5, <2>1
  <2>3. Framed(c.map, r, n, fd) = c.map
    BY <1>1, <1>4, <1>5, FrameAgain
  <2>4. c.map \in [Pages -> Elems]
    BY <1>1 DEF Typed
  <2>5. b = c
    <3>1. IsArena(c)
      BY <1>1, TypedIs
    <3>2. b = [c EXCEPT !.map = c.map]
      BY <2>2, <2>3
    <3> QED  BY <3>1, <3>2 DEF IsArena
  <2> QED  BY <1>5, <2>2, <2>5
<1>7. CASE Fwd(a, r, n, fd)
  <2>1. PICK s : s = r + n
    OBVIOUS
  <2>2. s \in F /\ Base(s) = Base(r) /\ a.map[s].flags = fd
    BY <1>7, <2>1, FwdIs DEF Follows
  <2>3. Length(a, s) = a.map[s].size /\ s # r
    BY <1>2, <2>2, FreeLength
  <2>4. f = [from |-> r, len |-> n + Length(a, s), gone |-> {s}]
    BY <1>7, <2>1, <2>3 DEF MergeForward, Fwd
  <2>5. f.from = r /\ f.len = n + Length(a, s) /\ f.gone = {s}
    BY <2>4
  <2>6. Same(a, c, s)
    BY <1>1, <2>2, <2>3
  <2>7. Length(c, s) = Length(a, s) /\ Length(a, s) \in Nat
    <3>1. Length(a, s) \in Nat
      BY <2>2, LaidEnds
    <3> QED  BY <2>6, <3>1 DEF Same
  <2>8. s \in F1 /\ s = r + Length(c, r) /\ f.len = Length(c, r) + Length(c, s)
    BY <1>3, <1>5, <2>1, <2>2, <2>5, <2>7
  <2>9. PICK m : m = Framed(c.map, r, f.len, fd)
    OBVIOUS
  <2>10. m \in [Pages -> Elems]
    <3>1. PICK d : d = [map |-> m]
      OBVIOUS
    <3>2. d.map = Framed(c.map, r, f.len, fd)
      BY <2>9, <3>1
    <3>3. PICK len : len = f.len
      OBVIOUS
    <3>4. d.map = Framed(c.map, r, len, fd) /\ len = Length(c, r) + Length(c, s)
      BY <2>8, <3>2, <3>3
    <3>5. JoinGives(c, d, A1, F1, K, r, s, len, fd)
      BY <1>1, <1>4, <2>2, <2>8, <3>4, JoinFree
    <3>6. d.map \in [Pages -> Elems]
      BY <3>5 DEF JoinGives
    <3> QED  BY <3>1, <3>6
  <2>11. Typed(b) /\ b.map = Framed(c.map, r, f.len, fd)
    BY <1>1, <2>9, <2>10, MapTyped
  <2>12. /\ Laid(b, A1, F1 \ {s}, K) /\ IsFreeRun(b, r, f.len, fd)
         /\ Changes(c, b, {r, s}, A1 \cup F1)
    <3>1. PICK len : len = f.len
      OBVIOUS
    <3>2. b.map = Framed(c.map, r, len, fd) /\ len = Length(c, r) + Length(c, s)
      BY <2>8, <2>11, <3>1
    <3>3. JoinGives(c, b, A1, F1, K, r, s, len, fd)
      BY <1>1, <1>4, <2>2, <2>8, <3>2, JoinFree
    <3> QED  BY <3>1, <3>3 DEF JoinGives
  <2>13. F1 \ {s} = (F \ {s}) \cup {r}
    BY <1>3, <2>3
  <2>14. \A q \in A1 \cup F1 : q \notin {r, s} => Same(c, b, q)
    <3>1. PICK D : D = {r, s}
      OBVIOUS
    <3>2. Changes(c, b, D, A1 \cup F1)
      BY <2>12, <3>1
    <3> QED  BY <1>4, <3>1, <3>2, SameBeside
  <2>15. s \notin A
    BY <2>2, FreeLength
  <2>16. ASSUME NEW q \in (A \ {r}) \cup (F \ {s}), q # r PROVE Same(a, b, q)
    <3>1. Same(a, c, q)
      BY <1>1, <2>16
    <3>2. q \in A1 \cup F1 /\ q \notin {r, s}
      BY <1>3, <2>15, <2>16
    <3> QED  BY <2>14, <3>1, <3>2, SameTrans
  <2>17. FreedTo(a, b, A, F, K, r, r, f.len, {s}, fd)
    BY <1>3, <2>2, <2>11, <2>12, <2>13, <2>16 DEF FreedTo
  <2> QED  BY <1>5, <2>5, <2>7, <2>17
<1> QED  BY <1>6, <1>7

LEMMA FreedBackward ==
  ASSUME NEW a, NEW A, NEW F, NEW K, Typed(a), Laid(a, A, F, K), NEW r \in A,
         NEW fd \in FreeFlags, NEW n, n = Length(a, r), NEW f, f = MergeForward(a, r, n, fd),
         NEW m, m = Merge(a, r, n, fd), f.from = r, f.len \in Nat,
         NEW c, FreedTo(a, c, A, F, K, r, r, f.len, f.gone, fd),
         NEW b, b = [c EXCEPT !.map = Framed(c.map, m.from, m.len, fd)]
  PROVE  FreedTo(a, b, A, F, K, r, m.from, m.len, m.gone, fd)
<1>1. /\ Typed(c) /\ Laid(c, A \ {r}, (F \ f.gone) \cup {r}, K) /\ IsFreeRun(c, r, f.len, fd)
      /\ f.gone \subseteq F /\ \A g \in f.gone : a.map[g].flags = fd /\ Base(g) = Base(r)
      /\ \A q \in (A \ {r}) \cup (F \ f.gone) : q # r => Same(a, c, q)
  BY DEF FreedTo
<1>2. r \notin F /\ r \in Int
  BY AllocLength, LaidEnds
<1>3. PICK A1, F1 : A1 = A \ {r} /\ F1 = (F \ f.gone) \cup {r}
  OBVIOUS
<1>4. Laid(c, A1, F1, K) /\ r \in F1
  BY <1>1, <1>3
<1>5. Length(c, r) = f.len /\ c.map[r] = Elem(f.len, fd)
  BY <1>1 DEF IsFreeRun
<1>6. CASE ~Bwd(a, r, fd)
  <2>1. m = f
    BY <1>6 DEF Merge, Bwd
  <2>2. Framed(c.map, r, f.len, fd) = c.map
    BY <1>1, <1>4, <1>5, FrameAgain
  <2>5. b = c
    <3>1. IsArena(c)
      BY <1>1, TypedIs
    <3>2. b = [c EXCEPT !.map = c.map]
      BY <2>1, <2>2
    <3> QED  BY <3>1, <3>2 DEF IsArena
  <2> QED  BY <2>1, <2>5
<1>7. CASE Bwd(a, r, fd)
  <2>1. PICK q : q = r - a.map[r - 1].size
    OBVIOUS
  <2>2. q \in F /\ q + Length(a, q) = r /\ Base(q) = Base(r) /\ a.map[q].flags = fd
        /\ a.map[r - 1] = a.map[q]
    BY <1>7, <2>1, BwdIs DEF Precedes
  <2>3. Length(a, q) = a.map[q].size /\ q # r /\ q \notin A
    BY <1>2, <2>2, FreeLength
  <2>31. q \in Int /\ Length(a, q) \in Nat /\ Length(a, q) >= 1
    BY <2>2, LaidEnds
  <2>4. m = [from |-> q, len |-> f.len + Length(a, q), gone |-> f.gone \cup {q}]
    BY <1>7, <2>1, <2>2, <2>3 DEF Merge, Bwd
  <2>5. m.from = q /\ m.len = f.len + Length(a, q) /\ m.gone = f.gone \cup {q}
    BY <2>4
  <2>51. q \notin f.gone
    <3>1. f.gone \subseteq {r + n}
      BY DEF MergeForward
    <3>2. n \in Nat
      BY LaidEnds
    <3>3. q # r + n
      BY <1>2, <2>2, <2>31, <3>2
    <3> QED  BY <3>1, <3>3
  <2>6. Same(a, c, q)
    BY <1>1, <2>2, <2>3, <2>51
  <2>7. Length(c, q) = Length(a, q)
    BY <2>6 DEF Same
  <2>8. q \in F1 /\ r = q + Length(c, q) /\ m.len = Length(c, q) + Length(c, r)
    BY <1>3, <1>5, <2>2, <2>31, <2>5, <2>51, <2>7
  <2>9. PICK e : e = Framed(c.map, q, m.len, fd)
    OBVIOUS
  <2>91. Base(r) = Base(q)
    BY <2>2
  <2>10. e \in [Pages -> Elems]
    <3>1. PICK d : d = [map |-> e]
      OBVIOUS
    <3>2. d.map = Framed(c.map, q, m.len, fd)
      BY <2>9, <3>1
    <3>3. PICK len : len = m.len
      OBVIOUS
    <3>4. d.map = Framed(c.map, q, len, fd) /\ len = Length(c, q) + Length(c, r)
      BY <2>8, <3>2, <3>3
    <3>5. JoinGives(c, d, A1, F1, K, q, r, len, fd)
      BY <1>1, <1>4, <2>91, <2>8, <3>4, JoinFree
    <3>6. d.map \in [Pages -> Elems]
      BY <3>5 DEF JoinGives
    <3> QED  BY <3>1, <3>6
  <2>11. Typed(b) /\ b.map = Framed(c.map, q, m.len, fd)
    BY <1>1, <2>5, <2>9, <2>10, MapTyped
  <2>12. /\ Laid(b, A1, F1 \ {r}, K) /\ IsFreeRun(b, q, m.len, fd)
         /\ Changes(c, b, {q, r}, A1 \cup F1)
    <3>1. PICK len : len = m.len
      OBVIOUS
    <3>2. b.map = Framed(c.map, q, len, fd) /\ len = Length(c, q) + Length(c, r)
      BY <2>8, <2>11, <3>1
    <3>3. JoinGives(c, b, A1, F1, K, q, r, len, fd)
      BY <1>1, <1>4, <2>91, <2>8, <3>2, JoinFree
    <3> QED  BY <3>1, <3>3 DEF JoinGives
  <2>13. F1 \ {r} = (F \ (f.gone \cup {q})) \cup {q}
    BY <1>2, <1>3, <2>2, <2>3, <2>51
  <2>14. \A u \in A1 \cup F1 : u \notin {q, r} => Same(c, b, u)
    <3>1. PICK D : D = {q, r}
      OBVIOUS
    <3>2. Changes(c, b, D, A1 \cup F1)
      BY <2>12, <3>1
    <3> QED  BY <1>4, <3>1, <3>2, SameBeside
  <2>16. ASSUME NEW u \in (A \ {r}) \cup (F \ (f.gone \cup {q})), u # q PROVE Same(a, b, u)
    <3>1. u # r /\ u \in (A \ {r}) \cup (F \ f.gone)
      BY <1>2, <2>16
    <3>2. Same(a, c, u)
      BY <1>1, <3>1
    <3>3. u \in A1 \cup F1 /\ u \notin {q, r}
      BY <1>3, <2>16, <3>1
    <3> QED  BY <2>14, <3>2, <3>3, SameTrans
  <2>17. f.gone \cup {q} \subseteq F /\ \A g \in f.gone \cup {q} : a.map[g].flags = fd /\ Base(g) = Base(r)
    BY <1>1, <2>2
  <2>18. FreedTo(a, b, A, F, K, r, q, m.len, f.gone \cup {q}, fd)
    BY <1>3, <2>2, <2>11, <2>12, <2>13, <2>16, <2>17 DEF FreedTo
  <2> QED  BY <2>5, <2>18
<1> QED  BY <1>6, <1>7

LEMMA ListAppend ==
  ASSUME NEW s \in Seq(Chunks), IsInjective(s), NEW c \in Chunks, c \notin Range(s)
  PROVE  /\ Append(s, c) \in Seq(Chunks) /\ IsInjective(Append(s, c))
         /\ Range(Append(s, c)) = Range(s) \cup {c}
<1>1. PICK u : u = Append(s, c)
  OBVIOUS
<1>2. u \in Seq(Chunks) /\ DOMAIN u = 1 .. Len(s) + 1 /\ Len(s) \in Nat /\ DOMAIN s = 1 .. Len(s)
  BY <1>1
<1>3. \A i \in 1 .. Len(s) + 1 : u[i] = IF i = Len(s) + 1 THEN c ELSE s[i]
  BY <1>1, <1>2
<1>4. Range(u) = Range(s) \cup {c}
  <2>1. ASSUME NEW x \in Range(s) PROVE x \in Range(u)
    <3>1. PICK i \in 1 .. Len(s) : x = s[i]
      BY <1>2, <2>1 DEF Range
    <3>2. i \in DOMAIN u /\ u[i] = x
      BY <1>2, <1>3, <3>1
    <3> QED  BY <3>2 DEF Range
  <2>2. c \in Range(u)
    <3>1. Len(s) + 1 \in DOMAIN u /\ u[Len(s) + 1] = c
      BY <1>2, <1>3
    <3> QED  BY <3>1 DEF Range
  <2>3. ASSUME NEW x \in Range(u) PROVE x \in Range(s) \cup {c}
    <3>1. PICK i \in 1 .. Len(s) + 1 : x = u[i]
      BY <1>2, <2>3 DEF Range
    <3>2. CASE i = Len(s) + 1
      BY <1>3, <3>1, <3>2
    <3>3. CASE i # Len(s) + 1
      <4>1. i \in DOMAIN s /\ x = s[i]
        BY <1>2, <1>3, <3>1, <3>3
      <4> QED  BY <4>1 DEF Range
    <3> QED  BY <3>2, <3>3
  <2> QED  BY <2>1, <2>2, <2>3
<1>5. IsInjective(u)
  <2> SUFFICES ASSUME NEW i \in 1 .. Len(s) + 1, NEW j \in 1 .. Len(s) + 1, u[i] = u[j] PROVE i = j
    BY <1>2 DEF IsInjective
  <2>1. \A k \in 1 .. Len(s) : s[k] # c
    BY <1>2 DEF Range
  <2>2. CASE i \in 1 .. Len(s) /\ j \in 1 .. Len(s)
    <3>1. s[i] = s[j]
      BY <1>2, <1>3, <2>2
    <3> QED  BY <1>2, <2>2, <3>1 DEF IsInjective
  <2> QED  BY <1>2, <1>3, <2>1, <2>2
<1> QED  BY <1>1, <1>2, <1>4, <1>5

(* The free runs next to the run that comes of it are not like it. *)
MergeEnds(a, F, r, m, fd) ==
  /\ \A v \in F : v = m.from + m.len /\ Base(v) = Base(r) => a.map[v].flags # fd
  /\ \A u \in F : u + Length(a, u) = m.from /\ Base(u) = Base(r) => a.map[u].flags # fd

LEMMA MergeIs ==
  ASSUME NEW a, NEW A, NEW F, NEW K, Typed(a), Laid(a, A, F, K), Apart(a, F), NEW r \in A,
         NEW fd \in FreeFlags, NEW n, n = Length(a, r),
         NEW m, m = Merge(a, r, n, fd)
  PROVE  MergeEnds(a, F, r, m, fd)
<1>1. PICK f : f = MergeForward(a, r, n, fd)
  OBVIOUS
<1>2. r \in Int /\ n \in Nat /\ n >= 1 /\ r \in Pages
  BY LaidEnds
<1>3. f.from = r /\ f.len \in Nat
      /\ \A v \in F : v = r + f.len /\ Base(v) = Base(r) => a.map[v].flags # fd
  <2>1. CASE ~Fwd(a, r, n, fd)
    <3>1. f = [from |-> r, len |-> n + 0, gone |-> {}]
      BY <1>1, <2>1 DEF MergeForward, Fwd
    <3>2. f.from = r /\ f.len = n
      BY <1>2, <3>1
    <3>3. \A v \in F : v = r + n /\ Base(v) = Base(r) => a.map[v].flags # fd
      BY <2>1, FwdIs DEF Follows
    <3> QED  BY <1>2, <3>2, <3>3
  <2>2. CASE Fwd(a, r, n, fd)
    <3>1. PICK s : s = r + n
      OBVIOUS
    <3>2. s \in F /\ Base(s) = Base(r) /\ a.map[s].flags = fd
      BY <2>2, <3>1, FwdIs DEF Follows
    <3>3. Length(a, s) = a.map[s].size /\ Length(a, s) \in Nat /\ s \in Int
      BY <3>2, FreeLength, LaidEnds
    <3>4. f = [from |-> r, len |-> n + Length(a, s), gone |-> {s}]
      BY <1>1, <2>2, <3>1, <3>3 DEF MergeForward, Fwd
    <3>5. f.from = r /\ f.len = n + Length(a, s) /\ f.len \in Nat
      BY <1>2, <3>3, <3>4
    <3>6. ASSUME NEW v \in F, v = r + f.len, Base(v) = Base(r) PROVE a.map[v].flags # fd
      <4>1. v = s + Length(a, s)
        BY <1>2, <3>1, <3>3, <3>5, <3>6
      <4> QED  BY <3>2, <3>6, <4>1 DEF Apart
    <3> QED  BY <3>5, <3>6
  <2> QED  BY <2>1, <2>2
<1>4. CASE ~Bwd(a, r, fd)
  <2>1. m = f
    BY <1>1, <1>4 DEF Merge, Bwd
  <2>2. \A u \in F : u + Length(a, u) = r /\ Base(u) = Base(r) => a.map[u].flags # fd
    BY <1>4, BwdIs
  <2> QED  BY <1>3, <2>1, <2>2 DEF MergeEnds
<1>5. CASE Bwd(a, r, fd)
  <2>1. PICK q : q = r - a.map[r - 1].size
    OBVIOUS
  <2>2. q \in F /\ q + Length(a, q) = r /\ Base(q) = Base(r) /\ a.map[q].flags = fd
        /\ a.map[r - 1] = a.map[q]
    BY <1>5, <2>1, BwdIs DEF Precedes
  <2>3. Length(a, q) = a.map[q].size /\ q \in Int /\ Length(a, q) \in Nat
    BY <2>2, FreeLength, LaidEnds
  <2>4. m = [from |-> q, len |-> f.len + Length(a, q), gone |-> f.gone \cup {q}]
    BY <1>1, <1>5, <2>1, <2>2, <2>3 DEF Merge, Bwd
  <2>5. m.from = q /\ m.len = f.len + Length(a, q)
    BY <2>4
  <2>6. m.from + m.len = r + f.len
    BY <1>2, <1>3, <2>2, <2>3, <2>5
  <2>7. \A u \in F : u + Length(a, u) = q /\ Base(u) = Base(r) => a.map[u].flags # fd
    BY <2>2 DEF Apart
  <2> QED  BY <1>3, <2>5, <2>6, <2>7 DEF MergeEnds
<1> QED  BY <1>4, <1>5

LEMMA SpareAlone ==
  ASSUME NEW a, NEW A, NEW K, Good(a, A, K), NEW q \in A \cup FreeRuns(a), Base(q) = a.spare
  PROVE  q \in SpareRuns(a) /\ q \notin A
<1>1. Typed(a) /\ Laid(a, A, FreeRuns(a), K) /\ Sorted(a)
  BY DEF Good
<1>2. q \in Pages /\ Base(q) \in Chunks
  BY <1>1, LaidEnds
<1>3. a.spare \in Chunks /\ SpareRuns(a) = {First(a.spare)}
  BY <1>2 DEF SpareRuns
<1>4. PICK c \in Chunks : c = a.spare
  BY <1>3
<1>5. First(c) \in FreeRuns(a) /\ Length(a, First(c)) = NP /\ First(c) \notin A
  <2>1. First(c) \in SpareRuns(a)
    BY <1>3, <1>4
  <2>2. First(c) \in FreeRuns(a) /\ a.map[First(c)].size = NP
    BY <1>1, <2>1 DEF FreeRuns, Sorted
  <2> QED  BY <1>1, <2>2, FreeLength
<1>6. q = First(c)
  <2>1. PICK R : R = A \cup FreeRuns(a)
    OBVIOUS
  <2>2. Tiles(a, R, K) /\ First(c) \in R /\ q \in R
    BY <1>1, <1>5, <2>1 DEF Laid
  <2> QED  BY <1>4, <1>5, <2>2, TileDrop
<1> QED  BY <1>3, <1>4, <1>5, <1>6

FreedMap(a, r, fd) ==
  LET n == RunSize(a, r)
      f == MergeForward(a, r, n, fd)
      m == Merge(a, r, n, fd)
  IN Inner(Framed(Framed(Framed(a.map, r, n, fd), r, f.len, fd), m.from, m.len, fd), m.from, m.len)

Whole(a, r, fd) == Merge(a, r, RunSize(a, r), fd)

FreedFields(a, b, r, fd) ==
  LET n == RunSize(a, r)
      c == Base(r)
      m == Whole(a, r, fd)
      more == IF fd = {} THEN 0 ELSE n
      lists == fd # {} /\ c \notin a.dirtied
  IN /\ b.map = FreedMap(a, r, fd)
     /\ b.clean = IF fd = {} THEN (a.clean \ m.gone) \cup {m.from} ELSE a.clean
     /\ b.dirty = IF fd = {} THEN a.dirty ELSE (a.dirty \ m.gone) \cup {m.from}
     /\ b.chunks_dirty = (IF lists THEN Append(a.chunks_dirty, c) ELSE a.chunks_dirty)
     /\ b.dirtied = (IF lists THEN a.dirtied \cup {c} ELSE a.dirtied)
     /\ b.cdirty = [a.cdirty EXCEPT ![c] = @ + more]
     /\ b.ndirty = a.ndirty + more /\ b.nactive = a.nactive - n
     /\ b.spare = a.spare /\ b.released = a.released /\ b.mapped = a.mapped
     /\ b.touched = a.touched /\ b.npurgatory = a.npurgatory

LEMMA FreedIs ==
  ASSUME NEW a, Typed(a), NEW r, NEW fd, NEW b, b = Freed(a, r, fd)
  PROVE  FreedFields(a, b, r, fd) /\ IsArena(b)
<1>1. IsArena(a)
  BY TypedIs
<1>2. PICK m, n : m = Whole(a, r, fd) /\ n = RunSize(a, r)
  OBVIOUS
<1>3. PICK t : t = Trees(a, fd, m.gone, {m.from})
  OBVIOUS
<1>4. /\ t.clean = (IF fd = {} THEN (a.clean \ m.gone) \cup {m.from} ELSE a.clean)
      /\ t.dirty = (IF fd = {} THEN a.dirty ELSE (a.dirty \ m.gone) \cup {m.from})
      /\ t.chunks_dirty = a.chunks_dirty /\ t.dirtied = a.dirtied /\ t.cdirty = a.cdirty
      /\ t.ndirty = a.ndirty /\ t.nactive = a.nactive /\ t.map = a.map
      /\ t.spare = a.spare /\ t.released = a.released /\ t.mapped = a.mapped
      /\ t.touched = a.touched /\ t.npurgatory = a.npurgatory
      /\ IsArena(t)
  BY <1>1, <1>3 DEF Trees, IsArena
<1>5. PICK map, more, lists : /\ map = FreedMap(a, r, fd)
                              /\ more = IF fd = {} THEN 0 ELSE n
                              /\ lists = (fd # {} /\ Base(r) \notin a.dirtied)
  OBVIOUS
<1>6. b = [t EXCEPT !.nactive = @ - n,
                    !.map = map,
                    !.ndirty = @ + more,
                    !.cdirty[Base(r)] = @ + more,
                    !.chunks_dirty = IF lists THEN Append(@, Base(r)) ELSE @,
                    !.dirtied = IF lists THEN @ \cup {Base(r)} ELSE @]
  BY <1>2, <1>3, <1>5 DEF Freed, FreedMap, Whole
<1>7. IsArena(b)
  BY <1>4, <1>6 DEF IsArena
<1>8. /\ b.map = map /\ b.clean = t.clean /\ b.dirty = t.dirty
      /\ b.spare = t.spare /\ b.released = t.released /\ b.mapped = t.mapped
      /\ b.touched = t.touched /\ b.npurgatory = t.npurgatory
      /\ b.nactive = t.nactive - n /\ b.ndirty = t.ndirty + more
  BY <1>4, <1>6 DEF IsArena
<1>9. /\ b.cdirty = [t.cdirty EXCEPT ![Base(r)] = @ + more]
      /\ b.chunks_dirty = (IF lists THEN Append(t.chunks_dirty, Base(r)) ELSE t.chunks_dirty)
      /\ b.dirtied = (IF lists THEN t.dirtied \cup {Base(r)} ELSE t.dirtied)
  BY <1>4, <1>6 DEF IsArena
<1>10. FreedFields(a, b, r, fd)
  BY <1>2, <1>4, <1>5, <1>8, <1>9 DEF FreedFields
<1> QED  BY <1>7, <1>10

LEMMA LaidMap ==
  ASSUME NEW a, NEW A, NEW F, NEW K, Laid(a, A, F, K), NEW b, b.map = a.map
  PROVE  Laid(b, A, F, K) /\ \A q : Same(a, b, q)
<1>1. \A q : Length(b, q) = Length(a, q)
  BY DEF Length, RunSize
<1>2. Tiles(b, A \cup F, K)
  BY <1>1, TileSame DEF Laid
<1>3. \A q \in A \cup F : Kind(b, q, A, F)
  <2>1. ASSUME NEW q \in A \cup F PROVE Kind(b, q, A, F)
    <3>1. Kind(a, q, A, F) /\ Length(b, q) = Length(a, q)
      BY <1>1 DEF Laid
    <3> QED  BY <3>1 DEF Kind, AllocRun, FreeRun
  <2> QED  BY <2>1
<1> QED  BY <1>1, <1>2, <1>3 DEF Laid, Same

ForwardGives(a, c, A, F, K, r, f, fd) ==
  FreedTo(a, c, A, F, K, r, r, f.len, f.gone, fd) /\ f.from = r /\ f.len \in Nat

LEMMA ForwardDoes ==
  ASSUME NEW a, NEW A, NEW F, NEW K, Typed(a), Laid(a, A, F, K), NEW r \in A,
         NEW fd \in FreeFlags, NEW n, n = Length(a, r), NEW f, f = MergeForward(a, r, n, fd),
         NEW c, FreedTo(a, c, A, F, K, r, r, n, {}, fd),
         NEW b, b = [c EXCEPT !.map = Framed(c.map, r, f.len, fd)]
  PROVE  ForwardGives(a, b, A, F, K, r, f, fd)
BY FreedForward DEF ForwardGives

InnerGives(a, b, A, F, K) ==
  Laid(b, A, F, K) /\ b.map \in [Pages -> Elems] /\ \A q \in A \cup F : Same(a, b, q)

LEMMA InnerDoes ==
  ASSUME NEW a, NEW A, NEW F, NEW K, Typed(a), Laid(a, A, F, K), NEW r \in A \cup F,
         NEW b, b.map = Inner(a.map, r, Length(a, r))
  PROVE  InnerGives(a, b, A, F, K)
BY InnerLaid DEF InnerGives

LEMMA FreedLaid ==
  ASSUME NEW a, NEW A, NEW F, NEW K, Typed(a), Laid(a, A, F, K), NEW r \in A,
         NEW fd \in FreeFlags, NEW m, m = Whole(a, r, fd),
         NEW b, b = [a EXCEPT !.map = FreedMap(a, r, fd)]
  PROVE  FreedTo(a, b, A, F, K, r, m.from, m.len, m.gone, fd)
<1>1. PICK n, f : n = RunSize(a, r) /\ f = MergeForward(a, r, n, fd)
  OBVIOUS
<1>2. n = Length(a, r) /\ m = Merge(a, r, n, fd)
  BY <1>1, AllocLength DEF Whole
<1>3. PICK c1 : c1 = [a EXCEPT !.map = Framed(a.map, r, n, fd)]
  OBVIOUS
<1>4. FreedTo(a, c1, A, F, K, r, r, n, {}, fd)
  BY <1>2, <1>3, FreedTurn
<1>5. PICK c2 : c2 = [c1 EXCEPT !.map = Framed(c1.map, r, f.len, fd)]
  OBVIOUS
<1>6. FreedTo(a, c2, A, F, K, r, r, f.len, f.gone, fd) /\ f.from = r /\ f.len \in Nat
  <2>1. ForwardGives(a, c2, A, F, K, r, f, fd)
    BY <1>1, <1>2, <1>4, <1>5, ForwardDoes
  <2> QED  BY <2>1 DEF ForwardGives
<1>7. PICK c3 : c3 = [c2 EXCEPT !.map = Framed(c2.map, m.from, m.len, fd)]
  OBVIOUS
<1>8. FreedTo(a, c3, A, F, K, r, m.from, m.len, m.gone, fd)
  BY <1>1, <1>2, <1>6, <1>7, FreedBackward
<1>9. /\ Typed(c3) /\ Laid(c3, A \ {r}, (F \ m.gone) \cup {m.from}, K)
      /\ IsFreeRun(c3, m.from, m.len, fd)
      /\ m.gone \subseteq F /\ \A g \in m.gone : a.map[g].flags = fd /\ Base(g) = Base(r)
      /\ Base(m.from) = Base(r)
      /\ \A q \in (A \ {r}) \cup (F \ m.gone) : q # m.from => Same(a, c3, q)
  BY <1>8 DEF FreedTo
<1>10. Typed(c1) /\ Typed(c2)
  BY <1>4, <1>6 DEF FreedTo
<1>11. c1.map = Framed(a.map, r, n, fd) /\ c2.map = Framed(c1.map, r, f.len, fd)
       /\ c3.map = Framed(c2.map, m.from, m.len, fd)
  <2>1. IsArena(a) /\ IsArena(c1) /\ IsArena(c2)
    BY <1>10, TypedIs
  <2> QED  BY <1>3, <1>5, <1>7, <2>1 DEF IsArena
<1>12. FreedMap(a, r, fd) = Inner(c3.map, m.from, m.len)
  BY <1>1, <1>2, <1>11 DEF FreedMap
<1>13. b.map = Inner(c3.map, m.from, m.len)
  <2>1. IsArena(a)
    BY TypedIs
  <2> QED  BY <1>12, <2>1 DEF IsArena
<1>14. PICK A1, F1 : A1 = A \ {r} /\ F1 = (F \ m.gone) \cup {m.from}
  OBVIOUS
<1>15. Length(c3, m.from) = m.len /\ Laid(c3, A1, F1, K) /\ m.from \in F1
  BY <1>9, <1>14 DEF IsFreeRun
<1>16. Laid(b, A1, F1, K) /\ (\A q \in A1 \cup F1 : Same(c3, b, q)) /\ b.map \in [Pages -> Elems]
  <2>1. PICK x : x = m.from
    OBVIOUS
  <2>2. b.map = Inner(c3.map, x, Length(c3, x)) /\ x \in A1 \cup F1
    BY <1>13, <1>15, <2>1
  <2>3. InnerGives(c3, b, A1, F1, K)
    BY <1>9, <1>15, <2>2, InnerDoes
  <2> QED  BY <2>3 DEF InnerGives
<1>17. Typed(b)
  <2>1. PICK map : map = b.map
    OBVIOUS
  <2>2. b = [a EXCEPT !.map = map]
    BY <1>12, <1>13, <2>1
  <2> QED  BY <1>16, <2>1, <2>2, MapTyped
<1>18. IsFreeRun(b, m.from, m.len, fd)
  <2>1. Same(c3, b, m.from)
    BY <1>15, <1>16
  <2> QED  BY <1>9, <2>1 DEF Same, IsFreeRun, FreeRun
<1>19. ASSUME NEW q \in (A \ {r}) \cup (F \ m.gone), q # m.from PROVE Same(a, b, q)
  <2>1. Same(a, c3, q) /\ Same(c3, b, q)
    BY <1>9, <1>14, <1>16, <1>19
  <2> QED  BY <2>1, SameTrans
<1> QED  BY <1>9, <1>14, <1>16, <1>17, <1>18, <1>19 DEF FreedTo

FreedOut(a, b, A, r, fd) ==
  LET m == Whole(a, r, fd)
      F == FreeRuns(a)
  IN /\ FreeRuns(b) = (F \ m.gone) \cup {m.from}
     /\ IsFreeRun(b, m.from, m.len, fd)
     /\ m.gone \subseteq F /\ (\A g \in m.gone : a.map[g].flags = fd /\ Base(g) = Base(r))
     /\ Base(m.from) = Base(r)
     /\ \A q \in (A \ {r}) \cup (F \ m.gone) : q # m.from => Same(a, b, q)

(* It begins with a run that is gone into it, or with the freed one.       *)
LEMMA FromIsNew ==
  ASSUME NEW a, NEW A, NEW F, NEW K, Typed(a), Laid(a, A, F, K), NEW r \in A,
         NEW fd \in FreeFlags, NEW m, m = Whole(a, r, fd), NEW q \in F, q \notin m.gone
  PROVE  q # m.from
<1>1. PICK n, f : n = RunSize(a, r) /\ f = MergeForward(a, r, n, fd)
  OBVIOUS
<1>2. m = Merge(a, r, n, fd)
  BY <1>1 DEF Whole
<1>3. r \notin F
  BY AllocLength
<1>4. CASE Bwd(a, r, fd)
  <2>1. m.from \in m.gone
    BY <1>1, <1>2, <1>4 DEF Merge, Bwd
  <2> QED  BY <2>1
<1>5. CASE ~Bwd(a, r, fd)
  <2>1. m = f /\ f.from = r
    BY <1>1, <1>2, <1>5 DEF Merge, Bwd, MergeForward
  <2> QED  BY <1>3, <2>1
<1> QED  BY <1>4, <1>5

LEMMA FreedGood ==
  ASSUME NEW a, NEW A, NEW K, Good(a, A, K), NEW r \in A, NEW fd \in FreeFlags,
         NEW b, b = Freed(a, r, fd)
  PROVE  /\ Good(b, A \ {r}, K) /\ FreedOut(a, b, A, r, fd) /\ FreedFields(a, b, r, fd)
         /\ \A q \in A : q # r => Same(a, b, q)
<1> DEFINE F == FreeRuns(a)
<1>1. Typed(a) /\ Laid(a, A, F, K) /\ Sorted(a) /\ Apart(a, F) /\ Listed(a, K) /\ K \subseteq a.mapped
  BY DEF Good
<1>2. PICK m : m = Whole(a, r, fd)
  OBVIOUS
<1>3. FreedFields(a, b, r, fd) /\ IsArena(b)
  BY <1>1, FreedIs
<1>4. PICK d : d = [a EXCEPT !.map = FreedMap(a, r, fd)]
  OBVIOUS
<1>5. FreedTo(a, d, A, F, K, r, m.from, m.len, m.gone, fd)
  BY <1>1, <1>2, <1>4, FreedLaid
<1>6. /\ Typed(d) /\ Laid(d, A \ {r}, (F \ m.gone) \cup {m.from}, K)
      /\ IsFreeRun(d, m.from, m.len, fd)
      /\ m.gone \subseteq F /\ \A g \in m.gone : a.map[g].flags = fd /\ Base(g) = Base(r)
      /\ Base(m.from) = Base(r)
      /\ \A q \in (A \ {r}) \cup (F \ m.gone) : q # m.from => Same(a, d, q)
  BY <1>5 DEF FreedTo
<1>7. b.map = d.map
  <2>1. IsArena(a)
    BY <1>1, TypedIs
  <2> QED  BY <1>3, <1>4, <2>1 DEF FreedFields, IsArena
<1>8. Laid(b, A \ {r}, (F \ m.gone) \cup {m.from}, K) /\ \A q : Same(d, b, q)
  <2>1. PICK A1, F1 : A1 = A \ {r} /\ F1 = (F \ m.gone) \cup {m.from}
    OBVIOUS
  <2>2. Laid(d, A1, F1, K)
    BY <1>6, <2>1
  <2> QED  BY <1>7, <2>1, <2>2, LaidMap
<1>9. \A q \in (A \ {r}) \cup (F \ m.gone) : q # m.from => Same(a, b, q)
  BY <1>6, <1>8, SameTrans
<1>10. IsFreeRun(b, m.from, m.len, fd) /\ b.map[m.from].flags = fd
  BY <1>6, <1>7 DEF IsFreeRun, FreeRun, Length, RunSize, Elem
<1>11. r \in Pages /\ r \in Int /\ Length(a, r) \in Nat /\ Base(r) \in Chunks /\ Base(r) \in K
       /\ Base(r) # a.spare
  <2>1. r \in Pages /\ r \in Int /\ Length(a, r) \in Nat /\ Base(r) \in Chunks /\ Base(r) \in K
    BY <1>1, LaidEnds
  <2> QED  BY <2>1, SpareAlone
<1>12. m.from \in Pages /\ m.from \notin A \ {r} /\ m.from \notin SpareRuns(a)
  <2>1. m.from \in Pages /\ m.from \notin A \ {r}
    <3>1. PICK A1, F1 : A1 = A \ {r} /\ F1 = (F \ m.gone) \cup {m.from}
      OBVIOUS
    <3>2. Laid(d, A1, F1, K) /\ m.from \in F1
      BY <1>6, <3>1
    <3>3. m.from \in Pages /\ m.from \notin A1
      BY <1>6, <3>2, FreeLength
    <3> QED  BY <3>1, <3>3
  <2>2. \A g \in SpareRuns(a) : Base(g) = a.spare
    <3>1. \A c \in Chunks : Base(First(c)) = c
      BY ChunkSpan
    <3> QED  BY <3>1 DEF SpareRuns
  <2> QED  BY <1>6, <1>11, <2>1, <2>2
<1>13. m.gone \cap SpareRuns(a) = {}
  <2>1. \A g \in SpareRuns(a) : Base(g) = a.spare
    <3>1. \A c \in Chunks : Base(First(c)) = c
      BY ChunkSpan
    <3> QED  BY <3>1 DEF SpareRuns
  <2> QED  BY <1>6, <1>11, <2>1
<1>14. SpareRuns(b) = SpareRuns(a)
  BY <1>3 DEF SpareRuns, FreedFields
<1>15. /\ b.clean = (IF fd = {} THEN (a.clean \ m.gone) \cup {m.from} ELSE a.clean)
       /\ b.dirty = (IF fd = {} THEN a.dirty ELSE (a.dirty \ m.gone) \cup {m.from})
  BY <1>2, <1>3 DEF FreedFields
<1>16. /\ fd = {} => m.gone \cap a.dirty = {}
       /\ fd # {} => m.gone \cap a.clean = {}
  BY <1>1, <1>6 DEF Sorted
<1>17. FreeRuns(b) = (F \ m.gone) \cup {m.from}
  <2>1. CASE fd = {}
    BY <1>13, <1>14, <1>15, <1>16, <2>1 DEF FreeRuns
  <2>2. CASE fd # {}
    BY <1>13, <1>14, <1>15, <1>16, <2>2 DEF FreeRuns
  <2> QED  BY <2>1, <2>2
<1>18. \A q \in F \ m.gone : q # m.from => b.map[q] = a.map[q] /\ Length(b, q) = Length(a, q)
  BY <1>9 DEF Same
<1>19. Sorted(b)
  <2>1. ASSUME NEW q \in b.clean PROVE b.map[q].flags = {}
    <3>1. CASE q = m.from /\ fd = {}
      BY <1>10, <3>1
    <3>2. CASE q # m.from \/ fd # {}
      <4>1. q \in a.clean /\ q \notin m.gone /\ q # m.from
        <5>1. CASE fd = {}
          BY <1>15, <2>1, <3>2, <5>1
        <5>2. CASE fd # {}
          <6>1. q \in a.clean /\ q \notin m.gone
            BY <1>15, <1>16, <2>1, <5>2
          <6>2. q # m.from
            <7>1. q \in F
              BY <6>1 DEF FreeRuns
            <7> QED  BY <1>1, <1>2, <6>1, <7>1, FromIsNew
          <6> QED  BY <6>1, <6>2
        <5> QED  BY <5>1, <5>2
      <4>2. q \in F \ m.gone
        BY <4>1 DEF FreeRuns
      <4> QED  BY <1>1, <1>18, <4>1, <4>2 DEF Sorted
    <3> QED  BY <3>1, <3>2
  <2>2. ASSUME NEW q \in b.dirty PROVE b.map[q].flags = {"dirty"}
    <3>1. CASE q = m.from /\ fd # {}
      BY <1>10, <3>1 DEF FreeFlags
    <3>2. CASE q # m.from \/ fd = {}
      <4>1. q \in a.dirty /\ q \notin m.gone /\ q # m.from
        <5>1. CASE fd # {}
          BY <1>15, <2>2, <3>2, <5>1
        <5>2. CASE fd = {}
          <6>1. q \in a.dirty /\ q \notin m.gone
            BY <1>15, <1>16, <2>2, <5>2
          <6>2. q # m.from
            <7>1. q \in F
              BY <6>1 DEF FreeRuns
            <7> QED  BY <1>1, <1>2, <6>1, <7>1, FromIsNew
          <6> QED  BY <6>1, <6>2
        <5> QED  BY <5>1, <5>2
      <4>2. q \in F \ m.gone
        BY <4>1 DEF FreeRuns
      <4> QED  BY <1>1, <1>18, <4>1, <4>2 DEF Sorted
    <3> QED  BY <3>1, <3>2
  <2>3. ASSUME NEW q \in SpareRuns(b) PROVE q \notin b.clean \cup b.dirty /\ b.map[q].size = NP
    <3>1. q \in SpareRuns(a) /\ q \in F \ m.gone /\ q # m.from
      BY <1>12, <1>13, <1>14, <2>3 DEF FreeRuns
    <3>2. q \notin a.clean \cup a.dirty /\ a.map[q].size = NP
      BY <1>1, <3>1 DEF Sorted
    <3> QED  BY <1>15, <1>18, <3>1, <3>2
  <2> QED  BY <2>1, <2>2, <2>3 DEF Sorted
<1>20. Apart(b, FreeRuns(b))
  <2>1. MergeEnds(a, F, r, m, fd)
    <3>1. Length(a, r) = RunSize(a, r)
      BY <1>1, AllocLength
    <3>2. m = Merge(a, r, Length(a, r), fd)
      BY <1>2, <3>1 DEF Whole
    <3> QED  BY <1>1, <3>2, MergeIs
  <2>2. Length(b, m.from) = m.len /\ b.map[m.from].flags = fd
    BY <1>10 DEF IsFreeRun
  <2> SUFFICES ASSUME NEW u \in FreeRuns(b), NEW v \in FreeRuns(b),
                      v = u + Length(b, u), Base(v) = Base(u)
               PROVE  b.map[v].flags # b.map[u].flags
    BY DEF Apart
  <2>3. CASE u # m.from /\ v # m.from
    <3>1. u \in F \ m.gone /\ v \in F \ m.gone
      BY <1>17, <2>3
    <3>2. Length(b, u) = Length(a, u) /\ b.map[u] = a.map[u] /\ b.map[v] = a.map[v]
      BY <1>18, <2>3, <3>1
    <3> QED  BY <1>1, <3>1, <3>2 DEF Apart
  <2>4. CASE u = m.from /\ v # m.from
    <3>1. v \in F \ m.gone
      BY <1>17, <2>4
    <3>2. b.map[v] = a.map[v]
      BY <1>18, <2>4, <3>1
    <3>3. v = m.from + m.len /\ Base(v) = Base(r)
      BY <1>6, <2>2, <2>4
    <3> QED  BY <2>1, <2>2, <2>4, <3>1, <3>2, <3>3 DEF MergeEnds
  <2>5. CASE u # m.from /\ v = m.from
    <3>1. u \in F \ m.gone
      BY <1>17, <2>5
    <3>2. b.map[u] = a.map[u] /\ Length(b, u) = Length(a, u)
      BY <1>18, <2>5, <3>1
    <3>3. u + Length(a, u) = m.from /\ Base(u) = Base(r)
      BY <1>6, <2>5, <3>2
    <3> QED  BY <2>1, <2>2, <2>5, <3>1, <3>2, <3>3 DEF MergeEnds
  <2>6. CASE u = m.from /\ v = m.from
    <3>1. PICK A1, F1 : A1 = A \ {r} /\ F1 = (F \ m.gone) \cup {m.from}
      OBVIOUS
    <3>2. Laid(b, A1, F1, K) /\ u \in F1
      BY <1>8, <2>6, <3>1
    <3>3. u \in Int /\ Length(b, u) \in Nat /\ Length(b, u) >= 1
      BY <3>2, LaidEnds
    <3> QED  BY <2>6, <3>3
  <2> QED  BY <2>3, <2>4, <2>5, <2>6
<1>21. Listed(b, K) /\ b.chunks_dirty \in Seq(Chunks) /\ b.dirtied \in SUBSET Chunks
  <2>1. a.chunks_dirty \in Seq(Chunks) /\ a.dirtied \in SUBSET Chunks
    BY <1>1 DEF Typed
  <2>2. CASE fd # {} /\ Base(r) \notin a.dirtied
    <3>1. b.chunks_dirty = Append(a.chunks_dirty, Base(r)) /\ b.dirtied = a.dirtied \cup {Base(r)}
      BY <1>3, <2>2 DEF FreedFields
    <3>2. PICK c, s : c = Base(r) /\ s = a.chunks_dirty
      OBVIOUS
    <3>3. s \in Seq(Chunks) /\ IsInjective(s) /\ c \in Chunks /\ c \notin Range(s)
      BY <1>1, <1>11, <2>1, <2>2, <3>2 DEF Listed
    <3>4. /\ Append(s, c) \in Seq(Chunks) /\ IsInjective(Append(s, c))
          /\ Range(Append(s, c)) = Range(s) \cup {c}
      BY <3>3, ListAppend
    <3> QED  BY <1>1, <1>11, <2>1, <3>1, <3>2, <3>4 DEF Listed
  <2>3. CASE ~(fd # {} /\ Base(r) \notin a.dirtied)
    <3>1. b.chunks_dirty = a.chunks_dirty /\ b.dirtied = a.dirtied
      BY <1>3, <2>3 DEF FreedFields
    <3> QED  BY <1>1, <2>1, <3>1 DEF Listed
  <2> QED  BY <2>2, <2>3
<1>22. Typed(b)
  <2>1. FieldsTyped(a)
    BY <1>1, TypedIs
  <2>2. b.map \in [Pages -> Elems]
    BY <1>6, <1>7 DEF Typed
  <2>3. b.clean \in SUBSET Pages /\ b.dirty \in SUBSET Pages
    BY <1>12, <1>15, <2>1 DEF FieldsTyped
  <2>4. PICK n, more : n = RunSize(a, r) /\ more = IF fd = {} THEN 0 ELSE n
    OBVIOUS
  <2>5. n \in Int /\ more \in Int
    BY <1>1, <1>11, <2>4, AllocLength
  <2>6. b.ndirty = a.ndirty + more /\ b.nactive = a.nactive - n
        /\ b.cdirty = [a.cdirty EXCEPT ![Base(r)] = @ + more]
    BY <1>3, <2>4 DEF FreedFields
  <2>7. b.ndirty \in Int /\ b.nactive \in Int
    BY <2>1, <2>5, <2>6 DEF FieldsTyped
  <2>8. b.cdirty \in [Chunks -> Int]
    <3>1. PICK f, x : f = a.cdirty /\ x = Base(r)
      OBVIOUS
    <3>2. f \in [Chunks -> Int]
      BY <2>1, <3>1 DEF FieldsTyped
    <3>3. [f EXCEPT ![x] = @ + more] \in [Chunks -> Int]
      BY <2>5, <3>2, CountTyped
    <3> QED  BY <2>6, <3>1, <3>3
  <2>9. FieldsTyped(b)
    BY <1>3, <1>21, <2>1, <2>2, <2>3, <2>7, <2>8 DEF FieldsTyped, FreedFields
  <2> QED  BY <1>3, <2>9, TypedIs
<1>23. K \subseteq b.mapped
  BY <1>1, <1>3 DEF FreedFields
<1>24. Good(b, A \ {r}, K)
  BY <1>8, <1>17, <1>19, <1>20, <1>21, <1>22, <1>23 DEF Good
<1>25. FreedOut(a, b, A, r, fd)
  BY <1>2, <1>6, <1>9, <1>10, <1>17 DEF FreedOut
<1>26. \A q \in A : q # r => Same(a, b, q)
  BY <1>9, <1>12
<1> QED  BY <1>3, <1>24, <1>25, <1>26

-----------------------------------------------------------------------------
(* arena_chunk_dealloc.                                                    *)

LEMMA WithoutIs ==
  ASSUME NEW s \in Seq(Chunks), IsInjective(s), NEW c \in Range(s)
  PROVE  /\ Without(s, c) \in Seq(Chunks) /\ IsInjective(Without(s, c))
         /\ Range(Without(s, c)) = Range(s) \ {c}
<1>1. PICK i : i = CHOOSE j \in DOMAIN s : s[j] = c
  OBVIOUS
<1>2. i \in DOMAIN s /\ s[i] = c
  BY <1>1 DEF Range
<1>3. PICK n \in Nat : n = Len(s) /\ DOMAIN s = 1 .. n
  OBVIOUS
<1>4. i \in Int /\ 1 <= i /\ i <= n
  BY <1>2, <1>3
<1>5. PICK x, y, u : x = SubSeq(s, 1, i - 1) /\ y = SubSeq(s, i + 1, n) /\ u = x \o y
  OBVIOUS
<1>6. u = Without(s, c)
  BY <1>1, <1>3, <1>5 DEF Without, RemoveAt
<1>7. /\ x \in Seq(Chunks) /\ Len(x) = i - 1 /\ y \in Seq(Chunks) /\ Len(y) = n - i
      /\ \A k \in 1 .. i - 1 : x[k] = s[k]
      /\ \A k \in 1 .. n - i : y[k] = s[k + i]
  <2>1. \A k \in 1 .. n : s[k] \in Chunks
    BY <1>3
  <2>2. x = [k \in 1 .. i - 1 |-> s[k]]
    BY <1>4, <1>5
  <2>3. y = [k \in 1 .. n - i |-> s[k + i]]
    BY <1>4, <1>5
  <2>4. \A k \in 1 .. i - 1 : s[k] \in Chunks
    BY <1>4, <2>1
  <2>5. \A k \in 1 .. n - i : s[k + i] \in Chunks
    BY <1>4, <2>1
  <2> QED  BY <1>4, <2>2, <2>3, <2>4, <2>5
<1>8. u \in Seq(Chunks) /\ Len(u) = n - 1 /\ DOMAIN u = 1 .. n - 1
  BY <1>4, <1>5, <1>7
<1>9. \A k \in 1 .. n - 1 : u[k] = IF k < i THEN s[k] ELSE s[k + 1]
  <2> SUFFICES ASSUME NEW k \in 1 .. n - 1 PROVE u[k] = IF k < i THEN s[k] ELSE s[k + 1]
    OBVIOUS
  <2>1. CASE k < i
    <3>1. u[k] = x[k]
      BY <1>4, <1>5, <1>7, <2>1
    <3> QED  BY <1>4, <1>7, <2>1, <3>1
  <2>2. CASE ~(k < i)
    <3>1. u[k] = y[k - Len(x)]
      <4>1. k \in 1 .. Len(x) + Len(y) /\ ~(k <= Len(x))
        BY <1>4, <1>7, <2>2
      <4> HIDE DEF Chunks
      <4> QED  BY <1>5, <1>7, <4>1, ConcatProperties
    <3>2. k - (i - 1) \in 1 .. n - i /\ k - (i - 1) + i = k + 1
      BY <1>4, <2>2
    <3> QED  BY <1>7, <2>2, <3>1, <3>2
  <2> QED  BY <2>1, <2>2
<1>10. IsInjective(u)
  <2> SUFFICES ASSUME NEW k \in 1 .. n - 1, NEW l \in 1 .. n - 1, u[k] = u[l] PROVE k = l
    BY <1>8 DEF IsInjective
  <2>1. PICK k1 \in 1 .. n, l1 \in 1 .. n : /\ k1 = (IF k < i THEN k ELSE k + 1)
                                            /\ l1 = (IF l < i THEN l ELSE l + 1)
    BY <1>4
  <2>2. s[k1] = s[l1]
    BY <1>9, <2>1
  <2>3. k1 = l1
    BY <1>3, <2>2 DEF IsInjective
  <2> QED  BY <1>4, <2>1, <2>3
<1>11. Range(u) = Range(s) \ {c}
  <2>1. ASSUME NEW v \in Range(u) PROVE v \in Range(s) /\ v # c
    <3>1. PICK k \in 1 .. n - 1 : v = u[k]
      BY <1>8, <2>1 DEF Range
    <3>2. PICK k1 \in 1 .. n : k1 = (IF k < i THEN k ELSE k + 1)
      BY <1>4
    <3>3. v = s[k1] /\ k1 # i
      BY <1>4, <1>9, <3>1, <3>2
    <3>4. v \in Range(s)
      BY <1>3, <3>3 DEF Range
    <3>5. v # c
      BY <1>2, <1>3, <3>3 DEF IsInjective
    <3> QED  BY <3>4, <3>5
  <2>2. ASSUME NEW v \in Range(s), v # c PROVE v \in Range(u)
    <3>1. PICK k \in 1 .. n : v = s[k]
      BY <1>3, <2>2 DEF Range
    <3>2. k # i
      BY <1>2, <2>2, <3>1
    <3>3. PICK l \in 1 .. n - 1 : l = (IF k < i THEN k ELSE k - 1)
      BY <1>4, <3>2
    <3>4. u[l] = v
      BY <1>4, <1>9, <3>1, <3>2, <3>3
    <3> QED  BY <1>8, <3>4 DEF Range
  <2> QED  BY <2>1, <2>2
<1> QED  BY <1>6, <1>8, <1>10, <1>11

(* A chunk goes that is one free run. *)
LEMMA LaidDrop ==
  ASSUME NEW a, NEW A, NEW F, NEW K, Laid(a, A, F, K), NEW c \in Chunks,
         First(c) \in F, Length(a, First(c)) = NP
  PROVE  Laid(a, A, F \ {First(c)}, K \ {c})
<1>1. PICK R, r : R = A \cup F /\ r = First(c)
  OBVIOUS
<1>2. Tiles(a, R, K) /\ r \in R /\ r \notin A
  BY <1>1, AllocLength DEF Laid
<1>3. Tiles(a, R \ {r}, K \ {c})
  BY <1>1, <1>2, TileDrop
<1>4. A \cup (F \ {r}) = R \ {r}
  BY <1>1, <1>2
<1>5. ASSUME NEW q \in R \ {r} PROVE Kind(a, q, A, F \ {r})
  <2>1. Kind(a, q, A, F)
    BY <1>1 DEF Laid
  <2> QED  BY <1>5, <2>1 DEF Kind
<1> QED  BY <1>1, <1>3, <1>4, <1>5 DEF Laid

DeallocFields(a, b, c) ==
  LET old == a.spare
      listed == old # Null /\ old \in a.dirtied
      clean == Dirty(a.map[First(c)]) = {}
  IN /\ b.map = a.map /\ b.spare = c
     /\ b.released = IF old = Null THEN a.released ELSE old
     /\ b.clean = IF clean THEN a.clean \ {First(c)} ELSE a.clean
     /\ b.dirty = IF clean THEN a.dirty ELSE a.dirty \ {First(c)}
     /\ b.chunks_dirty = IF listed THEN Without(a.chunks_dirty, old) ELSE a.chunks_dirty
     /\ b.ndirty = IF listed THEN a.ndirty - a.cdirty[old] ELSE a.ndirty
     /\ b.dirtied = a.dirtied /\ b.cdirty = a.cdirty /\ b.mapped = a.mapped
     /\ b.touched = a.touched /\ b.nactive = a.nactive /\ b.npurgatory = a.npurgatory

LEMMA DeallocIs ==
  ASSUME NEW a, Typed(a), NEW c, NEW b, b = ChunkDealloc(a, c)
  PROVE  DeallocFields(a, b, c) /\ IsArena(b)
<1>1. IsArena(a)
  BY TypedIs
<1>2. PICK t : t = Trees(a, Dirty(a.map[First(c)]), {First(c)}, {})
  OBVIOUS
<1>3. /\ t.clean = (IF Dirty(a.map[First(c)]) = {} THEN a.clean \ {First(c)} ELSE a.clean)
      /\ t.dirty = (IF Dirty(a.map[First(c)]) = {} THEN a.dirty ELSE a.dirty \ {First(c)})
      /\ t.chunks_dirty = a.chunks_dirty /\ t.dirtied = a.dirtied /\ t.cdirty = a.cdirty
      /\ t.ndirty = a.ndirty /\ t.nactive = a.nactive /\ t.map = a.map
      /\ t.spare = a.spare /\ t.released = a.released /\ t.mapped = a.mapped
      /\ t.touched = a.touched /\ t.npurgatory = a.npurgatory
      /\ IsArena(t)
  BY <1>1, <1>2 DEF Trees, IsArena
<1>4. PICK u : u = [t EXCEPT !.spare = c]
  OBVIOUS
<1>5. CASE a.spare = Null
  <2>1. b = u
    BY <1>2, <1>4, <1>5 DEF ChunkDealloc
  <2> QED  BY <1>3, <1>4, <1>5, <2>1 DEF DeallocFields, IsArena
<1>6. CASE a.spare # Null
  <2>1. PICK list, n : /\ list = (IF a.spare \in a.dirtied THEN Without(a.chunks_dirty, a.spare) ELSE a.chunks_dirty)
                       /\ n = (IF a.spare \in a.dirtied THEN a.ndirty - a.cdirty[a.spare] ELSE a.ndirty)
    OBVIOUS
  <2>2. u.chunks_dirty = a.chunks_dirty /\ u.ndirty = a.ndirty /\ IsArena(u)
    BY <1>3, <1>4 DEF IsArena
  <2>3. b = [u EXCEPT !.released = a.spare, !.chunks_dirty = list, !.ndirty = n]
    <3>1. b = [u EXCEPT !.released = a.spare,
                        !.chunks_dirty = IF a.spare \in a.dirtied THEN Without(@, a.spare) ELSE @,
                        !.ndirty = IF a.spare \in a.dirtied THEN @ - a.cdirty[a.spare] ELSE @]
      BY <1>2, <1>4, <1>6 DEF ChunkDealloc
    <3> QED  BY <2>1, <2>2, <3>1
  <2>4. IsArena(b)
    BY <2>2, <2>3 DEF IsArena
  <2>5. /\ b.released = a.spare /\ b.chunks_dirty = list /\ b.ndirty = n
        /\ b.map = u.map /\ b.spare = u.spare /\ b.clean = u.clean /\ b.dirty = u.dirty
        /\ b.dirtied = u.dirtied /\ b.cdirty = u.cdirty /\ b.mapped = u.mapped
        /\ b.touched = u.touched /\ b.nactive = u.nactive /\ b.npurgatory = u.npurgatory
    BY <2>2, <2>3 DEF IsArena
  <2>6. /\ u.map = a.map /\ u.spare = c /\ u.clean = t.clean /\ u.dirty = t.dirty
        /\ u.dirtied = a.dirtied /\ u.cdirty = a.cdirty /\ u.mapped = a.mapped
        /\ u.touched = a.touched /\ u.nactive = a.nactive /\ u.npurgatory = a.npurgatory
    BY <1>3, <1>4 DEF IsArena
  <2> QED  BY <1>3, <1>6, <2>1, <2>4, <2>5, <2>6 DEF DeallocFields
<1> QED  BY <1>5, <1>6

LEMMA DeallocGood ==
  ASSUME NEW a, NEW A, NEW K, Good(a, A, K), NEW c \in Chunks, First(c) \in a.clean \cup a.dirty,
         a.map[First(c)].size = NP, NEW b, b = ChunkDealloc(a, c)
  PROVE  /\ Good(b, A, K \ {a.spare}) /\ DeallocFields(a, b, c)
         /\ FreeRuns(b) = FreeRuns(a) \ SpareRuns(a) /\ \A q : Same(a, b, q)
<1> DEFINE F == FreeRuns(a)
           r == First(c)
           G == F \ SpareRuns(a)
<1>1. Typed(a) /\ Laid(a, A, F, K) /\ Sorted(a) /\ Apart(a, F) /\ Listed(a, K) /\ K \subseteq a.mapped
  BY DEF Good
<1>2. DeallocFields(a, b, c) /\ IsArena(b)
  BY <1>1, DeallocIs
<1>3. r \in F /\ Dirty(a.map[r]) = a.map[r].flags
  BY <1>1, FreeLength DEF FreeRuns
<1>4. /\ r \in a.clean => a.map[r].flags = {} /\ r \notin a.dirty
      /\ r \in a.dirty => a.map[r].flags # {} /\ r \notin a.clean
  BY <1>1 DEF Sorted
<1>5. b.clean \cup b.dirty = (a.clean \cup a.dirty) \ {r}
  BY <1>2, <1>3, <1>4 DEF DeallocFields
<1>6. SpareRuns(b) = {r}
  BY <1>2 DEF SpareRuns, DeallocFields
<1>7. FreeRuns(b) = a.clean \cup a.dirty
  BY <1>5, <1>6 DEF FreeRuns
<1>8. FreeRuns(b) = G
  BY <1>1, <1>7 DEF FreeRuns, Sorted
<1>9. b.map = a.map
  BY <1>2 DEF DeallocFields
<1>10. Laid(a, A, G, K \ {a.spare})
  <2>1. CASE a.spare = Null
    <3>1. SpareRuns(a) = {} /\ Null \notin K
      <4>1. Null \notin Chunks
        BY ArenaAssumption DEF Chunks
      <4>2. a.mapped \subseteq Chunks
        BY <1>1, TypedIs DEF FieldsTyped
      <4> QED  BY <1>1, <2>1, <4>1, <4>2, SpareIs
    <3>2. G = F /\ K \ {a.spare} = K
      BY <2>1, <3>1
    <3> QED  BY <1>1, <3>2
  <2>2. CASE a.spare # Null
    <3>1. a.spare \in Chunks /\ SpareRuns(a) = {First(a.spare)}
      BY <1>1, <2>2, SpareIs
    <3>2. First(a.spare) \in F /\ a.map[First(a.spare)].size = NP
      BY <1>1, <3>1 DEF Sorted, FreeRuns
    <3>3. Length(a, First(a.spare)) = NP
      BY <1>1, <3>2, FreeLength
    <3> QED  BY <1>1, <3>1, <3>2, <3>3, LaidDrop
  <2> QED  BY <2>1, <2>2
<1>11. Laid(b, A, FreeRuns(b), K \ {a.spare}) /\ \A q : Same(a, b, q)
  <2>1. PICK G1, K1 : G1 = G /\ K1 = K \ {a.spare}
    OBVIOUS
  <2>2. Laid(a, A, G1, K1)
    BY <1>10, <2>1
  <2> QED  BY <1>8, <1>9, <2>1, <2>2, LaidMap
<1>12. Sorted(b)
  <2>1. b.clean \subseteq a.clean /\ b.dirty \subseteq a.dirty
    BY <1>2 DEF DeallocFields
  <2> QED  BY <1>1, <1>5, <1>6, <1>9, <2>1 DEF Sorted
<1>13. Apart(b, FreeRuns(b))
  <2>1. \A q : Length(b, q) = Length(a, q)
    BY <1>11 DEF Same
  <2> QED  BY <1>1, <1>8, <1>9, <2>1 DEF Apart
<1>14. b.chunks_dirty \in Seq(Chunks) /\ Listed(b, K \ {a.spare})
  <2>1. a.chunks_dirty \in Seq(Chunks) /\ IsInjective(a.chunks_dirty)
        /\ Range(a.chunks_dirty) = a.dirtied \cap K /\ b.dirtied = a.dirtied
    BY <1>1, <1>2, TypedIs DEF FieldsTyped, Listed, DeallocFields
  <2>2. CASE a.spare # Null /\ a.spare \in a.dirtied
    <3>1. a.spare \in K
      <4>1. SpareRuns(a) = {First(a.spare)} /\ a.spare \in Chunks
        BY <1>1, <2>2, SpareIs
      <4>2. First(a.spare) \in F /\ Base(First(a.spare)) = a.spare
        BY <4>1, ChunkSpan DEF FreeRuns
      <4> QED  BY <1>1, <4>2, LaidEnds
    <3>2. PICK s, d : s = a.chunks_dirty /\ d = a.spare
      OBVIOUS
    <3>3. d \in Range(s)
      BY <2>1, <2>2, <3>1, <3>2
    <3>4. Without(s, d) \in Seq(Chunks) /\ IsInjective(Without(s, d))
          /\ Range(Without(s, d)) = Range(s) \ {d}
      BY <2>1, <3>2, <3>3, WithoutIs
    <3>5. b.chunks_dirty = Without(s, d)
      BY <1>2, <2>2, <3>2 DEF DeallocFields
    <3> QED  BY <2>1, <3>2, <3>4, <3>5 DEF Listed
  <2>3. CASE ~(a.spare # Null /\ a.spare \in a.dirtied)
    <3>1. b.chunks_dirty = a.chunks_dirty
      BY <1>2, <2>3 DEF DeallocFields
    <3>2. a.spare \notin a.dirtied \cap K
      <4>1. Null \notin Chunks
        BY ArenaAssumption DEF Chunks
      <4>2. a.mapped \subseteq Chunks
        BY <1>1, TypedIs DEF FieldsTyped
      <4> QED  BY <1>1, <2>3, <4>1, <4>2
    <3> QED  BY <2>1, <3>1, <3>2 DEF Listed
  <2> QED  BY <2>2, <2>3
<1>15. Typed(b)
  <2>1. FieldsTyped(a)
    BY <1>1, TypedIs
  <2>2. b.ndirty \in Int
    <3>1. a.spare \in Chunks => a.cdirty[a.spare] \in Int
      BY <2>1 DEF FieldsTyped
    <3>2. a.spare # Null => a.spare \in Chunks
      BY <1>1, SpareIs
    <3> QED  BY <1>2, <2>1, <3>1, <3>2 DEF FieldsTyped, DeallocFields
  <2>3. b.clean \in SUBSET Pages /\ b.dirty \in SUBSET Pages
    BY <1>2, <2>1 DEF FieldsTyped, DeallocFields
  <2>4. b.spare \in Chunks \cup {Null} /\ b.released \in Chunks \cup {Null}
    BY <1>2, <2>1 DEF FieldsTyped, DeallocFields
  <2>5. FieldsTyped(b)
    BY <1>2, <1>14, <2>1, <2>2, <2>3, <2>4 DEF FieldsTyped, DeallocFields
  <2> QED  BY <1>2, <2>5, TypedIs
<1>16. K \ {a.spare} \subseteq b.mapped
  BY <1>1, <1>2 DEF DeallocFields
<1>17. Good(b, A, K \ {a.spare})
  BY <1>11, <1>12, <1>13, <1>14, <1>15, <1>16 DEF Good
<1> QED  BY <1>2, <1>8, <1>11, <1>17

(* A chunk begins with a run. *)
LEMMA LaidFirst ==
  ASSUME NEW a, NEW A, NEW F, NEW K, Laid(a, A, F, K), NEW c \in K, c \in Chunks
  PROVE  First(c) \in A \cup F /\ First(c) \in Pages /\ Base(First(c)) = c /\ First(c) \in Int
<1>1. PICK R, p : R = A \cup F /\ p = First(c)
  OBVIOUS
<1>2. p \in Pages /\ Base(p) = c /\ Tiles(a, R, K)
  BY <1>1, ChunkSpan DEF Laid
<1>3. PICK r \in R : r <= p /\ p < r + Length(a, r)
  BY <1>2 DEF Tiles
<1>4. r \in Int /\ p \in Int /\ Length(a, r) \in Nat /\ Base(p) = Base(r) /\ First(Base(r)) <= r
  <2>1. r \in Int /\ p \in Int /\ Length(a, r) \in Nat /\ First(Base(r)) <= r
    BY <1>2, <1>3, TileEnds DEF Pages
  <2>2. p \in r .. r + Length(a, r) - 1
    BY <1>3, <2>1
  <2> QED  BY <1>2, <1>3, <2>1, <2>2, TileEnds
<1>5. r = p
  BY <1>1, <1>2, <1>3, <1>4
<1> QED  BY <1>1, <1>2, <1>3, <1>4, <1>5

LEMMA DallocGood ==
  ASSUME NEW a, NEW A, NEW K, Good(a, A, K), NEW r \in A, NEW dirty \in BOOLEAN,
         a.released = Null, NEW f, f = Freed(a, r, DallocFlags(a, r, dirty)),
         NEW b, b = RunDalloc(a, r, dirty)
  PROVE  /\ DallocFlags(a, r, dirty) \in FreeFlags
         /\ Good(f, A \ {r}, K) /\ f.released = Null
         /\ Good(b, A \ {r}, K \ {b.released}) /\ b.released \in K \cup {Null}
         /\ \A q : Same(f, b, q)
         /\ \/ b = f
            \/ DeallocFields(f, b, Base(r)) /\ First(Base(r)) \in f.clean \cup f.dirty
               /\ f.map[First(Base(r))].size = NP /\ b = ChunkDealloc(f, Base(r))
<1>1. Typed(a) /\ Laid(a, A, FreeRuns(a), K)
  BY DEF Good
<1>2. DallocFlags(a, r, dirty) \in FreeFlags
  <2>1. r \in Pages /\ a.map \in [Pages -> Elems]
    BY <1>1, LaidEnds DEF Typed
  <2>2. Dirty(a.map[r]) \in FreeFlags
    BY <2>1, DirtyIs
  <2> QED  BY <2>2 DEF DallocFlags, FreeFlags
<1>3. PICK fd \in FreeFlags : fd = DallocFlags(a, r, dirty)
  BY <1>2
<1>4. Good(f, A \ {r}, K) /\ FreedFields(a, f, r, fd)
  BY <1>3, FreedGood
<1>5. f.released = Null /\ f.spare = a.spare
  BY <1>4 DEF FreedFields
<1>6. PICK c : c = Base(r)
  OBVIOUS
<1>7. c \in Chunks /\ c \in K /\ c # f.spare
  <2>1. c \in Chunks /\ c \in K
    BY <1>1, <1>6, LaidEnds
  <2>2. c # a.spare
    BY <1>6, SpareAlone
  <2> QED  BY <1>5, <2>1, <2>2
<1>8. b = WithoutWhole(f, c)
  BY <1>3, <1>6 DEF RunDalloc
<1>9. Null \notin K
  <2>1. Null \notin Chunks
    BY ArenaAssumption DEF Chunks
  <2>2. K \subseteq Chunks
    BY <1>4, TypedIs DEF FieldsTyped, Good
  <2> QED  BY <2>1, <2>2
<1>10. CASE ~(IsFree(f.map[First(c)]) /\ f.map[First(c)].size = NP)
  <2>1. b = f
    BY <1>8, <1>10 DEF WithoutWhole
  <2>2. K \ {b.released} = K
    BY <1>5, <1>9, <2>1
  <2> QED  BY <1>2, <1>4, <1>5, <2>1, <2>2 DEF Same
<1>11. CASE IsFree(f.map[First(c)]) /\ f.map[First(c)].size = NP
  <2>1. b = ChunkDealloc(f, c)
    BY <1>8, <1>11 DEF WithoutWhole
  <2>2. First(c) \in f.clean \cup f.dirty
    <3>1. PICK A1 : A1 = A \ {r}
      OBVIOUS
    <3>2. Laid(f, A1, FreeRuns(f), K) /\ Typed(f)
      BY <1>4, <3>1 DEF Good
    <3>3. First(c) \in A1 \cup FreeRuns(f)
      BY <1>7, <3>2, LaidFirst
    <3>4. First(c) \in FreeRuns(f)
      BY <1>11, <3>2, <3>3, AllocLength
    <3>5. First(c) \notin SpareRuns(f)
      <4>1. \A d \in Chunks : Base(First(d)) = d
        BY ChunkSpan
      <4> QED  BY <1>7, <4>1 DEF SpareRuns
    <3> QED  BY <3>4, <3>5 DEF FreeRuns
  <2>3. PICK A1 : A1 = A \ {r}
    OBVIOUS
  <2>4. Good(b, A1, K \ {f.spare}) /\ DeallocFields(f, b, c) /\ \A q : Same(f, b, q)
    BY <1>4, <1>7, <1>11, <2>1, <2>2, <2>3, DeallocGood
  <2>5. b.released = f.spare
    BY <1>5, <2>4 DEF DeallocFields
  <2>6. f.spare \in K \cup {Null}
    <3>1. CASE f.spare # Null
      <4>1. Typed(f) /\ Laid(f, A1, FreeRuns(f), K)
        BY <1>4, <2>3 DEF Good
      <4>2. SpareRuns(f) = {First(f.spare)} /\ f.spare \in Chunks
        BY <3>1, <4>1, SpareIs
      <4>3. First(f.spare) \in FreeRuns(f) /\ Base(First(f.spare)) = f.spare
        BY <4>2, ChunkSpan DEF FreeRuns
      <4> QED  BY <4>1, <4>3, LaidEnds
    <3> QED  BY <3>1
  <2> QED  BY <1>2, <1>4, <1>5, <1>6, <1>11, <2>1, <2>2, <2>3, <2>4, <2>5, <2>6
<1> QED  BY <1>10, <1>11

-----------------------------------------------------------------------------
(* Changes that leave the runs alone.                                      *)

(* But for what the pages hold, what is released and what is to be purged. *)
Alike(a, b) ==
  /\ b.map = a.map /\ b.clean = a.clean /\ b.dirty = a.dirty
  /\ b.chunks_dirty = a.chunks_dirty /\ b.dirtied = a.dirtied /\ b.cdirty = a.cdirty
  /\ b.spare = a.spare /\ b.mapped = a.mapped /\ b.nactive = a.nactive /\ b.ndirty = a.ndirty

LEMMA AlikeGood ==
  ASSUME NEW a, NEW A, NEW K, Good(a, A, K), NEW b, Alike(a, b), Typed(b)
  PROVE  Good(b, A, K) /\ FreeRuns(b) = FreeRuns(a) /\ \A q : Same(a, b, q)
<1>1. FreeRuns(b) = FreeRuns(a) /\ SpareRuns(b) = SpareRuns(a)
  BY DEF FreeRuns, SpareRuns, Alike
<1>2. b.map = a.map
  BY DEF Alike
<1>3. Laid(b, A, FreeRuns(a), K) /\ \A q : Same(a, b, q)
  BY <1>2, LaidMap DEF Good
<1>4. \A q : Length(b, q) = Length(a, q)
  BY <1>3 DEF Same
<1>5. Sorted(b) /\ Apart(b, FreeRuns(a)) /\ Listed(b, K) /\ K \subseteq b.mapped
  BY <1>1, <1>2, <1>4 DEF Good, Alike, Sorted, Apart, Listed
<1> QED  BY <1>1, <1>3, <1>5 DEF Good

LEMMA TouchIs ==
  ASSUME NEW a, Typed(a), NEW P \in SUBSET Int, NEW b, b = Touch(a, P)
  PROVE  /\ Typed(b) /\ Alike(a, b) /\ b.touched = a.touched \cup P
         /\ b.released = a.released /\ b.npurgatory = a.npurgatory
<1>1. IsArena(a) /\ FieldsTyped(a)
  BY TypedIs
<1>2. /\ Alike(a, b) /\ b.touched = a.touched \cup P
      /\ b.released = a.released /\ b.npurgatory = a.npurgatory /\ IsArena(b)
  BY <1>1 DEF Touch, IsArena, Alike
<1>3. FieldsTyped(b)
  BY <1>1, <1>2 DEF FieldsTyped, Alike
<1> QED  BY <1>2, <1>3, TypedIs

LEMMA SizeModIs == SizeMod \in Nat \ {0}
BY ArenaAssumption

LEMMA CommittedIs ==
  ASSUME NEW a, Typed(a), NEW n \in Int, NEW b, b = Committed(a, n)
  PROVE  /\ Typed(b) /\ Alike(a, b) /\ b.touched = a.touched
         /\ b.released = a.released /\ b.npurgatory = (a.npurgatory + n) % SizeMod
<1>1. IsArena(a) /\ FieldsTyped(a)
  BY TypedIs
<1>2. /\ Alike(a, b) /\ b.touched = a.touched
      /\ b.released = a.released /\ b.npurgatory = (a.npurgatory + n) % SizeMod /\ IsArena(b)
  BY <1>1 DEF Committed, IsArena, Alike
<1>3. SizeMod \in Nat \ {0}
  BY SizeModIs
<1>4. b.npurgatory \in Int
  BY <1>1, <1>2, <1>3 DEF FieldsTyped
<1>5. FieldsTyped(b)
  BY <1>1, <1>2, <1>4 DEF FieldsTyped, Alike
<1> QED  BY <1>2, <1>5, TypedIs

LEMMA ReleasedIs ==
  ASSUME NEW a, Typed(a), NEW b, b = [a EXCEPT !.released = Null]
  PROVE  /\ Typed(b) /\ Alike(a, b) /\ b.touched = a.touched
         /\ b.released = Null /\ b.npurgatory = a.npurgatory
<1>1. IsArena(a) /\ FieldsTyped(a)
  BY TypedIs
<1>2. /\ Alike(a, b) /\ b.touched = a.touched
      /\ b.released = Null /\ b.npurgatory = a.npurgatory /\ IsArena(b)
  BY <1>1 DEF IsArena, Alike
<1>3. FieldsTyped(b)
  BY <1>1, <1>2 DEF FieldsTyped, Alike
<1> QED  BY <1>2, <1>3, TypedIs

(* The spare goes back to its tree. *)
ReuseFields(a, b) ==
  LET r == First(a.spare)
      clean == Dirty(a.map[r]) = {}
  IN /\ b.map = a.map /\ b.spare = Null
     /\ b.clean = (IF clean THEN a.clean \cup {r} ELSE a.clean)
     /\ b.dirty = (IF clean THEN a.dirty ELSE a.dirty \cup {r})
     /\ b.chunks_dirty = a.chunks_dirty /\ b.dirtied = a.dirtied /\ b.cdirty = a.cdirty
     /\ b.released = a.released /\ b.mapped = a.mapped /\ b.touched = a.touched
     /\ b.nactive = a.nactive /\ b.ndirty = a.ndirty /\ b.npurgatory = a.npurgatory

LEMMA ReuseGood ==
  ASSUME NEW a, NEW A, NEW K, Good(a, A, K), a.spare # Null, NEW b, b = ReuseSpare(a)
  PROVE  /\ Good(b, A, K) /\ ReuseFields(a, b) /\ FreeRuns(b) = FreeRuns(a)
         /\ First(a.spare) \in b.clean \cup b.dirty /\ b.map[First(a.spare)].size = NP
         /\ \A q : Same(a, b, q)
<1>1. Typed(a) /\ Laid(a, A, FreeRuns(a), K) /\ Sorted(a)
  BY DEF Good
<1>2. IsArena(a) /\ FieldsTyped(a)
  BY <1>1, TypedIs
<1>3. PICK r : r = First(a.spare)
  OBVIOUS
<1>4. a.spare \in Chunks /\ SpareRuns(a) = {r} /\ r \in FreeRuns(a) /\ r \in Pages
      /\ r \notin a.clean \cup a.dirty /\ a.map[r].size = NP
  <2>1. a.spare \in Chunks /\ SpareRuns(a) = {r}
    BY <1>1, <1>3, SpareIs
  <2>2. r \in Pages
    BY <1>3, <2>1, ChunkSpan
  <2> QED  BY <1>1, <2>1, <2>2 DEF Sorted, FreeRuns
<1>5. Dirty(a.map[r]) = a.map[r].flags /\ a.map[r].flags \in FreeFlags
  BY <1>1, <1>4, FreeLength
<1>6. PICK t : t = Trees(a, Dirty(a.map[r]), {}, {r})
  OBVIOUS
<1>7. /\ t.clean = (IF Dirty(a.map[r]) = {} THEN a.clean \cup {r} ELSE a.clean)
      /\ t.dirty = (IF Dirty(a.map[r]) = {} THEN a.dirty ELSE a.dirty \cup {r})
      /\ t.chunks_dirty = a.chunks_dirty /\ t.dirtied = a.dirtied /\ t.cdirty = a.cdirty
      /\ t.ndirty = a.ndirty /\ t.nactive = a.nactive /\ t.map = a.map
      /\ t.spare = a.spare /\ t.released = a.released /\ t.mapped = a.mapped
      /\ t.touched = a.touched /\ t.npurgatory = a.npurgatory
      /\ IsArena(t)
  BY <1>2, <1>6 DEF Trees, IsArena
<1>8. b = [t EXCEPT !.spare = Null]
  BY <1>3, <1>6 DEF ReuseSpare
<1>9. ReuseFields(a, b) /\ IsArena(b)
  <2>1. IsArena(b)
    BY <1>7, <1>8 DEF IsArena
  <2>2. /\ b.spare = Null /\ b.map = t.map /\ b.clean = t.clean /\ b.dirty = t.dirty
        /\ b.chunks_dirty = t.chunks_dirty /\ b.dirtied = t.dirtied /\ b.cdirty = t.cdirty
        /\ b.ndirty = t.ndirty /\ b.nactive = t.nactive /\ b.released = t.released
        /\ b.mapped = t.mapped /\ b.touched = t.touched /\ b.npurgatory = t.npurgatory
    BY <1>7, <1>8 DEF IsArena
  <2> QED  BY <1>3, <1>7, <2>1, <2>2 DEF ReuseFields
<1>10. b.map = a.map /\ b.spare = Null
       /\ b.clean = (IF a.map[r].flags = {} THEN a.clean \cup {r} ELSE a.clean)
       /\ b.dirty = (IF a.map[r].flags = {} THEN a.dirty ELSE a.dirty \cup {r})
  BY <1>3, <1>5, <1>9 DEF ReuseFields
<1>11. Typed(b)
  <2>1. b.clean \in SUBSET Pages /\ b.dirty \in SUBSET Pages
    BY <1>2, <1>4, <1>10 DEF FieldsTyped
  <2>2. FieldsTyped(b)
    BY <1>2, <1>9, <1>10, <2>1 DEF FieldsTyped, ReuseFields
  <2> QED  BY <1>9, <2>2, TypedIs
<1>12. SpareRuns(b) = {} /\ FreeRuns(b) = FreeRuns(a) /\ r \in b.clean \cup b.dirty
  <2>1. SpareRuns(b) = {}
    BY <1>10, <1>11, SpareIs
  <2> QED  BY <1>4, <1>10, <2>1 DEF FreeRuns
<1>13. Laid(b, A, FreeRuns(a), K) /\ \A q : Same(a, b, q)
  BY <1>1, <1>10, LaidMap
<1>14. Sorted(b)
  BY <1>1, <1>5, <1>10, <1>12 DEF Sorted, FreeFlags
<1>15. Apart(b, FreeRuns(a))
  <2>1. \A q : Length(b, q) = Length(a, q)
    BY <1>13 DEF Same
  <2> QED  BY <1>10, <2>1 DEF Apart, Good
<1>16. Listed(b, K) /\ K \subseteq b.mapped
  BY <1>9 DEF Listed, ReuseFields, Good
<1>17. Good(b, A, K)
  BY <1>11, <1>12, <1>13, <1>14, <1>15, <1>16 DEF Good
<1> QED  BY <1>3, <1>4, <1>9, <1>10, <1>12, <1>13, <1>17

(* The pages of other chunks change. *)
LEMMA LaidApart ==
  ASSUME NEW a, NEW A, NEW F, NEW K, Laid(a, A, F, K), NEW b,
         \A p \in Pages : Base(p) \in K => b.map[p] = a.map[p]
  PROVE  Laid(b, A, F, K) /\ \A q \in A \cup F : Same(a, b, q)
<1>1. ASSUME NEW q \in A \cup F PROVE Same(a, b, q)
  <2>1. q \in Int /\ q \in Pages /\ Base(q) \in K /\ Length(a, q) \in Nat /\ Length(a, q) >= 1
    BY LaidEnds
  <2>2. PICK e : e = q + Length(a, q) - 1
    OBVIOUS
  <2>3. e \in q .. q + Length(a, q) - 1
    BY <2>1, <2>2
  <2>4. e \in Pages /\ Base(e) \in K
    BY <2>1, <2>3, LaidSpan
  <2>5. b.map[q] = a.map[q] /\ b.map[e] = a.map[e]
    BY <2>1, <2>4
  <2>6. Length(b, q) = Length(a, q)
    BY <2>5 DEF Length, RunSize
  <2> QED  BY <2>2, <2>5, <2>6 DEF Same
<1>2. Tiles(b, A \cup F, K)
  <2>1. PICK R : R = A \cup F
    OBVIOUS
  <2>2. Tiles(a, R, K) /\ \A q \in R : Length(b, q) = Length(a, q)
    BY <1>1, <2>1 DEF Laid, Same
  <2> QED  BY <2>1, <2>2, TileSame
<1>3. ASSUME NEW q \in A \cup F PROVE Kind(b, q, A, F)
  <2>1. Kind(a, q, A, F) /\ Same(a, b, q)
    BY <1>1 DEF Laid
  <2> QED  BY <2>1 DEF Kind, AllocRun, FreeRun, Same
<1> QED  BY <1>1, <1>2, <1>3 DEF Laid

NewFields(a, b, c) ==
  /\ b.map = Written(a.map, [p \in Of(c) |-> Elem(IF p \in {First(c), First(c) + NP - 1} THEN NP ELSE 0, {})])
  /\ b.mapped = a.mapped \cup {c} /\ b.dirtied = a.dirtied \ {c}
  /\ b.cdirty = [a.cdirty EXCEPT ![c] = 0] /\ b.clean = a.clean \cup {First(c)}
  /\ b.touched = a.touched \ Of(c)
  /\ b.dirty = a.dirty /\ b.chunks_dirty = a.chunks_dirty /\ b.spare = a.spare
  /\ b.released = a.released /\ b.nactive = a.nactive /\ b.ndirty = a.ndirty
  /\ b.npurgatory = a.npurgatory

LEMMA NewIs ==
  ASSUME NEW a, Typed(a), NEW c \in Chunks, NEW b, b = NewChunk(a, c)
  PROVE  NewFields(a, b, c) /\ IsArena(b)
<1>1. IsArena(a)
  BY TypedIs
<1>2. PICK t : t = NewChunkListed(a, c)
  OBVIOUS
<1>3. /\ t.map = Written(a.map, [p \in Of(c) |-> Elem(IF p \in {First(c), First(c) + NP - 1} THEN NP ELSE 0, {})])
      /\ t.mapped = a.mapped \cup {c} /\ t.dirtied = a.dirtied \cup {c}
      /\ t.cdirty = [a.cdirty EXCEPT ![c] = 0] /\ t.clean = a.clean \cup {First(c)}
      /\ t.touched = a.touched \ Of(c)
      /\ t.dirty = a.dirty /\ t.chunks_dirty = a.chunks_dirty /\ t.spare = a.spare
      /\ t.released = a.released /\ t.nactive = a.nactive /\ t.ndirty = a.ndirty
      /\ t.npurgatory = a.npurgatory /\ IsArena(t)
  BY <1>1, <1>2 DEF NewChunkListed, IsArena
<1>4. b = [t EXCEPT !.dirtied = @ \ {c}]
  BY <1>2 DEF NewChunk
<1>5. IsArena(b)
  BY <1>3, <1>4 DEF IsArena
<1>6. /\ b.dirtied = t.dirtied \ {c} /\ b.map = t.map /\ b.mapped = t.mapped
      /\ b.cdirty = t.cdirty /\ b.clean = t.clean /\ b.touched = t.touched
      /\ b.dirty = t.dirty /\ b.chunks_dirty = t.chunks_dirty /\ b.spare = t.spare
      /\ b.released = t.released /\ b.nactive = t.nactive /\ b.ndirty = t.ndirty
      /\ b.npurgatory = t.npurgatory
  BY <1>3, <1>4 DEF IsArena
<1>7. (a.dirtied \cup {c}) \ {c} = a.dirtied \ {c}
  OBVIOUS
<1> QED  BY <1>3, <1>5, <1>6, <1>7 DEF NewFields

LEMMA NewGood ==
  ASSUME NEW a, NEW A, NEW K, Good(a, A, K), NEW c \in Chunks, c \notin a.mapped,
         NEW b, b = NewChunk(a, c)
  PROVE  /\ Good(b, A, K \cup {c}) /\ NewFields(a, b, c)
         /\ FreeRuns(b) = FreeRuns(a) \cup {First(c)} /\ First(c) \notin FreeRuns(a)
         /\ First(c) \in b.clean /\ b.map[First(c)] = Elem(NP, {})
         /\ \A q \in A \cup FreeRuns(a) : Same(a, b, q)
<1> DEFINE F == FreeRuns(a)
           r == First(c)
           e == First(c) + NP - 1
<1>1. Typed(a) /\ Laid(a, A, F, K) /\ Sorted(a) /\ Apart(a, F) /\ Listed(a, K) /\ K \subseteq a.mapped
  BY DEF Good
<1>2. NewFields(a, b, c) /\ IsArena(b)
  BY <1>1, NewIs
<1>3. /\ c \in Int /\ r \in Pages /\ Base(r) = c /\ e \in Pages /\ Base(e) = c
      /\ Of(c) = {p \in Pages : Base(p) = c}
  BY ChunkSpan
<1>4. c \notin K
  BY <1>1
<1>5. FieldsTyped(a)
  BY <1>1, TypedIs
<1>6. PICK new : new = [p \in Of(c) |-> Elem(IF p \in {r, e} THEN NP ELSE 0, {})]
  OBVIOUS
<1>7. b.map = Written(a.map, new) /\ DOMAIN new = Of(c)
  BY <1>2, <1>6 DEF NewFields
<1>8. \A p \in Pages : b.map[p] = IF Base(p) = c THEN new[p] ELSE a.map[p]
  BY <1>3, <1>7 DEF Written
<1>9. b.map[r] = Elem(NP, {}) /\ b.map[e] = Elem(NP, {})
  BY <1>3, <1>6, <1>8
<1>10. b.map \in [Pages -> Elems]
  <2>1. \A p \in DOMAIN new : new[p] \in Elems
    <3>1. {} \in SUBSET AllFlags /\ NP \in Int
      BY Numbers
    <3> QED  BY <1>6, <3>1, ElemTyped
  <2> QED  BY <1>5, <1>7, <2>1, WrittenTyped DEF FieldsTyped
<1>11. Laid(b, A, F, K) /\ \A q \in A \cup F : Same(a, b, q)
  <2>1. \A p \in Pages : Base(p) \in K => b.map[p] = a.map[p]
    BY <1>4, <1>8
  <2> QED  BY <1>1, <2>1, LaidApart
<1>12. b.map[r].flags = {} /\ b.map[r].size = NP
  BY <1>9 DEF Elem
<1>13. Length(b, r) = NP
  BY <1>12 DEF Length, IsFree
<1>14. FreeRun(b, r)
  BY <1>9, <1>12, <1>13 DEF FreeRun, FreeFlags
<1>15. Tiles(b, (A \cup F) \cup {r}, K \cup {c}) /\ r \notin A \cup F
  <2>1. PICK R : R = A \cup F
    OBVIOUS
  <2>2. Tiles(b, R, K)
    BY <1>11, <2>1 DEF Laid
  <2> QED  BY <1>4, <1>13, <2>1, <2>2, TileNew
<1>16. Laid(b, A, F \cup {r}, K \cup {c})
  <2>1. A \cup (F \cup {r}) = (A \cup F) \cup {r}
    OBVIOUS
  <2>2. Kind(b, r, A, F \cup {r})
    BY <1>14, <1>15 DEF Kind
  <2>3. ASSUME NEW q \in A \cup F PROVE Kind(b, q, A, F \cup {r})
    <3>1. Kind(b, q, A, F) /\ q # r
      BY <1>11, <1>15 DEF Laid
    <3> QED  BY <3>1 DEF Kind
  <2>4. \A q \in (A \cup F) \cup {r} : Kind(b, q, A, F \cup {r})
    BY <2>2, <2>3
  <2> QED  BY <1>15, <2>1, <2>4 DEF Laid
<1>17. b.clean = a.clean \cup {r} /\ b.dirty = a.dirty /\ SpareRuns(b) = SpareRuns(a)
  BY <1>2 DEF NewFields, SpareRuns
<1>18. FreeRuns(b) = F \cup {r}
  BY <1>17 DEF FreeRuns
<1>19. \A q \in F : b.map[q] = a.map[q] /\ Length(b, q) = Length(a, q)
  BY <1>11 DEF Same
<1>20. Sorted(b)
  <2>1. r \notin a.clean \cup a.dirty \cup SpareRuns(a)
    BY <1>15 DEF FreeRuns
  <2>2. \A q \in a.clean \cup a.dirty \cup SpareRuns(a) : b.map[q] = a.map[q]
    BY <1>19 DEF FreeRuns
  <2> QED  BY <1>1, <1>12, <1>17, <2>1, <2>2 DEF Sorted
<1>21. Apart(b, F \cup {r})
  <2> SUFFICES ASSUME NEW q \in F \cup {r}, NEW u \in F \cup {r},
                      u = q + Length(b, q), Base(u) = Base(q)
               PROVE  b.map[u].flags # b.map[q].flags
    BY DEF Apart
  <2>0. \A x \in F : Base(x) \in K
    BY <1>1, LaidEnds
  <2>1. CASE q \in F /\ u \in F
    BY <1>1, <1>19, <2>1 DEF Apart
  <2>2. CASE q = r /\ u = r
    BY <1>3, <1>13, <2>2, Numbers DEF Pages
  <2>3. CASE q = r /\ u \in F
    BY <1>3, <1>4, <2>0, <2>3
  <2>4. CASE q \in F /\ u = r
    BY <1>3, <1>4, <2>0, <2>4
  <2> QED  BY <2>1, <2>2, <2>3, <2>4
<1>22. Listed(b, K \cup {c})
  BY <1>1, <1>2, <1>4 DEF Listed, NewFields
<1>23. K \cup {c} \subseteq b.mapped
  BY <1>1, <1>2 DEF NewFields
<1>24. Typed(b)
  <2>1. b.cdirty \in [Chunks -> Int]
    <3>1. b.cdirty = [a.cdirty EXCEPT ![c] = 0]
      BY <1>2 DEF NewFields
    <3> QED  BY <1>5, <3>1 DEF FieldsTyped
  <2>2. b.clean \in SUBSET Pages
    BY <1>3, <1>5, <1>17 DEF FieldsTyped
  <2>3. FieldsTyped(b)
    BY <1>2, <1>5, <1>10, <2>1, <2>2 DEF FieldsTyped, NewFields
  <2> QED  BY <1>2, <2>3, TypedIs
<1>25. Good(b, A, K \cup {c})
  BY <1>16, <1>18, <1>20, <1>21, <1>22, <1>23, <1>24 DEF Good
<1> QED  BY <1>2, <1>9, <1>11, <1>15, <1>17, <1>18, <1>25

(* What UnmapChunk does to the arena. *)
Unmapped(a, c) ==
  [a EXCEPT !.mapped = @ \ {c}, !.dirtied = @ \ {c}, !.cdirty[c] = 0, !.touched = @ \ Of(c),
            !.map = Written(@, [p \in Of(c) |-> Elem(0, {})])]

UnmapFields(a, b, c) ==
  /\ b.map = Written(a.map, [p \in Of(c) |-> Elem(0, {})])
  /\ b.mapped = a.mapped \ {c} /\ b.dirtied = a.dirtied \ {c}
  /\ b.cdirty = [a.cdirty EXCEPT ![c] = 0] /\ b.touched = a.touched \ Of(c)
  /\ b.clean = a.clean /\ b.dirty = a.dirty /\ b.chunks_dirty = a.chunks_dirty
  /\ b.spare = a.spare /\ b.released = a.released /\ b.nactive = a.nactive
  /\ b.ndirty = a.ndirty /\ b.npurgatory = a.npurgatory

LEMMA UnmapGood ==
  ASSUME NEW a, NEW A, NEW K, Good(a, A, K), NEW c \in Chunks, c \notin K,
         NEW b, b = Unmapped(a, c)
  PROVE  /\ Good(b, A, K) /\ UnmapFields(a, b, c) /\ FreeRuns(b) = FreeRuns(a)
         /\ \A q \in A \cup FreeRuns(a) : Same(a, b, q)
<1> DEFINE F == FreeRuns(a)
<1>1. Typed(a) /\ Laid(a, A, F, K) /\ Sorted(a) /\ Apart(a, F) /\ Listed(a, K) /\ K \subseteq a.mapped
  BY DEF Good
<1>2. IsArena(a) /\ FieldsTyped(a)
  BY <1>1, TypedIs
<1>3. UnmapFields(a, b, c) /\ IsArena(b)
  BY <1>2 DEF Unmapped, UnmapFields, IsArena
<1>4. Of(c) = {p \in Pages : Base(p) = c}
  BY ChunkSpan
<1>5. PICK new : new = [p \in Of(c) |-> Elem(0, {})]
  OBVIOUS
<1>6. b.map = Written(a.map, new) /\ DOMAIN new = Of(c)
  BY <1>3, <1>5 DEF UnmapFields
<1>7. b.map \in [Pages -> Elems]
  <2>1. \A p \in DOMAIN new : new[p] \in Elems
    BY <1>5, ElemTyped
  <2> QED  BY <1>2, <1>6, <2>1, WrittenTyped DEF FieldsTyped
<1>8. Laid(b, A, F, K) /\ \A q \in A \cup F : Same(a, b, q)
  <2>1. \A p \in Pages : Base(p) \in K => b.map[p] = a.map[p]
    BY <1>4, <1>6 DEF Written
  <2> QED  BY <1>1, <2>1, LaidApart
<1>9. FreeRuns(b) = F /\ SpareRuns(b) = SpareRuns(a) /\ b.clean = a.clean /\ b.dirty = a.dirty
  BY <1>3 DEF FreeRuns, SpareRuns, UnmapFields
<1>10. \A q \in F : b.map[q] = a.map[q] /\ Length(b, q) = Length(a, q)
  BY <1>8 DEF Same
<1>11. Sorted(b)
  <2>1. \A q \in a.clean \cup a.dirty \cup SpareRuns(a) : b.map[q] = a.map[q]
    BY <1>10 DEF FreeRuns
  <2> QED  BY <1>1, <1>9, <2>1 DEF Sorted
<1>12. Apart(b, F)
  BY <1>1, <1>10 DEF Apart
<1>13. Listed(b, K) /\ K \subseteq b.mapped
  BY <1>1, <1>3 DEF Listed, UnmapFields
<1>14. Typed(b)
  <2>1. b.cdirty \in [Chunks -> Int]
    BY <1>2, <1>3 DEF FieldsTyped, UnmapFields
  <2>2. FieldsTyped(b)
    BY <1>2, <1>3, <1>7, <2>1 DEF FieldsTyped, UnmapFields
  <2> QED  BY <1>3, <2>2, TypedIs
<1>15. Good(b, A, K)
  BY <1>8, <1>9, <1>11, <1>12, <1>13, <1>14 DEF Good
<1> QED  BY <1>3, <1>8, <1>9, <1>15

(* Chunks without dirty pages leave the front of the list. *)
LEMMA MinIs ==
  ASSUME NEW S \in SUBSET Nat, S # {}
  PROVE  Min(S) \in S /\ \A y \in S : Min(S) <= y
<1>1. \E x \in S : \A y \in S : x <= y
  BY LeastNumber
<1> QED  BY <1>1 DEF Min

RestOf(s, g, u, D) ==
  /\ u \in Seq(Chunks) /\ IsInjective(u) /\ Range(u) = Range(s) \ D
  /\ Len(u) = Len(s) - g /\ (u # <<>> => g < Len(s) /\ Head(u) = s[g + 1])

LEMMA RestIs ==
  ASSUME NEW s \in Seq(Chunks), IsInjective(s), NEW g \in Nat, g <= Len(s),
         NEW u, u = SubSeq(s, g + 1, Len(s)), NEW D, D = {s[i] : i \in 1 .. g}
  PROVE  RestOf(s, g, u, D)
<1>1. PICK n \in Nat : n = Len(s) /\ DOMAIN s = 1 .. n
  OBVIOUS
<1>2. \A k \in 1 .. n : s[k] \in Chunks
  BY <1>1
<1>3. u = [k \in 1 .. n - g |-> s[k + g]]
  BY <1>1
<1>4. \A k \in 1 .. n - g : k + g \in 1 .. n
  BY <1>1
<1>5. u \in Seq(Chunks) /\ Len(u) = n - g /\ DOMAIN u = 1 .. n - g
  BY <1>1, <1>2, <1>3, <1>4
<1>6. IsInjective(u)
  <2> SUFFICES ASSUME NEW k \in 1 .. n - g, NEW l \in 1 .. n - g, u[k] = u[l] PROVE k = l
    BY <1>5 DEF IsInjective
  <2>1. s[k + g] = s[l + g]
    BY <1>3
  <2>2. k + g = l + g
    BY <1>1, <1>4, <2>1 DEF IsInjective
  <2> QED  BY <2>2
<1>7. ASSUME NEW x \in Range(u) PROVE x \in Range(s) /\ x \notin D
  <2>1. PICK k \in 1 .. n - g : x = u[k]
    BY <1>5, <1>7 DEF Range
  <2>2. x = s[k + g] /\ k + g \in 1 .. n
    BY <1>3, <1>4, <2>1
  <2>3. x \in Range(s)
    BY <1>1, <2>2 DEF Range
  <2>4. \A i \in 1 .. g : s[i] # x
    BY <1>1, <2>2 DEF IsInjective
  <2> QED  BY <2>3, <2>4
<1>8. ASSUME NEW x \in Range(s), x \notin D PROVE x \in Range(u)
  <2>1. PICK i \in 1 .. n : x = s[i]
    BY <1>1, <1>8 DEF Range
  <2>2. i > g
    BY <1>8, <2>1
  <2>3. PICK k \in 1 .. n - g : k = i - g
    BY <2>2
  <2>4. u[k] = x
    BY <1>3, <2>1, <2>3
  <2> QED  BY <1>5, <2>4 DEF Range
<1>9. ASSUME u # <<>> PROVE g < n /\ Head(u) = s[g + 1]
  <2>1. Len(u) # 0
    BY <1>5, <1>9
  <2>2. 1 \in 1 .. n - g /\ g < n
    BY <1>1, <1>5, <2>1
  <2>3. Head(u) = u[1]
    BY <1>5, <1>9
  <2>4. u[1] = s[g + 1]
    <3>1. 1 + g = g + 1
      OBVIOUS
    <3>2. u[1] = s[1 + g]
      BY <1>3, <2>2
    <3> QED  BY <3>1, <3>2
  <2> QED  BY <2>2, <2>3, <2>4
<1> QED  BY <1>1, <1>5, <1>6, <1>7, <1>8, <1>9 DEF RestOf

ShortFields(a, b) ==
  /\ b.map = a.map /\ b.clean = a.clean /\ b.dirty = a.dirty /\ b.cdirty = a.cdirty
  /\ b.spare = a.spare /\ b.mapped = a.mapped /\ b.nactive = a.nactive /\ b.ndirty = a.ndirty
  /\ b.released = a.released /\ b.touched = a.touched /\ b.npurgatory = a.npurgatory
  /\ b.dirtied \subseteq a.dirtied /\ \A c \in a.dirtied \ b.dirtied : a.cdirty[c] = 0

LEMMA ShortGood ==
  ASSUME NEW a, NEW A, NEW K, Good(a, A, K), NEW b, b = Shortened(a)
  PROVE  /\ Good(b, A, K) /\ ShortFields(a, b) /\ FreeRuns(b) = FreeRuns(a)
         /\ b.chunks_dirty # <<>> =>
              /\ Head(b.chunks_dirty) \in K \cap b.dirtied
              /\ a.cdirty[Head(b.chunks_dirty)] # 0
         /\ \A q : Same(a, b, q)
<1>1. Typed(a) /\ Laid(a, A, FreeRuns(a), K) /\ Listed(a, K)
  BY DEF Good
<1>2. IsArena(a) /\ FieldsTyped(a)
  BY <1>1, TypedIs
<1>3. PICK s : s = a.chunks_dirty
  OBVIOUS
<1>4. s \in Seq(Chunks) /\ IsInjective(s) /\ Range(s) = a.dirtied \cap K
  BY <1>1, <1>2, <1>3 DEF Listed, FieldsTyped
<1>5. PICK full : full = {i \in DOMAIN s : a.cdirty[s[i]] # 0}
  OBVIOUS
<1>6. PICK g : g = IF full = {} THEN Len(s) ELSE Min(full) - 1
  OBVIOUS
<1>7. DOMAIN s = 1 .. Len(s) /\ Len(s) \in Nat
  BY <1>4
<1>8. g \in Nat /\ g <= Len(s) /\ (\A i \in 1 .. g : a.cdirty[s[i]] = 0)
      /\ (g < Len(s) => a.cdirty[s[g + 1]] # 0)
  <2>1. CASE full = {}
    BY <1>5, <1>6, <1>7, <2>1
  <2>2. CASE full # {}
    <3>1. full \in SUBSET Nat
      BY <1>5, <1>7
    <3>2. Min(full) \in full /\ \A i \in full : Min(full) <= i
      BY <2>2, <3>1, MinIs
    <3>3. PICK m : m = Min(full)
      OBVIOUS
    <3>4. m \in 1 .. Len(s) /\ a.cdirty[s[m]] # 0 /\ g = m - 1
      BY <1>5, <1>6, <1>7, <2>2, <3>2, <3>3
    <3>5. \A i \in 1 .. m - 1 : i \in DOMAIN s /\ i \notin full
      BY <1>7, <3>1, <3>2, <3>3, <3>4
    <3> QED  BY <1>5, <1>7, <3>4, <3>5
  <2> QED  BY <2>1, <2>2
<1>9. PICK u, D : u = SubSeq(s, g + 1, Len(s)) /\ D = {s[i] : i \in 1 .. g}
  OBVIOUS
<1>10. /\ u \in Seq(Chunks) /\ IsInjective(u) /\ Range(u) = Range(s) \ D
       /\ Len(u) = Len(s) - g /\ (u # <<>> => g < Len(s) /\ Head(u) = s[g + 1])
  <2>1. RestOf(s, g, u, D)
    BY <1>4, <1>8, <1>9, RestIs
  <2> QED  BY <2>1 DEF RestOf
<1>11. b = [a EXCEPT !.chunks_dirty = u, !.dirtied = @ \ D]
  <2>1. b = [a EXCEPT !.chunks_dirty = SubSeq(@, g + 1, Len(@)),
                      !.dirtied = @ \ {a.chunks_dirty[i] : i \in 1 .. g}]
    BY <1>3, <1>5, <1>6 DEF Shortened
  <2> QED  BY <1>2, <1>3, <1>9, <2>1 DEF IsArena
<1>12. IsArena(b)
  BY <1>2, <1>11 DEF IsArena
<1>13. /\ b.chunks_dirty = u /\ b.dirtied = a.dirtied \ D
       /\ b.map = a.map /\ b.clean = a.clean /\ b.dirty = a.dirty /\ b.cdirty = a.cdirty
       /\ b.spare = a.spare /\ b.mapped = a.mapped /\ b.nactive = a.nactive /\ b.ndirty = a.ndirty
       /\ b.released = a.released /\ b.touched = a.touched /\ b.npurgatory = a.npurgatory
  BY <1>2, <1>11 DEF IsArena
<1>14. ShortFields(a, b)
  BY <1>8, <1>9, <1>13 DEF ShortFields
<1>15. Typed(b)
  <2>1. b.dirtied \in SUBSET Chunks
    BY <1>2, <1>13 DEF FieldsTyped
  <2>2. FieldsTyped(b)
    BY <1>2, <1>10, <1>13, <2>1 DEF FieldsTyped
  <2> QED  BY <1>12, <2>2, TypedIs
<1>16. FreeRuns(b) = FreeRuns(a) /\ SpareRuns(b) = SpareRuns(a)
  BY <1>13 DEF FreeRuns, SpareRuns
<1>17. Laid(b, A, FreeRuns(a), K) /\ \A q : Same(a, b, q)
  BY <1>1, <1>13, LaidMap
<1>18. \A q : Length(b, q) = Length(a, q)
  BY <1>17 DEF Same
<1>19. Sorted(b) /\ Apart(b, FreeRuns(a)) /\ K \subseteq b.mapped
  BY <1>13, <1>16, <1>18 DEF Good, Sorted, Apart
<1>20. Listed(b, K)
  BY <1>4, <1>10, <1>13 DEF Listed
<1>21. Good(b, A, K)
  BY <1>15, <1>16, <1>17, <1>19, <1>20 DEF Good
<1>22. ASSUME b.chunks_dirty # <<>>
       PROVE  Head(b.chunks_dirty) \in K \cap b.dirtied /\ a.cdirty[Head(b.chunks_dirty)] # 0
  <2>1. Head(u) = s[g + 1] /\ g < Len(s)
    BY <1>10, <1>13, <1>22
  <2>2. Head(u) \in Range(u)
    <3>1. 1 \in DOMAIN u /\ Head(u) = u[1]
      BY <1>10, <1>13, <1>22
    <3> QED  BY <3>1 DEF Range
  <2> QED  BY <1>4, <1>8, <1>10, <1>13, <2>1, <2>2
<1> QED  BY <1>14, <1>16, <1>17, <1>21, <1>22

-----------------------------------------------------------------------------
(* The runs of a chunk, as Starts goes through them.                       *)

Goes(a, c, p) == p + Length(a, p) \in p + 1 .. First(c) + NP - 1
Closed(a, c, S) == \A x \in S : Goes(a, c, x) => x + Length(a, x) \in S
Reached(a, c, p) == {q \in Of(c) : \A S \in SUBSET Of(c) : p \in S /\ Closed(a, c, S) => q \in S}
Through(a, c, f) ==
  f = [p \in Of(c) |-> {p} \cup IF Goes(a, c, p) THEN f[p + Length(a, p)] ELSE {}]

LEMMA ReachedIs ==
  ASSUME NEW a, NEW c \in Chunks, NEW p \in Of(c)
  PROVE  Reached(a, c, p)
           = {p} \cup IF Goes(a, c, p) THEN Reached(a, c, p + Length(a, p)) ELSE {}
<1>1. First(c) \in Int /\ p \in Int /\ Of(c) = First(c) .. First(c) + NP - 1 /\ NP \in Nat
  <2>1. First(c) \in Int
    BY ChunkSpan DEF Pages
  <2> QED  BY <2>1, Numbers DEF Of
<1>2. PICK n : n = p + Length(a, p)
  OBVIOUS
<1>3. Goes(a, c, p) => n \in Of(c)
  BY <1>1, <1>2 DEF Goes
<1>4. PICK T : T = {p} \cup IF Goes(a, c, p) THEN Reached(a, c, n) ELSE {}
  OBVIOUS
<1>5. T \subseteq Reached(a, c, p)
  <2>1. p \in Reached(a, c, p)
    BY DEF Reached
  <2>2. ASSUME Goes(a, c, p), NEW q \in Reached(a, c, n) PROVE q \in Reached(a, c, p)
    BY <1>2, <2>2 DEF Reached, Closed
  <2> QED  BY <1>4, <2>1, <2>2
<1>6. T \in SUBSET Of(c) /\ p \in T
  BY <1>4 DEF Reached
<1>7. Closed(a, c, T)
  <2> SUFFICES ASSUME NEW x \in T, Goes(a, c, x) PROVE x + Length(a, x) \in T
    BY DEF Closed
  <2>1. CASE x = p
    <3>1. n \in Reached(a, c, n)
      BY <1>3, <2>1 DEF Reached
    <3> QED  BY <1>2, <1>4, <2>1, <3>1
  <2>2. CASE x # p
    <3>1. Goes(a, c, p) /\ x \in Reached(a, c, n)
      BY <1>4, <2>2
    <3>2. x \in Int
      BY <1>1, <3>1 DEF Reached
    <3>3. PICK y : y = x + Length(a, x)
      OBVIOUS
    <3>4. y \in Of(c)
      <4>1. x \in Of(c)
        BY <3>1 DEF Reached
      <4> QED  BY <1>1, <3>2, <3>3, <4>1 DEF Goes
    <3>5. y \in Reached(a, c, n)
      <4>1. ASSUME NEW S \in SUBSET Of(c), n \in S, Closed(a, c, S) PROVE y \in S
        <5>1. x \in S
          BY <3>1, <4>1 DEF Reached
        <5> QED  BY <3>3, <4>1, <5>1 DEF Closed
      <4> QED  BY <3>4, <4>1 DEF Reached
    <3> QED  BY <1>4, <3>1, <3>3, <3>5
  <2> QED  BY <2>1, <2>2
<1>8. Reached(a, c, p) \subseteq T
  BY <1>6, <1>7 DEF Reached
<1> QED  BY <1>2, <1>4, <1>5, <1>8

LEMMA StartsThrough ==
  ASSUME NEW a, NEW c \in Chunks
  PROVE  \E f : Through(a, c, f) /\ Starts(a, c) = f[First(c)]
<1>1. PICK g : g = [p \in Of(c) |-> Reached(a, c, p)]
  OBVIOUS
<1>2. ASSUME NEW p \in Of(c), Goes(a, c, p) PROVE p + Length(a, p) \in Of(c)
  <2>1. First(c) \in Int /\ p \in Int /\ Of(c) = First(c) .. First(c) + NP - 1 /\ NP \in Nat
    <3>1. First(c) \in Int
      BY ChunkSpan DEF Pages
    <3> QED  BY <3>1, Numbers DEF Of
  <2> QED  BY <1>2, <2>1 DEF Goes
<1>3. Through(a, c, g)
  <2>1. \A p \in Of(c) : g[p] = {p} \cup IF Goes(a, c, p) THEN g[p + Length(a, p)] ELSE {}
    BY <1>1, <1>2, ReachedIs
  <2> QED  BY <1>1, <2>1 DEF Through
<1>4. PICK f : f = CHOOSE h : h = [p \in Of(c) |->
                     {p} \cup IF p + Length(a, p) \in p + 1 .. First(c) + NP - 1
                              THEN h[p + Length(a, p)] ELSE {}]
  OBVIOUS
<1>5. Through(a, c, f)
  BY <1>3, <1>4 DEF Through, Goes
<1>6. Starts(a, c) = f[First(c)]
  BY <1>4 DEF Starts
<1> QED  BY <1>5, <1>6

LEMMA StartsIs ==
  ASSUME NEW a, NEW A, NEW F, NEW K, Laid(a, A, F, K), NEW c \in K, c \in Chunks
  PROVE  Starts(a, c) = {r \in A \cup F : Base(r) = c}
<1>1. PICK f : Through(a, c, f) /\ Starts(a, c) = f[First(c)]
  BY StartsThrough
<1>2. PICK R : R = A \cup F
  OBVIOUS
<1>3. Tiles(a, R, K)
  BY <1>2 DEF Laid
<1>4. PICK Q : Q = {r \in R : Base(r) = c}
  OBVIOUS
<1>5. PICK last : last = First(c) + NP - 1
  OBVIOUS
<1>6. /\ First(c) \in Int /\ last \in Int /\ c \in Int
      /\ Of(c) = {p \in Pages : Base(p) = c} /\ Of(c) = First(c) .. last
  <2>1. First(c) \in Int /\ c \in Int /\ Of(c) = {p \in Pages : Base(p) = c}
    BY ChunkSpan DEF Pages
  <2> QED  BY <1>5, <2>1, Numbers DEF Of
<1>7. \A r \in Q : /\ r \in R /\ r \in Int /\ r \in Of(c) /\ Length(a, r) \in Nat /\ Length(a, r) >= 1
                   /\ First(c) <= r /\ r <= last
  <2> SUFFICES ASSUME NEW r \in Q
               PROVE  /\ r \in R /\ r \in Int /\ r \in Of(c) /\ Length(a, r) \in Nat
                      /\ Length(a, r) >= 1 /\ First(c) <= r /\ r <= last
    OBVIOUS
  <2>1. r \in R /\ Base(r) = c
    BY <1>4
  <2>2. r \in Int /\ Length(a, r) \in Nat /\ Length(a, r) >= 1 /\ r \in Pages
    BY <1>3, <2>1, TileEnds DEF Tiles
  <2>3. r \in Of(c)
    BY <1>6, <2>1, <2>2
  <2> QED  BY <1>6, <2>1, <2>2, <2>3
<1>8. PICK Bad : Bad = {n \in Nat : \E r \in Q : n = last - r /\ f[r] # {q \in Q : q >= r}}
  OBVIOUS
<1>9. ASSUME Bad # {} PROVE FALSE
  <2>1. PICK n \in Bad : \A m \in Bad : n <= m
    BY <1>8, <1>9, LeastNumber
  <2>2. PICK r \in Q : n = last - r /\ f[r] # {q \in Q : q >= r}
    BY <1>8, <2>1
  <2>3. r \in R /\ r \in Int /\ r \in Of(c) /\ Length(a, r) \in Nat /\ Length(a, r) >= 1
        /\ First(c) <= r /\ r <= last /\ Base(r) = c
    BY <1>4, <1>7
  <2>4. PICK s : s = r + Length(a, r)
    OBVIOUS
  <2>5. f[r] = {r} \cup IF Goes(a, c, r) THEN f[s] ELSE {}
    BY <1>1, <2>3, <2>4 DEF Through
  <2>6. \A q \in Q : q > r => q >= s
    <3>1. \A x, y \in R : x < y => x + Length(a, x) <= y
      BY <1>3 DEF Tiles
    <3> QED  BY <1>7, <2>3, <2>4, <3>1
  <2>7. CASE Goes(a, c, r)
    <3>1. s \in Int /\ s \in Of(c) /\ s > r
      BY <1>5, <1>6, <2>3, <2>4, <2>7 DEF Goes
    <3>2. Base(s) = c
      BY <1>6, <3>1
    <3>3. s \in Q
      BY <1>3, <1>4, <2>3, <2>4, <3>2, TileNext
    <3>4. f[s] = {q \in Q : q >= s}
      <4>1. ASSUME f[s] # {q \in Q : q >= s} PROVE FALSE
        <5>1. last - s \in Nat /\ last - s < n
          BY <1>6, <1>7, <2>2, <2>3, <3>1, <3>3
        <5>2. last - s \in Bad
          BY <1>8, <3>3, <4>1, <5>1
        <5>3. n \in Nat
          BY <1>8
        <5> QED  BY <2>1, <5>1, <5>2, <5>3
      <4> QED  BY <4>1
    <3>5. f[r] = {q \in Q : q >= r}
      <4>1. f[r] = {r} \cup {q \in Q : q >= s}
        BY <2>5, <2>7, <3>4
      <4>2. ASSUME NEW q \in Q PROVE q >= r <=> (q = r \/ q >= s)
        BY <1>7, <2>3, <2>6, <3>1
      <4> QED  BY <4>1, <4>2
    <3> QED  BY <2>2, <3>5
  <2>8. CASE ~Goes(a, c, r)
    <3>1. s > last /\ s \in Int
      BY <1>5, <1>6, <2>3, <2>4, <2>8 DEF Goes
    <3>2. \A q \in Q : q >= r => q = r
      BY <1>6, <1>7, <2>3, <2>6, <3>1
    <3>3. f[r] = {q \in Q : q >= r}
      BY <2>3, <2>5, <2>8, <3>2
    <3> QED  BY <2>2, <3>3
  <2> QED  BY <2>7, <2>8
<1>10. \A r \in Q : f[r] = {q \in Q : q >= r}
  <2>1. ASSUME NEW r \in Q PROVE last - r \in Nat
    BY <1>6, <1>7
  <2> QED  BY <1>8, <1>9, <2>1
<1>11. First(c) \in Q
  BY <1>2, <1>4, LaidFirst
<1>12. f[First(c)] = Q
  BY <1>7, <1>10, <1>11
<1> QED  BY <1>1, <1>2, <1>4, <1>12

-----------------------------------------------------------------------------
(* arena_chunk_purge.                                                      *)

Soiled(a, c) == {r \in FreeRuns(a) : Base(r) = c /\ a.map[r].flags # {}}

LEMMA PagesFinite ==
  ASSUME NEW S \in SUBSET Pages
  PROVE  IsFiniteSet(S)
<1>1. 0 \in Int /\ NC * NP - 1 \in Int
  BY Numbers
<1>2. IsFiniteSet(Pages)
  BY <1>1, FS_Interval DEF Pages
<1> QED  BY <1>2, FS_Subset

LEMMA DirtyRunsAre ==
  ASSUME NEW a, NEW A, NEW K, Good(a, A, K), NEW c \in K
  PROVE  /\ DirtyRuns(a, c) = Soiled(a, c) /\ Soiled(a, c) \in SUBSET Pages /\ c \in Chunks
         /\ c # a.spare => Soiled(a, c) \subseteq a.dirty
<1>1. Typed(a) /\ Laid(a, A, FreeRuns(a), K) /\ Sorted(a) /\ K \subseteq a.mapped
  BY DEF Good
<1>2. c \in Chunks
  BY <1>1, TypedIs DEF FieldsTyped
<1>3. Starts(a, c) = {r \in A \cup FreeRuns(a) : Base(r) = c}
  BY <1>1, <1>2, StartsIs
<1>4. \A r \in A : ~IsFree(a.map[r])
  BY <1>1, AllocLength
<1>5. \A r \in FreeRuns(a) : IsFree(a.map[r]) /\ Dirty(a.map[r]) = a.map[r].flags /\ r \in Pages
  BY <1>1, FreeLength
<1>6. DirtyRuns(a, c) = Soiled(a, c) /\ Soiled(a, c) \in SUBSET Pages
  BY <1>3, <1>4, <1>5 DEF DirtyRuns, Soiled
<1>7. ASSUME c # a.spare PROVE Soiled(a, c) \subseteq a.dirty
  <2>1. \A d \in Chunks : Base(First(d)) = d
    BY ChunkSpan
  <2>2. \A r \in SpareRuns(a) : Base(r) = a.spare
    BY <2>1 DEF SpareRuns
  <2>3. \A r \in a.clean : a.map[r].flags = {}
    BY <1>1 DEF Sorted
  <2> QED  BY <1>7, <2>2, <2>3 DEF Soiled, FreeRuns
<1> QED  BY <1>2, <1>6, <1>7

PurgedMap(map, runs) ==
  Written(map, [p \in UNION {r .. r + map[r].size - 1 : r \in runs} |->
                  IF p \in runs THEN Elem(map[p].size, Taken)
                  ELSE IF \E r \in runs : p = r + map[r].size - 1 THEN Elem(0, Taken)
                  ELSE Elem(0, {})])

(* All of arena_chunk_purge but that the chunk is the spare no more. *)
Purged(a, c, runs) ==
  [a EXCEPT !.dirty = @ \ runs, !.map = PurgedMap(@, runs),
            !.nactive = @ + SumFunction([r \in runs |-> a.map[r].size]),
            !.ndirty = @ - a.cdirty[c], !.cdirty[c] = 0,
            !.chunks_dirty = Without(@, c), !.dirtied = @ \ {c}]

PurgedFields(a, b, c, runs) ==
  /\ b.map = PurgedMap(a.map, runs) /\ b.clean = a.clean /\ b.dirty = a.dirty \ runs
  /\ b.nactive = a.nactive + SumFunction([r \in runs |-> a.map[r].size])
  /\ b.ndirty = a.ndirty - a.cdirty[c] /\ b.cdirty = [a.cdirty EXCEPT ![c] = 0]
  /\ b.chunks_dirty = Without(a.chunks_dirty, c) /\ b.dirtied = a.dirtied \ {c}
  /\ b.spare = a.spare /\ b.released = a.released /\ b.mapped = a.mapped
  /\ b.touched = a.touched /\ b.npurgatory = a.npurgatory

LEMMA PurgedIs ==
  ASSUME NEW a, Typed(a), NEW c, NEW runs, NEW b, b = Purged(a, c, runs)
  PROVE  PurgedFields(a, b, c, runs) /\ IsArena(b)
<1>1. IsArena(a)
  BY TypedIs
<1>2. PICK map, n : /\ map = PurgedMap(a.map, runs)
                    /\ n = SumFunction([r \in runs |-> a.map[r].size])
  OBVIOUS
<1>3. b = [a EXCEPT !.dirty = @ \ runs, !.map = map,
            !.nactive = @ + n,
            !.ndirty = @ - a.cdirty[c], !.cdirty[c] = 0,
            !.chunks_dirty = Without(@, c), !.dirtied = @ \ {c}]
  BY <1>1, <1>2 DEF Purged, IsArena
<1>4. IsArena(b)
  BY <1>1, <1>3 DEF IsArena
<1>5. /\ b.map = map /\ b.clean = a.clean /\ b.dirty = a.dirty \ runs
      /\ b.nactive = a.nactive + n
      /\ b.ndirty = a.ndirty - a.cdirty[c] /\ b.cdirty = [a.cdirty EXCEPT ![c] = 0]
      /\ b.chunks_dirty = Without(a.chunks_dirty, c) /\ b.dirtied = a.dirtied \ {c}
      /\ b.spare = a.spare /\ b.released = a.released /\ b.mapped = a.mapped
      /\ b.touched = a.touched /\ b.npurgatory = a.npurgatory
  BY <1>1, <1>3 DEF IsArena
<1> QED  BY <1>2, <1>4, <1>5 DEF PurgedFields

LEMMA PurgedGood ==
  ASSUME NEW a, NEW A, NEW K, Good(a, A, K), NEW c \in K, c \in a.dirtied, c # a.spare,
         NEW runs, runs = Soiled(a, c), NEW b, b = Purged(a, c, runs)
  PROVE  /\ Good(b, A \cup runs, K) /\ PurgedFields(a, b, c, runs)
         /\ FreeRuns(b) = FreeRuns(a) \ runs /\ runs \cap A = {}
         /\ \A d \in runs : b.map[d] = Elem(a.map[d].size, Taken) /\ Length(b, d) = Length(a, d)
         /\ \A q \in (A \cup FreeRuns(a)) \ runs : Same(a, b, q)
<1> DEFINE F == FreeRuns(a)
<1>1. Typed(a) /\ Laid(a, A, F, K) /\ Sorted(a) /\ Apart(a, F) /\ Listed(a, K) /\ K \subseteq a.mapped
  BY DEF Good
<1>2. FieldsTyped(a)
  BY <1>1, TypedIs
<1>3. PurgedFields(a, b, c, runs) /\ IsArena(b)
  BY <1>1, PurgedIs
<1>4. runs \in SUBSET Pages /\ runs \subseteq F /\ runs \subseteq a.dirty /\ c \in Chunks
  BY DirtyRunsAre DEF Soiled
<1>5. \A r \in runs : /\ Length(a, r) = a.map[r].size /\ r \in Int /\ Length(a, r) \in Nat
                      /\ Length(a, r) >= 1 /\ r \notin A
  BY <1>1, <1>4, FreeLength, LaidEnds
<1>6. PICK S : S = UNION {r .. r + a.map[r].size - 1 : r \in runs}
  OBVIOUS
<1>7. PICK new : new = [p \in S |-> IF p \in runs THEN Elem(a.map[p].size, Taken)
                  ELSE IF \E r \in runs : p = r + a.map[r].size - 1 THEN Elem(0, Taken)
                  ELSE Elem(0, {})]
  OBVIOUS
<1>8. b.map = Written(a.map, new) /\ DOMAIN new = S
  BY <1>3, <1>6, <1>7 DEF PurgedFields, PurgedMap
<1>9. \A p \in Pages : b.map[p] = IF p \in S THEN new[p] ELSE a.map[p]
  BY <1>8 DEF Written
<1>10. b.map \in [Pages -> Elems]
  <2>1. ASSUME NEW p \in S PROVE new[p] \in Elems
    <3>1. Taken \in SUBSET AllFlags /\ {} \in SUBSET AllFlags
      BY DEF Taken, AllFlags
    <3>2. p \in runs => a.map[p].size \in Int
      BY <1>5
    <3> QED  BY <1>7, <3>1, <3>2, ElemTyped
  <2> QED  BY <1>2, <1>8, <2>1, WrittenTyped DEF FieldsTyped
<1>11. ASSUME NEW d \in runs
       PROVE  /\ b.map[d] = Elem(a.map[d].size, Taken) /\ Length(b, d) = Length(a, d)
              /\ "allocated" \in b.map[d + Length(a, d) - 1].flags
              /\ "allocated" \in b.map[d].flags
  <2>1. d \in S /\ d \in Pages
    BY <1>4, <1>5, <1>6
  <2>2. b.map[d] = Elem(a.map[d].size, Taken)
    BY <1>7, <1>9, <2>1
  <2>3. b.map[d].flags = Taken /\ b.map[d].size = a.map[d].size
    BY <2>2 DEF Elem
  <2>4. Length(b, d) = Length(a, d)
    BY <1>5, <2>3 DEF Length, IsFree, RunSize, Taken
  <2>5. PICK e : e = d + a.map[d].size - 1
    OBVIOUS
  <2>6. e \in S /\ e \in Pages
    <3>1. e \in d .. d + a.map[d].size - 1 /\ e \in d .. d + Length(a, d) - 1
      BY <1>5, <2>5
    <3> QED  BY <1>1, <1>4, <1>6, <3>1, LaidSpan
  <2>7. b.map[e] = (IF e \in runs THEN Elem(a.map[e].size, Taken) ELSE Elem(0, Taken))
    BY <1>7, <1>9, <2>5, <2>6
  <2>8. b.map[e].flags = Taken
    BY <2>7 DEF Elem
  <2> QED  BY <1>5, <2>2, <2>3, <2>4, <2>5, <2>8 DEF Taken
<1>12. Changes(a, b, runs, A \cup F)
  <2>1. ASSUME NEW p \in Pages, b.map[p] # a.map[p]
        PROVE  \E d \in runs : p \in d .. d + Length(a, d) - 1
    <3>1. p \in S
      BY <1>9, <2>1
    <3>2. PICK d \in runs : p \in d .. d + a.map[d].size - 1
      BY <1>6, <3>1
    <3> QED  BY <1>5, <3>2
  <2> QED  BY <1>4, <2>1 DEF Changes
<1>13. Laid(b, A \cup runs, F \ runs, K)
  <2>1. PICK A1, F1 : A1 = A \cup runs /\ F1 = F \ runs
    OBVIOUS
  <2>2. A1 \ runs = A \ runs /\ F1 \ runs = F \ runs
    BY <2>1
  <2>3. ASSUME NEW d \in runs PROVE Length(b, d) = Length(a, d) /\ Kind(b, d, A1, F1)
    BY <1>11, <2>1 DEF Kind, AllocRun
  <2>4. Laid(b, A1, F1, K)
    BY <1>1, <1>12, <2>2, <2>3, LaidTurn
  <2> QED  BY <2>1, <2>4
<1>14. \A q \in (A \cup F) \ runs : Same(a, b, q)
  BY <1>1, <1>12, SameBeside
<1>15. b.clean = a.clean /\ b.dirty = a.dirty \ runs /\ SpareRuns(b) = SpareRuns(a)
  BY <1>3 DEF PurgedFields, SpareRuns
<1>16. FreeRuns(b) = F \ runs
  <2>1. \A r \in a.clean : a.map[r].flags = {}
    BY <1>1 DEF Sorted
  <2>2. SpareRuns(a) \cap a.dirty = {}
    BY <1>1 DEF Sorted
  <2> QED  BY <1>4, <1>15, <2>1, <2>2 DEF FreeRuns, Soiled
<1>17. \A q \in F \ runs : b.map[q] = a.map[q] /\ Length(b, q) = Length(a, q)
  BY <1>14 DEF Same
<1>18. Sorted(b)
  <2>1. \A q \in b.clean \cup b.dirty \cup SpareRuns(b) : b.map[q] = a.map[q]
    BY <1>16, <1>17 DEF FreeRuns
  <2> QED  BY <1>1, <1>15, <2>1 DEF Sorted
<1>19. Apart(b, F \ runs)
  BY <1>1, <1>17 DEF Apart
<1>20. b.chunks_dirty \in Seq(Chunks) /\ Listed(b, K)
  <2>1. PICK s : s = a.chunks_dirty
    OBVIOUS
  <2>2. s \in Seq(Chunks) /\ IsInjective(s) /\ Range(s) = a.dirtied \cap K
    BY <1>1, <1>2, <2>1 DEF Listed, FieldsTyped
  <2>3. c \in Range(s)
    BY <2>2
  <2>4. /\ Without(s, c) \in Seq(Chunks) /\ IsInjective(Without(s, c))
        /\ Range(Without(s, c)) = Range(s) \ {c}
    BY <2>2, <2>3, WithoutIs
  <2> QED  BY <1>3, <2>1, <2>2, <2>4 DEF Listed, PurgedFields
<1>21. Typed(b)
  <2>1. SumFunction([r \in runs |-> a.map[r].size]) \in Nat
    <3>1. PICK f : f = [r \in runs |-> a.map[r].size]
      OBVIOUS
    <3>2. f \in [runs -> Nat] /\ IsFiniteSet(runs)
      BY <1>4, <1>5, <3>1, PagesFinite
    <3>3. SumFunction(f) \in Nat
      BY <3>2, SumIs
    <3> QED  BY <3>1, <3>3
  <2>2. b.cdirty \in [Chunks -> Int]
    BY <1>2, <1>3 DEF FieldsTyped, PurgedFields
  <2>3. a.cdirty[c] \in Int
    BY <1>2, <1>4 DEF FieldsTyped
  <2>4. b.nactive \in Int /\ b.ndirty \in Int
    BY <1>2, <1>3, <2>1, <2>3 DEF FieldsTyped, PurgedFields
  <2>5. FieldsTyped(b)
    BY <1>2, <1>3, <1>10, <1>20, <2>2, <2>4 DEF FieldsTyped, PurgedFields
  <2> QED  BY <1>3, <2>5, TypedIs
<1>22. K \subseteq b.mapped
  BY <1>1, <1>3 DEF PurgedFields
<1>23. Good(b, A \cup runs, K)
  BY <1>13, <1>16, <1>18, <1>19, <1>20, <1>21, <1>22 DEF Good
<1> QED  BY <1>3, <1>5, <1>11, <1>14, <1>16, <1>23

-----------------------------------------------------------------------------
(* A large object grows into the free run behind it.                       *)

Grown(b, r, e, n, fd) ==
  [b EXCEPT !.map =
     Inner([@ EXCEPT ![r] = Elem(n, Taken \cup fd), ![e] = Elem(0, Taken \cup fd)], r, n)]

GrownGives(b, g, A, K, r, s, n, fd) ==
  /\ Good(g, A \ {s}, K) /\ MapOnly(b, g) /\ g.touched = b.touched
  /\ FreeRuns(g) = FreeRuns(b)
  /\ g.map[r] = Elem(n, Taken \cup fd) /\ Length(g, r) = n /\ r # s /\ n >= 1
  /\ \A q \in (A \cup FreeRuns(b)) \ {r, s} : Same(b, g, q)

(* Two allocated runs side by side become one. *)
LEMMA GrownGood ==
  ASSUME NEW b, NEW A, NEW K, Good(b, A, K), NEW r \in A, NEW s \in A, s = r + Length(b, r),
         Base(s) = Base(r), NEW n, n = Length(b, r) + Length(b, s),
         NEW e, e = s + Length(b, s) - 1, NEW fd \in FreeFlags,
         NEW g, g = Grown(b, r, e, n, fd)
  PROVE  GrownGives(b, g, A, K, r, s, n, fd)
<1> DEFINE F == FreeRuns(b)
<1>1. Typed(b) /\ Laid(b, A, F, K)
  BY DEF Good
<1>2. IsArena(b) /\ FieldsTyped(b)
  BY <1>1, TypedIs
<1>3. /\ r \in Int /\ r \in Pages /\ Length(b, r) \in Nat /\ Length(b, r) >= 1
      /\ s \in Int /\ s \in Pages /\ Length(b, s) \in Nat /\ Length(b, s) >= 1 /\ e \in Pages
  BY <1>1, LaidEnds
<1>4. n \in Nat /\ n >= 1 /\ e = r + n - 1 /\ r # s /\ r # e /\ e \in Int
  BY <1>3
<1>5. PICK one, two : one = Elem(n, Taken \cup fd) /\ two = Elem(0, Taken \cup fd)
  OBVIOUS
<1>6. /\ one \in Elems /\ two \in Elems /\ one.size = n
      /\ one.flags = Taken \cup fd /\ two.flags = Taken \cup fd
  <2>1. (Taken \cup fd) \in SUBSET AllFlags
    BY DEF Taken, AllFlags, FreeFlags
  <2> QED  BY <1>4, <1>5, <2>1, ElemTyped
<1>7. PICK map : map = [b.map EXCEPT ![r] = one, ![e] = two]
  OBVIOUS
<1>8. map \in [Pages -> Elems] /\ map[r] = one /\ map[e] = two
      /\ \A p \in Pages : p # r /\ p # e => map[p] = b.map[p]
  BY <1>2, <1>3, <1>4, <1>6, <1>7 DEF FieldsTyped
<1>9. PICK h : h = [b EXCEPT !.map = map]
  OBVIOUS
<1>10. Typed(h) /\ h.map = map /\ MapOnly(b, h)
  BY <1>1, <1>8, <1>9, MapTyped
<1>11. h.touched = b.touched
  BY <1>2, <1>9 DEF IsArena
<1>12. "large" \in one.flags /\ "allocated" \in one.flags /\ "allocated" \in two.flags
  BY <1>6 DEF Taken
<1>13. Length(h, r) = n
  BY <1>6, <1>8, <1>10, <1>12 DEF Length, RunSize, IsFree
<1>14. AllocRun(h, r)
  BY <1>4, <1>8, <1>10, <1>12, <1>13 DEF AllocRun
<1>15. Changes(b, h, {r, s}, A \cup F)
  <2>1. r \in r .. r + Length(b, r) - 1 /\ e \in s .. s + Length(b, s) - 1
    BY <1>3
  <2> QED  BY <1>8, <1>10, <2>1 DEF Changes
<1>16. r \notin F /\ s \notin F
  BY <1>1, AllocLength
<1>17. PICK A1 : A1 = A \ {s}
  OBVIOUS
<1>18. Laid(h, A1, F, K)
  <2>1. A1 \ {r} = A \ {r, s} /\ F \ {r} = F \ {r, s}
    BY <1>16, <1>17
  <2>2. Kind(h, r, A1, F)
    BY <1>4, <1>14, <1>16, <1>17 DEF Kind
  <2>3. Length(h, r) = Length(b, r) + Length(b, s)
    BY <1>13
  <2> QED  BY <1>1, <1>15, <2>1, <2>2, <2>3, LaidJoin
<1>19. \A q \in (A \cup F) \ {r, s} : Same(b, h, q)
  BY <1>1, <1>15, SameBeside
<1>20. g = [b EXCEPT !.map = Inner(map, r, n)]
  <2>1. g = [b EXCEPT !.map = Inner([@ EXCEPT ![r] = one, ![e] = two], r, n)]
    BY <1>5 DEF Grown
  <2> QED  BY <1>2, <1>7, <2>1 DEF IsArena
<1>21. PICK gm : gm = Inner(map, r, n)
  OBVIOUS
<1>22. g = [b EXCEPT !.map = gm] /\ g.map = gm /\ IsArena(g) /\ MapOnly(b, g)
       /\ g.touched = b.touched
  <2>1. g = [b EXCEPT !.map = gm]
    BY <1>20, <1>21
  <2> QED  BY <1>2, <2>1 DEF IsArena, MapOnly
<1>23. InnerGives(h, g, A1, F, K)
  <2>1. g.map = Inner(h.map, r, Length(h, r)) /\ r \in A1 \cup F
    BY <1>4, <1>10, <1>13, <1>17, <1>21, <1>22
  <2> QED  BY <1>10, <1>18, <2>1, InnerDoes
<1>24. Laid(g, A1, F, K) /\ g.map \in [Pages -> Elems] /\ \A q \in A1 \cup F : Same(h, g, q)
  BY <1>23 DEF InnerGives
<1>25. Typed(g)
  <2>1. FieldsTyped(g)
    BY <1>2, <1>22, <1>24 DEF FieldsTyped, MapOnly
  <2> QED  BY <1>22, <2>1, TypedIs
<1>26. \A q \in (A \cup F) \ {r, s} : Same(b, g, q)
  BY <1>17, <1>19, <1>24, SameTrans
<1>27. FreeRuns(g) = F /\ Sorted(g) /\ Apart(g, F) /\ Listed(g, K) /\ K \subseteq g.mapped
  <2>1. \A q \in F : Same(b, g, q)
    BY <1>16, <1>26
  <2> QED  BY <1>22, <2>1, FreeBeside
<1>28. Good(g, A1, K)
  BY <1>24, <1>25, <1>27 DEF Good
<1>29. g.map[r] = one /\ Length(g, r) = n
  <2>1. Same(h, g, r)
    BY <1>4, <1>17, <1>24
  <2> QED  BY <1>8, <1>10, <1>13, <2>1 DEF Same
<1> QED  BY <1>4, <1>5, <1>17, <1>22, <1>26, <1>27, <1>28, <1>29 DEF GrownGives

-----------------------------------------------------------------------------
(* The counts, and the pages nobody wrote to.                              *)

Sizes(a, S) == SumFunction([r \in S |-> Length(a, r)])

Counted(a, A, K) ==
  /\ \A c \in K : a.cdirty[c] = Sizes(a, Soiled(a, c)) /\ (a.cdirty[c] > 0 => c \in a.dirtied)
  /\ a.ndirty = SumFunction([c \in K |-> a.cdirty[c]])
  /\ a.nactive = Sizes(a, A)

(* If run r is clean, its pages from the given one on were never touched. *)
Unused(a, r, from) ==
  Dirty(a.map[r]) = {} => (r + from .. r + Length(a, r) - 1) \cap a.touched = {}

Zero(a) == \A r \in FreeRuns(a) : Unused(a, r, 0)

Fine(a, A, K) == Good(a, A, K) /\ Counted(a, A, K) /\ Zero(a)

LEMMA SizesSame ==
  ASSUME NEW a, NEW b, NEW S, \A r \in S : Length(b, r) = Length(a, r)
  PROVE  Sizes(b, S) = Sizes(a, S)
<1>1. [r \in S |-> Length(b, r)] = [r \in S |-> Length(a, r)]
  OBVIOUS
<1> QED  BY <1>1 DEF Sizes

LEMMA SizesNone == ASSUME NEW a PROVE Sizes(a, {}) = 0
<1>1. PICK f : f = [r \in {} |-> Length(a, r)]
  OBVIOUS
<1>2. f \in [{} -> Nat] /\ IsFiniteSet({})
  BY <1>1, FS_EmptySet
<1>3. PICK S : S = {}
  OBVIOUS
<1>4. SumFunction(f) = 0
  BY <1>2, <1>3, SumIs
<1> QED  BY <1>1, <1>4 DEF Sizes

LEMMA SizesAre ==
  ASSUME NEW a, NEW S, IsFiniteSet(S), \A r \in S : Length(a, r) \in Nat
  PROVE  /\ Sizes(a, S) \in Nat
         /\ \A x \in S : Sizes(a, S) = Length(a, x) + Sizes(a, S \ {x})
<1>1. PICK f : f = [r \in S |-> Length(a, r)]
  OBVIOUS
<1>2. f \in [S -> Nat]
  BY <1>1
<1>3. SumFunction(f) \in Nat
      /\ \A x \in S : SumFunction(f) = f[x] + SumFunction([y \in S \ {x} |-> f[y]])
  BY <1>2, SumIs
<1>4. ASSUME NEW x \in S PROVE [y \in S \ {x} |-> f[y]] = [y \in S \ {x} |-> Length(a, y)]
  BY <1>1
<1> QED  BY <1>1, <1>3, <1>4 DEF Sizes

LEMMA SizesAdd ==
  ASSUME NEW a, NEW S \in SUBSET Pages, NEW x \in Pages, x \notin S,
         \A r \in S : Length(a, r) \in Nat, Length(a, x) \in Nat
  PROVE  Sizes(a, S \cup {x}) = Length(a, x) + Sizes(a, S) /\ Sizes(a, S) \in Nat
<1>1. PICK T : T = S \cup {x}
  OBVIOUS
<1>2. IsFiniteSet(T) /\ IsFiniteSet(S)
  BY <1>1, PagesFinite
<1>3. T \ {x} = S
  BY <1>1
<1>4. Sizes(a, T) = Length(a, x) + Sizes(a, T \ {x})
  BY <1>1, <1>2, SizesAre
<1>5. Sizes(a, S) \in Nat
  BY <1>2, SizesAre
<1> QED  BY <1>1, <1>3, <1>4, <1>5

LEMMA ChunksFinite ==
  ASSUME NEW K \in SUBSET Chunks
  PROVE  IsFiniteSet(K)
<1>1. 0 \in Int /\ NC - 1 \in Int
  BY Numbers
<1>2. IsFiniteSet(Chunks)
  BY <1>1, FS_Interval DEF Chunks
<1> QED  BY <1>2, FS_Subset

(* A sum changes by what one of its terms does. *)
LEMMA SumChange ==
  ASSUME NEW K, IsFiniteSet(K), NEW c \in K, NEW f \in [K -> Nat], NEW g \in [K -> Nat],
         \A d \in K \ {c} : g[d] = f[d]
  PROVE  SumFunction(g) - SumFunction(f) = g[c] - f[c]
         /\ SumFunction(g) \in Nat /\ SumFunction(f) \in Nat
<1>1. PICK u, v : u = SumFunction([y \in K \ {c} |-> f[y]]) /\ v = SumFunction([y \in K \ {c} |-> g[y]])
  OBVIOUS
<1>2. [y \in K \ {c} |-> f[y]] = [y \in K \ {c} |-> g[y]]
  OBVIOUS
<1>3. u = v
  BY <1>1, <1>2
<1>4. SumFunction(f) \in Nat /\ SumFunction(f) = f[c] + u
  BY <1>1, SumIs
<1>5. SumFunction(g) \in Nat /\ SumFunction(g) = g[c] + v
  BY <1>1, SumIs
<1>6. u \in Nat
  <2>1. PICK h, L : h = [y \in K \ {c} |-> f[y]] /\ L = K \ {c}
    OBVIOUS
  <2>2. h \in [L -> Nat] /\ IsFiniteSet(L)
    BY <2>1, FS_RemoveElement
  <2> QED  BY <1>1, <2>1, <2>2, SumIs
<1> QED  BY <1>3, <1>4, <1>5, <1>6

(* Runs have lengths, and their sets sizes. *)
LEMMA GoodSizes ==
  ASSUME NEW a, NEW A, NEW K, Good(a, A, K)
  PROVE  /\ A \in SUBSET Pages /\ FreeRuns(a) \in SUBSET Pages /\ K \in SUBSET Chunks
         /\ \A r \in A \cup FreeRuns(a) : Length(a, r) \in Nat
         /\ \A c : Soiled(a, c) \in SUBSET Pages /\ Sizes(a, Soiled(a, c)) \in Nat
         /\ Sizes(a, A) \in Nat
<1>1. Typed(a) /\ Laid(a, A, FreeRuns(a), K) /\ K \subseteq a.mapped
  BY DEF Good
<1>2. \A r \in A \cup FreeRuns(a) : Length(a, r) \in Nat /\ r \in Pages
  BY <1>1, LaidEnds
<1>3. K \in SUBSET Chunks
  BY <1>1, TypedIs DEF FieldsTyped
<1>4. ASSUME NEW c PROVE Soiled(a, c) \in SUBSET Pages /\ Sizes(a, Soiled(a, c)) \in Nat
  <2>1. PICK S : S = Soiled(a, c)
    OBVIOUS
  <2>2. S \in SUBSET Pages /\ \A r \in S : Length(a, r) \in Nat
    BY <1>2, <2>1 DEF Soiled
  <2>3. IsFiniteSet(S)
    BY <2>2, PagesFinite
  <2> QED  BY <2>1, <2>2, <2>3, SizesAre
<1>5. Sizes(a, A) \in Nat
  <2>1. A \in SUBSET Pages
    BY <1>2
  <2>2. IsFiniteSet(A)
    BY <2>1, PagesFinite
  <2> QED  BY <1>2, <2>2, SizesAre
<1> QED  BY <1>2, <1>3, <1>4, <1>5

(* In other chunks than c nothing changes. *)
Elsewhere(a, b, K, c) ==
  \A d \in K \ {c} : /\ b.cdirty[d] = a.cdirty[d] /\ (d \in a.dirtied => d \in b.dirtied)
                     /\ Soiled(b, d) = Soiled(a, d)
                     /\ \A q \in Soiled(a, d) : Length(b, q) = Length(a, q)

LEMMA CountKeep ==
  ASSUME NEW a, NEW A, NEW K, Good(a, A, K), Counted(a, A, K), NEW c \in K,
         NEW b, NEW B, Good(b, B, K), Elsewhere(a, b, K, c),
         b.cdirty[c] = Sizes(b, Soiled(b, c)), b.cdirty[c] > 0 => c \in b.dirtied,
         b.ndirty - a.ndirty = b.cdirty[c] - a.cdirty[c], b.nactive = Sizes(b, B)
  PROVE  Counted(b, B, K)
<1>1. ASSUME NEW d \in K
      PROVE  b.cdirty[d] = Sizes(b, Soiled(b, d)) /\ (b.cdirty[d] > 0 => d \in b.dirtied)
  <2>1. CASE d = c
    BY <2>1
  <2>2. CASE d # c
    <3>1. PICK S : S = Soiled(a, d)
      OBVIOUS
    <3>2. /\ b.cdirty[d] = a.cdirty[d] /\ (d \in a.dirtied => d \in b.dirtied)
          /\ Soiled(b, d) = S /\ \A q \in S : Length(b, q) = Length(a, q)
      BY <2>2, <3>1 DEF Elsewhere
    <3>3. Sizes(b, S) = Sizes(a, S)
      BY <3>2, SizesSame
    <3> QED  BY <3>1, <3>2, <3>3 DEF Counted
  <2> QED  BY <2>1, <2>2
<1>2. PICK f, g : f = [d \in K |-> a.cdirty[d]] /\ g = [d \in K |-> b.cdirty[d]]
  OBVIOUS
<1>3. f \in [K -> Nat]
  BY <1>2, GoodSizes DEF Counted
<1>4. g \in [K -> Nat]
  BY <1>1, <1>2, GoodSizes
<1>5. \A d \in K \ {c} : g[d] = f[d]
  BY <1>2 DEF Elsewhere
<1>6. SumFunction(g) - SumFunction(f) = g[c] - f[c] /\ SumFunction(g) \in Nat /\ SumFunction(f) \in Nat
  <2>1. IsFiniteSet(K)
    BY GoodSizes, ChunksFinite
  <2> QED  BY <1>3, <1>4, <1>5, <2>1, SumChange
<1>7. b.ndirty = SumFunction(g)
  <2>1. a.ndirty = SumFunction(f)
    BY <1>2 DEF Counted
  <2>2. a.ndirty \in Int /\ b.ndirty \in Int
    BY TypedIs DEF Good, FieldsTyped
  <2>3. g[c] = b.cdirty[c] /\ f[c] = a.cdirty[c] /\ g[c] \in Int /\ f[c] \in Int
    BY <1>2, <1>3, <1>4
  <2> QED  BY <1>6, <2>1, <2>2, <2>3
<1> QED  BY <1>1, <1>2, <1>7 DEF Counted

(* Nothing of what is counted changes. *)
LEMMA CountSame ==
  ASSUME NEW a, NEW A, NEW K, Counted(a, A, K), NEW b,
         \A d \in K : /\ b.cdirty[d] = a.cdirty[d]
                      /\ (a.cdirty[d] > 0 /\ d \in a.dirtied => d \in b.dirtied)
                      /\ Soiled(b, d) = Soiled(a, d),
         \A q : Length(b, q) = Length(a, q), b.ndirty = a.ndirty, b.nactive = a.nactive
  PROVE  Counted(b, A, K)
<1>1. \A S : Sizes(b, S) = Sizes(a, S)
  BY SizesSame
<1>2. [c \in K |-> b.cdirty[c]] = [c \in K |-> a.cdirty[c]]
  OBVIOUS
<1> QED  BY <1>1, <1>2 DEF Counted

LEMMA RunSplitCounted ==
  ASSUME NEW a, NEW A, NEW K, Good(a, A, K), Counted(a, A, K), NEW r \in a.clean \cup a.dirty,
         NEW need \in Nat, need >= 1, need <= a.map[r].size, NEW large \in BOOLEAN,
         NEW b, Good(b, A \cup {r}, K), r \notin A, SplitRuns(a, b, A, r, need),
         SplitOut(a, b, r, need, large), RunSplitFields(a, b, r, need, large)
  PROVE  Counted(b, A \cup {r}, K)
<1> DEFINE F == FreeRuns(a)
           rest == Rests(a.map, r, need)
           fd == Dirty(a.map[r])
<1>1. Typed(a) /\ Laid(a, A, F, K)
  BY DEF Good
<1>2. PICK c : c = Base(r)
  OBVIOUS
<1>3. /\ r \in F /\ r \in Pages /\ r \in Int /\ Length(a, r) = a.map[r].size /\ fd = a.map[r].flags
      /\ c \in K /\ c \in Chunks /\ a.map[r].size \in Nat
  <2>1. r \in F
    BY DEF FreeRuns
  <2> QED  BY <1>1, <1>2, <2>1, FreeLength, LaidEnds
<1>4. /\ FreeRuns(b) = (F \ {r}) \cup rest /\ rest \cap F = {}
      /\ \A q \in F : q # r => b.map[q] = a.map[q] /\ Length(b, q) = Length(a, q)
      /\ \A q \in A : Length(b, q) = Length(a, q)
  BY DEF SplitRuns, Same
<1>5. PICK spent : spent = IF fd = {} THEN 0 ELSE need
  OBVIOUS
<1>6. /\ b.cdirty = [a.cdirty EXCEPT ![c] = @ - spent] /\ b.ndirty = a.ndirty - spent
      /\ b.nactive = a.nactive + need /\ b.dirtied = a.dirtied
  BY <1>2, <1>5 DEF RunSplitFields
<1>7. FieldsTyped(a)
  BY <1>1, TypedIs
<1>8. /\ \A d \in K \ {c} : b.cdirty[d] = a.cdirty[d]
      /\ b.cdirty[c] = a.cdirty[c] - spent
  BY <1>3, <1>6, <1>7 DEF FieldsTyped
<1>9. \A s \in rest : /\ s \in Pages /\ Base(s) = c /\ b.map[s].flags = fd
                      /\ Length(b, s) = a.map[r].size - need /\ s = r + need /\ need < a.map[r].size
  <2> SUFFICES ASSUME NEW s \in rest
               PROVE  /\ s \in Pages /\ Base(s) = c /\ b.map[s].flags = fd
                      /\ Length(b, s) = a.map[r].size - need /\ s = r + need /\ need < a.map[r].size
    OBVIOUS
  <2>1. s = r + need /\ need < a.map[r].size
    BY DEF Rests
  <2>2. b.map[s].flags = fd /\ b.map[s].size = a.map[r].size - need
    BY <1>3 DEF SplitOut, Elem
  <2>3. s \in FreeRuns(b)
    BY <1>4
  <2>4. PICK B : B = A \cup {r}
    OBVIOUS
  <2>5. Typed(b) /\ Laid(b, B, FreeRuns(b), K)
    BY <2>4 DEF Good
  <2>6. Length(b, s) = b.map[s].size /\ s \in Pages
    BY <2>3, <2>5, FreeLength
  <2>7. Base(s) = c
    <3>1. s \in r .. r + Length(a, r) - 1
      BY <1>3, <2>1
    <3> QED  BY <1>1, <1>2, <1>3, <3>1, LaidSpan
  <2> QED  BY <2>1, <2>2, <2>6, <2>7
<1>10. ASSUME NEW d, d # c PROVE Soiled(b, d) = Soiled(a, d)
  BY <1>2, <1>4, <1>9, <1>10 DEF Soiled
<1>11. Elsewhere(a, b, K, c)
  <2>1. \A d : \A q \in Soiled(a, d) : q \in F /\ Base(q) = d
    BY DEF Soiled
  <2> QED  BY <1>2, <1>4, <1>6, <1>8, <1>10, <2>1 DEF Elsewhere
<1>12. a.cdirty[c] = Sizes(a, Soiled(a, c)) /\ a.cdirty[c] \in Nat
  BY <1>3, GoodSizes DEF Counted
<1>13. b.cdirty[c] = Sizes(b, Soiled(b, c))
  <2>1. CASE fd = {}
    <3>1. Soiled(b, c) = Soiled(a, c)
      BY <1>3, <1>4, <1>9, <2>1 DEF Soiled
    <3>2. PICK S : S = Soiled(a, c)
      OBVIOUS
    <3>3. \A q \in S : Length(b, q) = Length(a, q)
      <4>1. \A q \in S : q \in F /\ q # r
        BY <1>3, <2>1, <3>2 DEF Soiled
      <4> QED  BY <1>4, <4>1
    <3>4. Sizes(b, S) = Sizes(a, S)
      BY <3>3, SizesSame
    <3> QED  BY <1>5, <1>8, <1>12, <2>1, <3>1, <3>2, <3>4
  <2>2. CASE fd # {}
    <3>1. PICK S, T : S = Soiled(a, c) /\ T = S \ {r}
      OBVIOUS
    <3>2. r \in S /\ S \in SUBSET Pages /\ \A q \in S : Length(a, q) \in Nat
      <4>1. r \in S
        BY <1>2, <1>3, <2>2, <3>1 DEF Soiled
      <4>2. S \subseteq F
        BY <3>1 DEF Soiled
      <4> QED  BY <4>1, <4>2, GoodSizes
    <3>3. Sizes(a, S) = Length(a, r) + Sizes(a, T) /\ Sizes(a, T) \in Nat
      <4>1. S = T \cup {r} /\ T \in SUBSET Pages /\ r \notin T
        BY <3>1, <3>2
      <4> QED  BY <1>3, <3>1, <3>2, <4>1, SizesAdd
    <3>4. Sizes(b, T) = Sizes(a, T)
      <4>1. \A q \in T : q \in F /\ q # r
        BY <3>1 DEF Soiled
      <4>2. \A q \in T : Length(b, q) = Length(a, q)
        BY <1>4, <4>1
      <4> QED  BY <4>2, SizesSame
    <3>5. Soiled(b, c) = T \cup rest
      BY <1>3, <1>4, <1>9, <2>2, <3>1 DEF Soiled
    <3>6. CASE rest = {}
      <4>1. need = a.map[r].size
        BY <1>3, <3>6 DEF Rests
      <4> QED  BY <1>3, <1>5, <1>8, <1>12, <2>2, <3>1, <3>3, <3>4, <3>5, <3>6, <4>1
    <3>7. CASE rest # {}
      <4>1. PICK s : s = r + need
        OBVIOUS
      <4>2. rest = {s} /\ need < a.map[r].size
        BY <3>7, <4>1 DEF Rests
      <4>3. s \in Pages /\ Length(b, s) = a.map[r].size - need /\ Length(b, s) \in Nat /\ s \notin T
        <5>1. s \notin F
          BY <1>4, <4>2
        <5>2. T \subseteq F
          BY <3>1 DEF Soiled
        <5> QED  BY <1>3, <1>9, <4>2, <5>1, <5>2
      <4>4. Sizes(b, T \cup {s}) = Length(b, s) + Sizes(b, T)
        <5>1. T \in SUBSET Pages /\ \A q \in T : Length(b, q) \in Nat
          <6>1. \A q \in T : q \in F /\ q # r
            BY <3>1 DEF Soiled
          <6> QED  BY <1>4, <3>1, <3>2, <6>1
        <5> QED  BY <4>3, <5>1, SizesAdd
      <4> QED  BY <1>3, <1>5, <1>8, <1>12, <2>2, <3>1, <3>3, <3>4, <3>5, <4>2, <4>3, <4>4
    <3> QED  BY <3>6, <3>7
  <2> QED  BY <2>1, <2>2
<1>14. b.cdirty[c] > 0 => c \in b.dirtied
  <2>1. a.cdirty[c] > 0 => c \in a.dirtied
    BY <1>3 DEF Counted
  <2>2. spent \in Nat
    BY <1>5
  <2> QED  BY <1>6, <1>8, <1>12, <2>1, <2>2
<1>15. b.ndirty - a.ndirty = b.cdirty[c] - a.cdirty[c]
  <2>1. spent \in Nat /\ a.ndirty \in Int
    BY <1>5, <1>7 DEF FieldsTyped
  <2> QED  BY <1>6, <1>8, <1>12, <2>1
<1>16. b.nactive = Sizes(b, A \cup {r})
  <2>1. Length(b, r) = need
    BY DEF SplitOut
  <2>2. A \in SUBSET Pages /\ (\A q \in A : Length(a, q) \in Nat) /\ Sizes(a, A) \in Nat
    BY GoodSizes
  <2>3. Sizes(b, A) = Sizes(a, A)
    BY <1>4, SizesSame
  <2>4. Sizes(b, A \cup {r}) = Length(b, r) + Sizes(b, A)
    BY <1>3, <1>4, <2>1, <2>2, SizesAdd
  <2>5. a.nactive = Sizes(a, A)
    BY DEF Counted
  <2> QED  BY <1>6, <2>1, <2>2, <2>3, <2>4, <2>5
<1>17. PICK B : B = A \cup {r}
  OBVIOUS
<1>18. Good(b, B, K) /\ b.nactive = Sizes(b, B)
  BY <1>16, <1>17
<1>19. Counted(b, B, K)
  BY <1>3, <1>11, <1>13, <1>14, <1>15, <1>18, CountKeep
<1> QED  BY <1>17, <1>19

LEMMA RunSplitFine ==
  ASSUME NEW a, NEW A, NEW K, Fine(a, A, K), NEW r \in a.clean \cup a.dirty,
         NEW need \in Nat, need >= 1, need <= a.map[r].size, NEW large \in BOOLEAN,
         large \/ need = RunPages,
         NEW b, b = RunSplit(a, r, need, large)
  PROVE  /\ Fine(b, A \cup {r}, K) /\ r \notin A
         /\ SplitOut(a, b, r, need, large) /\ RunSplitFields(a, b, r, need, large)
         /\ Unused(b, r, 0)
         /\ \A q \in A : Same(a, b, q)
<1> DEFINE F == FreeRuns(a)
<1>1. Good(a, A, K) /\ Counted(a, A, K) /\ Zero(a)
  BY DEF Fine
<1>2. /\ Good(b, A \cup {r}, K) /\ r \notin A
      /\ SplitOut(a, b, r, need, large) /\ RunSplitFields(a, b, r, need, large)
      /\ SplitRuns(a, b, A, r, need)
      /\ \A q \in A : Same(a, b, q)
  BY <1>1, RunSplitGood
<1>3. Counted(b, A \cup {r}, K)
  BY <1>1, <1>2, RunSplitCounted
<1>4. Typed(a) /\ Laid(a, A, F, K) /\ r \in F
  BY <1>1 DEF Good, FreeRuns
<1>5. /\ r \in Int /\ Length(a, r) = a.map[r].size /\ Dirty(a.map[r]) = a.map[r].flags
      /\ a.map[r].size \in Nat
  BY <1>4, FreeLength, LaidEnds
<1>6. b.touched = a.touched
  BY <1>2 DEF RunSplitFields
<1>7. a.map[r].flags = {} => (r .. r + a.map[r].size - 1) \cap a.touched = {}
  BY <1>1, <1>4, <1>5 DEF Zero, Unused
<1>8. Unused(b, r, 0)
  <2>1. Length(b, r) = need /\ Dirty(b.map[r]) = Dirty(a.map[r])
    <3>1. a.map[r].flags \subseteq b.map[r].flags /\ b.map[r].flags \subseteq a.map[r].flags \cup Taken
      BY <1>2 DEF SplitOut, Elem, Taken
    <3>2. "dirty" \notin Taken
      BY DEF Taken
    <3> QED  BY <1>2, <3>1, <3>2 DEF SplitOut, Dirty
  <2>2. r .. r + need - 1 \subseteq r .. r + a.map[r].size - 1
    BY <1>5
  <2> QED  BY <1>5, <1>6, <1>7, <2>1, <2>2 DEF Unused
<1>9. ASSUME NEW q \in FreeRuns(b) PROVE Unused(b, q, 0)
  <2>1. CASE q \in F /\ q # r
    <3>1. Same(a, b, q) /\ Unused(a, q, 0)
      BY <1>1, <1>2, <2>1 DEF SplitRuns, Zero
    <3> QED  BY <1>6, <3>1 DEF Unused, Same
  <2>2. CASE q \in Rests(a.map, r, need)
    <3>1. q = r + need /\ need < a.map[r].size
      BY <2>2 DEF Rests
    <3>2. b.map[q].flags = a.map[r].flags /\ b.map[q].size = a.map[r].size - need
      BY <1>2, <2>2 DEF SplitOut, Elem
    <3>3. PICK B : B = A \cup {r}
      OBVIOUS
    <3>4. Typed(b) /\ Laid(b, B, FreeRuns(b), K)
      BY <1>2, <3>3 DEF Good
    <3>5. Length(b, q) = b.map[q].size /\ Dirty(b.map[q]) = b.map[q].flags
      BY <3>4, FreeLength
    <3>6. q .. q + Length(b, q) - 1 \subseteq r .. r + a.map[r].size - 1
      BY <1>5, <3>1, <3>2, <3>5
    <3>7. q + 0 = q
      BY <1>5, <3>1
    <3> QED  BY <1>6, <1>7, <3>2, <3>5, <3>6, <3>7 DEF Unused
  <2> QED  BY <1>2, <2>1, <2>2 DEF SplitRuns
<1>10. Fine(b, A \cup {r}, K)
  BY <1>2, <1>3, <1>9 DEF Fine, Zero
<1> QED  BY <1>2, <1>8, <1>10

(* A set of runs is as large as two parts of it. *)
LEMMA SizesSplit ==
  ASSUME NEW a, NEW S \in SUBSET Pages, \A r \in S : Length(a, r) \in Nat, NEW T \in SUBSET S
  PROVE  /\ Sizes(a, S) = Sizes(a, T) + Sizes(a, S \ T)
         /\ Sizes(a, S) \in Nat /\ Sizes(a, T) \in Nat /\ Sizes(a, S \ T) \in Nat
<1> DEFINE Of2(s) == {h \in s \X Nat : 1 <= h[2] /\ h[2] <= Length(a, h[1])}
<1>1. ASSUME NEW s \in SUBSET S
      PROVE  /\ Sizes(a, s) = Cardinality(Of2(s)) /\ IsFiniteSet(Of2(s)) /\ Sizes(a, s) \in Nat
  <2>1. PICK f : f = [r \in s |-> Length(a, r)]
    OBVIOUS
  <2>2. DOMAIN f = s /\ \A x \in s : f[x] \in Nat
    BY <2>1
  <2>3. IsFiniteSet(s)
    BY PagesFinite
  <2>4. SumFunction(f) = Cardinality(Heap(f, s)) /\ IsFiniteSet(Heap(f, s))
    BY <2>2, <2>3, SumIsHeap, HeapFinite
  <2>5. Heap(f, s) = Of2(s)
    BY <2>1 DEF Heap
  <2>6. Sizes(a, s) = SumFunction(f)
    BY <2>1 DEF Sizes
  <2>7. Sizes(a, s) \in Nat
    BY <2>2, <2>3, SizesAre
  <2> QED  BY <2>4, <2>5, <2>6, <2>7
<1>2. PICK U, V : U = Of2(T) /\ V = Of2(S \ T)
  OBVIOUS
<1>3. Of2(S) = U \cup V /\ U \cap V = {}
  BY <1>2
<1>4. IsFiniteSet(U) /\ IsFiniteSet(V) /\ Sizes(a, T) = Cardinality(U) /\ Sizes(a, S \ T) = Cardinality(V)
      /\ Sizes(a, S) = Cardinality(U \cup V) /\ Sizes(a, S) \in Nat /\ Sizes(a, T) \in Nat
      /\ Sizes(a, S \ T) \in Nat
  <2>1. S \ T \in SUBSET S /\ S \in SUBSET S
    OBVIOUS
  <2>2. IsFiniteSet(U) /\ Sizes(a, T) = Cardinality(U) /\ Sizes(a, T) \in Nat
    BY <1>1, <1>2
  <2>3. IsFiniteSet(V) /\ Sizes(a, S \ T) = Cardinality(V) /\ Sizes(a, S \ T) \in Nat
    BY <1>1, <1>2, <2>1
  <2>4. Sizes(a, S) = Cardinality(U \cup V) /\ Sizes(a, S) \in Nat
    BY <1>1, <1>3, <2>1
  <2> QED  BY <2>2, <2>3, <2>4
<1>5. Cardinality(U \cup V) = Cardinality(U) + Cardinality(V) - Cardinality(U \cap V)
  BY <1>4, FS_Union
<1>6. Cardinality(U \cap V) = 0
  BY <1>3, FS_EmptySet
<1> QED  BY <1>4, <1>5, <1>6

LEMMA SizesOne ==
  ASSUME NEW a, NEW x \in Pages, Length(a, x) \in Nat
  PROVE  Sizes(a, {x}) = Length(a, x)
<1>1. PICK S : S = {}
  OBVIOUS
<1>2. Sizes(a, S \cup {x}) = Length(a, x) + Sizes(a, S)
  BY <1>1, SizesAdd
<1>3. S \cup {x} = {x} /\ Sizes(a, S) = 0
  BY <1>1, SizesNone
<1> QED  BY <1>2, <1>3

(* The pages of the run that r becomes part of are those of r and of the   *)
(* runs that are gone into it.                                             *)
WholeGives(a, F, r, m) ==
  /\ m.gone \in SUBSET F /\ m.len = Length(a, r) + Sizes(a, m.gone)
  /\ m.from \in m.gone \cup {r} /\ m.len \in Nat
  /\ \A p \in m.from .. m.from + m.len - 1 :
       p \in r .. r + Length(a, r) - 1 \/ \E g \in m.gone : p \in g .. g + Length(a, g) - 1

LEMMA WholeIs ==
  ASSUME NEW a, NEW A, NEW F, NEW K, Typed(a), Laid(a, A, F, K), NEW r \in A,
         NEW fd \in FreeFlags, NEW m, m = Whole(a, r, fd)
  PROVE  WholeGives(a, F, r, m)
<1>1. PICK n : n = Length(a, r)
  OBVIOUS
<1>2. n = RunSize(a, r) /\ r \in Int /\ n \in Nat /\ n >= 1
  BY <1>1, AllocLength, LaidEnds
<1>3. \A g \in F : g \in Int /\ g \in Pages /\ Length(a, g) \in Nat /\ Length(a, g) = a.map[g].size
  BY LaidEnds, FreeLength
<1>4. PICK f : f = MergeForward(a, r, n, fd)
  OBVIOUS
<1>5. m = IF Bwd(a, r, fd)
          THEN [from |-> r - a.map[r - 1].size, len |-> f.len + a.map[r - 1].size,
                gone |-> f.gone \cup {r - a.map[r - 1].size}]
          ELSE f
  BY <1>2, <1>4 DEF Whole, Merge, Bwd
<1>6. f = [from |-> r, len |-> n + IF Fwd(a, r, n, fd) THEN a.map[r + n].size ELSE 0,
           gone |-> IF Fwd(a, r, n, fd) THEN {r + n} ELSE {}]
  BY <1>2, <1>4 DEF MergeForward, Fwd
<1>7. f.from = r /\ f.gone \in SUBSET F /\ f.len = n + Sizes(a, f.gone) /\ f.len \in Nat
      /\ (\A g \in f.gone : g = r + n)
      /\ \A p \in r .. r + f.len - 1 :
           p \in r .. r + n - 1 \/ \E g \in f.gone : p \in g .. g + Length(a, g) - 1
  <2>1. CASE Fwd(a, r, n, fd)
    <3>1. PICK s : s = r + n
      OBVIOUS
    <3>2. s \in F
      BY <1>1, <2>1, <3>1, FwdIs DEF Follows
    <3>3. f.from = r /\ f.gone = {s} /\ f.len = n + Length(a, s)
      BY <1>3, <1>6, <2>1, <3>1, <3>2
    <3>4. Sizes(a, {s}) = Length(a, s)
      BY <1>3, <3>2, SizesOne
    <3> QED  BY <1>2, <1>3, <3>1, <3>2, <3>3, <3>4
  <2>2. CASE ~Fwd(a, r, n, fd)
    <3>1. f.from = r /\ f.gone = {} /\ f.len = n
      BY <1>2, <1>6, <2>2
    <3> QED  BY <1>2, <3>1, SizesNone
  <2> QED  BY <2>1, <2>2
<1>8. CASE ~Bwd(a, r, fd)
  BY <1>1, <1>5, <1>7, <1>8 DEF WholeGives
<1>9. CASE Bwd(a, r, fd)
  <2>1. PICK q : q = r - a.map[r - 1].size
    OBVIOUS
  <2>2. q \in F /\ q + Length(a, q) = r /\ a.map[r - 1] = a.map[q]
    BY <1>9, <2>1, BwdIs DEF Precedes
  <2>3. m.from = q /\ m.len = f.len + Length(a, q) /\ m.gone = f.gone \cup {q}
    <3>1. PICK z : z = a.map[r - 1].size
      OBVIOUS
    <3>2. z = Length(a, q)
      BY <1>3, <2>2, <3>1
    <3>3. m = [from |-> r - z, len |-> f.len + z, gone |-> f.gone \cup {r - z}] /\ q = r - z
      BY <1>5, <1>9, <2>1, <3>1
    <3> QED  BY <3>2, <3>3
  <2>4. Length(a, q) >= 1
    BY <2>2, LaidEnds
  <2>5. PICK G : G = f.gone
    OBVIOUS
  <2>6. G \in SUBSET Pages /\ q \notin G /\ \A g \in G : Length(a, g) \in Nat
    BY <1>2, <1>3, <1>7, <2>2, <2>4, <2>5
  <2>7. Sizes(a, G \cup {q}) = Length(a, q) + Sizes(a, G) /\ Sizes(a, G) \in Nat
    BY <1>3, <2>2, <2>6, SizesAdd
  <2>8. m.gone \in SUBSET F /\ m.len = Length(a, r) + Sizes(a, m.gone) /\ m.from \in m.gone /\ m.len \in Nat
    BY <1>1, <1>2, <1>3, <1>7, <2>2, <2>3, <2>5, <2>7
  <2>9. ASSUME NEW p \in m.from .. m.from + m.len - 1
        PROVE  p \in r .. r + n - 1 \/ \E g \in m.gone : p \in g .. g + Length(a, g) - 1
    <3>1. p \in q .. q + Length(a, q) - 1 \/ p \in r .. r + f.len - 1
      BY <1>2, <1>3, <1>7, <2>2, <2>3, <2>9
    <3> QED  BY <1>7, <2>3, <3>1
  <2> QED  BY <1>1, <2>8, <2>9 DEF WholeGives
<1> QED  BY <1>8, <1>9

(* What a step does to the runs it leaves alone. *)
Keeps(a, b, q) ==
  Same(a, b, q) /\ (q .. q + Length(a, q) - 1) \cap b.touched \subseteq a.touched

LEMMA KeepsUnused ==
  ASSUME NEW a, NEW b, NEW q \in Int, Keeps(a, b, q), NEW k \in Nat, Length(a, q) \in Nat, Unused(a, q, k)
  PROVE  Unused(b, q, k)
<1>1. q + k .. q + Length(a, q) - 1 \subseteq q .. q + Length(a, q) - 1
  OBVIOUS
<1> QED  BY <1>1 DEF Keeps, Same, Unused

LEMMA SameKeeps ==
  ASSUME NEW a, NEW b, NEW q, Same(a, b, q), b.touched \subseteq a.touched
  PROVE  Keeps(a, b, q)
BY DEF Keeps

LEMMA KeepsTrans ==
  ASSUME NEW a, NEW b, NEW c, NEW q, Keeps(a, b, q), Keeps(b, c, q)
  PROVE  Keeps(a, c, q)
BY DEF Keeps, Same

LEMMA FreedCounted ==
  ASSUME NEW a, NEW A, NEW K, Good(a, A, K), Counted(a, A, K), NEW r \in A, NEW fd \in FreeFlags,
         NEW b, Good(b, A \ {r}, K), FreedOut(a, b, A, r, fd), FreedFields(a, b, r, fd)
  PROVE  Counted(b, A \ {r}, K)
<1> DEFINE F == FreeRuns(a)
<1>1. PICK m : m = Whole(a, r, fd)
  OBVIOUS
<1>2. PICK c, x, G : c = Base(r) /\ x = m.from /\ G = m.gone
  OBVIOUS
<1>3. Typed(a) /\ Laid(a, A, F, K)
  BY DEF Good
<1>4. /\ r \in Pages /\ Length(a, r) \in Nat /\ Length(a, r) >= 1 /\ c \in Chunks /\ c \in K
      /\ RunSize(a, r) = Length(a, r)
  BY <1>2, <1>3, LaidEnds, AllocLength
<1>5. /\ G \in SUBSET F /\ m.len = Length(a, r) + Sizes(a, G) /\ m.len \in Nat
  BY <1>1, <1>2, <1>3, WholeIs DEF WholeGives
<1>6. /\ FreeRuns(b) = (F \ G) \cup {x} /\ IsFreeRun(b, x, m.len, fd)
      /\ (\A g \in G : a.map[g].flags = fd /\ Base(g) = c) /\ Base(x) = c
      /\ \A q \in (A \ {r}) \cup (F \ G) : q # x => Same(a, b, q)
  BY <1>1, <1>2 DEF FreedOut
<1>7. \A q \in F \ G : q # x
  BY <1>1, <1>2, <1>3, FromIsNew
<1>8. /\ b.map[x].flags = fd /\ Length(b, x) = m.len
  BY <1>6 DEF IsFreeRun, Elem
<1>9. /\ A \in SUBSET Pages /\ F \in SUBSET Pages /\ K \in SUBSET Chunks
      /\ (\A q \in A \cup F : Length(a, q) \in Nat) /\ Sizes(a, A) \in Nat
      /\ \A d : Soiled(a, d) \in SUBSET Pages /\ Sizes(a, Soiled(a, d)) \in Nat
  BY GoodSizes
<1>10. PICK more : more = IF fd = {} THEN 0 ELSE Length(a, r)
  OBVIOUS
<1>11. /\ b.cdirty = [a.cdirty EXCEPT ![c] = @ + more] /\ b.ndirty = a.ndirty + more
       /\ b.nactive = a.nactive - Length(a, r)
       /\ b.dirtied = (IF fd # {} /\ c \notin a.dirtied THEN a.dirtied \cup {c} ELSE a.dirtied)
  BY <1>2, <1>4, <1>10 DEF FreedFields
<1>12. a.cdirty \in [Chunks -> Int] /\ a.ndirty \in Int /\ more \in Nat /\ b.ndirty \in Int
  BY <1>3, <1>4, <1>10, <1>11, TypedIs DEF FieldsTyped
<1>13. x \in Pages /\ x \notin A \ {r}
  <2>1. PICK B : B = A \ {r}
    OBVIOUS
  <2>2. Typed(b) /\ Laid(b, B, FreeRuns(b), K) /\ x \in FreeRuns(b)
    BY <1>6, <2>1 DEF Good
  <2> QED  BY <2>1, <2>2, FreeLength
<1>14. Elsewhere(a, b, K, c)
  <2> SUFFICES ASSUME NEW d \in K, d # c
               PROVE  /\ b.cdirty[d] = a.cdirty[d] /\ (d \in a.dirtied => d \in b.dirtied)
                      /\ Soiled(b, d) = Soiled(a, d)
                      /\ \A q \in Soiled(a, d) : Length(b, q) = Length(a, q)
    BY DEF Elsewhere
  <2>1. \A q \in F : Base(q) = d => q \notin G /\ q # x /\ Same(a, b, q)
    BY <1>6, <1>7
  <2>2. Soiled(b, d) = Soiled(a, d)
    BY <1>6, <2>1 DEF Soiled, Same
  <2>3. \A q \in Soiled(a, d) : Length(b, q) = Length(a, q)
    BY <2>1 DEF Soiled, Same
  <2> QED  BY <1>9, <1>11, <1>12, <2>2, <2>3
<1>15. b.cdirty[c] = Sizes(b, Soiled(b, c)) /\ (b.cdirty[c] > 0 => c \in b.dirtied)
  <2>1. a.cdirty[c] = Sizes(a, Soiled(a, c)) /\ (a.cdirty[c] > 0 => c \in a.dirtied)
    BY <1>4 DEF Counted
  <2>2. PICK S : S = Soiled(a, c)
    OBVIOUS
  <2>3. b.cdirty[c] = Sizes(a, S) + more
    BY <1>4, <1>11, <1>12, <2>1, <2>2
  <2>4. S \in SUBSET Pages /\ S \subseteq F /\ (\A q \in S : Length(a, q) \in Nat) /\ Sizes(a, S) \in Nat
    BY <1>9, <2>2 DEF Soiled
  <2>5. CASE fd = {}
    <3>1. \A q \in S : q \notin G /\ q # x /\ Same(a, b, q)
      BY <1>6, <1>7, <2>2, <2>5 DEF Soiled
    <3>2. Soiled(b, c) = S
      BY <1>6, <1>7, <1>8, <2>2, <2>5, <3>1 DEF Soiled, Same
    <3>3. Sizes(b, S) = Sizes(a, S)
      BY <3>1, SizesSame DEF Same
    <3> QED  BY <1>10, <1>11, <2>1, <2>2, <2>3, <2>4, <2>5, <3>2, <3>3
  <2>6. CASE fd # {}
    <3>1. PICK T : T = S \ G
      OBVIOUS
    <3>2. G \subseteq S
      BY <1>5, <1>6, <2>2, <2>6 DEF Soiled
    <3>3. Sizes(a, S) = Sizes(a, G) + Sizes(a, T) /\ Sizes(a, T) \in Nat /\ Sizes(a, G) \in Nat
      BY <2>4, <3>1, <3>2, SizesSplit
    <3>4. \A q \in T : q \notin G /\ q # x /\ Same(a, b, q)
      BY <1>6, <1>7, <2>4, <3>1
    <3>5. Soiled(b, c) = T \cup {x}
      <4>1. \A q \in F \ G : Same(a, b, q)
        BY <1>6, <1>7
      <4> QED  BY <1>6, <1>8, <2>2, <2>6, <3>1, <4>1 DEF Soiled, Same
    <3>6. Sizes(b, T) = Sizes(a, T)
      BY <3>4, SizesSame DEF Same
    <3>7. T \in SUBSET Pages /\ x \notin T /\ \A q \in T : Length(b, q) \in Nat
      BY <2>4, <3>1, <3>4 DEF Same
    <3>8. Sizes(b, T \cup {x}) = Length(b, x) + Sizes(b, T)
      BY <1>5, <1>8, <1>13, <3>7, SizesAdd
    <3> QED  BY <1>4, <1>5, <1>8, <1>10, <1>11, <2>3, <2>6, <3>3, <3>5, <3>6, <3>8
  <2> QED  BY <2>5, <2>6
<1>16. PICK B : B = A \ {r}
  OBVIOUS
<1>17. b.nactive = Sizes(b, B)
  <2>1. r \in A /\ IsFiniteSet(A)
    BY <1>9, PagesFinite
  <2>2. Sizes(a, A) = Length(a, r) + Sizes(a, B) /\ Sizes(a, B) \in Nat
    <3>1. \A q \in A : Length(a, q) \in Nat
      BY <1>9
    <3>2. IsFiniteSet(B) /\ \A q \in B : Length(a, q) \in Nat
      BY <1>16, <2>1, <3>1, FS_RemoveElement
    <3>3. Sizes(a, A) = Length(a, r) + Sizes(a, A \ {r})
      BY <2>1, <3>1, SizesAre
    <3> QED  BY <1>16, <3>2, <3>3, SizesAre
  <2>3. \A q \in B : Length(b, q) = Length(a, q)
    <3>1. \A q \in B : q # x
      BY <1>13, <1>16
    <3> QED  BY <1>6, <1>16, <3>1 DEF Same
  <2>4. Sizes(b, B) = Sizes(a, B)
    BY <2>3, SizesSame
  <2>5. a.nactive = Sizes(a, A)
    BY DEF Counted
  <2> QED  BY <1>4, <1>11, <2>2, <2>4, <2>5
<1>18. b.ndirty - a.ndirty = b.cdirty[c] - a.cdirty[c]
  BY <1>4, <1>11, <1>12
<1>19. Good(b, B, K)
  BY <1>16
<1>20. Counted(b, B, K)
  BY <1>4, <1>14, <1>15, <1>17, <1>18, <1>19, CountKeep
<1> QED  BY <1>16, <1>20

LEMMA FreedFine ==
  ASSUME NEW a, NEW A, NEW K, Fine(a, A, K), NEW r \in A, NEW fd \in FreeFlags,
         fd = {} => (r .. r + Length(a, r) - 1) \cap a.touched = {},
         NEW b, b = Freed(a, r, fd)
  PROVE  /\ Fine(b, A \ {r}, K) /\ FreedOut(a, b, A, r, fd) /\ FreedFields(a, b, r, fd)
         /\ \A q \in A : q # r => Same(a, b, q)
<1> DEFINE F == FreeRuns(a)
<1>1. Good(a, A, K) /\ Counted(a, A, K) /\ Zero(a)
  BY DEF Fine
<1>2. /\ Good(b, A \ {r}, K) /\ FreedOut(a, b, A, r, fd) /\ FreedFields(a, b, r, fd)
      /\ \A q \in A : q # r => Same(a, b, q)
  BY <1>1, FreedGood
<1>3. Counted(b, A \ {r}, K)
  BY <1>1, <1>2, FreedCounted
<1>4. PICK m : m = Whole(a, r, fd)
  OBVIOUS
<1>5. Typed(a) /\ Laid(a, A, F, K)
  BY <1>1 DEF Good
<1>6. WholeGives(a, F, r, m)
  BY <1>4, <1>5, WholeIs
<1>7. b.touched = a.touched
  BY <1>2 DEF FreedFields
<1>8. ASSUME NEW q \in FreeRuns(b) PROVE Unused(b, q, 0)
  <2>1. CASE q = m.from
    <3>1. Length(b, q) = m.len /\ b.map[q] = Elem(m.len, fd)
      BY <1>2, <1>4, <2>1 DEF FreedOut, IsFreeRun
    <3>2. Dirty(b.map[q]) = fd
      BY <3>1 DEF Elem, Dirty, FreeFlags
    <3>3. q \in Int /\ q + 0 = q
      BY <1>5, <1>6, <2>1, LaidEnds DEF WholeGives
    <3>4. ASSUME fd = {}, NEW p \in q .. q + m.len - 1 PROVE p \notin a.touched
      <4>1. CASE p \in r .. r + Length(a, r) - 1
        BY <3>4, <4>1
      <4>2. ASSUME NEW g \in m.gone, p \in g .. g + Length(a, g) - 1 PROVE p \notin a.touched
        <5>1. g \in F /\ a.map[g].flags = {}
          BY <1>2, <1>4, <1>6, <3>4 DEF FreedOut, WholeGives
        <5>2. Dirty(a.map[g]) = {} /\ g \in Int /\ g + 0 = g
          BY <1>5, <5>1, LaidEnds DEF Dirty
        <5> QED  BY <1>1, <4>2, <5>1, <5>2 DEF Zero, Unused
      <4> QED  BY <1>6, <2>1, <3>4, <4>1, <4>2 DEF WholeGives
    <3> QED  BY <1>7, <3>1, <3>2, <3>3, <3>4 DEF Unused
  <2>2. CASE q # m.from
    <3>1. q \in F /\ Same(a, b, q)
      BY <1>2, <1>4, <2>2 DEF FreedOut
    <3>2. Unused(a, q, 0)
      BY <1>1, <3>1 DEF Zero
    <3> QED  BY <1>7, <3>1, <3>2 DEF Unused, Same
  <2> QED  BY <2>1, <2>2
<1>9. Fine(b, A \ {r}, K)
  BY <1>2, <1>3, <1>8 DEF Fine, Zero
<1> QED  BY <1>2, <1>9

LEMMA CutFine ==
  ASSUME NEW a, NEW A, NEW K, Fine(a, A, K), NEW r \in A, NEW head \in Nat, NEW old,
         old = Length(a, r), head >= 1, head < old, NEW kept \in FreeFlags,
         NEW b, b = Cut(a, r, old, head, kept)
  PROVE  /\ Fine(b, A \cup {r + head}, K) /\ r + head \notin A
         /\ CutOut(a, b, r, old, head, kept)
         /\ (Unused(a, r, 0) => Unused(b, r, 0)) /\ (Unused(a, r, head) => Unused(b, r + head, 0))
         /\ \A q \in A : q # r => Same(a, b, q)
<1> DEFINE F == FreeRuns(a)
<1>1. Good(a, A, K) /\ Counted(a, A, K) /\ Zero(a)
  BY DEF Fine
<1>2. PICK s : s = r + head
  OBVIOUS
<1>3. /\ Good(b, A \cup {s}, K) /\ s \notin A /\ s \in Pages
      /\ CutOut(a, b, r, old, head, kept) /\ FreeRuns(b) = FreeRuns(a)
      /\ \A q \in A \cup F : q # r => Same(a, b, q)
  BY <1>1, <1>2, CutGood
<1>4. MapOnly(a, b) /\ b.touched = a.touched /\ Length(b, r) = head /\ Length(b, s) = old - head
  BY <1>2, <1>3 DEF CutOut
<1>5. Typed(a) /\ Laid(a, A, F, K)
  BY <1>1 DEF Good
<1>6. r \notin F /\ r \in Int /\ old \in Nat
  BY <1>5, AllocLength, LaidEnds
<1>7. \A q \in F : Same(a, b, q)
  BY <1>3, <1>6
<1>8. PICK B : B = A \cup {s}
  OBVIOUS
<1>9. \A d : Soiled(b, d) = Soiled(a, d)
  BY <1>3, <1>7 DEF Soiled, Same
<1>10. \A d : \A q \in Soiled(a, d) : Length(b, q) = Length(a, q)
  BY <1>7 DEF Soiled, Same
<1>11. Sizes(b, B) = Sizes(a, A)
  <2>1. /\ A \in SUBSET Pages /\ (\A q \in A : Length(a, q) \in Nat) /\ Sizes(a, A) \in Nat
    BY <1>1, GoodSizes
  <2>2. PICK T : T = A \ {r}
    OBVIOUS
  <2>3. IsFiniteSet(A) /\ T \in SUBSET Pages /\ r \notin T /\ A = T \cup {r} /\ s \notin A /\ r \in Pages
    BY <1>3, <2>1, <2>2, PagesFinite
  <2>4. \A q \in T : Length(b, q) = Length(a, q) /\ Length(a, q) \in Nat
    BY <1>3, <2>1, <2>2 DEF Same
  <2>5. Sizes(b, T) = Sizes(a, T)
    BY <2>4, SizesSame
  <2>6. Sizes(a, A) = old + Sizes(a, T) /\ Sizes(a, T) \in Nat
    BY <1>6, <2>3, <2>4, SizesAdd
  <2>7. Sizes(b, T \cup {r}) = head + Sizes(b, T)
    BY <1>4, <2>3, <2>4, SizesAdd
  <2>8. Sizes(b, A \cup {s}) = old - head + Sizes(b, A)
    <3>1. \A q \in A : Length(b, q) \in Nat
      BY <1>4, <2>2, <2>4
    <3>2. old - head \in Nat
      BY <1>6
    <3> QED  BY <1>3, <1>4, <2>1, <3>1, <3>2, SizesAdd
  <2> QED  BY <1>6, <1>8, <2>3, <2>5, <2>6, <2>7, <2>8
<1>12. Counted(b, B, K)
  <2>1. ASSUME NEW d \in K
        PROVE  b.cdirty[d] = Sizes(b, Soiled(b, d)) /\ (b.cdirty[d] > 0 => d \in b.dirtied)
    <3>1. PICK S : S = Soiled(a, d)
      OBVIOUS
    <3>2. Sizes(b, S) = Sizes(a, S)
      BY <1>10, <3>1, SizesSame
    <3> QED  BY <1>1, <1>4, <1>9, <3>1, <3>2 DEF Counted, MapOnly
  <2>2. [d \in K |-> b.cdirty[d]] = [d \in K |-> a.cdirty[d]]
    BY <1>4 DEF MapOnly
  <2>3. b.ndirty = SumFunction([d \in K |-> b.cdirty[d]])
    BY <1>1, <1>4, <2>2 DEF Counted, MapOnly
  <2>4. b.nactive = Sizes(b, B)
    BY <1>1, <1>4, <1>11 DEF Counted, MapOnly
  <2> QED  BY <2>1, <2>3, <2>4 DEF Counted
<1>13. Zero(b)
  BY <1>1, <1>3, <1>4, <1>7 DEF Zero, Unused, Same
<1>14. Fine(b, B, K)
  BY <1>3, <1>8, <1>12, <1>13 DEF Fine
<1>15. /\ Dirty(a.map[r]) \subseteq Dirty(b.map[r]) /\ Dirty(a.map[r]) \subseteq Dirty(b.map[s])
  BY <1>2, <1>3 DEF CutOut, Elem, Dirty
<1>16. Unused(a, r, 0) => Unused(b, r, 0)
  <2>1. r + 0 = r /\ r .. r + head - 1 \subseteq r .. r + old - 1
    BY <1>6
  <2> QED  BY <1>4, <1>15, <2>1 DEF Unused
<1>17. Unused(a, r, head) => Unused(b, s, 0)
  <2>1. s + 0 = s /\ s .. s + (old - head) - 1 = r + head .. r + old - 1
    BY <1>2, <1>6
  <2> QED  BY <1>4, <1>15, <2>1 DEF Unused
<1> QED  BY <1>2, <1>3, <1>8, <1>14, <1>16, <1>17

LEMMA SumDrop ==
  ASSUME NEW K \in SUBSET Chunks, NEW c \in K, NEW f, \A d \in K : f[d] \in Nat
  PROVE  /\ SumFunction([d \in K |-> f[d]]) = f[c] + SumFunction([d \in K \ {c} |-> f[d]])
         /\ SumFunction([d \in K |-> f[d]]) \in Nat
         /\ SumFunction([d \in K \ {c} |-> f[d]]) \in Nat
<1>1. PICK g : g = [d \in K |-> f[d]]
  OBVIOUS
<1>2. g \in [K -> Nat] /\ IsFiniteSet(K)
  BY <1>1, ChunksFinite
<1>3. SumFunction(g) \in Nat /\ SumFunction(g) = g[c] + SumFunction([d \in K \ {c} |-> g[d]])
  BY <1>2, SumIs
<1>4. [d \in K \ {c} |-> g[d]] = [d \in K \ {c} |-> f[d]]
  BY <1>1
<1>5. SumFunction([d \in K \ {c} |-> f[d]]) \in Nat
  <2>1. PICK L, h : L = K \ {c} /\ h = [d \in L |-> f[d]]
    OBVIOUS
  <2>2. h \in [L -> Nat] /\ IsFiniteSet(L)
    BY <1>2, <2>1, FS_RemoveElement
  <2> QED  BY <2>1, <2>2, SumIs
<1> QED  BY <1>1, <1>3, <1>4, <1>5

LEMMA DeallocFine ==
  ASSUME NEW a, NEW A, NEW K, Fine(a, A, K), NEW c \in Chunks, First(c) \in a.clean \cup a.dirty,
         a.map[First(c)].size = NP, NEW b, b = ChunkDealloc(a, c)
  PROVE  Fine(b, A, K \ {a.spare}) /\ DeallocFields(a, b, c) /\ \A q : Same(a, b, q)
<1>1. Good(a, A, K) /\ Counted(a, A, K) /\ Zero(a)
  BY DEF Fine
<1>2. /\ Good(b, A, K \ {a.spare}) /\ DeallocFields(a, b, c)
      /\ FreeRuns(b) = FreeRuns(a) \ SpareRuns(a) /\ \A q : Same(a, b, q)
  BY <1>1, DeallocGood
<1>3. PICK old, L : old = a.spare /\ L = K \ {old}
  OBVIOUS
<1>4. \A d \in L : Soiled(b, d) = Soiled(a, d)
  <2>1. \A q \in SpareRuns(a) : old \in Chunks /\ q = First(old)
    BY <1>3 DEF SpareRuns
  <2>2. old \in Chunks => Base(First(old)) = old
    BY ChunkSpan
  <2>3. \A d \in L : \A q \in FreeRuns(a) : Base(q) = d => q \notin SpareRuns(a)
    BY <1>3, <2>1, <2>2
  <2>4. \A q : b.map[q] = a.map[q]
    BY <1>2 DEF Same
  <2> QED  BY <1>2, <2>3, <2>4 DEF Soiled
<1>5. /\ b.cdirty = a.cdirty /\ b.dirtied = a.dirtied /\ b.nactive = a.nactive /\ b.touched = a.touched
      /\ b.ndirty = IF old # Null /\ old \in a.dirtied THEN a.ndirty - a.cdirty[old] ELSE a.ndirty
  BY <1>2, <1>3 DEF DeallocFields
<1>6. \A S : Sizes(b, S) = Sizes(a, S)
  BY <1>2, SizesSame DEF Same
<1>7. b.ndirty = SumFunction([d \in L |-> b.cdirty[d]])
  <2>1. K \in SUBSET Chunks /\ \A d : Sizes(a, Soiled(a, d)) \in Nat
    BY <1>1, GoodSizes
  <2>2. PICK h : h = a.cdirty
    OBVIOUS
  <2>3. \A d \in K : h[d] \in Nat /\ (h[d] > 0 => d \in a.dirtied)
    BY <1>1, <2>1, <2>2 DEF Counted
  <2>4. a.ndirty = SumFunction([d \in K |-> h[d]])
    BY <1>1, <2>2 DEF Counted
  <2>5. CASE old \in K
    <3>1. /\ SumFunction([d \in K |-> h[d]]) = h[old] + SumFunction([d \in K \ {old} |-> h[d]])
          /\ SumFunction([d \in K |-> h[d]]) \in Nat
          /\ SumFunction([d \in K \ {old} |-> h[d]]) \in Nat
      BY <2>1, <2>3, <2>5, SumDrop
    <3>2. old # Null
      <4>1. Null \notin Chunks
        BY ArenaAssumption DEF Chunks
      <4> QED  BY <2>1, <2>5, <4>1
    <3>3. h[old] \in Nat /\ (h[old] > 0 => old \in a.dirtied)
      BY <2>3, <2>5
    <3> QED  BY <1>3, <1>5, <2>2, <2>4, <3>1, <3>2, <3>3
  <2>6. CASE old \notin K
    <3>1. old = Null
      <4>1. SpareRuns(a) \subseteq FreeRuns(a)
        BY DEF FreeRuns
      <4>2. old # Null => old \in Chunks /\ SpareRuns(a) = {First(old)}
        BY <1>1, <1>3, SpareIs DEF Good
      <4>3. old # Null => Base(First(old)) \in K /\ Base(First(old)) = old
        <5>1. Laid(a, A, FreeRuns(a), K)
          BY <1>1 DEF Good
        <5> QED  BY <4>1, <4>2, <5>1, LaidEnds, ChunkSpan
      <4> QED  BY <2>6, <4>3
    <3>2. L = K
      BY <1>3, <2>6
    <3> QED  BY <1>5, <2>2, <2>4, <3>1, <3>2
  <2> QED  BY <2>5, <2>6
<1>8. Counted(b, A, L)
  <2>1. \A d \in L : b.cdirty[d] = Sizes(b, Soiled(b, d)) /\ (b.cdirty[d] > 0 => d \in b.dirtied)
    BY <1>1, <1>3, <1>4, <1>5, <1>6 DEF Counted
  <2>2. b.nactive = Sizes(b, A)
    BY <1>1, <1>5, <1>6 DEF Counted
  <2> QED  BY <1>7, <2>1, <2>2 DEF Counted
<1>9. Zero(b)
  BY <1>1, <1>2, <1>5 DEF Zero, Unused, Same
<1> QED  BY <1>2, <1>3, <1>8, <1>9 DEF Fine

(* But for what the pages hold, what is released and what is to be purged, *)
(* b is a.                                                                 *)
LEMMA AlikeFine ==
  ASSUME NEW a, NEW A, NEW K, Fine(a, A, K), NEW b, Alike(a, b), Typed(b),
         \A q \in FreeRuns(a) : (q .. q + Length(a, q) - 1) \cap b.touched \subseteq a.touched
  PROVE  Fine(b, A, K) /\ FreeRuns(b) = FreeRuns(a) /\ \A q : Same(a, b, q)
<1>1. Good(a, A, K) /\ Counted(a, A, K) /\ Zero(a)
  BY DEF Fine
<1>2. Good(b, A, K) /\ FreeRuns(b) = FreeRuns(a) /\ \A q : Same(a, b, q)
  BY <1>1, AlikeGood
<1>3. Counted(b, A, K)
  <2>1. /\ b.cdirty = a.cdirty /\ b.dirtied = a.dirtied /\ b.ndirty = a.ndirty /\ b.nactive = a.nactive
        /\ \A d : Soiled(b, d) = Soiled(a, d)
    BY <1>2 DEF Alike, Soiled
  <2>2. \A q : Length(b, q) = Length(a, q)
    BY <1>2 DEF Same
  <2> QED  BY <1>1, <2>1, <2>2, CountSame
<1>4. Zero(b)
  <2> SUFFICES ASSUME NEW q \in FreeRuns(a) PROVE Unused(b, q, 0)
    BY <1>2 DEF Zero
  <2>1. q \in Int /\ Length(a, q) \in Nat
    BY <1>1, LaidEnds DEF Good
  <2>2. Keeps(a, b, q)
    BY <1>2 DEF Keeps
  <2>3. Unused(a, q, 0)
    BY <1>1 DEF Zero
  <2> QED  BY <2>1, <2>2, <2>3, KeepsUnused
<1> QED  BY <1>2, <1>3, <1>4 DEF Fine

TouchGives(a, b, A, K, r, P) ==
  /\ Fine(b, A, K) /\ b.touched = a.touched \cup P /\ Alike(a, b)
  /\ b.released = a.released /\ b.npurgatory = a.npurgatory
  /\ \A q : Same(a, b, q)
  /\ \A q \in A : q # r => Keeps(a, b, q)

LEMMA TouchFine ==
  ASSUME NEW a, NEW A, NEW K, Fine(a, A, K), NEW r \in A, NEW P, P \subseteq r .. r + Length(a, r) - 1,
         NEW b, b = Touch(a, P)
  PROVE  TouchGives(a, b, A, K, r, P)
<1> DEFINE F == FreeRuns(a)
<1>1. Typed(a) /\ Laid(a, A, F, K)
  BY DEF Fine, Good
<1>2. r \in Int /\ Length(a, r) \in Nat /\ P \in SUBSET Int
  BY <1>1, LaidEnds
<1>3. /\ Typed(b) /\ Alike(a, b) /\ b.touched = a.touched \cup P
      /\ b.released = a.released /\ b.npurgatory = a.npurgatory
  BY <1>1, <1>2, TouchIs
<1>4. ASSUME NEW q \in A \cup F, q # r
      PROVE  (q .. q + Length(a, q) - 1) \cap b.touched \subseteq a.touched
  <2>1. PICK R : R = A \cup F
    OBVIOUS
  <2>2. Tiles(a, R, K) /\ r \in R /\ q \in R
    BY <1>1, <1>4, <2>1 DEF Laid
  <2>3. \A p \in q .. q + Length(a, q) - 1 : p \notin r .. r + Length(a, r) - 1
    BY <1>4, <2>2, TileOne
  <2> QED  BY <1>3, <2>3
<1>5. \A q \in F : q # r
  BY <1>1, AllocLength
<1>6. Fine(b, A, K) /\ \A q : Same(a, b, q)
  BY <1>3, <1>4, <1>5, AlikeFine
<1> QED  BY <1>3, <1>4, <1>6 DEF TouchGives, Keeps

GiveGives(a, b, c, A, K, r) ==
  /\ Fine(c, A \ {r}, K \ {b.released}) /\ b.released \in K \cup {Null}
  /\ c.released = Null /\ c.mapped = a.mapped /\ c.npurgatory = a.npurgatory
  /\ \A q \in A : q # r => Keeps(a, c, q)

LEMMA GiveFine ==
  ASSUME NEW a, NEW A, NEW K, Fine(a, A, K), a.released = Null, NEW r \in A, NEW dirty \in BOOLEAN,
         ~dirty => Unused(a, r, 0),
         NEW b, b = RunDalloc(a, r, dirty), NEW c, c = [b EXCEPT !.released = Null]
  PROVE  GiveGives(a, b, c, A, K, r)
<1> DEFINE F == FreeRuns(a)
<1>1. Good(a, A, K) /\ Typed(a) /\ Laid(a, A, F, K)
  BY DEF Fine, Good
<1>2. PICK f, fd : fd = DallocFlags(a, r, dirty) /\ f = Freed(a, r, fd)
  OBVIOUS
<1>3. PICK d : d = Base(r)
  OBVIOUS
<1>4. /\ fd \in FreeFlags /\ Good(f, A \ {r}, K) /\ f.released = Null
      /\ Good(b, A \ {r}, K \ {b.released}) /\ b.released \in K \cup {Null}
      /\ \A q : Same(f, b, q)
      /\ \/ b = f
         \/ DeallocFields(f, b, d) /\ First(d) \in f.clean \cup f.dirty
            /\ f.map[First(d)].size = NP /\ b = ChunkDealloc(f, d)
  <2>1. f = Freed(a, r, DallocFlags(a, r, dirty))
    BY <1>2
  <2>2. /\ DallocFlags(a, r, dirty) \in FreeFlags
        /\ Good(f, A \ {r}, K) /\ f.released = Null
        /\ Good(b, A \ {r}, K \ {b.released}) /\ b.released \in K \cup {Null}
        /\ \A q : Same(f, b, q)
        /\ \/ b = f
           \/ DeallocFields(f, b, Base(r)) /\ First(Base(r)) \in f.clean \cup f.dirty
              /\ f.map[First(Base(r))].size = NP /\ b = ChunkDealloc(f, Base(r))
    BY <1>1, <2>1, DallocGood
  <2> QED  BY <1>2, <1>3, <2>2
<1>5. fd = {} => (r .. r + Length(a, r) - 1) \cap a.touched = {}
  <2>1. r \in Int /\ r + 0 = r
    BY <1>1, LaidEnds
  <2>2. fd = {} => ~dirty /\ Dirty(a.map[r]) = {}
    BY <1>2 DEF DallocFlags
  <2> QED  BY <2>1, <2>2 DEF Unused
<1>6. /\ Fine(f, A \ {r}, K) /\ FreedFields(a, f, r, fd)
      /\ \A q \in A : q # r => Same(a, f, q)
  BY <1>2, <1>4, <1>5, FreedFine
<1>7. f.mapped = a.mapped /\ f.npurgatory = a.npurgatory /\ f.touched = a.touched
  BY <1>6 DEF FreedFields
<1>8. PICK B, L, old : B = A \ {r} /\ old = b.released /\ L = K \ {old}
  OBVIOUS
<1>9. Null \notin K
  <2>1. Null \notin Chunks
    BY ArenaAssumption DEF Chunks
  <2> QED  BY <1>1, <2>1, GoodSizes
<1>10. Fine(b, B, L) /\ b.mapped = a.mapped /\ b.npurgatory = a.npurgatory /\ b.touched = a.touched
  <2>1. CASE b = f
    <3>1. L = K
      BY <1>4, <1>8, <1>9, <2>1
    <3> QED  BY <1>6, <1>7, <1>8, <2>1, <3>1
  <2>2. CASE DeallocFields(f, b, d) /\ First(d) \in f.clean \cup f.dirty
             /\ f.map[First(d)].size = NP /\ b = ChunkDealloc(f, d)
    <3>1. d \in Chunks
      BY <1>1, <1>3, LaidEnds
    <3>2. Fine(f, B, K)
      BY <1>6, <1>8
    <3>3. Fine(b, B, K \ {f.spare})
      BY <2>2, <3>1, <3>2, DeallocFine
    <3>4. old = IF f.spare = Null THEN Null ELSE f.spare
      BY <1>4, <1>8, <2>2 DEF DeallocFields
    <3>5. K \ {f.spare} = L
      BY <1>8, <1>9, <3>4
    <3> QED  BY <1>7, <2>2, <3>3, <3>5 DEF DeallocFields
  <2> QED  BY <1>4, <2>1, <2>2
<1>11. Typed(b)
  BY <1>4 DEF Good
<1>12. /\ Typed(c) /\ Alike(b, c) /\ c.touched = b.touched /\ c.released = Null
       /\ c.npurgatory = b.npurgatory
  BY <1>11, ReleasedIs
<1>13. Fine(c, B, L) /\ \A q : Same(b, c, q)
  BY <1>10, <1>12, AlikeFine
<1>14. ASSUME NEW q \in A, q # r PROVE Keeps(a, c, q)
  <2>1. Same(a, f, q) /\ Same(f, b, q) /\ Same(b, c, q)
    BY <1>4, <1>6, <1>13, <1>14
  <2>2. Same(a, c, q)
    BY <2>1, SameTrans
  <2> QED  BY <1>10, <1>12, <2>2 DEF Keeps
<1>15. c.mapped = a.mapped
  BY <1>10, <1>12 DEF Alike
<1> QED  BY <1>4, <1>8, <1>10, <1>12, <1>13, <1>14, <1>15 DEF GiveGives

LEMMA ReuseFine ==
  ASSUME NEW a, NEW A, NEW K, Fine(a, A, K), a.spare # Null, NEW b, b = ReuseSpare(a)
  PROVE  /\ Fine(b, A, K) /\ ReuseFields(a, b)
         /\ First(a.spare) \in b.clean \cup b.dirty /\ b.map[First(a.spare)].size = NP
         /\ \A q : Keeps(a, b, q)
<1>1. Good(a, A, K) /\ Counted(a, A, K) /\ Zero(a)
  BY DEF Fine
<1>2. /\ Good(b, A, K) /\ ReuseFields(a, b) /\ FreeRuns(b) = FreeRuns(a)
      /\ First(a.spare) \in b.clean \cup b.dirty /\ b.map[First(a.spare)].size = NP
      /\ \A q : Same(a, b, q)
  BY <1>1, ReuseGood
<1>3. b.touched = a.touched
  BY <1>2 DEF ReuseFields
<1>4. Counted(b, A, K)
  <2>1. /\ b.cdirty = a.cdirty /\ b.dirtied = a.dirtied /\ b.ndirty = a.ndirty /\ b.nactive = a.nactive
        /\ \A d : Soiled(b, d) = Soiled(a, d)
    BY <1>2 DEF ReuseFields, Soiled
  <2>2. \A q : Length(b, q) = Length(a, q)
    BY <1>2 DEF Same
  <2> QED  BY <1>1, <2>1, <2>2, CountSame
<1>5. Zero(b)
  BY <1>1, <1>2, <1>3 DEF Zero, Unused, Same
<1> QED  BY <1>2, <1>3, <1>4, <1>5 DEF Fine, Keeps

LEMMA ShortFine ==
  ASSUME NEW a, NEW A, NEW K, Fine(a, A, K), NEW b, b = Shortened(a)
  PROVE  /\ Fine(b, A, K) /\ ShortFields(a, b)
         /\ b.chunks_dirty # <<>> =>
              /\ Head(b.chunks_dirty) \in K \cap b.dirtied
              /\ a.cdirty[Head(b.chunks_dirty)] # 0
         /\ \A q : Keeps(a, b, q)
<1>1. Good(a, A, K) /\ Counted(a, A, K) /\ Zero(a)
  BY DEF Fine
<1>2. /\ Good(b, A, K) /\ ShortFields(a, b) /\ FreeRuns(b) = FreeRuns(a)
      /\ b.chunks_dirty # <<>> =>
           /\ Head(b.chunks_dirty) \in K \cap b.dirtied
           /\ a.cdirty[Head(b.chunks_dirty)] # 0
      /\ \A q : Same(a, b, q)
  BY <1>1, ShortGood
<1>3. b.touched = a.touched
  BY <1>2 DEF ShortFields
<1>4. Counted(b, A, K)
  <2>1. /\ b.cdirty = a.cdirty /\ b.ndirty = a.ndirty /\ b.nactive = a.nactive
        /\ \A d : Soiled(b, d) = Soiled(a, d)
    BY <1>2 DEF ShortFields, Soiled
  <2>2. \A d \in K : a.cdirty[d] > 0 /\ d \in a.dirtied => d \in b.dirtied
    BY <1>2 DEF ShortFields
  <2>3. \A q : Length(b, q) = Length(a, q)
    BY <1>2 DEF Same
  <2> QED  BY <1>1, <2>1, <2>2, <2>3, CountSame
<1>5. Zero(b)
  BY <1>1, <1>2, <1>3 DEF Zero, Unused, Same
<1> QED  BY <1>2, <1>3, <1>4, <1>5 DEF Fine, Keeps

LEMMA CommittedFine ==
  ASSUME NEW a, NEW A, NEW K, Fine(a, A, K), NEW n \in Int, NEW b, b = Committed(a, n)
  PROVE  /\ Fine(b, A, K) /\ Alike(a, b) /\ b.released = a.released
         /\ b.npurgatory = (a.npurgatory + n) % SizeMod
         /\ \A q : Keeps(a, b, q)
<1>1. Typed(a)
  BY DEF Fine, Good
<1>2. /\ Typed(b) /\ Alike(a, b) /\ b.touched = a.touched
      /\ b.released = a.released /\ b.npurgatory = (a.npurgatory + n) % SizeMod
  BY <1>1, CommittedIs
<1>3. Fine(b, A, K) /\ \A q : Same(a, b, q)
  BY <1>2, AlikeFine
<1> QED  BY <1>2, <1>3 DEF Keeps

(* madvise makes pages zero again. *)
LEMMA ZeroedFine ==
  ASSUME NEW a, NEW A, NEW K, Fine(a, A, K), NEW P, NEW b, b = [a EXCEPT !.touched = @ \ P]
  PROVE  /\ Fine(b, A, K) /\ Alike(a, b) /\ b.released = a.released
         /\ b.npurgatory = a.npurgatory /\ b.touched = a.touched \ P
         /\ \A q : Keeps(a, b, q)
<1>1. Typed(a)
  BY DEF Fine, Good
<1>2. Typed(b) /\ Alike(a, b) /\ b.touched = a.touched \ P
      /\ b.released = a.released /\ b.npurgatory = a.npurgatory
  <2>1. IsArena(a) /\ FieldsTyped(a)
    BY <1>1, TypedIs
  <2>2. PICK T : T = a.touched \ P
    OBVIOUS
  <2>3. b = [a EXCEPT !.touched = T]
    BY <2>1, <2>2 DEF IsArena
  <2>4. b.touched = T /\ Alike(a, b) /\ b.released = a.released /\ b.npurgatory = a.npurgatory /\ IsArena(b)
    BY <2>1, <2>3 DEF IsArena, Alike
  <2>5. FieldsTyped(b)
    BY <2>1, <2>2, <2>4 DEF FieldsTyped, Alike
  <2> QED  BY <2>2, <2>4, <2>5, TypedIs
<1>3. Fine(b, A, K) /\ \A q : Same(a, b, q)
  BY <1>2, AlikeFine
<1> QED  BY <1>2, <1>3 DEF Keeps

LEMMA NewFine ==
  ASSUME NEW a, NEW A, NEW K, Fine(a, A, K), NEW c \in Chunks, c \notin a.mapped,
         NEW b, b = NewChunk(a, c)
  PROVE  /\ Fine(b, A, K \cup {c}) /\ NewFields(a, b, c)
         /\ First(c) \in b.clean /\ b.map[First(c)] = Elem(NP, {})
         /\ \A q \in A : Keeps(a, b, q)
<1> DEFINE F == FreeRuns(a)
<1>1. Good(a, A, K) /\ Counted(a, A, K) /\ Zero(a)
  BY DEF Fine
<1>2. PICK L, s : L = K \cup {c} /\ s = First(c)
  OBVIOUS
<1>3. /\ Good(b, A, L) /\ NewFields(a, b, c)
      /\ FreeRuns(b) = F \cup {s} /\ s \notin F
      /\ s \in b.clean /\ b.map[s] = Elem(NP, {})
      /\ \A q \in A \cup F : Same(a, b, q)
  BY <1>1, <1>2, NewGood
<1>4. c \notin K /\ Laid(a, A, F, K) /\ Typed(a)
  BY <1>1 DEF Good
<1>5. /\ b.cdirty = [a.cdirty EXCEPT ![c] = 0] /\ b.dirtied = a.dirtied \ {c} /\ b.ndirty = a.ndirty
      /\ b.nactive = a.nactive /\ b.touched = a.touched \ Of(c)
  BY <1>3 DEF NewFields
<1>6. a.cdirty \in [Chunks -> Int] /\ K \in SUBSET Chunks /\ L \in SUBSET Chunks
  BY <1>1, <1>2, <1>4, TypedIs, GoodSizes DEF FieldsTyped
<1>7. b.cdirty[c] = 0 /\ \A d \in K : b.cdirty[d] = a.cdirty[d] /\ d # c
  BY <1>4, <1>5, <1>6
<1>8. Base(s) = c /\ s \in Pages /\ s \in Int /\ Of(c) = s .. s + NP - 1
  BY <1>2, ChunkSpan, BaseIs DEF Of
<1>9. \A q \in F : Base(q) # c
  BY <1>4, LaidEnds
<1>10. Soiled(b, c) = {}
  BY <1>3, <1>9 DEF Soiled, Elem
<1>11. \A d \in K : Soiled(b, d) = Soiled(a, d)
  BY <1>3, <1>7, <1>8 DEF Soiled, Same
<1>12. \A d \in K : \A q \in Soiled(a, d) : Length(b, q) = Length(a, q)
  BY <1>3 DEF Soiled, Same
<1>13. ASSUME NEW d \in L PROVE b.cdirty[d] = Sizes(b, Soiled(b, d)) /\ (b.cdirty[d] > 0 => d \in b.dirtied)
  <2>1. CASE d = c
    BY <1>7, <1>10, <2>1, SizesNone
  <2>2. CASE d # c
    <3>1. d \in K
      BY <1>2, <2>2
    <3>2. PICK S : S = Soiled(a, d)
      OBVIOUS
    <3>3. Sizes(b, S) = Sizes(a, S)
      BY <1>12, <3>1, <3>2, SizesSame
    <3> QED  BY <1>1, <1>5, <1>7, <1>11, <3>1, <3>2, <3>3 DEF Counted
  <2> QED  BY <2>1, <2>2
<1>14. b.ndirty = SumFunction([d \in L |-> b.cdirty[d]])
  <2>1. PICK h : h = b.cdirty
    OBVIOUS
  <2>2. \A d \in L : h[d] \in Nat
    BY <1>3, <1>13, <2>1, GoodSizes
  <2>3. c \in L /\ L \ {c} = K
    BY <1>2, <1>4
  <2>4. /\ SumFunction([d \in L |-> h[d]]) = h[c] + SumFunction([d \in K |-> h[d]])
        /\ SumFunction([d \in K |-> h[d]]) \in Nat
    BY <1>6, <2>2, <2>3, SumDrop
  <2>5. [d \in K |-> h[d]] = [d \in K |-> a.cdirty[d]]
    BY <1>7, <2>1
  <2> QED  BY <1>1, <1>5, <1>7, <2>1, <2>4, <2>5 DEF Counted
<1>15. b.nactive = Sizes(b, A)
  <2>1. Sizes(b, A) = Sizes(a, A)
    BY <1>3, SizesSame DEF Same
  <2> QED  BY <1>1, <1>5, <2>1 DEF Counted
<1>16. Counted(b, A, L)
  BY <1>13, <1>14, <1>15 DEF Counted
<1>17. Zero(b)
  <2>1. Unused(b, s, 0)
    <3>1. Length(b, s) = NP
      <4>1. b.map[s].flags = {} /\ b.map[s].size = NP
        BY <1>3 DEF Elem
      <4> QED  BY <4>1 DEF Length, IsFree
    <3>2. s + 0 = s
      BY <1>8
    <3> QED  BY <1>5, <1>8, <3>1, <3>2 DEF Unused
  <2>2. \A q \in F : Unused(b, q, 0)
    BY <1>1, <1>3, <1>5 DEF Zero, Unused, Same
  <2> QED  BY <1>3, <2>1, <2>2 DEF Zero
<1>18. \A q \in A : Keeps(a, b, q)
  BY <1>3, <1>5 DEF Keeps
<1> QED  BY <1>2, <1>3, <1>16, <1>17, <1>18 DEF Fine

LEMMA UnmapFine ==
  ASSUME NEW a, NEW A, NEW K, Fine(a, A, K), NEW c \in Chunks, c \notin K,
         NEW b, b = Unmapped(a, c)
  PROVE  /\ Fine(b, A, K) /\ UnmapFields(a, b, c) /\ \A q \in A : Keeps(a, b, q)
<1> DEFINE F == FreeRuns(a)
<1>1. Good(a, A, K) /\ Counted(a, A, K) /\ Zero(a)
  BY DEF Fine
<1>2. /\ Good(b, A, K) /\ UnmapFields(a, b, c) /\ FreeRuns(b) = F
      /\ \A q \in A \cup F : Same(a, b, q)
  BY <1>1, UnmapGood
<1>3. /\ b.cdirty = [a.cdirty EXCEPT ![c] = 0] /\ b.dirtied = a.dirtied \ {c} /\ b.ndirty = a.ndirty
      /\ b.nactive = a.nactive /\ b.touched = a.touched \ Of(c)
  BY <1>2 DEF UnmapFields
<1>4. a.cdirty \in [Chunks -> Int] /\ K \in SUBSET Chunks
  BY <1>1, TypedIs, GoodSizes DEF FieldsTyped, Good
<1>5. \A d \in K : b.cdirty[d] = a.cdirty[d] /\ d # c
  BY <1>3, <1>4
<1>6. \A d : Soiled(b, d) = Soiled(a, d)
  BY <1>2 DEF Soiled, Same
<1>7. \A d : \A q \in Soiled(a, d) : Length(b, q) = Length(a, q)
  BY <1>2 DEF Soiled, Same
<1>8. ASSUME NEW d \in K PROVE b.cdirty[d] = Sizes(b, Soiled(b, d)) /\ (b.cdirty[d] > 0 => d \in b.dirtied)
  <2>1. PICK S : S = Soiled(a, d)
    OBVIOUS
  <2>2. Sizes(b, S) = Sizes(a, S)
    BY <1>7, <2>1, SizesSame
  <2> QED  BY <1>1, <1>3, <1>5, <1>6, <2>1, <2>2 DEF Counted
<1>9. [d \in K |-> b.cdirty[d]] = [d \in K |-> a.cdirty[d]]
  BY <1>5
<1>10. Sizes(b, A) = Sizes(a, A)
  BY <1>2, SizesSame DEF Same
<1>11. Counted(b, A, K)
  BY <1>1, <1>3, <1>8, <1>9, <1>10 DEF Counted
<1>12. Zero(b)
  BY <1>1, <1>2, <1>3 DEF Zero, Unused, Same
<1>13. \A q \in A : Keeps(a, b, q)
  BY <1>2, <1>3 DEF Keeps
<1> QED  BY <1>2, <1>11, <1>12, <1>13 DEF Fine

(* The runs that are purged are the dirty ones of the chunk: it has some.  *)
LEMMA PurgedFine ==
  ASSUME NEW a, NEW A, NEW K, Fine(a, A, K), NEW c \in K, c \in a.dirtied, c # a.spare,
         NEW runs, runs = Soiled(a, c), NEW b, b = Purged(a, c, runs)
  PROVE  /\ Fine(b, A \cup runs, K) /\ PurgedFields(a, b, c, runs) /\ runs \cap A = {}
         /\ \A d \in runs : b.map[d].flags = Taken
         /\ runs \in SUBSET Pages
         /\ \A q \in A : Keeps(a, b, q)
<1> DEFINE F == FreeRuns(a)
<1>1. Good(a, A, K) /\ Counted(a, A, K) /\ Zero(a)
  BY DEF Fine
<1>2. /\ Good(b, A \cup runs, K) /\ PurgedFields(a, b, c, runs)
      /\ FreeRuns(b) = F \ runs /\ runs \cap A = {}
      /\ \A d \in runs : b.map[d] = Elem(a.map[d].size, Taken) /\ Length(b, d) = Length(a, d)
      /\ \A q \in (A \cup F) \ runs : Same(a, b, q)
  BY <1>1, PurgedGood
<1>3. /\ b.cdirty = [a.cdirty EXCEPT ![c] = 0] /\ b.dirtied = a.dirtied \ {c}
      /\ b.ndirty = a.ndirty - a.cdirty[c] /\ b.touched = a.touched
      /\ b.nactive = a.nactive + SumFunction([r \in runs |-> a.map[r].size])
  BY <1>2 DEF PurgedFields
<1>4. a.cdirty \in [Chunks -> Int] /\ K \in SUBSET Chunks /\ a.ndirty \in Int
  BY <1>1, TypedIs, GoodSizes DEF FieldsTyped, Good
<1>5. runs \subseteq F /\ runs \in SUBSET Pages /\ A \in SUBSET Pages /\ Sizes(a, A) \in Nat
      /\ \A q \in A \cup F : Length(a, q) \in Nat
  BY <1>1, GoodSizes DEF Soiled
<1>6. b.cdirty[c] = 0 /\ \A d \in K : d # c => b.cdirty[d] = a.cdirty[d]
  BY <1>3, <1>4
<1>7. Soiled(b, c) = {}
  BY <1>2 DEF Soiled, Same
<1>8. Elsewhere(a, b, K, c)
  <2> SUFFICES ASSUME NEW d \in K, d # c
               PROVE  /\ b.cdirty[d] = a.cdirty[d] /\ (d \in a.dirtied => d \in b.dirtied)
                      /\ Soiled(b, d) = Soiled(a, d)
                      /\ \A q \in Soiled(a, d) : Length(b, q) = Length(a, q)
    BY DEF Elsewhere
  <2>1. \A q \in F : Base(q) = d => q \notin runs /\ Same(a, b, q)
    BY <1>2 DEF Soiled
  <2>2. Soiled(b, d) = Soiled(a, d)
    BY <1>2, <2>1 DEF Soiled, Same
  <2>3. \A q \in Soiled(a, d) : Length(b, q) = Length(a, q)
    BY <1>2, <2>1 DEF Soiled, Same
  <2> QED  BY <1>3, <1>6, <2>2, <2>3
<1>9. PICK B : B = A \cup runs
  OBVIOUS
<1>10. b.nactive = Sizes(b, B)
  <2>1. \A q \in B : Length(b, q) = Length(a, q) /\ Length(a, q) \in Nat
    BY <1>2, <1>5, <1>9 DEF Same
  <2>2. B \in SUBSET Pages /\ A \in SUBSET B /\ B \ A = runs
    BY <1>2, <1>5, <1>9
  <2>3. Sizes(a, B) = Sizes(a, A) + Sizes(a, runs)
    BY <2>1, <2>2, SizesSplit
  <2>4. Sizes(b, B) = Sizes(a, B)
    BY <2>1, SizesSame
  <2>5. [r \in runs |-> a.map[r].size] = [r \in runs |-> Length(a, r)]
    <3>1. Typed(a) /\ Laid(a, A, F, K)
      BY <1>1 DEF Good
    <3> QED  BY <1>5, <3>1, FreeLength
  <2>6. a.nactive = Sizes(a, A)
    BY <1>1 DEF Counted
  <2> QED  BY <1>3, <2>3, <2>4, <2>5, <2>6 DEF Sizes
<1>11. b.ndirty - a.ndirty = b.cdirty[c] - a.cdirty[c] /\ b.cdirty[c] = Sizes(b, Soiled(b, c))
       /\ ~(b.cdirty[c] > 0)
  <2>1. a.cdirty[c] \in Int
    BY <1>4
  <2> QED  BY <1>3, <1>4, <1>6, <1>7, <2>1, SizesNone
<1>12. Good(b, B, K)
  BY <1>2, <1>9
<1>13. Counted(b, B, K)
  BY <1>1, <1>8, <1>10, <1>11, <1>12, CountKeep
<1>14. Zero(b)
  BY <1>1, <1>2, <1>3 DEF Zero, Unused, Same
<1>15. \A q \in A : Keeps(a, b, q)
  BY <1>2, <1>3 DEF Keeps
<1>16. ASSUME NEW d \in runs PROVE b.map[d].flags = Taken
  <2>1. PICK n : n = a.map[d].size
    OBVIOUS
  <2>2. b.map[d] = Elem(n, Taken)
    BY <1>2, <2>1
  <2> QED  BY <2>2 DEF Elem
<1>17. Fine(b, A \cup runs, K)
  BY <1>9, <1>12, <1>13, <1>14 DEF Fine
<1> QED  BY <1>2, <1>5, <1>15, <1>16, <1>17

LEMMA SoiledSome ==
  ASSUME NEW a, NEW A, NEW K, Fine(a, A, K), NEW c \in K, a.cdirty[c] # 0
  PROVE  Soiled(a, c) # {}
<1>1. a.cdirty[c] = Sizes(a, Soiled(a, c))
  BY DEF Fine, Counted
<1> QED  BY <1>1, SizesNone

GrownTo(b, g, A, K, r, s, n, fd) ==
  /\ Fine(g, A \ {s}, K) /\ MapOnly(b, g) /\ g.touched = b.touched
  /\ g.map[r] = Elem(n, Taken \cup fd) /\ Length(g, r) = n /\ r # s
  /\ \A q \in A \ {r, s} : Keeps(b, g, q)

LEMMA GrownFine ==
  ASSUME NEW b, NEW A, NEW K, Fine(b, A, K), NEW r \in A, NEW s \in A, s = r + Length(b, r),
         Base(s) = Base(r), NEW n, n = Length(b, r) + Length(b, s),
         NEW e, e = s + Length(b, s) - 1, NEW fd \in FreeFlags,
         NEW g, g = Grown(b, r, e, n, fd)
  PROVE  GrownTo(b, g, A, K, r, s, n, fd)
<1> DEFINE F == FreeRuns(b)
<1>1. Good(b, A, K) /\ Counted(b, A, K) /\ Zero(b)
  BY DEF Fine
<1>2. /\ Good(g, A \ {s}, K) /\ MapOnly(b, g) /\ g.touched = b.touched
      /\ FreeRuns(g) = FreeRuns(b)
      /\ g.map[r] = Elem(n, Taken \cup fd) /\ Length(g, r) = n /\ r # s /\ n >= 1
      /\ \A q \in (A \cup F) \ {r, s} : Same(b, g, q)
  <2>1. GrownGives(b, g, A, K, r, s, n, fd)
    BY <1>1, GrownGood
  <2> QED  BY <2>1 DEF GrownGives
<1>3. r \notin F /\ s \notin F
  BY <1>1, AllocLength DEF Good
<1>4. \A q \in F : Same(b, g, q)
  BY <1>2, <1>3
<1>5. PICK B : B = A \ {s}
  OBVIOUS
<1>6. \A d : Soiled(g, d) = Soiled(b, d)
  BY <1>2, <1>4 DEF Soiled, Same
<1>7. \A d : \A q \in Soiled(b, d) : Length(g, q) = Length(b, q)
  BY <1>4 DEF Soiled, Same
<1>8. Sizes(g, B) = Sizes(b, A)
  <2>1. /\ A \in SUBSET Pages /\ (\A q \in A : Length(b, q) \in Nat) /\ Sizes(b, A) \in Nat
    BY <1>1, GoodSizes
  <2>2. PICK T : T = B \ {r}
    OBVIOUS
  <2>3. T \in SUBSET Pages /\ r \notin T /\ B = T \cup {r} /\ B \in SUBSET Pages /\ s \notin B /\ A = B \cup {s}
        /\ r \in Pages /\ s \in Pages
    <3>1. r # s
      BY <1>2
    <3>2. B \in SUBSET Pages /\ s \notin B /\ A = B \cup {s} /\ r \in B
      BY <1>5, <2>1, <3>1
    <3> QED  BY <2>1, <2>2, <3>2
  <2>4. \A q \in T : Length(g, q) = Length(b, q) /\ Length(b, q) \in Nat
    BY <1>2, <2>1, <2>2, <2>3 DEF Same
  <2>5. Sizes(g, T) = Sizes(b, T)
    BY <2>4, SizesSame
  <2>6. Length(b, r) \in Nat /\ Length(b, s) \in Nat /\ n \in Nat /\ \A q \in B : Length(b, q) \in Nat
    BY <2>1, <2>3
  <2>7. Sizes(b, T \cup {r}) = Length(b, r) + Sizes(b, T) /\ Sizes(b, T) \in Nat
    BY <2>3, <2>4, <2>6, SizesAdd
  <2>8. Sizes(b, B \cup {s}) = Length(b, s) + Sizes(b, B)
    BY <2>3, <2>6, SizesAdd
  <2>9. Sizes(g, T \cup {r}) = n + Sizes(g, T)
    BY <1>2, <2>3, <2>4, <2>6, SizesAdd
  <2> QED  BY <2>3, <2>5, <2>6, <2>7, <2>8, <2>9
<1>9. ASSUME NEW d \in K
      PROVE  g.cdirty[d] = Sizes(g, Soiled(g, d)) /\ (g.cdirty[d] > 0 => d \in g.dirtied)
  <2>1. PICK S : S = Soiled(b, d)
    OBVIOUS
  <2>2. Sizes(g, S) = Sizes(b, S)
    BY <1>7, <2>1, SizesSame
  <2> QED  BY <1>1, <1>2, <1>6, <2>1, <2>2 DEF Counted, MapOnly
<1>10. [d \in K |-> g.cdirty[d]] = [d \in K |-> b.cdirty[d]]
  BY <1>2 DEF MapOnly
<1>11. g.ndirty = SumFunction([d \in K |-> g.cdirty[d]])
  BY <1>1, <1>2, <1>10 DEF Counted, MapOnly
<1>12. g.nactive = Sizes(g, B)
  BY <1>1, <1>2, <1>8 DEF Counted, MapOnly
<1>13. Counted(g, B, K)
  BY <1>9, <1>11, <1>12 DEF Counted
<1>14. Zero(g)
  BY <1>1, <1>2, <1>4 DEF Zero, Unused, Same
<1>15. \A q \in A \ {r, s} : Keeps(b, g, q)
  BY <1>2 DEF Keeps
<1> QED  BY <1>2, <1>5, <1>13, <1>14, <1>15 DEF Fine, GrownTo
=============================================================================
