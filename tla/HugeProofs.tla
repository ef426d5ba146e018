----------------------------- MODULE HugeProofs -----------------------------
(***************************************************************************)
(* Proofs about Huge, for any number of threads, pages and objects: no     *)
(* extent node is lost and none is in two places; what a client holds is   *)
(* mapped and keeps its contents; and nothing that is mapped is forgotten. *)
(*                                                                         *)
(* The first needs to know which thread has a node in hand.  The others    *)
(* need to know whose every mapped page is: the base chunks', an extent's  *)
(* of the tree, or a thread's that has not used or given it back yet; and  *)
(* that each node of the tree is known to one object or call.              *)
(***************************************************************************)
EXTENDS Huge, FiniteSetTheorems, FunctionTheorems, SequenceTheorems, TLAPS

Addresses == Nat \cup {Null}

Allocating == {"node", "base", "chunk", "extend", "slow", "based", "align", "insert"}
Ops == Allocating \cup {"idle", "trim", "untrack", "free_node", "moved", "give"}
Thens == {"based", "align", "insert", "free_node"}
Jobs ==
  [op : Ops, then : Thens, all : Nat, need : Nat, align : Nat, retry : BOOLEAN,
   at : Nat, lead : Nat, to : Nat, tail : Nat]
Clients ==
  [what : {"none", "malloc", "dalloc", "ralloc"}, id : Addresses, from : Addresses, oldsize : Nat,
   size : Nat, extra : Nat, alignment : Nat, misaligned : BOOLEAN, moving : BOOLEAN,
   unmap : BOOLEAN, kept : Nat]
Gets == [node : Addresses, addr : Addresses]
Extents == [node : Nat, addr : Nat, size : Nat]

(* What the pages hold is left out. *)
TypeOK ==
  /\ tree \in SUBSET Extents
  /\ base_nodes \in Seq(Nat)
  /\ base \in [cut : Nat, chunks : SUBSET Nat, nodes : Nat]
  /\ base_mtx \in Threads \cup {Null}
  /\ unaligned \in [Threads -> BOOLEAN]
  /\ got \in [Threads -> Gets]
  /\ job \in [Threads -> Jobs]
  /\ call \in [Threads -> Clients]
  /\ objects \in [DOMAIN objects -> [addr : Nat, size : Nat]] /\ DOMAIN objects \subseteq Ids
  /\ uses \in Programs

(* A thread has a node in hand from where it gets it to where it gives it  *)
(* away; but base_node_alloc may have had none.                            *)
Hand(j, g) ==
  /\ j.op \in {"idle", "node", "base", "based", "untrack", "moved", "give"} => g.node = Null
  /\ j.op \in {"chunk", "extend", "slow", "trim"} => (g.node = Null <=> j.then = "based")
  /\ j.op \in {"align", "free_node"} => g.node # Null
  /\ j.op \in {"idle", "node", "base", "chunk", "extend", "slow"} => g.addr = Null
  /\ j.op = "align" \/ (j.op = "trim" /\ j.then # "free_node") => g.addr # Null
  /\ j.op = "insert" /\ g.node = Null => g.addr = Null
  /\ j.then = "align" => j.align # 0
  /\ j.op \in {"node", "base"} => j.then \in {"align", "insert"}
  /\ j.op \in Allocating => j.then # "free_node"
  /\ j.op \in {"based", "align", "insert"} => j.then = j.op

-----------------------------------------------------------------------------
(* Numbers.                                                                *)

LEMMA Constants ==
  /\ ChunkPages \in Nat /\ ChunkPages > 0 /\ SizeMod \in Nat /\ SizeMod > 2 * NPages
  /\ NPages \in Nat /\ NPages >= ChunkPages /\ BaseNodes \in Nat /\ BaseNodes > 0
  /\ Null \notin Nat /\ Ids \subseteq Nat
BY HugeAssumption

LEMMA Modulo ==
  ASSUME NEW n \in Nat, NEW m \in Nat, m > 0
  PROVE  n % m \in Nat /\ n % m < m /\ n \div m \in Nat /\ n = m * (n \div m) + (n % m)
OBVIOUS

LEMMA ModuloInt ==
  ASSUME NEW n \in Int
  PROVE  n % SizeMod \in Nat
<1>1. SizeMod \in Nat /\ SizeMod > 0
  BY Constants
<1> QED  BY <1>1

LEMMA ModuloSmall ==
  ASSUME NEW n \in Nat, NEW m \in Nat, n < m
  PROVE  n % m = n
OBVIOUS

LEMMA CeilingTyped ==
  ASSUME NEW n \in Nat
  PROVE  CHUNK_CEILING(n) \in Nat
<1>1. PICK k \in Int : k = (n + ChunkPages - 1) \div ChunkPages
  BY Constants
<1>2. k * ChunkPages \in Int
  BY Constants
<1> QED  BY <1>1, <1>2, ModuloInt DEF CHUNK_CEILING

Multiple(y, c) == \E k \in Nat : y = c * k

LEMMA IsMultiple ==
  ASSUME NEW y \in Nat, NEW c \in Nat, c > 0, y % c = 0
  PROVE  Multiple(y, c)
<1>1. PICK k \in Nat : k = y \div c
  BY Modulo
<1>2. y = c * k
  BY <1>1, Modulo
<1> QED  BY <1>2 DEF Multiple

(* CHUNK_CEILING rounds up, or wraps to 0. *)
LEMMA Ceiling ==
  ASSUME NEW n \in Nat, n < SizeMod
  PROVE  /\ CHUNK_CEILING(n) \in Nat /\ CHUNK_CEILING(n) < n + ChunkPages
         /\ n + ChunkPages <= SizeMod \/ CHUNK_CEILING(n) # 0 => CHUNK_CEILING(n) >= n
         /\ Multiple(CHUNK_CEILING(n), ChunkPages)
<1>1. PICK c \in Nat, m \in Nat : c = ChunkPages /\ m = SizeMod /\ c > 0 /\ m > c /\ m % c = 0
  BY Constants, HugeAssumption
<1>s. PICK s \in Nat : m = c * s
  BY <1>1, IsMultiple DEF Multiple
<1>2. PICK k \in Nat : k = (n + c - 1) \div c /\ k * c <= n + c - 1 /\ k * c >= n
  <2>1. PICK x \in Nat : x = n + c - 1
    BY <1>1
  <2>2. PICK k \in Nat, r \in Nat : k = x \div c /\ r = x % c /\ r < c /\ x = c * k + r
    BY <1>1, Modulo
  <2>3. k * c = c * k /\ k * c \in Nat
    OBVIOUS
  <2>4. PICK y \in Nat : y = k * c
    BY <2>3
  <2>5. x = y + r
    BY <2>2, <2>3, <2>4
  <2>6. y <= n + c - 1 /\ y >= n
    BY <1>1, <2>1, <2>2, <2>5
  <2> QED  BY <2>1, <2>2, <2>4, <2>6
<1>3. PICK y \in Nat : y = k * c /\ CHUNK_CEILING(n) = y % m /\ y <= n + c - 1 /\ y >= n
  <2>1. k * c \in Nat
    OBVIOUS
  <2> QED  BY <1>1, <1>2, <2>1 DEF CHUNK_CEILING
<1>4. y <= m
  <2>1. SUFFICES ASSUME k > s PROVE FALSE
    <3>1. k <= s => k * c <= c * s
      OBVIOUS
    <3> QED  BY <1>1, <1>s, <1>3, <2>1, <3>1
  <2>2. k * c >= c * s + c
    BY <2>1
  <2>3. c * s \in Nat
    OBVIOUS
  <2> QED  BY <1>1, <1>s, <1>3, <2>2, <2>3
<1>5. CASE y < m
  <2>1. y % m = y
    BY <1>5, ModuloSmall
  <2>2. Multiple(y, c)
    BY <1>3 DEF Multiple
  <2>3. CHUNK_CEILING(n) = y /\ y < n + c
    BY <1>1, <1>3, <2>1
  <2> QED  BY <1>1, <1>3, <2>2, <2>3
<1>6. CASE y = m
  <2>1. y % m = 0
    BY <1>1, <1>6
  <2>2. Multiple(0, c)
    BY <1>1 DEF Multiple
  <2>3. CHUNK_CEILING(n) = 0 /\ 0 < n + ChunkPages /\ ~(n + ChunkPages <= SizeMod)
    BY <1>1, <1>3, <1>6, <2>1
  <2> QED  BY <1>1, <2>2, <2>3
<1> QED  BY <1>4, <1>5, <1>6

LEMMA Multiples ==
  ASSUME NEW c \in Nat, NEW x \in Nat, NEW y \in Nat, c > 0, Multiple(x, c), Multiple(y, c), y < x + c
  PROVE  y <= x
<1>1. PICK i \in Nat : x = c * i
  BY DEF Multiple
<1>2. PICK k \in Nat : y = c * k
  BY DEF Multiple
<1>3. SUFFICES ASSUME k > i PROVE FALSE
  <2>1. k <= i => c * k <= c * i
    OBVIOUS
  <2> QED  BY <1>1, <1>2, <2>1
<1>4. c * k >= c * i + c
  BY <1>3
<1> QED  BY <1>1, <1>2, <1>4

LEMMA AllocTyped ==
  ASSUME NEW n \in Nat, NEW a \in Nat
  PROVE  AllocSize(n, a) \in Nat
<1>1. CHUNK_CEILING(n) + a - ChunkPages \in Int /\ 2 * a - ChunkPages \in Int
  BY CeilingTyped, Constants
<1> QED  BY <1>1, ModuloInt DEF AllocSize

(* A mapping of AllocSize has room for an aligned object wherever it is.   *)
LEMMA AllocRoom ==
  ASSUME NEW n \in Nat, NEW a \in Alignments, a >= ChunkPages, a % ChunkPages = 0, n > 0, ~TooLarge(n, a)
  PROVE  /\ AllocSize(n, a) < SizeMod /\ AllocSize(n, a) >= CHUNK_CEILING(n) + a - ChunkPages
         /\ CHUNK_CEILING(n) >= n
<1>1. PICK c \in Nat, m \in Nat, y \in Nat : c = ChunkPages /\ m = SizeMod /\ c > 0 /\ y = CHUNK_CEILING(n)
  BY Constants, CeilingTyped
<1>2. a \in Nat /\ 2 * a <= m /\ n + a < m /\ a >= c
  <2>1. a \in 1 .. SizeMod \div 2
    BY <1>1 DEF Alignments
  <2>2. m \div 2 \in Nat /\ 2 * (m \div 2) <= m
    OBVIOUS
  <2> QED  BY <1>1, <2>1, <2>2 DEF TooLarge
<1>3. y >= n /\ y < n + c
  BY <1>1, <1>2, Ceiling
<1>4. CASE n >= a
  <2>1. y + a - c \in Nat /\ y + a - c < m
    BY <1>1, <1>2, <1>3
  <2>2. AllocSize(n, a) = y + a - c
    BY <1>1, <1>4, <2>1, ModuloSmall DEF AllocSize
  <2> QED  BY <1>1, <1>3, <2>1, <2>2
<1>5. CASE n < a
  <2>1. 2 * a - c \in Nat /\ 2 * a - c < m
    BY <1>1, <1>2
  <2>2. AllocSize(n, a) = 2 * a - c
    BY <1>1, <1>2, <1>5, <2>1, ModuloSmall DEF AllocSize
  <2>3. y <= a
    <3>1. Multiple(y, c) /\ Multiple(a, c)
      BY <1>1, <1>2, Ceiling, IsMultiple
    <3> QED  BY <1>1, <1>2, <1>3, <1>5, <3>1, Multiples
  <2>4. y + a - c <= 2 * a - c
    BY <1>1, <1>2, <2>3
  <2> QED  BY <1>1, <1>3, <2>1, <2>2, <2>4
<1> QED  BY <1>2, <1>4, <1>5

-----------------------------------------------------------------------------
(* Jobs, calls and what was got, as records.                               *)

(* k is j but for where it is and what it gives back.                      *)
Becomes(k, j, op, then, at, lead, to, tail) ==
  /\ k \in Jobs /\ k.op = op /\ k.then = then
  /\ k.all = j.all /\ k.need = j.need /\ k.align = j.align
  /\ k.at = at /\ k.lead = lead /\ k.to = to /\ k.tail = tail

LEMMA JobFields ==
  ASSUME NEW j \in Jobs
  PROVE  /\ j.op \in Ops /\ j.then \in Thens /\ j.all \in Nat /\ j.need \in Nat /\ j.align \in Nat
         /\ j.at \in Nat /\ j.lead \in Nat /\ j.to \in Nat /\ j.tail \in Nat /\ j.retry \in BOOLEAN
BY DEF Jobs

LEMMA JobOp ==
  ASSUME NEW j \in Jobs, NEW op \in Ops
  PROVE  Becomes([j EXCEPT !.op = op], j, op, j.then, j.at, j.lead, j.to, j.tail)
BY DEF Jobs, Becomes

LEMMA JobThen ==
  ASSUME NEW j \in Jobs, NEW op \in Ops, NEW then \in Thens
  PROVE  Becomes([j EXCEPT !.op = op, !.then = then], j, op, then, j.at, j.lead, j.to, j.tail)
BY DEF Jobs, Becomes

LEMMA JobFails ==
  ASSUME NEW j \in Jobs, NEW op \in Ops, NEW then \in Thens
  PROVE  Becomes([j EXCEPT !.op = op, !.then = then, !.retry = FALSE],
                 j, op, then, j.at, j.lead, j.to, j.tail)
BY DEF Jobs, Becomes

LEMMA JobExtends ==
  ASSUME NEW j \in Jobs, NEW op \in Ops, NEW at \in Nat, NEW lead \in Nat
  PROVE  Becomes([j EXCEPT !.op = op, !.at = at, !.lead = lead],
                 j, op, j.then, at, lead, j.to, j.tail)
BY DEF Jobs, Becomes

LEMMA JobSlows ==
  ASSUME NEW j \in Jobs, NEW op \in Ops
  PROVE  Becomes([j EXCEPT !.op = op, !.retry = TRUE, !.at = 0, !.lead = 0],
                 j, op, j.then, 0, 0, j.to, j.tail)
BY DEF Jobs, Becomes

LEMMA JobTrims ==
  ASSUME NEW j \in Jobs, NEW at \in Nat, NEW lead \in Nat, NEW to \in Nat, NEW tail \in Nat,
         NEW then \in Thens
  PROVE  Becomes(Trims(j, at, lead, to, tail, then), j,
                 IF lead = 0 /\ tail = 0 THEN then ELSE "trim", then, at, lead, to, tail)
<1>1. PICK op \in Ops : op = IF lead = 0 /\ tail = 0 THEN then ELSE "trim"
  BY DEF Ops, Allocating, Thens
<1>2. Becomes([j EXCEPT !.op = op, !.then = then, !.retry = FALSE, !.at = at, !.lead = lead,
                        !.to = to, !.tail = tail], j, op, then, at, lead, to, tail)
  BY DEF Jobs, Becomes
<1> QED  BY <1>1, <1>2 DEF Trims

(* k is a new job that has nothing mapped. *)
Fresh(k, op) == k \in Jobs /\ k.op = op /\ k.then = "insert" /\ k.lead = 0 /\ k.tail = 0

LEMMA JobAt ==
  ASSUME NEW op \in Ops
  PROVE  Fresh(At(op), op)
BY DEF Fresh, At, Jobs, Thens

(* An allocation begins: of need pages, in all pages at a multiple of      *)
(* align; or it is over, without a result, at failed.                      *)
Plan(k, all, need, align) ==
  /\ k \in Jobs /\ k.op = "node" /\ k.then = IF align = 0 THEN "insert" ELSE "align"
  /\ k.all = all /\ k.need = need /\ k.align = align /\ k.lead = 0 /\ k.tail = 0

LEMMA PlanMalloc ==
  ASSUME NEW n \in Nat, NEW failed \in {"give", "moved"}
  PROVE  IF CHUNK_CEILING(n) = 0 THEN Fresh(huge_malloc(n, failed), failed)
         ELSE Plan(huge_malloc(n, failed), CHUNK_CEILING(n), CHUNK_CEILING(n), 0)
<1>1. PICK c \in Nat : c = CHUNK_CEILING(n)
  BY CeilingTyped
<1>2. failed \in Ops
  BY DEF Ops
<1>3. Plan([At("node") EXCEPT !.all = c, !.need = c], c, c, 0)
  BY DEF Plan, At, Jobs, Thens, Ops, Allocating
<1> QED  BY <1>1, <1>2, <1>3, JobAt DEF huge_malloc

LEMMA PlanPalloc ==
  ASSUME NEW n \in Nat, NEW a \in Nat, a # 0
  PROVE  Plan(huge_palloc(n, a), AllocSize(n, a), CHUNK_CEILING(n), a)
<1>1. PICK c \in Nat, m \in Nat : c = CHUNK_CEILING(n) /\ m = AllocSize(n, a)
  BY CeilingTyped, AllocTyped
<1>2. Plan([At("node") EXCEPT !.then = "align", !.all = m, !.need = c, !.align = a], m, c, a)
  BY DEF Plan, At, Jobs, Thens, Ops, Allocating
<1> QED  BY <1>1, <1>2 DEF huge_palloc

(* The call of a thread, what it is about, and whether an old object waits *)
(* to be moved.                                                            *)
LEMMA CallFields ==
  ASSUME NEW c \in Clients
  PROVE  /\ c.what \in {"none", "malloc", "dalloc", "ralloc"} /\ c.id \in Addresses
         /\ c.from \in Addresses /\ c.oldsize \in Nat /\ c.size \in Nat /\ c.extra \in Nat
         /\ c.alignment \in Nat /\ c.misaligned \in BOOLEAN /\ c.moving \in BOOLEAN
         /\ c.unmap \in BOOLEAN /\ c.kept \in Nat
BY DEF Clients

Same(t, what) == what' = [what EXCEPT ![t] = what[t]]

GetIs(h, n, p) == h \in Gets /\ h.node = n /\ h.addr = p

LEMMA GetAddr ==
  ASSUME NEW g \in Gets, NEW p \in Addresses
  PROVE  GetIs([g EXCEPT !.addr = p], g.node, p)
BY DEF Gets, GetIs

LEMMA GetNode ==
  ASSUME NEW g \in Gets, NEW n \in Addresses
  PROVE  GetIs([g EXCEPT !.node = n], n, g.addr)
BY DEF Gets, GetIs

(* What thread t does in a step. *)
Goes(t, k, h, c) ==
  /\ k \in Jobs /\ h \in Gets /\ c \in Clients
  /\ job' = [job EXCEPT ![t] = k] /\ got' = [got EXCEPT ![t] = h] /\ call' = [call EXCEPT ![t] = c]

LEMMA Here ==
  ASSUME TypeOK, NEW t \in Threads
  PROVE  /\ job[t] \in Jobs /\ got[t] \in Gets /\ call[t] \in Clients
         /\ Same(t, job) <=> job' = job
         /\ Same(t, got) <=> got' = got
         /\ Same(t, call) <=> call' = call
BY DEF TypeOK, Same

-----------------------------------------------------------------------------
(* The outcomes of the steps that map and unmap: from the pages P, the job *)
(* j and what was got, g, to Q, k and h.                                   *)

Free(P, p, n) == n > 0 /\ p \in Nat /\ p + n <= NPages /\ Span(p, n) \cap DOMAIN P = {}
FailOp(j) == IF j.then = "based" THEN "based" ELSE "insert"

MapFails(P, Q, j, g, k, h) ==
  /\ j.op \in {"chunk", "slow"} /\ Q = P /\ GetIs(h, g.node, Null)
  /\ Becomes(k, j, FailOp(j), FailOp(j), j.at, j.lead, j.to, j.tail)

MapsAligned(P, Q, j, g, k, h) ==
  /\ j.op = "chunk" /\ GetIs(h, g.node, h.addr) /\ h.addr \in Nat /\ h.addr % ChunkPages = 0
  /\ Free(P, h.addr, Amount(j)) /\ Q = Over(Mapped(h.addr, Amount(j)), P)
  /\ Becomes(k, j, j.then, j.then, j.at, j.lead, j.to, j.tail)

MapsUnaligned(P, Q, j, g, k, h) ==
  /\ j.op = "chunk" /\ h = g
  /\ Free(P, k.at, Amount(j)) /\ Q = Over(Mapped(k.at, Amount(j)), P)
  /\ Becomes(k, j, "extend", j.then, k.at, Amount(j), j.to, j.tail)

Extends(P, Q, j, g, k, h) ==
  /\ j.op = "extend" /\ GetIs(h, g.node, j.at + k.lead) /\ (j.at + k.lead) % ChunkPages = 0
  /\ Free(P, j.at + j.lead, k.lead) /\ Q = Over(Mapped(j.at + j.lead, k.lead), P)
  /\ Becomes(k, j, "trim", j.then, j.at, k.lead, 0, 0)

ExtendFails(P, Q, j, g, k, h) ==
  /\ j.op = "extend" /\ h = g /\ Q = Unmapped(P, j.at, j.lead)
  /\ Becomes(k, j, "slow", j.then, 0, 0, j.to, j.tail)

TrimsHead(P, Q, j, g, k, h) ==
  /\ j.op = "trim" /\ h = g /\ Q = Unmapped(P, j.at, j.lead)
  /\ Becomes(k, j, IF j.tail = 0 THEN j.then ELSE "trim", j.then, 0, 0, j.to, j.tail)

TrimsTail(P, Q, j, g, k, h) ==
  /\ j.op = "trim" /\ j.lead = 0 /\ h = g /\ Q = Unmapped(P, j.to, j.tail)
  /\ Becomes(k, j, j.then, j.then, 0, 0, 0, 0)

StartsSlow(P, Q, j, g, k, h) ==
  /\ j.op = "chunk" /\ h = g /\ Q = P
  /\ Becomes(k, j, "slow", j.then, j.at, j.lead, j.to, j.tail)

MapsSlow(P, Q, j, g, k, h) ==
  /\ j.op = "slow" /\ GetIs(h, g.node, k.at + k.lead) /\ (k.at + k.lead) % ChunkPages = 0
  /\ k.lead + k.tail = ChunkPages /\ k.tail > 0
  /\ Free(P, k.at, Amount(j) + ChunkPages) /\ Q = Over(Mapped(k.at, Amount(j) + ChunkPages), P)
  /\ Becomes(k, j, "trim", j.then, k.at, k.lead, h.addr + Amount(j), k.tail)

Maps(P, Q, j, g, k, h) ==
  \/ MapFails(P, Q, j, g, k, h) \/ MapsAligned(P, Q, j, g, k, h) \/ MapsUnaligned(P, Q, j, g, k, h)
  \/ Extends(P, Q, j, g, k, h) \/ ExtendFails(P, Q, j, g, k, h)
  \/ TrimsHead(P, Q, j, g, k, h) \/ TrimsTail(P, Q, j, g, k, h)
  \/ StartsSlow(P, Q, j, g, k, h) \/ MapsSlow(P, Q, j, g, k, h)

LEMMA AmountTyped ==
  ASSUME NEW j \in Jobs
  PROVE  Amount(j) \in Nat
BY Constants, JobFields DEF Amount

LEMMA RoomsFree ==
  ASSUME NEW n \in Nat, NEW p \in Rooms(n)
  PROVE  p \in Nat /\ Free(pages, p, n)
BY DEF Rooms, Pages, Free

LEMMA RoundUp ==
  ASSUME NEW p \in Nat
  PROVE  /\ CHUNK_ADDR2OFFSET(p) \in Nat /\ CHUNK_ADDR2OFFSET(p) < ChunkPages
         /\ CHUNK_ADDR2OFFSET(p) = 0 => p % ChunkPages = 0
         /\ (p + (ChunkPages - CHUNK_ADDR2OFFSET(p))) % ChunkPages = 0
<1>1. PICK c \in Nat, r \in Nat : c = ChunkPages /\ c > 0 /\ r = p % c /\ r < c
  BY Constants, Modulo
<1>2. PICK k \in Nat : k = p \div c /\ p = c * k + r
  BY <1>1, Modulo
<1>3. PICK x \in Nat, y \in Nat : x = p + (c - r) /\ y = k + 1
  BY <1>1
<1>4. x = c * y
  BY <1>1, <1>2, <1>3
<1>5. x % c = 0
  BY <1>1, <1>4
<1>6. (p + (c - r)) % c = 0
  BY <1>3, <1>5
<1> QED  BY <1>1, <1>6 DEF CHUNK_ADDR2OFFSET

(* A step of thread t is one of mapping. *)
MapStep(t, k, h) ==
  /\ Goes(t, k, h, call[t]) /\ Maps(pages, pages', job[t], got[t], k, h)
  /\ UNCHANGED <<tree, base_nodes, base, base_mtx, call, objects, uses>>
  /\ unaligned' \in [Threads -> BOOLEAN]

LEMMA FailsForm ==
  ASSUME TypeOK, NEW t \in Threads, Fails(t), job[t].op \in {"chunk", "slow"}, pages' = pages
  PROVE  \E k \in Jobs, h \in Gets : /\ job' = [job EXCEPT ![t] = k] /\ got' = [got EXCEPT ![t] = h]
                                     /\ MapFails(pages, pages', job[t], got[t], k, h)
<1>1. PICK j \in Jobs, g \in Gets : j = job[t] /\ g = got[t]
  BY Here
<1>2. PICK op \in Ops \cap Thens : op = FailOp(j)
  BY DEF FailOp, Ops, Allocating, Thens
<1>3. PICK k : k = [j EXCEPT !.op = op, !.then = op, !.retry = FALSE]
  OBVIOUS
<1>4. PICK h : h = [g EXCEPT !.addr = Null]
  OBVIOUS
<1>5. job' = [job EXCEPT ![t] = k]
  BY <1>1, <1>2, <1>3 DEF Fails, Does, FailOp
<1>6. got' = [got EXCEPT ![t] = h]
  BY <1>1, <1>4 DEF Fails, Got, TypeOK
<1>7. GetIs(h, g.node, Null)
  BY <1>1, <1>4, GetAddr DEF Addresses
<1>8. Becomes(k, j, FailOp(j), FailOp(j), j.at, j.lead, j.to, j.tail)
  BY <1>1, <1>2, <1>3, JobFails
<1>9. k \in Jobs /\ h \in Gets /\ MapFails(pages, pages', j, g, k, h)
  BY <1>1, <1>7, <1>8 DEF MapFails, Becomes, GetIs
<1> QED  BY <1>1, <1>5, <1>6, <1>9

LEMMA MapFastForm ==
  ASSUME TypeOK, NEW t \in Threads, MapFast(t)
  PROVE  \E k \in Jobs, h \in Gets : MapStep(t, k, h)
<1>1. PICK j \in Jobs, g \in Gets, n \in Nat : j = job[t] /\ g = got[t] /\ n = Amount(j)
  BY Here, AmountTyped
<1>2. /\ j.op = "chunk" /\ UNCHANGED <<tree, base_nodes, base, base_mtx, call, objects, uses>>
      /\ call[t] \in Clients /\ Same(t, call)
  BY <1>1, Here DEF MapFast, Task
<1>3. CASE Rooms(n) = {} /\ Fails(t) /\ UNCHANGED <<pages, unaligned>>
  <2>1. PICK k \in Jobs, h \in Gets : /\ job' = [job EXCEPT ![t] = k] /\ got' = [got EXCEPT ![t] = h]
                                      /\ MapFails(pages, pages', j, g, k, h)
    BY <1>1, <1>2, <1>3, FailsForm
  <2>2. unaligned' \in [Threads -> BOOLEAN]
    BY <1>3 DEF TypeOK
  <2> QED  BY <1>1, <1>2, <2>1, <2>2 DEF MapStep, Goes, Maps, Same
<1>4. CASE \E p \in Rooms(n) :
             /\ pages' = Over(Mapped(p, n), pages)
             /\ IF CHUNK_ADDR2OFFSET(p) = 0
                THEN Does(t, [j EXCEPT !.op = j.then]) /\ Got(t, p) /\ UNCHANGED unaligned
                ELSE /\ unaligned' = [unaligned EXCEPT ![t] = TRUE]
                     /\ Does(t, [j EXCEPT !.op = "extend", !.at = p, !.lead = n])
                     /\ UNCHANGED got
  <2>1. PICK p \in Rooms(n) :
             /\ pages' = Over(Mapped(p, n), pages)
             /\ IF CHUNK_ADDR2OFFSET(p) = 0
                THEN Does(t, [j EXCEPT !.op = j.then]) /\ Got(t, p) /\ UNCHANGED unaligned
                ELSE /\ unaligned' = [unaligned EXCEPT ![t] = TRUE]
                     /\ Does(t, [j EXCEPT !.op = "extend", !.at = p, !.lead = n])
                     /\ UNCHANGED got
    BY <1>4
  <2>2. p \in Nat /\ Free(pages, p, n)
    BY RoomsFree
  <2>3. CASE CHUNK_ADDR2OFFSET(p) = 0
    <3>1. PICK k : k = [j EXCEPT !.op = j.then]
      OBVIOUS
    <3>2. PICK h : h = [g EXCEPT !.addr = p]
      OBVIOUS
    <3>3. Becomes(k, j, j.then, j.then, j.at, j.lead, j.to, j.tail)
      <4>1. j.then \in Ops
        BY JobFields DEF Ops, Allocating, Thens
      <4> QED  BY <3>1, <4>1, JobOp
    <3>4. GetIs(h, g.node, p)
      BY <2>2, <3>2, GetAddr DEF Addresses
    <3>5. job' = [job EXCEPT ![t] = k] /\ got' = [got EXCEPT ![t] = h]
      BY <1>1, <2>1, <2>3, <3>1, <3>2 DEF Does, Got, TypeOK
    <3>6. p % ChunkPages = 0
      BY <2>2, <2>3, RoundUp
    <3>7. h.addr = p
      BY <3>4 DEF GetIs
    <3>8. MapsAligned(pages, pages', j, g, k, h)
      BY <1>1, <1>2, <2>1, <2>2, <3>3, <3>4, <3>6, <3>7 DEF MapsAligned
    <3>9. k \in Jobs /\ h \in Gets /\ unaligned' \in [Threads -> BOOLEAN]
      BY <2>1, <2>3, <3>3, <3>4 DEF Becomes, GetIs, TypeOK
    <3> QED  BY <1>1, <1>2, <3>5, <3>8, <3>9 DEF MapStep, Goes, Maps, Same
  <2>4. CASE CHUNK_ADDR2OFFSET(p) # 0
    <3>1. PICK k : k = [j EXCEPT !.op = "extend", !.at = p, !.lead = n]
      OBVIOUS
    <3>2. Becomes(k, j, "extend", j.then, p, n, j.to, j.tail)
      BY <1>1, <2>2, <3>1, JobExtends DEF Ops, Allocating
    <3>3. job' = [job EXCEPT ![t] = k] /\ Same(t, got)
      BY <1>1, <2>1, <2>4, <3>1, Here DEF Does
    <3>4. k.at = p
      BY <3>2 DEF Becomes
    <3>5. MapsUnaligned(pages, pages', j, g, k, g)
      BY <1>1, <1>2, <2>1, <2>2, <3>2, <3>4 DEF MapsUnaligned
    <3>6. k \in Jobs /\ unaligned' \in [Threads -> BOOLEAN]
      BY <2>1, <2>4, <3>2 DEF Becomes, TypeOK
    <3> QED  BY <1>1, <1>2, <3>3, <3>5, <3>6 DEF MapStep, Goes, Maps, Same
  <2> QED  BY <2>3, <2>4
<1>5. \/ /\ Rooms(n) = {} /\ Fails(t) /\ UNCHANGED <<pages, unaligned>>
      \/ \E p \in Rooms(n) :
             /\ pages' = Over(Mapped(p, n), pages)
             /\ IF CHUNK_ADDR2OFFSET(p) = 0
                THEN Does(t, [j EXCEPT !.op = j.then]) /\ Got(t, p) /\ UNCHANGED unaligned
                ELSE /\ unaligned' = [unaligned EXCEPT ![t] = TRUE]
                     /\ Does(t, [j EXCEPT !.op = "extend", !.at = p, !.lead = n])
                     /\ UNCHANGED got
  BY <1>1 DEF MapFast
<1> QED  BY <1>3, <1>4, <1>5

LEMMA ExtendForm ==
  ASSUME TypeOK, NEW t \in Threads, Extend(t)
  PROVE  \E k \in Jobs, h \in Gets : MapStep(t, k, h)
<1>1. PICK j \in Jobs, g \in Gets : j = job[t] /\ g = got[t]
  BY Here
<1>2. PICK p \in Nat, n \in Nat, more \in Nat :
        /\ p = j.at /\ n = j.lead /\ more = ChunkPages - CHUNK_ADDR2OFFSET(p) /\ more > 0
        /\ (p + more) % ChunkPages = 0
  <2>1. PICK p \in Nat, n \in Nat : p = j.at /\ n = j.lead
    BY JobFields
  <2>2. PICK c \in Nat, o \in Nat : c = ChunkPages /\ o = CHUNK_ADDR2OFFSET(p) /\ o < c
    BY Constants, RoundUp
  <2>3. PICK more \in Nat : more = c - o /\ more > 0
    BY <2>2
  <2> QED  BY <2>1, <2>2, <2>3, RoundUp
<1>3. /\ j.op = "extend" /\ UNCHANGED <<tree, base_nodes, base, base_mtx, unaligned, call, objects, uses>>
      /\ call[t] \in Clients /\ Same(t, call) /\ unaligned' \in [Threads -> BOOLEAN]
  <2>1. j.op = "extend" /\ UNCHANGED <<tree, base_nodes, base, base_mtx, unaligned, call, objects, uses>>
    BY <1>1 DEF Extend, Task
  <2> QED  BY <1>1, <2>1, Here DEF TypeOK
<1>4. \/ /\ Room(p + n, more)
         /\ pages' = Over(Mapped(p + n, more), pages)
         /\ Does(t, Trims(j, p, more, 0, 0, j.then))
         /\ Got(t, p + more)
      \/ /\ pages' = Unmapped(pages, p, n)
         /\ Does(t, [j EXCEPT !.op = "slow", !.retry = TRUE, !.at = 0, !.lead = 0])
         /\ UNCHANGED got
  BY <1>1, <1>2 DEF Extend
<1>5. CASE /\ Room(p + n, more)
           /\ pages' = Over(Mapped(p + n, more), pages)
           /\ Does(t, Trims(j, p, more, 0, 0, j.then))
           /\ Got(t, p + more)
  <2>1. PICK k : k = Trims(j, p, more, 0, 0, j.then)
    OBVIOUS
  <2>2. PICK h : h = [g EXCEPT !.addr = p + more]
    OBVIOUS
  <2>3. Becomes(k, j, "trim", j.then, p, more, 0, 0)
    BY <1>2, <2>1, JobTrims, JobFields
  <2>4. GetIs(h, g.node, p + more)
    <3>1. p + more \in Addresses
      BY DEF Addresses
    <3> QED  BY <2>2, <3>1, GetAddr
  <2>5. job' = [job EXCEPT ![t] = k] /\ got' = [got EXCEPT ![t] = h]
    BY <1>1, <1>5, <2>1, <2>2 DEF Does, Got, TypeOK
  <2>6. Free(pages, p + n, more)
    BY <1>5, RoomsFree DEF Room
  <2>7. k.lead = more
    BY <2>3 DEF Becomes
  <2>8. Extends(pages, pages', j, g, k, h)
    BY <1>2, <1>3, <1>5, <2>3, <2>4, <2>6, <2>7 DEF Extends
  <2>9. k \in Jobs /\ h \in Gets
    BY <2>3, <2>4 DEF Becomes, GetIs
  <2> QED  BY <1>1, <1>3, <2>5, <2>8, <2>9 DEF MapStep, Goes, Maps, Same
<1>6. CASE /\ pages' = Unmapped(pages, p, n)
           /\ Does(t, [j EXCEPT !.op = "slow", !.retry = TRUE, !.at = 0, !.lead = 0])
           /\ UNCHANGED got
  <2>1. PICK k : k = [j EXCEPT !.op = "slow", !.retry = TRUE, !.at = 0, !.lead = 0]
    OBVIOUS
  <2>2. Becomes(k, j, "slow", j.then, 0, 0, j.to, j.tail)
    BY <2>1, JobSlows DEF Ops, Allocating
  <2>3. job' = [job EXCEPT ![t] = k] /\ Same(t, got)
    BY <1>1, <1>6, <2>1, Here DEF Does
  <2>4. ExtendFails(pages, pages', j, g, k, g) /\ k \in Jobs
    BY <1>2, <1>3, <1>6, <2>2 DEF ExtendFails, Becomes
  <2> QED  BY <1>1, <1>3, <2>3, <2>4 DEF MapStep, Goes, Maps, Same
<1> QED  BY <1>4, <1>5, <1>6

LEMMA TrimForm ==
  ASSUME TypeOK, NEW t \in Threads, TrimHead(t) \/ TrimTail(t) \/ StartSlow(t)
  PROVE  \E k \in Jobs, h \in Gets : MapStep(t, k, h)
<1>1. PICK j \in Jobs, g \in Gets : j = job[t] /\ g = got[t]
  BY Here
<1>2. /\ UNCHANGED <<tree, base_nodes, base, base_mtx, unaligned, call, objects, uses>>
      /\ call[t] \in Clients /\ Same(t, call) /\ Same(t, got) /\ unaligned' \in [Threads -> BOOLEAN]
  <2>1. UNCHANGED <<tree, base_nodes, base, base_mtx, unaligned, got, call, objects, uses>>
    BY DEF TrimHead, TrimTail, StartSlow
  <2> QED  BY <1>1, <2>1, Here DEF TypeOK
<1>3. CASE TrimHead(t)
  <2>1. PICK k : k = Trims(j, 0, 0, j.to, j.tail, j.then)
    OBVIOUS
  <2>2. Becomes(k, j, IF j.tail = 0 THEN j.then ELSE "trim", j.then, 0, 0, j.to, j.tail)
    BY <2>1, JobTrims, JobFields
  <2>3. job' = [job EXCEPT ![t] = k]
    BY <1>1, <1>3, <2>1 DEF Does, TrimHead
  <2>4. TrimsHead(pages, pages', j, g, k, g) /\ k \in Jobs
    BY <1>1, <1>3, <2>2 DEF TrimsHead, TrimHead, Task, Becomes
  <2> QED  BY <1>1, <1>2, <2>3, <2>4 DEF MapStep, Goes, Maps, Same
<1>4. CASE TrimTail(t)
  <2>1. PICK k : k = Trims(j, 0, 0, 0, 0, j.then)
    OBVIOUS
  <2>2. Becomes(k, j, j.then, j.then, 0, 0, 0, 0)
    BY <2>1, JobTrims, JobFields
  <2>3. job' = [job EXCEPT ![t] = k]
    BY <1>1, <1>4, <2>1 DEF Does, TrimTail
  <2>4. TrimsTail(pages, pages', j, g, k, g) /\ k \in Jobs
    BY <1>1, <1>4, <2>2 DEF TrimsTail, TrimTail, Task, Becomes
  <2> QED  BY <1>1, <1>2, <2>3, <2>4 DEF MapStep, Goes, Maps, Same
<1>5. CASE StartSlow(t)
  <2>1. PICK k : k = [j EXCEPT !.op = "slow"]
    OBVIOUS
  <2>2. Becomes(k, j, "slow", j.then, j.at, j.lead, j.to, j.tail)
    BY <2>1, JobOp DEF Ops, Allocating
  <2>3. job' = [job EXCEPT ![t] = k]
    BY <1>1, <1>5, <2>1 DEF Does, StartSlow
  <2>4. StartsSlow(pages, pages', j, g, k, g) /\ k \in Jobs
    BY <1>1, <1>5, <2>2 DEF StartsSlow, StartSlow, Task, Becomes
  <2> QED  BY <1>1, <1>2, <2>3, <2>4 DEF MapStep, Goes, Maps, Same
<1> QED  BY <1>3, <1>4, <1>5

LEMMA MapSlowForm ==
  ASSUME TypeOK, NEW t \in Threads, MapSlow(t)
  PROVE  \E k \in Jobs, h \in Gets : MapStep(t, k, h)
<1>1. PICK j \in Jobs, g \in Gets, n \in Nat : j = job[t] /\ g = got[t] /\ n = Amount(j)
  BY Here, AmountTyped
<1>2. /\ j.op = "slow" /\ UNCHANGED <<tree, base_nodes, base, base_mtx, call, objects, uses>>
      /\ call[t] \in Clients /\ Same(t, call)
  BY <1>1, Here DEF MapSlow, Task
<1>3. CASE Fails(t) /\ UNCHANGED <<pages, unaligned>>
  <2>1. PICK k \in Jobs, h \in Gets : /\ job' = [job EXCEPT ![t] = k] /\ got' = [got EXCEPT ![t] = h]
                                      /\ MapFails(pages, pages', j, g, k, h)
    BY <1>1, <1>2, <1>3, FailsForm
  <2>2. unaligned' \in [Threads -> BOOLEAN]
    BY <1>3 DEF TypeOK
  <2> QED  BY <1>1, <1>2, <2>1, <2>2 DEF MapStep, Goes, Maps, Same
<1>4. ASSUME NEW p \in Rooms(n + ChunkPages), NEW lead,
             lead = IF CHUNK_ADDR2OFFSET(p) = 0 THEN 0 ELSE ChunkPages - CHUNK_ADDR2OFFSET(p),
             pages' = Over(Mapped(p, n + ChunkPages), pages),
             Does(t, Trims(j, p, lead, p + lead + n, TailOf(CHUNK_ADDR2OFFSET(p)), j.then)),
             Got(t, p + lead),
             unaligned' = IF CHUNK_ADDR2OFFSET(p) = 0 /\ ~j.retry
                          THEN [unaligned EXCEPT ![t] = FALSE] ELSE unaligned
      PROVE  \E k \in Jobs, h \in Gets : MapStep(t, k, h)
  <2>1. PICK c \in Nat, o \in Nat : c = ChunkPages /\ o = CHUNK_ADDR2OFFSET(p) /\ o < c /\ p \in Nat
    <3>1. n + ChunkPages \in Nat
      BY Constants
    <3>2. p \in Nat
      BY <3>1, RoomsFree
    <3> QED  BY <3>2, Constants, RoundUp
  <2>2. PICK tail \in Nat, ld \in Nat : /\ tail = TailOf(CHUNK_ADDR2OFFSET(p)) /\ ld = lead
                                        /\ ld + tail = c /\ tail > 0 /\ (o = 0 => ld = 0)
                                        /\ (o # 0 => ld = c - o)
    <3>1. CASE o = 0
      BY <1>4, <2>1, <3>1 DEF TailOf
    <3>2. CASE o # 0
      <4>1. c - o \in Nat /\ (c - o) + o = c
        BY <2>1
      <4> QED  BY <1>4, <2>1, <3>2, <4>1 DEF TailOf
    <3> QED  BY <3>1, <3>2
  <2>3. PICK k : k = Trims(j, p, ld, p + ld + n, tail, j.then)
    OBVIOUS
  <2>4. PICK h : h = [g EXCEPT !.addr = p + ld]
    OBVIOUS
  <2>5. p + ld + n \in Nat /\ p + ld \in Nat /\ j.then \in Thens
    BY <2>1, JobFields
  <2>6. Becomes(k, j, "trim", j.then, p, ld, p + ld + n, tail)
    BY <2>1, <2>2, <2>3, <2>5, JobTrims
  <2>7. GetIs(h, g.node, p + ld)
    BY <2>4, <2>5, GetAddr DEF Addresses
  <2>8. job' = [job EXCEPT ![t] = k] /\ got' = [got EXCEPT ![t] = h]
    BY <1>1, <1>4, <2>2, <2>3, <2>4 DEF Does, Got, TypeOK
  <2>9. (p + ld) % ChunkPages = 0
    <3>1. CASE o = 0
      <4>1. p + ld = p
        BY <2>1, <2>2, <3>1
      <4> QED  BY <2>1, <3>1, <4>1, RoundUp
    <3>2. CASE o # 0
      BY <2>1, <2>2, <3>2, RoundUp
    <3> QED  BY <3>1, <3>2
  <2>10. Free(pages, p, n + ChunkPages)
    BY <1>4, Constants, RoomsFree
  <2>11. k.at = p /\ k.lead = ld /\ k.tail = tail /\ k \in Jobs /\ h \in Gets /\ h.addr = p + ld
    BY <2>6, <2>7 DEF Becomes, GetIs
  <2>12. MapsSlow(pages, pages', j, g, k, h)
    BY <1>1, <1>2, <1>4, <2>1, <2>2, <2>6, <2>7, <2>9, <2>10, <2>11 DEF MapsSlow
  <2>13. unaligned' \in [Threads -> BOOLEAN]
    BY <1>4 DEF TypeOK
  <2> QED  BY <1>1, <1>2, <2>8, <2>11, <2>12, <2>13 DEF MapStep, Goes, Maps, Same
<1>5. \/ Fails(t) /\ UNCHANGED <<pages, unaligned>>
      \/ \E p \in Rooms(n + ChunkPages) :
           LET offset == CHUNK_ADDR2OFFSET(p)
               lead == IF offset = 0 THEN 0 ELSE ChunkPages - offset
           IN /\ pages' = Over(Mapped(p, n + ChunkPages), pages)
              /\ Does(t, Trims(j, p, lead, p + lead + n, TailOf(offset), j.then))
              /\ Got(t, p + lead)
              /\ unaligned' = IF offset = 0 /\ ~j.retry
                              THEN [unaligned EXCEPT ![t] = FALSE] ELSE unaligned
  BY <1>1 DEF MapSlow
<1> QED  BY <1>3, <1>4, <1>5


(* Mapping leaves a node in the hand it is in. *)
LEMMA MapsHand ==
  ASSUME NEW P, NEW Q, NEW j \in Jobs, NEW g \in Gets, NEW k \in Jobs, NEW h \in Gets,
         Hand(j, g), Maps(P, Q, j, g, k, h)
  PROVE  Hand(k, h) /\ h.node = g.node
<1>1. /\ j.op \in Ops /\ j.then \in Thens /\ j.at \in Nat /\ j.lead \in Nat /\ k.op \in Ops /\ k.then \in Thens
      /\ k.at \in Nat /\ k.lead \in Nat /\ Null \notin Nat
  BY JobFields, Constants
<1>2. CASE MapFails(P, Q, j, g, k, h)
  BY <1>1, <1>2 DEF MapFails, Hand, Becomes, GetIs, FailOp, Thens, Allocating
<1>3. CASE MapsAligned(P, Q, j, g, k, h)
  BY <1>1, <1>3 DEF MapsAligned, Hand, Becomes, GetIs, Thens, Allocating
<1>4. CASE MapsUnaligned(P, Q, j, g, k, h)
  BY <1>1, <1>4 DEF MapsUnaligned, Hand, Becomes, Thens, Allocating
<1>5. CASE Extends(P, Q, j, g, k, h)
  <2>1. h.addr \in Nat
    BY <1>1, <1>5 DEF Extends, GetIs
  <2> QED  BY <1>1, <1>5, <2>1 DEF Extends, Hand, Becomes, GetIs, Thens, Allocating
<1>6. CASE ExtendFails(P, Q, j, g, k, h)
  BY <1>1, <1>6 DEF ExtendFails, Hand, Becomes, Thens, Allocating
<1>7. CASE TrimsHead(P, Q, j, g, k, h)
  BY <1>1, <1>7 DEF TrimsHead, Hand, Becomes, Thens, Allocating
<1>8. CASE TrimsTail(P, Q, j, g, k, h)
  BY <1>1, <1>8 DEF TrimsTail, Hand, Becomes, Thens, Allocating
<1>9. CASE StartsSlow(P, Q, j, g, k, h)
  BY <1>1, <1>9 DEF StartsSlow, Hand, Becomes, Thens, Allocating
<1>10. CASE MapsSlow(P, Q, j, g, k, h)
  <2>1. h.addr \in Nat
    BY <1>1, <1>10 DEF MapsSlow, GetIs
  <2> QED  BY <1>1, <1>10, <2>1 DEF MapsSlow, Hand, Becomes, GetIs, Thens, Allocating
<1> QED  BY <1>2, <1>3, <1>4, <1>5, <1>6, <1>7, <1>8, <1>9, <1>10 DEF Maps

-----------------------------------------------------------------------------
(* The steps that move a node, an extent or an object, in the same form.   *)

TakesNode(t, k, h) ==
  /\ Goes(t, k, h, call[t]) /\ job[t].op = "node"
  /\ UNCHANGED <<pages, tree, base, base_mtx, unaligned, call, objects, uses>>
  /\ \/ /\ base_nodes # <<>> /\ GetIs(h, base_nodes[1], got[t].addr) /\ base_nodes' = Tail(base_nodes)
        /\ Becomes(k, job[t], "chunk", job[t].then, job[t].at, job[t].lead, job[t].to, job[t].tail)
     \/ /\ h = got[t] /\ UNCHANGED base_nodes
        /\ Becomes(k, job[t], "base", job[t].then, job[t].at, job[t].lead, job[t].to, job[t].tail)

LEMMA TakeNodeForm ==
  ASSUME TypeOK, NEW t \in Threads, TakeNode(t)
  PROVE  \E k \in Jobs, h \in Gets : TakesNode(t, k, h)
<1>1. PICK j \in Jobs, g \in Gets : j = job[t] /\ g = got[t]
  BY Here
<1>2. /\ UNCHANGED <<pages, tree, base, base_mtx, unaligned, call, objects, uses>>
      /\ call[t] \in Clients /\ Same(t, call) /\ j.op = "node" /\ {"chunk", "base"} \subseteq Ops
  BY <1>1, Here DEF TakeNode, Task, Ops, Allocating
<1>3. CASE base_nodes # <<>>
  <2>1. PICK n \in Addresses : n = base_nodes[1]
    BY <1>3 DEF TypeOK, Addresses
  <2>2. PICK k : k = [j EXCEPT !.op = "chunk"]
    OBVIOUS
  <2>3. PICK h : h = [g EXCEPT !.node = n]
    OBVIOUS
  <2>4. Becomes(k, j, "chunk", j.then, j.at, j.lead, j.to, j.tail) /\ GetIs(h, n, g.addr)
    BY <1>2, <2>2, <2>3, JobOp, GetNode
  <2>5. k \in Jobs /\ h \in Gets
    BY <2>4 DEF Becomes, GetIs
  <2>6. job' = [job EXCEPT ![t] = k] /\ got' = [got EXCEPT ![t] = h] /\ base_nodes' = Tail(base_nodes)
    BY <1>1, <1>3, <2>1, <2>2, <2>3 DEF TakeNode, Does, GotNode, TypeOK
  <2> QED  BY <1>1, <1>2, <1>3, <2>1, <2>4, <2>5, <2>6 DEF TakesNode, Goes, Same
<1>4. CASE base_nodes = <<>>
  <2>1. PICK k : k = [j EXCEPT !.op = "base"]
    OBVIOUS
  <2>2. Becomes(k, j, "base", j.then, j.at, j.lead, j.to, j.tail)
    BY <1>2, <2>1, JobOp
  <2>3. k \in Jobs
    BY <2>2 DEF Becomes
  <2>4. job' = [job EXCEPT ![t] = k] /\ UNCHANGED <<got, base_nodes>>
    BY <1>1, <1>4, <2>1 DEF TakeNode, Does
  <2>5. Same(t, got)
    BY <2>4, Here
  <2> QED  BY <1>1, <1>2, <2>2, <2>3, <2>4, <2>5 DEF TakesNode, Goes, Same
<1> QED  BY <1>3, <1>4

CutsNode(t, k, h) ==
  /\ Goes(t, k, h, call[t]) /\ job[t].op = "base"
  /\ UNCHANGED <<pages, tree, base_nodes, unaligned, call, objects, uses>>
  /\ \/ /\ Roomy(base) /\ GetIs(h, base.nodes, got[t].addr) /\ UNCHANGED base_mtx
        /\ base' = [base EXCEPT !.cut = base.cut + 1, !.nodes = base.nodes + 1]
        /\ Becomes(k, job[t], "chunk", job[t].then, job[t].at, job[t].lead, job[t].to, job[t].tail)
     \/ /\ h = got[t] /\ UNCHANGED base /\ base_mtx' = t
        /\ Becomes(k, job[t], "chunk", "based", job[t].at, job[t].lead, job[t].to, job[t].tail)

LEMMA CutNodeForm ==
  ASSUME TypeOK, NEW t \in Threads, CutNode(t)
  PROVE  \E k \in Jobs, h \in Gets : CutsNode(t, k, h)
<1>1. PICK j \in Jobs, g \in Gets : j = job[t] /\ g = got[t]
  BY Here
<1>2. /\ UNCHANGED <<pages, tree, base_nodes, unaligned, call, objects, uses>>
      /\ call[t] \in Clients /\ Same(t, call) /\ j.op = "base" /\ "chunk" \in Ops /\ "based" \in Thens
  BY <1>1, Here DEF CutNode, Task, Ops, Allocating, Thens
<1>3. CASE Roomy(base)
  <2>1. PICK n \in Addresses : n = base.nodes
    BY DEF TypeOK, Addresses
  <2>2. PICK k : k = [j EXCEPT !.op = "chunk"]
    OBVIOUS
  <2>3. PICK h : h = [g EXCEPT !.node = n]
    OBVIOUS
  <2>4. Becomes(k, j, "chunk", j.then, j.at, j.lead, j.to, j.tail) /\ GetIs(h, n, g.addr)
    BY <1>2, <2>2, <2>3, JobOp, GetNode
  <2>5. k \in Jobs /\ h \in Gets
    BY <2>4 DEF Becomes, GetIs
  <2>6. /\ job' = [job EXCEPT ![t] = k] /\ got' = [got EXCEPT ![t] = h] /\ UNCHANGED base_mtx
        /\ base' = [base EXCEPT !.cut = base.cut + 1, !.nodes = base.nodes + 1]
    BY <1>1, <1>3, <2>1, <2>2, <2>3 DEF CutNode, Does, GotNode, TypeOK
  <2> QED  BY <1>1, <1>2, <1>3, <2>1, <2>4, <2>5, <2>6 DEF CutsNode, Goes, Same
<1>4. CASE ~Roomy(base)
  <2>1. PICK k : k = [j EXCEPT !.op = "chunk", !.then = "based"]
    OBVIOUS
  <2>2. Becomes(k, j, "chunk", "based", j.at, j.lead, j.to, j.tail)
    BY <1>2, <2>1, JobThen
  <2>3. k \in Jobs
    BY <2>2 DEF Becomes
  <2>4. job' = [job EXCEPT ![t] = k] /\ UNCHANGED <<got, base>> /\ base_mtx' = t
    BY <1>1, <1>4, <2>1 DEF CutNode, Does
  <2>5. Same(t, got)
    BY <2>4, Here
  <2> QED  BY <1>1, <1>2, <2>2, <2>3, <2>4, <2>5 DEF CutsNode, Goes, Same
<1> QED  BY <1>3, <1>4

NextOf(j) == IF j.align = 0 THEN "insert" ELSE "align"

CutsFirst(t, k, h) ==
  /\ Goes(t, k, h, call[t]) /\ job[t].op = "based" /\ base_mtx' = Null
  /\ UNCHANGED <<tree, base_nodes, unaligned, call, objects, uses>>
  /\ \/ /\ got[t].addr = Null /\ h = got[t] /\ UNCHANGED <<pages, base>>
        /\ Becomes(k, job[t], "insert", "insert", job[t].at, job[t].lead, job[t].to, job[t].tail)
     \/ /\ got[t].addr \in Nat /\ GetIs(h, base.nodes, Null)
        /\ pages' = [q \in DOMAIN pages |->
                       IF q \in Span(got[t].addr, ChunkPages) THEN "base" ELSE pages[q]]
        /\ base' = [cut |-> 1, chunks |-> base.chunks \cup {got[t].addr}, nodes |-> base.nodes + 1]
        /\ Becomes(k, job[t], "chunk", NextOf(job[t]), job[t].at, job[t].lead, job[t].to, job[t].tail)

LEMMA CutFirstForm ==
  ASSUME TypeOK, NEW t \in Threads, CutFirst(t)
  PROVE  \E k \in Jobs, h \in Gets : CutsFirst(t, k, h)
<1>1. PICK j \in Jobs, g \in Gets : j = job[t] /\ g = got[t]
  BY Here
<1>2. /\ UNCHANGED <<tree, base_nodes, unaligned, call, objects, uses>> /\ base_mtx' = Null
      /\ call[t] \in Clients /\ Same(t, call) /\ j.op = "based"
      /\ {"chunk", "insert"} \subseteq Ops /\ {"insert", NextOf(j)} \subseteq Thens
  BY <1>1, Here DEF CutFirst, Task, Ops, Allocating, Thens, NextOf
<1>3. CASE g.addr = Null
  <2>1. PICK k : k = [j EXCEPT !.op = "insert", !.then = "insert"]
    OBVIOUS
  <2>2. Becomes(k, j, "insert", "insert", j.at, j.lead, j.to, j.tail)
    BY <1>2, <2>1, JobThen
  <2>3. k \in Jobs
    BY <2>2 DEF Becomes
  <2>4. job' = [job EXCEPT ![t] = k] /\ UNCHANGED <<got, base, pages>>
    BY <1>1, <1>3, <2>1 DEF CutFirst, Does
  <2>5. Same(t, got)
    BY <2>4, Here
  <2> QED  BY <1>1, <1>2, <1>3, <2>2, <2>3, <2>4, <2>5 DEF CutsFirst, Goes, Same
<1>4. CASE g.addr # Null
  <2>1. PICK n \in Addresses : n = base.nodes
    BY DEF TypeOK, Addresses
  <2>2. PICK k : k = [j EXCEPT !.op = "chunk", !.then = NextOf(j)]
    OBVIOUS
  <2>3. PICK h : h = [node |-> n, addr |-> Null]
    OBVIOUS
  <2>4. Becomes(k, j, "chunk", NextOf(j), j.at, j.lead, j.to, j.tail)
    BY <1>2, <2>2, JobThen
  <2>5. k \in Jobs /\ h \in Gets /\ GetIs(h, n, Null)
    BY <2>3, <2>4 DEF Becomes, GetIs, Gets, Addresses
  <2>6. /\ job' = [job EXCEPT ![t] = k] /\ got' = [got EXCEPT ![t] = h]
        /\ pages' = [q \in DOMAIN pages |-> IF q \in Span(g.addr, ChunkPages) THEN "base" ELSE pages[q]]
        /\ base' = [cut |-> 1, chunks |-> base.chunks \cup {g.addr}, nodes |-> base.nodes + 1]
    BY <1>1, <1>4, <2>1, <2>2, <2>3 DEF CutFirst, Does, NextOf
  <2>7. g.addr \in Nat
    BY <1>4 DEF Gets, Addresses
  <2> QED  BY <1>1, <1>2, <1>4, <2>1, <2>4, <2>5, <2>6, <2>7 DEF CutsFirst, Goes, Same
<1> QED  BY <1>3, <1>4

Handlers == {"moved", "give"}

FreesNode(t, k, h) ==
  /\ Goes(t, k, h, call[t]) /\ job[t].op = "free_node"
  /\ UNCHANGED <<pages, tree, base, base_mtx, unaligned, call, objects, uses>>
  /\ base_nodes' = <<got[t].node>> \o base_nodes
  /\ Fresh(k, Handler(t)) /\ GetIs(h, Null, got[t].addr)

LEMMA HandlerIs ==
  ASSUME NEW t
  PROVE  Handler(t) \in Handlers /\ Handler(t) \in Ops
BY DEF Handler, Handlers, Ops

LEMMA FreeNodeForm ==
  ASSUME TypeOK, NEW t \in Threads, base_node_dealloc(t)
  PROVE  \E k \in Jobs, h \in Gets : FreesNode(t, k, h)
<1>1. PICK j \in Jobs, g \in Gets : j = job[t] /\ g = got[t]
  BY Here
<1>2. /\ UNCHANGED <<pages, tree, base, base_mtx, unaligned, call, objects, uses>>
      /\ call[t] \in Clients /\ Same(t, call) /\ j.op = "free_node" /\ base_nodes' = <<g.node>> \o base_nodes
  BY <1>1, Here DEF base_node_dealloc, Task
<1>3. PICK k : k = At(Handler(t))
  OBVIOUS
<1>4. PICK h : h = [g EXCEPT !.node = Null]
  OBVIOUS
<1>5. Fresh(k, Handler(t)) /\ GetIs(h, Null, g.addr)
  BY <1>3, <1>4, HandlerIs, JobAt, GetNode DEF Addresses
<1>6. job' = [job EXCEPT ![t] = k] /\ got' = [got EXCEPT ![t] = h]
  BY <1>1, <1>3, <1>4 DEF base_node_dealloc, Does, GotNode, TypeOK
<1>7. k \in Jobs /\ h \in Gets
  BY <1>5 DEF Fresh, GetIs
<1> QED  BY <1>1, <1>2, <1>5, <1>6, <1>7 DEF FreesNode, Goes, Same

(* The pages before and behind the aligned part are given back. *)
Aligns(t, k, h) ==
  /\ Goes(t, k, h, call[t]) /\ job[t].op = "align"
  /\ UNCHANGED <<pages, tree, base_nodes, base, base_mtx, unaligned, call, objects, uses>>
  /\ k.lead = IF got[t].addr % job[t].align = 0 THEN 0 ELSE job[t].align - (got[t].addr % job[t].align)
  /\ k.tail = (job[t].all - k.lead - job[t].need) % SizeMod
  /\ got[t].addr \in Nat /\ GetIs(h, got[t].node, got[t].addr + k.lead)
  /\ Becomes(k, job[t], IF k.lead = 0 /\ k.tail = 0 THEN "insert" ELSE "trim", "insert",
             got[t].addr, k.lead, h.addr + job[t].need, k.tail)

LEMMA AlignChunkForm ==
  ASSUME TypeOK, NEW t \in Threads, Hand(job[t], got[t]), AlignChunk(t)
  PROVE  \E k \in Jobs, h \in Gets : Aligns(t, k, h)
<1>1. PICK j \in Jobs, g \in Gets : j = job[t] /\ g = got[t]
  BY Here
<1>2. /\ UNCHANGED <<pages, tree, base_nodes, base, base_mtx, unaligned, call, objects, uses>>
      /\ call[t] \in Clients /\ Same(t, call) /\ j.op = "align"
  BY <1>1, Here DEF AlignChunk, Task
<1>3. PICK ret \in Nat, a \in Nat : ret = g.addr /\ a = j.align /\ a > 0
  <2>1. g.addr # Null /\ j.align # 0
    BY <1>1, <1>2 DEF Hand
  <2>2. g.addr \in Nat /\ j.align \in Nat
    BY <2>1, JobFields DEF Gets, Addresses
  <2> QED  BY <2>1, <2>2
<1>4. PICK lead \in Nat : lead = IF ret % a = 0 THEN 0 ELSE a - (ret % a)
  <2>1. ret % a \in Nat /\ ret % a < a
    BY <1>3, Modulo
  <2> QED  BY <1>3, <2>1
<1>5. PICK tail \in Nat : tail = (j.all - lead - j.need) % SizeMod
  <2>1. j.all - lead - j.need \in Int
    BY JobFields
  <2> QED  BY <2>1, ModuloInt
<1>6. PICK addr \in Nat, to \in Nat : addr = ret + lead /\ to = addr + j.need
  BY JobFields
<1>7. PICK k : k = Trims(j, ret, lead, to, tail, "insert")
  OBVIOUS
<1>8. PICK h : h = [g EXCEPT !.addr = addr]
  OBVIOUS
<1>9. Becomes(k, j, IF lead = 0 /\ tail = 0 THEN "insert" ELSE "trim", "insert", ret, lead, to, tail)
  BY <1>7, JobTrims DEF Thens
<1>10. GetIs(h, g.node, addr)
  BY <1>8, GetAddr DEF Addresses
<1>11. k \in Jobs /\ h \in Gets /\ k.lead = lead /\ k.tail = tail /\ h.addr = addr
  BY <1>9, <1>10 DEF Becomes, GetIs
<1>12. job' = [job EXCEPT ![t] = k] /\ got' = [got EXCEPT ![t] = h]
  <2>1. Does(t, Trims(j, ret, lead, addr + j.need, tail, "insert")) /\ Got(t, addr)
    BY <1>1, <1>3, <1>4, <1>5, <1>6 DEF AlignChunk
  <2> QED  BY <1>1, <1>6, <1>7, <1>8, <2>1 DEF Does, Got, TypeOK
<1> QED  BY <1>1, <1>2, <1>3, <1>4, <1>5, <1>6, <1>9, <1>10, <1>11, <1>12 DEF Aligns, Goes, Same

Inserts(t, k, h) ==
  /\ Goes(t, k, h, call[t]) /\ job[t].op = "insert"
  /\ UNCHANGED <<pages, base_nodes, base, base_mtx, unaligned, call, objects, uses>>
  /\ \/ /\ got[t].addr = Null /\ h = got[t] /\ UNCHANGED tree
        /\ Fresh(k, IF got[t].node = Null THEN Handler(t) ELSE "free_node")
     \/ /\ got[t].addr \in Nat /\ GetIs(h, Null, got[t].addr) /\ Fresh(k, Handler(t))
        /\ fault' = (fault \/ Collides(got[t].addr))
        /\ \E e : /\ e = [node |-> got[t].node, addr |-> got[t].addr, size |-> job[t].need]
                  /\ tree' = tree \cup {e}

LEMMA InsertForm ==
  ASSUME TypeOK, NEW t \in Threads, Insert(t)
  PROVE  \E k \in Jobs, h \in Gets : Inserts(t, k, h)
<1>1. PICK j \in Jobs, g \in Gets : j = job[t] /\ g = got[t]
  BY Here
<1>2. /\ UNCHANGED <<pages, base_nodes, base, base_mtx, unaligned, call, objects, uses>>
      /\ call[t] \in Clients /\ Same(t, call) /\ j.op = "insert" /\ "free_node" \in Ops
  BY <1>1, Here DEF Insert, Task, Ops
<1>3. CASE g.addr = Null
  <2>1. PICK op \in Ops : op = IF g.node = Null THEN Handler(t) ELSE "free_node"
    BY <1>2, HandlerIs
  <2>2. PICK k : k = At(op)
    OBVIOUS
  <2>3. Fresh(k, op)
    BY <2>2, JobAt
  <2>4. job' = [job EXCEPT ![t] = k] /\ UNCHANGED <<tree, got>>
    BY <1>1, <1>3, <2>1, <2>2 DEF Insert, Does, NodeBack
  <2>5. k \in Jobs /\ Same(t, got)
    BY <2>3, <2>4, Here DEF Fresh
  <2> QED  BY <1>1, <1>2, <1>3, <2>1, <2>3, <2>4, <2>5 DEF Inserts, Goes, Same
<1>4. CASE g.addr # Null
  <2>1. PICK k : k = At(Handler(t))
    OBVIOUS
  <2>2. PICK h : h = [g EXCEPT !.node = Null]
    OBVIOUS
  <2>3. Fresh(k, Handler(t)) /\ GetIs(h, Null, g.addr)
    BY <2>1, <2>2, HandlerIs, JobAt, GetNode DEF Addresses
  <2>4. PICK e : e = [node |-> g.node, addr |-> g.addr, size |-> j.need]
    OBVIOUS
  <2>5. /\ job' = [job EXCEPT ![t] = k] /\ got' = [got EXCEPT ![t] = h] /\ tree' = tree \cup {e}
        /\ fault' = (fault \/ Collides(g.addr))
    BY <1>1, <1>4, <2>1, <2>2, <2>4 DEF Insert, Does, GotNode, TypeOK
  <2>6. k \in Jobs /\ h \in Gets /\ g.addr \in Nat
    BY <1>4, <2>3 DEF Fresh, GetIs, Gets, Addresses
  <2> QED  BY <1>1, <1>2, <2>3, <2>4, <2>5, <2>6 DEF Inserts, Goes, Same
<1> QED  BY <1>3, <1>4

(* The call of a thread, all of it but what a move will need. *)
CallIs(c, what, id, from, moving, unmap, kept) ==
  /\ c \in Clients /\ c.what = what /\ c.id = id /\ c.from = from
  /\ c.moving = moving /\ c.unmap = unmap /\ c.kept = kept

LEMMA CallNone == CallIs(NoCall, "none", Null, Null, FALSE, FALSE, 0)
BY DEF CallIs, NoCall, Clients, Addresses

LEMMA CallOfMalloc ==
  ASSUME NEW id \in Addresses
  PROVE  CallIs([NoCall EXCEPT !.what = "malloc", !.id = id], "malloc", id, Null, FALSE, FALSE, 0)
BY DEF CallIs, NoCall, Clients, Addresses

LEMMA CallOfDalloc ==
  ASSUME NEW id \in Addresses, NEW from \in Addresses
  PROVE  CallIs([NoCall EXCEPT !.what = "dalloc", !.id = id, !.from = from, !.unmap = TRUE],
                "dalloc", id, from, FALSE, TRUE, 0)
BY DEF CallIs, NoCall, Clients, Addresses

LEMMA CallOfMoved ==
  ASSUME NEW id \in Addresses, NEW from \in Addresses, NEW unmap \in BOOLEAN, NEW kept \in Nat
  PROVE  CallIs([NoCall EXCEPT !.what = "ralloc", !.id = id, !.from = from, !.unmap = unmap, !.kept = kept],
                "ralloc", id, from, FALSE, unmap, kept)
BY DEF CallIs, NoCall, Clients, Addresses

LEMMA CallUntracked ==
  ASSUME NEW c \in Clients
  PROVE  CallIs([c EXCEPT !.from = Null], c.what, c.id, Null, c.moving, c.unmap, c.kept)
BY DEF CallIs, Clients, Addresses

(* A call that moves an object of oldsize to one of size, and extra.       *)
Moves(c, oldsize, size, extra, alignment, misaligned) ==
  /\ c.oldsize = oldsize /\ c.size = size /\ c.extra = extra
  /\ c.alignment = alignment /\ c.misaligned = misaligned

LEMMA CallAgain ==
  ASSUME NEW c \in Clients, NEW d, d = [c EXCEPT !.extra = 0]
  PROVE  /\ CallIs(d, c.what, c.id, c.from, c.moving, c.unmap, c.kept)
         /\ Moves(d, c.oldsize, c.size, 0, c.alignment, c.misaligned)
BY DEF CallIs, Clients, Addresses, Moves

(* k begins an allocation, or is over at failed. *)
Opens(k, failed) ==
  \/ Fresh(k, failed)
  \/ /\ k \in Jobs /\ k.op = "node" /\ k.lead = 0 /\ k.tail = 0
     /\ k.then = IF k.align = 0 THEN "insert" ELSE "align"

(* A mapping is large enough to cut the object out. *)
Sized(j) ==
  j.op \in Allocating \/ (j.op = "trim" /\ j.then # "free_node") =>
    /\ j.need > 0
    /\ j.align # 0 => /\ j.all >= j.need + j.align - ChunkPages
                      /\ j.align % ChunkPages = 0 /\ j.all < SizeMod

Ample(k, n) == k.op = "node" => Sized(k) /\ k.need >= n

LEMMA MallocOpens ==
  ASSUME NEW n \in Nat, NEW failed \in Handlers, NEW k, k = huge_malloc(n, failed)
  PROVE  Opens(k, failed) /\ (n > 0 /\ n < SizeMod => Ample(k, n))
<1>1. PICK c \in Nat : c = CHUNK_CEILING(n)
  BY CeilingTyped
<1>2. CASE c = 0
  <2>1. Fresh(k, failed)
    BY <1>1, <1>2, PlanMalloc DEF Handlers
  <2>2. failed # "node"
    BY DEF Handlers
  <2> QED  BY <2>1, <2>2 DEF Opens, Ample, Fresh
<1>3. CASE c # 0
  <2>1. Plan(k, c, c, 0)
    BY <1>1, <1>3, PlanMalloc DEF Handlers
  <2>2. n < SizeMod => c >= n
    BY <1>1, <1>3, Ceiling
  <2> QED  BY <1>3, <2>1, <2>2 DEF Plan, Opens, Ample, Sized
<1> QED  BY <1>2, <1>3

LEMMA PallocOpens ==
  ASSUME NEW n \in Nat, NEW a \in Nat, a # 0, NEW failed \in Handlers, NEW k, k = huge_palloc(n, a)
  PROVE  /\ Opens(k, failed)
         /\ n > 0 /\ a \in Alignments /\ a >= ChunkPages /\ a % ChunkPages = 0 /\ ~TooLarge(n, a) => Ample(k, n)
<1>1. PICK c \in Nat, m \in Nat : c = CHUNK_CEILING(n) /\ m = AllocSize(n, a)
  BY CeilingTyped, AllocTyped
<1>2. Plan(k, m, c, a)
  BY <1>1, PlanPalloc
<1>3. Opens(k, failed)
  BY <1>2 DEF Plan, Opens
<1>4. ASSUME n > 0, a \in Alignments, a >= ChunkPages, a % ChunkPages = 0, ~TooLarge(n, a) PROVE Ample(k, n)
  <2>1. m < SizeMod /\ m >= c + a - ChunkPages /\ c >= n
    BY <1>1, <1>4, AllocRoom
  <2> QED  BY <1>2, <1>4, <2>1 DEF Plan, Ample, Sized
<1> QED  BY <1>3, <1>4

LEMMA AlignmentTyped ==
  ASSUME NEW a \in Alignments
  PROVE  a \in Nat /\ (a > ChunkPages => a % ChunkPages = 0)
<1>1. a \in Nat
  <2>1. SizeMod \div 2 \in Nat
    BY Constants
  <2> QED  BY <2>1 DEF Alignments
<1>2. ASSUME a > ChunkPages PROVE a % ChunkPages = 0
  <2>1. ChunkPages \in Nat /\ ChunkPages > 0
    BY Constants
  <2>2. ChunkPages % a = ChunkPages
    BY <1>1, <1>2, <2>1, ModuloSmall
  <2> QED  BY <1>1, <1>2, <2>1, <2>2 DEF Alignments
<1> QED  BY <1>1, <1>2

LEMMA ipallocOpens ==
  ASSUME NEW n \in Nat, NEW a \in Alignments, NEW failed \in Handlers, NEW k, k = ipalloc(n, a, failed)
  PROVE  Opens(k, failed) /\ (n > 0 /\ n < SizeMod => Ample(k, n))
<1>1. a \in Nat /\ ChunkPages \in Nat /\ ChunkPages > 0 /\ (a > ChunkPages => a % ChunkPages = 0)
  BY Constants, AlignmentTyped
<1>2. CASE k = huge_malloc(n, failed)
  BY <1>2, MallocOpens
<1>3. CASE k = At(failed)
  <2>1. failed \in Ops /\ failed # "node"
    BY DEF Handlers, Ops
  <2>2. Fresh(k, failed)
    BY <1>3, <2>1, JobAt
  <2> QED  BY <2>1, <2>2 DEF Opens, Ample, Fresh
<1>4. CASE k = huge_palloc(n, a) /\ ~TooLarge(n, a) /\ ~(a <= ChunkPages)
  <2>1. a > ChunkPages /\ a # 0 /\ a >= ChunkPages
    BY <1>1, <1>4
  <2>2. a % ChunkPages = 0
    BY <1>1, <2>1
  <2> QED  BY <1>1, <1>4, <2>1, <2>2, PallocOpens
<1>5. a <= ChunkPages \/ ~(a <= ChunkPages)
  OBVIOUS
<1> QED  BY <1>2, <1>3, <1>4, <1>5 DEF ipalloc

LEMMA ReplacementOpens ==
  ASSUME NEW n \in Nat, NEW a \in Alignments, NEW mis \in BOOLEAN, NEW k, k = Replacement(n, a, mis)
  PROVE  /\ Opens(k, "moved")
         /\ n > 0 /\ n < SizeMod /\ ~Overreaches(n, a, mis) => Ample(k, n)
<1>1. a \in Nat /\ ChunkPages \in Nat /\ ChunkPages > 0 /\ "moved" \in Handlers
  BY Constants, AlignmentTyped DEF Handlers
<1>2. CASE mis
  BY <1>1, <1>2, ipallocOpens DEF Replacement
<1>3. CASE ~mis /\ a = 0
  BY <1>1, <1>3, MallocOpens DEF Replacement
<1>4. CASE ~mis /\ a # 0
  <2>1. a % ChunkPages = 0 => a >= ChunkPages
    <3>1. a < ChunkPages => a % ChunkPages = a
      BY <1>1, ModuloSmall
    <3> QED  BY <1>1, <1>4, <3>1
  <2> QED  BY <1>1, <1>4, <2>1, PallocOpens DEF Replacement, Overreaches
<1> QED  BY <1>2, <1>3, <1>4

LEMMA UsesTyped ==
  ASSUME TypeOK, NEW t \in Threads
  PROVE  /\ \A n \in uses[t].sizes : n \in Nat /\ n > 0 /\ n < SizeMod
         /\ \A x \in uses[t].extras : x \in Nat
         /\ \A a \in uses[t].aligns : a \in Alignments /\ a \in Nat
<1>1. uses \in [Threads -> [calls : SUBSET {"malloc", "dalloc", "ralloc"}, sizes : SUBSET (1 .. SizeMod - 1),
                            extras : SUBSET (0 .. SizeMod - 1), aligns : SUBSET Alignments]]
  BY HugeAssumption DEF TypeOK
<1>2. uses[t].sizes \subseteq 1 .. SizeMod - 1 /\ uses[t].extras \subseteq 0 .. SizeMod - 1 /\ uses[t].aligns \subseteq Alignments
  BY <1>1
<1>3. SizeMod \in Nat
  BY Constants
<1> QED  BY <1>2, <1>3, AlignmentTyped

LEMMA IdTyped == Ids \subseteq Addresses
BY Constants DEF Addresses

LEMMA ObjectTyped ==
  ASSUME TypeOK, NEW i \in DOMAIN objects
  PROVE  objects[i].addr \in Nat /\ objects[i].size \in Nat /\ i \in Ids /\ i \in Nat /\ i \in Addresses
<1>1. objects[i] \in [addr : Nat, size : Nat] /\ i \in Ids
  BY DEF TypeOK
<1> QED  BY <1>1, IdTyped, Constants

LEMMA ExtentTyped ==
  ASSUME TypeOK, NEW e \in tree
  PROVE  e.node \in Nat /\ e.addr \in Nat /\ e.size \in Nat
BY DEF TypeOK, Extents

Untracks(t, k, h, c) ==
  /\ Goes(t, k, h, c) /\ job[t].op = "untrack"
  /\ CallIs(c, call[t].what, call[t].id, Null, call[t].moving, call[t].unmap, call[t].kept)
  /\ UNCHANGED <<pages, base_nodes, base, base_mtx, unaligned, objects, uses>>
  /\ \E e \in tree :
       /\ e.addr = call[t].from /\ tree' = tree \ {e} /\ GetIs(h, e.node, got[t].addr)
       /\ IF call[t].unmap
          THEN Becomes(k, job[t], IF e.size = 0 THEN "free_node" ELSE "trim", "free_node", e.addr, e.size, 0, 0)
          ELSE Fresh(k, "free_node")

LEMMA UntrackForm ==
  ASSUME TypeOK, NEW t \in Threads, Untrack(t)
  PROVE  \E k \in Jobs, h \in Gets, c \in Clients : Untracks(t, k, h, c)
<1>1. PICK j \in Jobs, g \in Gets, b \in Clients : j = job[t] /\ g = got[t] /\ b = call[t]
  BY Here
<1>2. UNCHANGED <<pages, base_nodes, base, base_mtx, unaligned, objects, uses>> /\ j.op = "untrack"
  BY <1>1 DEF Untrack, Task
<1>3. PICK e \in tree :
       /\ e.addr = b.from /\ tree' = tree \ {e} /\ GotNode(t, e.node)
       /\ Does(t, IF b.unmap THEN Trims(j, e.addr, e.size, 0, 0, "free_node") ELSE At("free_node"))
  BY <1>1 DEF Untrack
<1>4. PICK n \in Nat, p \in Nat, s \in Nat : n = e.node /\ p = e.addr /\ s = e.size
  BY ExtentTyped
<1>5. PICK k : k = IF b.unmap THEN Trims(j, p, s, 0, 0, "free_node") ELSE At("free_node")
  OBVIOUS
<1>6. PICK h : h = [g EXCEPT !.node = n]
  OBVIOUS
<1>7. PICK c : c = [b EXCEPT !.from = Null]
  OBVIOUS
<1>8. b.unmap => Becomes(k, j, IF s = 0 THEN "free_node" ELSE "trim", "free_node", p, s, 0, 0)
  <2>1. "free_node" \in Thens /\ 0 \in Nat
    BY DEF Thens
  <2>2. Becomes(Trims(j, p, s, 0, 0, "free_node"), j,
                IF s = 0 /\ 0 = 0 THEN "free_node" ELSE "trim", "free_node", p, s, 0, 0)
    BY <2>1, JobTrims
  <2> QED  BY <1>5, <2>2
<1>9. ~b.unmap => Fresh(k, "free_node")
  BY <1>5, JobAt DEF Ops
<1>10. GetIs(h, n, g.addr)
  BY <1>6, GetNode DEF Addresses
<1>11. CallIs(c, b.what, b.id, Null, b.moving, b.unmap, b.kept)
  BY <1>7, CallUntracked
<1>12. k \in Jobs /\ h \in Gets /\ c \in Clients
  BY <1>8, <1>9, <1>10, <1>11 DEF Becomes, Fresh, GetIs, CallIs
<1>13. Does(t, k)
  BY <1>3, <1>4, <1>5
<1>14. job' = [job EXCEPT ![t] = k] /\ got' = [got EXCEPT ![t] = h] /\ call' = [call EXCEPT ![t] = c]
  BY <1>1, <1>3, <1>4, <1>6, <1>7, <1>13 DEF Untrack, Does, GotNode, Calling, TypeOK
<1> QED  BY <1>1, <1>2, <1>3, <1>4, <1>8, <1>9, <1>10, <1>11, <1>12, <1>14 DEF Untracks, Goes

MallocsOf(t, k, c) ==
  /\ Goes(t, k, got[t], c) /\ job[t].op = "idle" /\ "malloc" \in uses[t].calls
  /\ c.id \in Ids /\ c.id \notin DOMAIN objects \cup Busy /\ CallIs(c, "malloc", c.id, Null, FALSE, FALSE, 0)
  /\ Opens(k, "give") /\ Ample(k, 0)
  /\ UNCHANGED <<pages, tree, base_nodes, base, base_mtx, unaligned, got, objects, uses>>

LEMMA CallMallocForm ==
  ASSUME TypeOK, NEW t \in Threads, NEW size \in uses[t].sizes, NEW alignment \in uses[t].aligns,
         CallMalloc(t, size, alignment)
  PROVE  \E k \in Jobs, c \in Clients : MallocsOf(t, k, c)
<1>1. /\ job[t].op = "idle" /\ "malloc" \in uses[t].calls
      /\ UNCHANGED <<pages, tree, base_nodes, base, base_mtx, unaligned, got, objects, uses>>
      /\ Does(t, ipalloc(size, alignment, "give"))
  BY DEF CallMalloc, Calls, Idle, Task
<1>2. PICK id \in Ids : /\ id \notin DOMAIN objects \cup Busy
                        /\ Calling(t, [NoCall EXCEPT !.what = "malloc", !.id = id])
  BY DEF CallMalloc
<1>3. PICK c : c = [NoCall EXCEPT !.what = "malloc", !.id = id]
  OBVIOUS
<1>4. PICK k : k = ipalloc(size, alignment, "give")
  OBVIOUS
<1>5. CallIs(c, "malloc", id, Null, FALSE, FALSE, 0)
  BY <1>3, CallOfMalloc, IdTyped
<1>6. Opens(k, "give") /\ Ample(k, size)
  BY <1>4, UsesTyped, ipallocOpens DEF Handlers
<1>7. Ample(k, 0)
  <2>1. k \in Jobs
    BY <1>6 DEF Opens, Fresh
  <2>2. k.need \in Nat
    BY <2>1, JobFields
  <2> QED  BY <1>6, <2>2 DEF Ample
<1>8. k \in Jobs /\ c \in Clients /\ c.id = id
  BY <1>5, <1>6 DEF CallIs, Opens, Fresh
<1>9. job' = [job EXCEPT ![t] = k] /\ call' = [call EXCEPT ![t] = c] /\ Same(t, got) /\ got[t] \in Gets
  BY <1>1, <1>2, <1>3, <1>4, Here DEF Does, Calling
<1> QED  BY <1>1, <1>2, <1>5, <1>6, <1>7, <1>8, <1>9 DEF MallocsOf, Goes, Same

(* What a client writes into the pages ps. *)
Gives(t, k, h) ==
  /\ Goes(t, k, h, NoCall) /\ job[t].op = "give" /\ Fresh(k, "idle") /\ GetIs(h, got[t].node, Null)
  /\ UNCHANGED <<tree, base_nodes, base, base_mtx, unaligned, uses>>
  /\ \/ got[t].addr = Null /\ UNCHANGED <<pages, objects>>
     \/ \E e \in tree : /\ e.addr = got[t].addr /\ Owns(call[t].id, e.addr, e.size)
                        /\ Writes(call[t].id, Span(e.addr + call[t].kept, e.size - call[t].kept))

LEMMA GiveForm ==
  ASSUME TypeOK, NEW t \in Threads, Give(t)
  PROVE  \E k \in Jobs, h \in Gets : Gives(t, k, h)
<1>1. PICK g \in Gets : g = got[t] /\ job[t].op = "give"
  BY Here DEF Give, Task
<1>2. UNCHANGED <<tree, base_nodes, base, base_mtx, unaligned, uses>>
  BY DEF Give
<1>3. PICK k : k = At("idle")
  OBVIOUS
<1>4. PICK h : h = [g EXCEPT !.addr = Null]
  OBVIOUS
<1>5. Fresh(k, "idle") /\ GetIs(h, g.node, Null)
  BY <1>3, <1>4, JobAt, GetAddr DEF Ops, Addresses
<1>6. k \in Jobs /\ h \in Gets /\ NoCall \in Clients
  BY <1>5, CallNone DEF Fresh, GetIs, CallIs
<1>7. job' = [job EXCEPT ![t] = k] /\ got' = [got EXCEPT ![t] = h] /\ call' = [call EXCEPT ![t] = NoCall]
  BY <1>1, <1>3, <1>4 DEF Give, Does, Got, Calling, TypeOK
<1>8. g.addr = Null => UNCHANGED <<pages, objects>>
  BY <1>1 DEF Give
<1>9. g.addr # Null => \E e \in tree : /\ e.addr = g.addr /\ Owns(call[t].id, g.addr, e.size)
                                       /\ Writes(call[t].id, Span(g.addr + call[t].kept, e.size - call[t].kept))
  BY <1>1 DEF Give
<1> QED  BY <1>1, <1>2, <1>5, <1>6, <1>7, <1>8, <1>9 DEF Gives, Goes

DallocsOf(t, k, c, id) ==
  /\ Goes(t, k, got[t], c) /\ job[t].op = "idle" /\ "dalloc" \in uses[t].calls
  /\ id \in DOMAIN objects /\ CallIs(c, "dalloc", id, objects[id].addr, FALSE, TRUE, 0) /\ Fresh(k, "untrack")
  /\ Disowns(id) /\ UNCHANGED <<pages, tree, base_nodes, base, base_mtx, unaligned, got, uses>>

LEMMA CallDallocForm ==
  ASSUME TypeOK, NEW t \in Threads, NEW id \in DOMAIN objects, CallDalloc(t, id)
  PROVE  \E k \in Jobs, c \in Clients : DallocsOf(t, k, c, id)
<1>1. /\ job[t].op = "idle" /\ "dalloc" \in uses[t].calls /\ Disowns(id)
      /\ UNCHANGED <<pages, tree, base_nodes, base, base_mtx, unaligned, got, uses>>
  BY DEF CallDalloc, Calls, Idle, Task
<1>2. PICK p \in Nat : p = objects[id].addr
  BY ObjectTyped
<1>3. PICK c : c = [NoCall EXCEPT !.what = "dalloc", !.id = id, !.from = p, !.unmap = TRUE]
  OBVIOUS
<1>4. PICK k : k = At("untrack")
  OBVIOUS
<1>5. CallIs(c, "dalloc", id, p, FALSE, TRUE, 0) /\ Fresh(k, "untrack")
  BY <1>3, <1>4, CallOfDalloc, ObjectTyped, JobAt DEF Addresses, Ops
<1>6. k \in Jobs /\ c \in Clients /\ got[t] \in Gets
  BY <1>5, Here DEF Fresh, CallIs
<1>7. job' = [job EXCEPT ![t] = k] /\ call' = [call EXCEPT ![t] = c] /\ Same(t, got)
  BY <1>1, <1>2, <1>3, <1>4, Here DEF CallDalloc, Does, Calling
<1> QED  BY <1>1, <1>2, <1>5, <1>6, <1>7 DEF DallocsOf, Goes, Same

RallocsOf(t, k, c, id) ==
  /\ Goes(t, k, got[t], c) /\ job[t].op = "idle" /\ "ralloc" \in uses[t].calls
  /\ id \in DOMAIN objects /\ CallIs(c, "ralloc", id, objects[id].addr, TRUE, FALSE, 0) /\ Opens(k, "moved")
  /\ c.size \in uses[t].sizes /\ c.alignment \in uses[t].aligns /\ c.extra \in uses[t].extras
  /\ c.size + c.extra < SizeMod /\ (c.misaligned => c.alignment # 0)
  /\ \E e \in tree : e.addr = objects[id].addr /\ e.size = c.oldsize
  /\ ~fault' => Ample(k, c.size + c.extra)
  /\ Disowns(id) /\ UNCHANGED <<pages, tree, base_nodes, base, base_mtx, unaligned, got, uses>>

LEMMA CallRallocForm ==
  ASSUME TypeOK, NEW t \in Threads, NEW id \in DOMAIN objects, NEW size \in uses[t].sizes,
         NEW extra \in uses[t].extras, NEW alignment \in uses[t].aligns, CallRalloc(t, id, size, extra, alignment)
  PROVE  \E k \in Jobs, c \in Clients : RallocsOf(t, k, c, id)
<1>1. /\ job[t].op = "idle" /\ "ralloc" \in uses[t].calls /\ Disowns(id) /\ size + extra < SizeMod
      /\ UNCHANGED <<pages, tree, base_nodes, base, base_mtx, unaligned, got, uses>>
  BY DEF CallRalloc, Calls, Idle, Task
<1>2. PICK p \in Nat : p = objects[id].addr
  BY ObjectTyped
<1>3. PICK misaligned \in BOOLEAN : misaligned = (alignment # 0 /\ p % alignment # 0)
  OBVIOUS
<1>4. PICK e \in tree :
        /\ e.addr = p
        /\ Does(t, Replacement(size + extra, alignment, misaligned))
        /\ Calling(t, [NoCall EXCEPT !.what = "ralloc", !.id = id, !.from = p, !.oldsize = e.size,
                        !.size = size, !.extra = extra, !.alignment = alignment,
                        !.misaligned = misaligned, !.moving = TRUE])
        /\ fault' = (fault \/ Overreaches(size + extra, alignment, misaligned))
  BY <1>2, <1>3 DEF CallRalloc
<1>5. /\ size \in Nat /\ size > 0 /\ extra \in Nat /\ alignment \in Nat /\ alignment \in Alignments
      /\ id \in Addresses /\ p \in Addresses
  BY UsesTyped, ObjectTyped DEF Addresses
<1>s. PICK s \in Nat : s = e.size
  BY ExtentTyped
<1>6. PICK n \in Nat : n = size + extra /\ n > 0 /\ n < SizeMod
  BY <1>1, <1>5
<1>7. PICK k : k = Replacement(n, alignment, misaligned)
  OBVIOUS
<1>8. PICK c : c = [NoCall EXCEPT !.what = "ralloc", !.id = id, !.from = p, !.oldsize = s,
                        !.size = size, !.extra = extra, !.alignment = alignment,
                        !.misaligned = misaligned, !.moving = TRUE]
  OBVIOUS
<1>9. CallIs(c, "ralloc", id, p, TRUE, FALSE, 0) /\ Moves(c, s, size, extra, alignment, misaligned)
  <2>1. /\ id \in Addresses /\ p \in Addresses /\ s \in Nat /\ size \in Nat /\ extra \in Nat
        /\ alignment \in Nat /\ misaligned \in BOOLEAN
    BY <1>5
  <2> QED  BY ONLY <2>1, <1>8 DEF CallIs, NoCall, Clients, Addresses, Moves
<1>10. Opens(k, "moved") /\ (~Overreaches(n, alignment, misaligned) => Ample(k, n))
  BY <1>5, <1>6, <1>7, ReplacementOpens
<1>11. k \in Jobs /\ c \in Clients /\ got[t] \in Gets
  BY <1>9, <1>10, Here DEF Opens, Fresh, CallIs
<1>12. job' = [job EXCEPT ![t] = k] /\ call' = [call EXCEPT ![t] = c] /\ Same(t, got)
  BY <1>1, <1>4, <1>s, <1>6, <1>7, <1>8, Here DEF Does, Calling
<1>13. /\ c.size = size /\ c.extra = extra /\ c.alignment = alignment /\ c.oldsize = s
       /\ c.misaligned = misaligned
  BY <1>9 DEF Moves
<1>14. c.size + c.extra = n /\ (c.misaligned => c.alignment # 0) /\ (~fault' => Ample(k, n))
  BY <1>3, <1>4, <1>6, <1>10, <1>13
<1> QED  BY <1>1, <1>2, <1>4, <1>s, <1>6, <1>9, <1>10, <1>11, <1>12, <1>13, <1>14 DEF RallocsOf, Goes, Same

Argued(c, u) ==
  /\ c.what # "none" => c.what \in u.calls
  /\ c.moving => /\ c.what = "ralloc" /\ c.size \in u.sizes /\ c.alignment \in u.aligns
                 /\ c.extra \in u.extras \cup {0} /\ c.size + c.extra < SizeMod
                 /\ c.misaligned => c.alignment # 0

(* The second try, without the extra. *)
TriesAgain(t, k, c) ==
  /\ Goes(t, k, got[t], c) /\ job[t].op = "moved" /\ got[t].addr = Null /\ Opens(k, "moved")
  /\ CallIs(c, call[t].what, call[t].id, call[t].from, call[t].moving, call[t].unmap, call[t].kept)
  /\ Moves(c, call[t].oldsize, call[t].size, 0, call[t].alignment, call[t].misaligned)
  /\ ~fault' => Ample(k, call[t].size)
  /\ UNCHANGED <<pages, tree, base_nodes, base, base_mtx, unaligned, got, objects, uses>>

GivesUp(t, k) ==
  /\ Goes(t, k, got[t], NoCall) /\ job[t].op = "moved" /\ got[t].addr = Null /\ Fresh(k, "idle")
  /\ Owns(call[t].id, call[t].from, call[t].oldsize)
  /\ UNCHANGED <<pages, tree, base_nodes, base, base_mtx, unaligned, got, uses>>

LEMMA NotMovedForm ==
  ASSUME TypeOK, NEW t \in Threads, call[t].moving, Argued(call[t], uses[t]), NotMoved(t)
  PROVE  \E k \in Jobs : GivesUp(t, k) \/ \E c \in Clients : TriesAgain(t, k, c)
<1>1. PICK b \in Clients : b = call[t] /\ got[t] \in Gets
  BY Here
<1>2. /\ job[t].op = "moved" /\ got[t].addr = Null
      /\ UNCHANGED <<pages, tree, base_nodes, base, base_mtx, unaligned, got, uses>> /\ Same(t, got)
  <2>1. job[t].op = "moved" /\ got[t].addr = Null /\ UNCHANGED <<pages, tree, base_nodes, base, base_mtx, unaligned, got, uses>>
    BY DEF NotMoved, Task
  <2> QED  BY <2>1, Here
<1>3. CASE b.extra # 0
  <2>1. /\ Does(t, Replacement(b.size, b.alignment, b.misaligned)) /\ Calling(t, [b EXCEPT !.extra = 0])
        /\ fault' = (fault \/ Overreaches(b.size, b.alignment, b.misaligned))
        /\ UNCHANGED objects
    BY <1>1, <1>3 DEF NotMoved
  <2>2. /\ b.size \in Nat /\ b.size > 0 /\ b.size < SizeMod /\ b.alignment \in Alignments /\ b.misaligned \in BOOLEAN
    BY <1>1, UsesTyped, CallFields DEF Argued
  <2>3. PICK k : k = Replacement(b.size, b.alignment, b.misaligned)
    OBVIOUS
  <2>4. PICK c : c = [b EXCEPT !.extra = 0]
    OBVIOUS
  <2>5. Opens(k, "moved") /\ (~Overreaches(b.size, b.alignment, b.misaligned) => Ample(k, b.size))
    BY <2>2, <2>3, ReplacementOpens
  <2>9. ~fault' => Ample(k, b.size)
    BY <2>1, <2>5
  <2>6. /\ CallIs(c, b.what, b.id, b.from, b.moving, b.unmap, b.kept)
        /\ Moves(c, b.oldsize, b.size, 0, b.alignment, b.misaligned)
    BY <2>4, CallAgain
  <2>7. k \in Jobs /\ c \in Clients
    BY <2>5, <2>6 DEF Opens, Fresh, CallIs
  <2>8. job' = [job EXCEPT ![t] = k] /\ call' = [call EXCEPT ![t] = c]
    BY <2>1, <2>3, <2>4 DEF Does, Calling
  <2> QED  BY <1>1, <1>2, <2>1, <2>5, <2>6, <2>7, <2>8, <2>9 DEF TriesAgain, Goes, Same
<1>4. CASE b.extra = 0
  <2>1. Owns(b.id, b.from, b.oldsize) /\ Does(t, At("idle")) /\ Calling(t, NoCall)
    BY <1>1, <1>4 DEF NotMoved
  <2>2. PICK k : k = At("idle")
    OBVIOUS
  <2>3. Fresh(k, "idle")
    BY <2>2, JobAt DEF Ops
  <2>4. k \in Jobs /\ NoCall \in Clients
    BY <2>3, CallNone DEF Fresh, CallIs
  <2>5. job' = [job EXCEPT ![t] = k] /\ call' = [call EXCEPT ![t] = NoCall]
    BY <2>1, <2>2 DEF Does, Calling
  <2> QED  BY <1>1, <1>2, <2>1, <2>3, <2>4, <2>5 DEF GivesUp, Goes, Same
<1> QED  BY <1>3, <1>4

(* The contents are moved, with copy or with remap; what is left is huge_dalloc. *)
Moving(t, k, c, unmap) ==
  /\ Goes(t, k, got[t], c) /\ job[t].op = "moved" /\ got[t].addr \in Nat /\ Fresh(k, "untrack")
  /\ c.kept = CopySize(call[t].size, call[t].oldsize)
  /\ CallIs(c, "ralloc", call[t].id, call[t].from, FALSE, unmap, c.kept)
  /\ UNCHANGED <<tree, base_nodes, base, base_mtx, unaligned, got, objects, uses>>

LEMMA MovedForm ==
  ASSUME TypeOK, NEW t \in Threads, NEW unmap \in BOOLEAN, Moved(t, unmap), job[t].op = "moved", got[t].addr # Null,
         UNCHANGED <<tree, base_nodes, base, base_mtx, unaligned, got, objects, uses>>
  PROVE  \E k \in Jobs, c \in Clients : Moving(t, k, c, unmap)
<1>1. PICK b \in Clients : b = call[t] /\ got[t] \in Gets
  BY Here
<1>2. PICK n \in Nat : n = CopySize(b.size, b.oldsize)
  BY CallFields DEF CopySize
<1>3. PICK id \in Addresses, from \in Addresses : id = b.id /\ from = b.from
  BY CallFields
<1>4. PICK c : c = [NoCall EXCEPT !.what = "ralloc", !.id = id, !.from = from, !.unmap = unmap, !.kept = n]
  OBVIOUS
<1>5. PICK k : k = At("untrack")
  OBVIOUS
<1>6. CallIs(c, "ralloc", id, from, FALSE, unmap, n) /\ Fresh(k, "untrack")
  BY <1>4, <1>5, CallOfMoved, JobAt DEF Ops
<1>7. k \in Jobs /\ c \in Clients /\ c.kept = n /\ got[t].addr \in Nat
  BY <1>1, <1>6 DEF Fresh, CallIs, Gets, Addresses
<1>8. job' = [job EXCEPT ![t] = k] /\ call' = [call EXCEPT ![t] = c] /\ Same(t, got)
  BY <1>1, <1>2, <1>3, <1>4, <1>5, Here DEF Moved, Does, Calling
<1> QED  BY <1>1, <1>2, <1>3, <1>6, <1>7, <1>8 DEF Moving, Goes, Same

-----------------------------------------------------------------------------
(* What a thread has to do with its call: c.from is the object that a call *)
(* is to free or to move, from where it is taken from the client to where  *)
(* the tree has it no longer, or the client has it back.                   *)
Purpose(j, g, c) ==
  /\ j.op = "idle" <=> c.what = "none"
  /\ c.from # Null <=> c.moving \/ j.op = "untrack"
  /\ c.what = "none" => c.id = Null /\ ~c.moving
  /\ c.what # "none" => c.id \in Ids
  /\ c.what = "malloc" => ~c.moving
  /\ c.what = "dalloc" => ~c.moving /\ c.unmap /\ g.addr = Null
  /\ j.op = "moved" => c.moving
  /\ j.op \in {"untrack", "give"} => ~c.moving
  /\ j.op = "trim" /\ j.then = "free_node" => ~c.moving
  /\ c.what = "malloc" => j.op # "untrack" /\ ~(j.op = "trim" /\ j.then = "free_node")
  /\ j.op = "free_node" /\ (c.moving \/ c.what = "malloc") => g.addr = Null
  /\ c.what \in {"dalloc", "ralloc"} /\ ~c.moving =>
       j.op \in {"untrack", "free_node", "give"} \/ (j.op = "trim" /\ j.then = "free_node")
  /\ c.what = "ralloc" \/ c.kept = 0

Fit(j, g, c, u) == Hand(j, g) /\ Purpose(j, g, c) /\ Argued(c, u)

Hands == {t \in Threads : got[t].node # Null}

(* The tree, the list of free nodes and the hands of the threads are apart. *)
Apart ==
  /\ \A n, m \in tree : n.node = m.node => n = m
  /\ \A i, j \in 1 .. Len(base_nodes) : base_nodes[i] = base_nodes[j] => i = j
  /\ \A t, u \in Hands : got[t].node = got[u].node => t = u
  /\ \A n \in tree : n.node \notin ToSet(base_nodes)
  /\ \A t \in Hands : got[t].node \notin ToSet(base_nodes) /\ \A n \in tree : n.node # got[t].node

Nodes == IsFiniteSet(tree) /\ IsFiniteSet(Hands) /\ Apart /\ NodesKept

IInv == TypeOK /\ (\A t \in Threads : Fit(job[t], got[t], call[t], uses[t])) /\ Nodes

Distinct(l) == \A i, j \in 1 .. Len(l) : l[i] = l[j] => i = j

(* n is in front of l, and v is the rest of it.                            *)
InFront(l, n, v) ==
  /\ l \in Seq(Nat) /\ v \in Seq(Nat) /\ n \in Nat
  /\ Len(l) = Len(v) + 1 /\ ToSet(l) = ToSet(v) \cup {n}
  /\ Distinct(l) <=> Distinct(v) /\ n \notin ToSet(v)

LEMMA Fronted ==
  ASSUME NEW l \in Seq(Nat), NEW v \in Seq(Nat), NEW n \in Nat,
         Len(l) = Len(v) + 1, l[1] = n, \A i \in 1 .. Len(v) : l[i + 1] = v[i]
  PROVE  InFront(l, n, v)
<1>1. PICK m \in Nat : /\ m = Len(v) /\ Len(l) = m + 1 /\ \A i \in 1 .. m : l[i + 1] = v[i]
                      /\ DOMAIN v = 1 .. m /\ DOMAIN l = 1 .. m + 1
  <2>1. Len(v) \in Nat /\ DOMAIN v = 1 .. Len(v) /\ DOMAIN l = 1 .. Len(v) + 1
    OBVIOUS
  <2> QED  BY <2>1
<1>2. \A x : x \in ToSet(v) <=> \E i \in 1 .. m : v[i] = x
  BY <1>1 DEF ToSet
<1>3. \A x : x \in ToSet(l) <=> \E i \in 1 .. m + 1 : l[i] = x
  BY <1>1 DEF ToSet
<1>4. \A i \in 1 .. m + 1 : i = 1 \/ \E j \in 1 .. m : i = j + 1
  <2>1. ASSUME NEW i \in 1 .. m + 1, i # 1 PROVE i - 1 \in 1 .. m /\ i = (i - 1) + 1
    BY <2>1
  <2> QED  BY <2>1
<1>5. \A j \in 1 .. m : j + 1 \in 1 .. m + 1 /\ j + 1 # 1
  OBVIOUS
<1>6. 1 \in 1 .. m + 1
  OBVIOUS
<1>7. ToSet(l) = ToSet(v) \cup {n}
  <2>1. ASSUME NEW x PROVE x \in ToSet(l) <=> x \in ToSet(v) \/ x = n
    <3>1. x \in ToSet(l) => x \in ToSet(v) \/ x = n
      BY <1>1, <1>2, <1>3, <1>4
    <3>2. x \in ToSet(v) => x \in ToSet(l)
      <4>1. ASSUME NEW i \in 1 .. m, v[i] = x PROVE x \in ToSet(l)
        <5>1. l[i + 1] = x /\ i + 1 \in 1 .. m + 1
          BY <1>1, <1>5, <4>1
        <5> QED  BY <1>3, <5>1
      <4> QED  BY <1>2, <4>1
    <3>3. n \in ToSet(l)
      BY <1>3, <1>6
    <3> QED  BY <3>1, <3>2, <3>3
  <2> QED  BY <2>1
<1>8. ASSUME Distinct(l) PROVE Distinct(v) /\ n \notin ToSet(v)
  <2>1. ASSUME NEW i \in 1 .. m, NEW j \in 1 .. m, v[i] = v[j] PROVE i = j
    <3>1. i + 1 \in 1 .. m + 1 /\ j + 1 \in 1 .. m + 1 /\ l[i + 1] = l[j + 1]
      BY <1>1, <1>5, <2>1
    <3>2. i + 1 = j + 1
      BY <1>1, <1>8, <3>1 DEF Distinct
    <3> QED  BY <3>2
  <2>2. ASSUME NEW i \in 1 .. m PROVE v[i] # n
    <3>1. i + 1 \in 1 .. m + 1 /\ i + 1 # 1 /\ l[i + 1] = v[i]
      BY <1>1, <1>5
    <3> QED  BY <1>1, <1>6, <1>8, <3>1 DEF Distinct
  <2> QED  BY <1>1, <1>2, <2>1, <2>2 DEF Distinct
<1>9. ASSUME Distinct(v), n \notin ToSet(v) PROVE Distinct(l)
  <2>1. ASSUME NEW i \in 1 .. m + 1, NEW j \in 1 .. m + 1, l[i] = l[j] PROVE i = j
    <3>1. ASSUME NEW k \in 1 .. m PROVE l[k + 1] # l[1]
      BY <1>1, <1>2, <1>9
    <3>2. ASSUME NEW a \in 1 .. m, NEW b \in 1 .. m, l[a + 1] = l[b + 1] PROVE a = b
      BY <1>1, <1>9, <3>2 DEF Distinct
    <3>3. CASE i = 1
      BY <1>4, <2>1, <3>1, <3>3
    <3>4. CASE i # 1
      <4>1. PICK a \in 1 .. m : i = a + 1
        BY <1>4, <3>4
      <4>2. j # 1
        BY <2>1, <3>1, <4>1
      <4>3. PICK b \in 1 .. m : j = b + 1
        BY <1>4, <4>2
      <4> QED  BY <2>1, <3>2, <4>1, <4>3
    <3> QED  BY <3>3, <3>4
  <2> QED  BY <1>1, <2>1 DEF Distinct
<1> QED  BY <1>1, <1>7, <1>8, <1>9 DEF InFront

LEMMA FrontOf ==
  ASSUME NEW l \in Seq(Nat), l # <<>>
  PROVE  InFront(l, l[1], Tail(l))
<1>1. PICK v \in Seq(Nat), n \in Nat : /\ v = Tail(l) /\ n = l[1] /\ Len(l) = Len(v) + 1
                                     /\ \A i \in 1 .. Len(v) : l[i + 1] = v[i]
  <2>1. Tail(l) \in Seq(Nat) /\ l[1] \in Nat /\ Len(l) = Len(Tail(l)) + 1
    OBVIOUS
  <2>2. \A i \in 1 .. Len(Tail(l)) : l[i + 1] = Tail(l)[i]
    OBVIOUS
  <2> QED  BY <2>1, <2>2
<1> QED  BY <1>1, Fronted

LEMMA ToFront ==
  ASSUME NEW v \in Seq(Nat), NEW n \in Nat
  PROVE  InFront(<<n>> \o v, n, v)
<1>1. PICK l \in Seq(Nat) : /\ l = <<n>> \o v /\ Len(l) = Len(v) + 1 /\ l[1] = n
                           /\ \A i \in 1 .. Len(v) : l[i + 1] = v[i]
  <2>1. PICK l : l = <<n>> \o v
    OBVIOUS
  <2>2. l \in Seq(Nat) /\ Len(l) = Len(v) + 1 /\ l[1] = n /\ \A i \in 1 .. Len(v) : l[i + 1] = v[i]
    BY <2>1
  <2> QED  BY <2>1, <2>2
<1> QED  BY <1>1, Fronted

Holding == {got[t].node : t \in Hands}

LEMMA NodesAre ==
  ASSUME IInv
  PROVE  /\ {n.node : n \in tree} \cup ToSet(base_nodes) \cup Holding = 0 .. base.nodes - 1
         /\ Cardinality(tree) + Len(base_nodes) + Cardinality(Hands) = base.nodes
         /\ base.cut <= BaseNodes /\ base.nodes \in Nat /\ base.cut \in Nat
         /\ Cardinality(tree) \in Nat /\ Len(base_nodes) \in Nat /\ Cardinality(Hands) \in Nat
         /\ IsFiniteSet(tree) /\ IsFiniteSet(Hands) /\ base_nodes \in Seq(Nat)
         /\ tree \in SUBSET Extents
         /\ \A n \in tree : n.node \in 0 .. base.nodes - 1
         /\ \A n \in ToSet(base_nodes) : n \in 0 .. base.nodes - 1
         /\ \A u \in Hands : u \in Threads /\ got[u].node \in 0 .. base.nodes - 1
<1>1. /\ {n.node : n \in tree} \cup ToSet(base_nodes) \cup Holding = 0 .. base.nodes - 1
      /\ Cardinality(tree) + Len(base_nodes) + Cardinality(Hands) = base.nodes
      /\ base.cut <= BaseNodes
  BY DEF IInv, Nodes, NodesKept, Hands, Holding
<1>2. IsFiniteSet(tree) /\ IsFiniteSet(Hands) /\ base_nodes \in Seq(Nat) /\ base.nodes \in Nat /\ base.cut \in Nat
  BY DEF IInv, Nodes, TypeOK
<1>3. Cardinality(tree) \in Nat /\ Len(base_nodes) \in Nat /\ Cardinality(Hands) \in Nat
  BY <1>2, FS_CardinalityType
<1>4. /\ \A n \in tree : n.node \in 0 .. base.nodes - 1
      /\ \A n \in ToSet(base_nodes) : n \in 0 .. base.nodes - 1
      /\ \A u \in Hands : u \in Threads /\ got[u].node \in 0 .. base.nodes - 1
  BY <1>1 DEF Holding, Hands
<1>5. tree \in SUBSET Extents
  BY DEF IInv, TypeOK
<1> QED  BY <1>1, <1>2, <1>3, <1>4, <1>5

LEMMA NodesNext ==
  ASSUME IsFiniteSet(tree'), IsFiniteSet(Hands'), Apart',
         {n.node : n \in tree'} \cup ToSet(base_nodes') \cup Holding' = 0 .. base.nodes' - 1,
         Cardinality(tree') + Len(base_nodes') + Cardinality(Hands') = base.nodes',
         base.cut' <= BaseNodes
  PROVE  Nodes'
BY DEF Nodes, NodesKept, Hands, Holding

(* t takes the node n in hand.                                             *)
Gains(t, n) ==
  /\ t \notin Hands /\ t \in Threads /\ Hands' = Hands \cup {t} /\ IsFiniteSet(Hands')
  /\ Cardinality(Hands') = Cardinality(Hands) + 1
  /\ Holding' = Holding \cup {n} /\ got'[t].node = n
  /\ \A u \in Hands : u # t /\ got'[u].node = got[u].node

LEMMA HandFills ==
  ASSUME IInv, NEW t \in Threads, got[t].node = Null, NEW h \in Gets, NEW n \in Nat, h.node = n,
         got' = [got EXCEPT ![t] = h]
  PROVE  Gains(t, n)
<1>1. n # Null
  BY HugeAssumption
<1>2. got'[t] = h /\ \A u \in Threads \ {t} : got'[u] = got[u]
  BY DEF IInv, TypeOK
<1>3. Hands' = Hands \cup {t} /\ t \notin Hands
  BY <1>1, <1>2 DEF Hands
<1>4. \A u \in Hands : u # t /\ got'[u].node = got[u].node
  BY <1>2, <1>3 DEF Hands
<1>5. Holding' = Holding \cup {n}
  <2>1. Holding' = {got'[u].node : u \in Hands'}
    BY DEF Holding
  <2>2. {got'[u].node : u \in Hands \cup {t}} = {got'[u].node : u \in Hands} \cup {n}
    BY <1>2
  <2>3. {got'[u].node : u \in Hands} = {got[u].node : u \in Hands}
    BY <1>4
  <2> QED  BY <1>3, <2>1, <2>2, <2>3 DEF Holding
<1>6. IsFiniteSet(Hands') /\ Cardinality(Hands') = Cardinality(Hands) + 1
  BY <1>3, NodesAre, FS_AddElement
<1> QED  BY <1>2, <1>3, <1>4, <1>5, <1>6 DEF Gains

(* t gives the node n away.                                                *)
Loses(t, n) ==
  /\ t \in Hands /\ n \in Nat /\ Hands' = Hands \ {t} /\ IsFiniteSet(Hands')
  /\ Cardinality(Hands') = Cardinality(Hands) - 1
  /\ Holding' = Holding \ {n} /\ n \in Holding /\ got[t].node = n
  /\ \A u \in Hands' : u \in Hands /\ u # t /\ got'[u].node = got[u].node /\ got[u].node # n

LEMMA HandEmpties ==
  ASSUME IInv, NEW t \in Threads, NEW n, n # Null, got[t].node = n, NEW h \in Gets, h.node = Null,
         got' = [got EXCEPT ![t] = h]
  PROVE  Loses(t, n)
<1>1. got'[t] = h /\ \A u \in Threads \ {t} : got'[u] = got[u]
  BY DEF IInv, TypeOK
<1>2. Hands' = Hands \ {t} /\ t \in Hands /\ n \in Nat
  BY <1>1 DEF Hands, IInv, TypeOK, Gets, Addresses
<1>3. \A u \in Hands : u # t => got[u].node # n
  BY <1>2 DEF IInv, Nodes, Apart
<1>4. \A u \in Hands' : u \in Hands /\ u # t /\ got'[u].node = got[u].node /\ got[u].node # n
  BY <1>1, <1>2, <1>3 DEF Hands
<1>5. n \in Holding
  BY <1>2 DEF Holding
<1>6. Holding' = Holding \ {n}
  <2>1. Holding' = {got'[u].node : u \in Hands'}
    BY DEF Holding
  <2>2. {got'[u].node : u \in Hands'} = {got[u].node : u \in Hands'}
    BY <1>4
  <2>3. {got[u].node : u \in Hands \ {t}} = {got[u].node : u \in Hands} \ {n}
    BY <1>2, <1>3
  <2> QED  BY <1>2, <2>1, <2>2, <2>3 DEF Holding
<1>7. IsFiniteSet(Hands') /\ Cardinality(Hands') = Cardinality(Hands) - 1
  BY <1>2, NodesAre, FS_RemoveElement
<1> QED  BY <1>2, <1>4, <1>5, <1>6, <1>7 DEF Loses

(* From the list to a hand.                                                *)
LEMMA OffList ==
  ASSUME IInv, NEW t, NEW n, Gains(t, n), InFront(base_nodes, n, base_nodes'), UNCHANGED <<tree, base>>
  PROVE  Nodes'
<1>1. /\ Len(base_nodes) = Len(base_nodes') + 1 /\ ToSet(base_nodes) = ToSet(base_nodes') \cup {n}
      /\ n \notin ToSet(base_nodes') /\ Distinct(base_nodes')
  <2>1. Distinct(base_nodes)
    BY DEF IInv, Nodes, Apart, Distinct
  <2> QED  BY <2>1 DEF InFront
<1>2. Apart'
  <2>1. \A m \in tree' : m.node \notin ToSet(base_nodes')
    BY <1>1 DEF IInv, Nodes, Apart
  <2>2. \A u \in Hands' : got'[u].node \notin ToSet(base_nodes') /\ \A m \in tree' : m.node # got'[u].node
    BY <1>1 DEF IInv, Nodes, Apart, Gains
  <2>3. \A u, v \in Hands' : got'[u].node = got'[v].node => u = v
    BY <1>1 DEF IInv, Nodes, Apart, Gains
  <2>4. \A m, k \in tree' : m.node = k.node => m = k
    BY DEF IInv, Nodes, Apart
  <2>5. \A i, j \in 1 .. Len(base_nodes') : base_nodes'[i] = base_nodes'[j] => i = j
    BY <1>1 DEF Distinct
  <2> QED  BY <2>1, <2>2, <2>3, <2>4, <2>5 DEF Apart
<1>3. {m.node : m \in tree'} \cup ToSet(base_nodes') \cup Holding' = 0 .. base.nodes' - 1
  <2>1. Holding' = Holding \cup {n}
    BY DEF Gains
  <2> QED  BY <1>1, <2>1, NodesAre
<1>4. Len(base_nodes') \in Nat /\ Cardinality(Hands') = Cardinality(Hands) + 1 /\ IsFiniteSet(Hands')
  BY DEF InFront, Gains
<1>5. Cardinality(tree') + Len(base_nodes') + Cardinality(Hands') = base.nodes'
  BY <1>1, <1>4, NodesAre
<1>6. IsFiniteSet(tree') /\ base.cut' <= BaseNodes
  BY NodesAre
<1> QED  BY <1>2, <1>3, <1>4, <1>5, <1>6, NodesNext

(* From the base pages to a hand.                                          *)
LEMMA OffBase ==
  ASSUME IInv, NEW t, Gains(t, base.nodes), UNCHANGED <<tree, base_nodes>>,
         base.nodes' = base.nodes + 1, base.cut' <= BaseNodes
  PROVE  Nodes'
<1>1. PICK n \in Nat : n = base.nodes /\ Gains(t, n) /\ base.nodes' = n + 1
  BY NodesAre
<1>2. /\ \A m \in tree : m.node # n
      /\ n \notin ToSet(base_nodes)
      /\ \A u \in Hands : got[u].node # n
  <2>1. n \notin 0 .. n - 1
    OBVIOUS
  <2> QED  BY <1>1, <2>1, NodesAre
<1>3. Apart'
  <2>1. \A u \in Hands' : got'[u].node \notin ToSet(base_nodes) /\ \A m \in tree : m.node # got'[u].node
    BY <1>1, <1>2 DEF IInv, Nodes, Apart, Gains
  <2>2. \A u, v \in Hands' : got'[u].node = got'[v].node => u = v
    BY <1>1, <1>2 DEF IInv, Nodes, Apart, Gains
  <2> QED  BY <2>1, <2>2 DEF IInv, Nodes, Apart
<1>4. {m.node : m \in tree'} \cup ToSet(base_nodes') \cup Holding' = 0 .. base.nodes' - 1
  <2>1. Holding' = Holding \cup {n}
    BY <1>1 DEF Gains
  <2>2. {m.node : m \in tree} \cup ToSet(base_nodes) \cup Holding = 0 .. n - 1
    BY <1>1, NodesAre
  <2>3. 0 .. (n + 1) - 1 = (0 .. n - 1) \cup {n}
    OBVIOUS
  <2> QED  BY <1>1, <2>1, <2>2, <2>3
<1>5. Cardinality(Hands') = Cardinality(Hands) + 1 /\ IsFiniteSet(Hands')
  BY <1>1 DEF Gains
<1>6. Cardinality(tree') + Len(base_nodes') + Cardinality(Hands') = base.nodes'
  BY <1>1, <1>5, NodesAre
<1>7. IsFiniteSet(tree')
  BY NodesAre
<1> QED  BY <1>3, <1>4, <1>5, <1>6, <1>7, NodesNext

(* From a hand to the list.                                                *)
LEMMA OnList ==
  ASSUME IInv, NEW t, NEW n, Loses(t, n), InFront(base_nodes', n, base_nodes), UNCHANGED <<tree, base>>
  PROVE  Nodes'
<1>1. t \in Hands /\ got[t].node = n
  BY DEF Loses
<1>2. n \notin ToSet(base_nodes) /\ \A m \in tree : m.node # n
  BY <1>1 DEF IInv, Nodes, Apart
<1>3. /\ Len(base_nodes') = Len(base_nodes) + 1 /\ ToSet(base_nodes') = ToSet(base_nodes) \cup {n}
      /\ Distinct(base_nodes')
  <2>1. Distinct(base_nodes)
    BY DEF IInv, Nodes, Apart, Distinct
  <2> QED  BY <1>2, <2>1 DEF InFront
<1>4. Apart'
  <2>1. \A m \in tree' : m.node \notin ToSet(base_nodes')
    BY <1>2, <1>3 DEF IInv, Nodes, Apart
  <2>2. \A u \in Hands' : got'[u].node \notin ToSet(base_nodes') /\ \A m \in tree' : m.node # got'[u].node
    BY <1>3 DEF IInv, Nodes, Apart, Loses
  <2>3. \A u, v \in Hands' : got'[u].node = got'[v].node => u = v
    BY DEF IInv, Nodes, Apart, Loses
  <2>4. \A m, k \in tree' : m.node = k.node => m = k
    BY DEF IInv, Nodes, Apart
  <2>5. \A i, j \in 1 .. Len(base_nodes') : base_nodes'[i] = base_nodes'[j] => i = j
    BY <1>3 DEF Distinct
  <2> QED  BY <2>1, <2>2, <2>3, <2>4, <2>5 DEF Apart
<1>5. {m.node : m \in tree'} \cup ToSet(base_nodes') \cup Holding' = 0 .. base.nodes' - 1
  <2>1. Holding' = Holding \ {n} /\ n \in Holding
    BY DEF Loses
  <2> QED  BY <1>3, <2>1, NodesAre
<1>6. Cardinality(Hands') = Cardinality(Hands) - 1 /\ IsFiniteSet(Hands')
  BY DEF Loses
<1>7. Cardinality(tree') + Len(base_nodes') + Cardinality(Hands') = base.nodes'
  BY <1>3, <1>6, NodesAre
<1>8. IsFiniteSet(tree') /\ base.cut' <= BaseNodes
  BY NodesAre
<1> QED  BY <1>4, <1>5, <1>6, <1>7, <1>8, NodesNext

(* From a hand to the tree.                                                *)
LEMMA IntoTree ==
  ASSUME IInv, NEW t, NEW n, Loses(t, n), NEW e, e.node = n, tree' = tree \cup {e},
         UNCHANGED <<base_nodes, base>>
  PROVE  Nodes'
<1>1. t \in Hands /\ got[t].node = n
  BY DEF Loses
<1>2. n \notin ToSet(base_nodes) /\ \A m \in tree : m.node # n
  BY <1>1 DEF IInv, Nodes, Apart
<1>3. e \notin tree
  BY <1>2
<1>4. IsFiniteSet(tree') /\ Cardinality(tree') = Cardinality(tree) + 1
  BY <1>3, NodesAre, FS_AddElement
<1>5. Apart'
  <2>1. \A m \in tree' : m.node \notin ToSet(base_nodes')
    BY <1>2 DEF IInv, Nodes, Apart
  <2>2. \A u \in Hands' : got'[u].node \notin ToSet(base_nodes') /\ \A m \in tree' : m.node # got'[u].node
    BY DEF IInv, Nodes, Apart, Loses
  <2>3. \A u, v \in Hands' : got'[u].node = got'[v].node => u = v
    BY DEF IInv, Nodes, Apart, Loses
  <2>4. \A m, k \in tree' : m.node = k.node => m = k
    BY <1>2 DEF IInv, Nodes, Apart
  <2> QED  BY <2>1, <2>2, <2>3, <2>4 DEF IInv, Nodes, Apart
<1>6. {m.node : m \in tree'} \cup ToSet(base_nodes') \cup Holding' = 0 .. base.nodes' - 1
  <2>1. Holding' = Holding \ {n} /\ n \in Holding
    BY DEF Loses
  <2>2. {m.node : m \in tree'} = {m.node : m \in tree} \cup {n}
    OBVIOUS
  <2> QED  BY <2>1, <2>2, NodesAre
<1>7. Cardinality(Hands') = Cardinality(Hands) - 1 /\ IsFiniteSet(Hands')
  BY DEF Loses
<1>8. Cardinality(tree') + Len(base_nodes') + Cardinality(Hands') = base.nodes'
  BY <1>4, <1>7, NodesAre
<1>9. base.cut' <= BaseNodes
  BY NodesAre
<1> QED  BY <1>4, <1>5, <1>6, <1>7, <1>8, <1>9, NodesNext

(* From the tree to a hand.                                                *)
LEMMA OutOfTree ==
  ASSUME IInv, NEW t, NEW e \in tree, Gains(t, e.node), tree' = tree \ {e}, UNCHANGED <<base_nodes, base>>
  PROVE  Nodes'
<1>1. /\ \A m \in tree' : m \in tree /\ m.node # e.node
      /\ e.node \notin ToSet(base_nodes) /\ \A u \in Hands : got[u].node # e.node
  BY DEF IInv, Nodes, Apart
<1>2. IsFiniteSet(tree') /\ Cardinality(tree') = Cardinality(tree) - 1
  BY NodesAre, FS_RemoveElement
<1>3. Apart'
  <2>1. \A m \in tree' : m.node \notin ToSet(base_nodes')
    BY <1>1 DEF IInv, Nodes, Apart
  <2>2. \A u \in Hands' : got'[u].node \notin ToSet(base_nodes') /\ \A m \in tree' : m.node # got'[u].node
    BY <1>1 DEF IInv, Nodes, Apart, Gains
  <2>3. \A u, v \in Hands' : got'[u].node = got'[v].node => u = v
    BY <1>1 DEF IInv, Nodes, Apart, Gains
  <2>4. \A m, k \in tree' : m.node = k.node => m = k
    BY <1>1 DEF IInv, Nodes, Apart
  <2> QED  BY <2>1, <2>2, <2>3, <2>4 DEF IInv, Nodes, Apart
<1>4. {m.node : m \in tree'} \cup ToSet(base_nodes') \cup Holding' = 0 .. base.nodes' - 1
  <2>1. Holding' = Holding \cup {e.node}
    BY DEF Gains
  <2>2. {m.node : m \in tree'} \cup {e.node} = {m.node : m \in tree}
    OBVIOUS
  <2> QED  BY <2>1, <2>2, NodesAre
<1>5. Cardinality(Hands') = Cardinality(Hands) + 1 /\ IsFiniteSet(Hands')
  BY DEF Gains
<1>6. Cardinality(tree') + Len(base_nodes') + Cardinality(Hands') = base.nodes'
  BY <1>2, <1>5, NodesAre
<1>7. base.cut' <= BaseNodes
  BY NodesAre
<1> QED  BY <1>2, <1>3, <1>4, <1>5, <1>6, <1>7, NodesNext


Others ==
  /\ tree \in SUBSET Extents
  /\ base_nodes \in Seq(Nat)
  /\ base \in [cut : Nat, chunks : SUBSET Nat, nodes : Nat]
  /\ base_mtx \in Threads \cup {Null}
  /\ unaligned \in [Threads -> BOOLEAN]
  /\ objects \in [DOMAIN objects -> [addr : Nat, size : Nat]] /\ DOMAIN objects \subseteq Ids

LEMMA Gone ==
  ASSUME IInv, NEW t \in Threads, NEW k, NEW h, NEW c, Goes(t, k, h, c), Fit(k, h, c, uses[t]),
         UNCHANGED uses, Others', Nodes'
  PROVE  IInv'
<1>1. /\ job \in [Threads -> Jobs] /\ got \in [Threads -> Gets] /\ call \in [Threads -> Clients] /\ uses \in Programs
      /\ \A u \in Threads : Fit(job[u], got[u], call[u], uses[u])
  BY DEF IInv, TypeOK
<1>2. job' \in [Threads -> Jobs] /\ got' \in [Threads -> Gets] /\ call' \in [Threads -> Clients]
  BY <1>1 DEF Goes
<1>3. TypeOK'
  BY <1>1, <1>2 DEF TypeOK, Others
<1>4. ASSUME NEW u \in Threads PROVE Fit(job'[u], got'[u], call'[u], uses'[u])
  <2>1. CASE u = t
    <3>1. job'[u] = k /\ got'[u] = h /\ call'[u] = c
      BY <1>1, <2>1 DEF Goes
    <3> QED  BY <2>1, <3>1
  <2>2. CASE u # t
    <3>1. job'[u] = job[u] /\ got'[u] = got[u] /\ call'[u] = call[u]
      BY <1>1, <2>2 DEF Goes
    <3> QED  BY <1>1, <3>1
  <2> QED  BY <2>1, <2>2
<1> QED  BY <1>3, <1>4 DEF IInv

(* A step that leaves the nodes where they are. *)
LEMMA Quiet ==
  ASSUME IInv, NEW t \in Threads, NEW k, NEW h, NEW c, Goes(t, k, h, c), h.node = got[t].node,
         UNCHANGED <<tree, base_nodes, base>>
  PROVE  Nodes'
<1>1. got \in [Threads -> Gets] /\ h \in Gets /\ got' = [got EXCEPT ![t] = h]
  BY DEF IInv, TypeOK, Goes
<1>2. \A u \in Threads : got'[u].node = got[u].node
  BY <1>1
<1>3. Hands' = Hands
  BY <1>2 DEF Hands
<1>4. \A u \in Hands : got'[u].node = got[u].node
  BY <1>2 DEF Hands
<1>5. Apart'
  BY <1>3, <1>4 DEF IInv, Nodes, Apart
<1>6. NodesKept'
  <2>1. {got'[u].node : u \in Hands} = {got[u].node : u \in Hands}
    BY <1>4
  <2>2. Hands = {u \in Threads : got[u].node # Null} /\ Hands' = {u \in Threads : got'[u].node # Null}
    BY DEF Hands
  <2> QED  BY <1>3, <2>1, <2>2 DEF IInv, Nodes, NodesKept
<1>7. IsFiniteSet(tree') /\ IsFiniteSet(Hands')
  BY <1>3 DEF IInv, Nodes
<1> QED  BY <1>5, <1>6, <1>7 DEF Nodes

LEMMA Known ==
  ASSUME IInv, NEW t \in Threads
  PROVE  /\ job[t] \in Jobs /\ got[t] \in Gets /\ call[t] \in Clients
         /\ Hand(job[t], got[t]) /\ Purpose(job[t], got[t], call[t]) /\ Argued(call[t], uses[t])
<1>1. TypeOK /\ Fit(job[t], got[t], call[t], uses[t])
  BY DEF IInv
<1> QED  BY <1>1, Here DEF Fit

LEMMA MapsPurpose ==
  ASSUME NEW P, NEW Q, NEW j \in Jobs, NEW g \in Gets, NEW k \in Jobs, NEW h \in Gets, NEW c \in Clients,
         Hand(j, g), Purpose(j, g, c), Maps(P, Q, j, g, k, h)
  PROVE  Purpose(k, h, c)
<1>1. /\ j.then \in Thens /\ j.op \in {"chunk", "slow", "extend", "trim"}
      /\ j.op # "trim" => j.then # "free_node"
  <2>1. j.op \in {"chunk", "slow", "extend", "trim"}
    BY DEF Maps, MapFails, MapsAligned, MapsUnaligned, Extends, ExtendFails, TrimsHead, TrimsTail, StartsSlow, MapsSlow
  <2>2. j.op # "trim" => j.then # "free_node"
    BY <2>1 DEF Hand, Allocating
  <2> QED  BY <2>1, <2>2, JobFields
<1>2. /\ \/ k.op \in {"chunk", "slow", "extend", "trim"} /\ k.then = j.then
         \/ k.op = j.then /\ k.then = j.then
         \/ j.op # "trim" /\ k.op \in {"based", "insert"} /\ k.then \in {"based", "insert"}
      /\ j.op = "trim" => h.addr = g.addr /\ k.op \in {"trim", j.then} /\ k.then = j.then
  BY <1>1 DEF Maps, MapFails, MapsAligned, MapsUnaligned, Extends, ExtendFails, TrimsHead, TrimsTail, StartsSlow, MapsSlow,
              Becomes, GetIs, FailOp
<1>3. CASE j.op = "trim" /\ j.then = "free_node"
  BY <1>1, <1>2, <1>3, CallFields DEF Purpose, Thens
<1>4. CASE j.then # "free_node"
  BY <1>1, <1>2, <1>4, CallFields DEF Purpose, Thens
<1> QED  BY <1>1, <1>3, <1>4

LEMMA OthersStay ==
  ASSUME IInv, UNCHANGED <<tree, base_nodes, base, objects>>, base_mtx' \in Threads \cup {Null},
         unaligned' \in [Threads -> BOOLEAN]
  PROVE  Others'
BY DEF IInv, TypeOK, Others

LEMMA Mutexes ==
  ASSUME IInv
  PROVE  base_mtx \in Threads \cup {Null} /\ unaligned \in [Threads -> BOOLEAN] /\ TypeOK
BY DEF IInv, TypeOK

LEMMA MapStepKeeps ==
  ASSUME IInv, NEW t \in Threads, NEW k \in Jobs, NEW h \in Gets, MapStep(t, k, h)
  PROVE  IInv'
<1>1. Goes(t, k, h, call[t]) /\ Maps(pages, pages', job[t], got[t], k, h)
      /\ UNCHANGED <<tree, base_nodes, base, base_mtx, call, objects, uses>>
      /\ unaligned' \in [Threads -> BOOLEAN]
  BY DEF MapStep
<1>2. Hand(k, h) /\ h.node = got[t].node /\ Purpose(k, h, call[t]) /\ Argued(call[t], uses[t])
  BY <1>1, Known, MapsHand, MapsPurpose
<1>3. Others'
  BY <1>1, Mutexes, OthersStay
<1>4. Nodes'
  BY <1>1, <1>2, Quiet
<1> QED  BY <1>1, <1>2, <1>3, <1>4, Gone DEF Fit

(* A new job fits a thread with no node and nothing to move. *)
LEMMA NodeStep ==
  ASSUME IInv, NEW t \in Threads, NEW k \in Jobs, NEW h \in Gets, TakesNode(t, k, h)
  PROVE  IInv'
<1>1. PICK j \in Jobs, g \in Gets, c \in Clients : /\ j = job[t] /\ g = got[t] /\ c = call[t] /\ Hand(j, g)
                                                  /\ Purpose(j, g, c) /\ Argued(c, uses[t])
  BY Known
<1>2. /\ Goes(t, k, h, c) /\ j.op = "node" /\ g.node = Null /\ j.then \in {"align", "insert"}
      /\ UNCHANGED <<pages, tree, base, base_mtx, unaligned, call, objects, uses>>
  BY <1>1 DEF TakesNode, Hand
<1>3. CASE /\ base_nodes # <<>> /\ GetIs(h, base_nodes[1], g.addr) /\ base_nodes' = Tail(base_nodes)
           /\ Becomes(k, j, "chunk", j.then, j.at, j.lead, j.to, j.tail)
  <2>1. PICK n \in Nat : n = base_nodes[1] /\ InFront(base_nodes, n, base_nodes')
    <3>1. base_nodes \in Seq(Nat)
      BY DEF IInv, TypeOK
    <3>2. InFront(base_nodes, base_nodes[1], Tail(base_nodes))
      BY <1>3, <3>1, FrontOf
    <3> QED  BY <1>3, <3>2 DEF InFront
  <2>2. Gains(t, n)
    BY <1>1, <1>2, <1>3, <2>1, HandFills DEF Goes, GetIs
  <2>3. Nodes'
    BY <1>2, <2>1, <2>2, OffList
  <2>4. n # Null
    BY Constants
  <2>5. Hand(k, h)
    BY <1>1, <1>2, <1>3, <2>1, <2>4 DEF Hand, Becomes, GetIs, Allocating
  <2>6. Purpose(k, h, c)
    BY <1>1, <1>2, <1>3 DEF Purpose, Becomes, GetIs
  <2>7. Others'
    BY <1>2, <2>1 DEF Others, IInv, TypeOK, InFront
  <2> QED  BY <1>1, <1>2, <2>3, <2>5, <2>6, <2>7, Gone DEF Fit
<1>4. CASE /\ h = g /\ UNCHANGED base_nodes
           /\ Becomes(k, j, "base", j.then, j.at, j.lead, j.to, j.tail)
  <2>1. Nodes'
    BY <1>1, <1>2, <1>4, Quiet
  <2>2. Hand(k, h)
    BY <1>1, <1>2, <1>4 DEF Hand, Becomes, Allocating
  <2>3. Purpose(k, h, c)
    BY <1>1, <1>2, <1>4 DEF Purpose, Becomes
  <2>4. Others'
    BY <1>2, <1>4, Mutexes, OthersStay
  <2> QED  BY <1>1, <1>2, <2>1, <2>2, <2>3, <2>4, Gone DEF Fit
<1> QED  BY <1>1, <1>3, <1>4 DEF TakesNode

LEMMA BaseStep ==
  ASSUME IInv, NEW t \in Threads, NEW k \in Jobs, NEW h \in Gets, CutsNode(t, k, h)
  PROVE  IInv'
<1>1. PICK j \in Jobs, g \in Gets, c \in Clients : /\ j = job[t] /\ g = got[t] /\ c = call[t] /\ Hand(j, g)
                                                  /\ Purpose(j, g, c) /\ Argued(c, uses[t])
  BY Known
<1>2. /\ Goes(t, k, h, c) /\ j.op = "base" /\ g.node = Null /\ j.then \in {"align", "insert"}
      /\ UNCHANGED <<pages, tree, base_nodes, unaligned, call, objects, uses>>
  BY <1>1 DEF CutsNode, Hand
<1>3. CASE /\ Roomy(base) /\ GetIs(h, base.nodes, g.addr) /\ UNCHANGED base_mtx
           /\ base' = [base EXCEPT !.cut = base.cut + 1, !.nodes = base.nodes + 1]
           /\ Becomes(k, j, "chunk", j.then, j.at, j.lead, j.to, j.tail)
  <2>1. PICK n \in Nat, m \in Nat : n = base.nodes /\ m = base.cut /\ m < BaseNodes /\ n # Null
    BY <1>3, NodesAre, Constants DEF Roomy
  <2>2. base \in [cut : Nat, chunks : SUBSET Nat, nodes : Nat]
    BY DEF IInv, TypeOK
  <2>3. /\ base'.nodes = n + 1 /\ base'.cut = m + 1 /\ m + 1 <= BaseNodes
        /\ base' \in [cut : Nat, chunks : SUBSET Nat, nodes : Nat]
    <3>1. PICK b \in [cut : Nat, chunks : SUBSET Nat, nodes : Nat] : b = base /\ b.nodes = n /\ b.cut = m
      BY <2>1, <2>2
    <3>2. PICK x \in Nat, y \in Nat : x = m + 1 /\ y = n + 1 /\ x <= BaseNodes
      BY <2>1, Constants
    <3>3. base' = [b EXCEPT !.cut = x, !.nodes = y]
      BY <1>3, <3>1, <3>2
    <3>4. base' \in [cut : Nat, chunks : SUBSET Nat, nodes : Nat] /\ base'.nodes = y /\ base'.cut = x
      BY <3>3
    <3> QED  BY <3>2, <3>4
  <2>4. Gains(t, n)
    BY <1>1, <1>2, <1>3, <2>1, HandFills DEF Goes, GetIs
  <2>5. Nodes'
    BY <1>2, <2>1, <2>3, <2>4, OffBase
  <2>6. Hand(k, h)
    BY <1>1, <1>2, <1>3, <2>1 DEF Hand, Becomes, GetIs, Allocating
  <2>7. Purpose(k, h, c)
    BY <1>1, <1>2, <1>3 DEF Purpose, Becomes, GetIs
  <2>8. Others'
    BY <1>2, <1>3, <2>3 DEF Others, IInv, TypeOK
  <2> QED  BY <1>1, <1>2, <2>5, <2>6, <2>7, <2>8, Gone DEF Fit
<1>4. CASE /\ h = g /\ UNCHANGED base /\ base_mtx' = t
           /\ Becomes(k, j, "chunk", "based", j.at, j.lead, j.to, j.tail)
  <2>1. Nodes'
    BY <1>1, <1>2, <1>4, Quiet
  <2>2. Hand(k, h)
    BY <1>1, <1>2, <1>4 DEF Hand, Becomes, Allocating
  <2>3. Purpose(k, h, c)
    BY <1>1, <1>2, <1>4 DEF Purpose, Becomes
  <2>4. Others'
    BY <1>2, <1>4, Mutexes, OthersStay
  <2> QED  BY <1>1, <1>2, <2>1, <2>2, <2>3, <2>4, Gone DEF Fit
<1> QED  BY <1>1, <1>3, <1>4 DEF CutsNode

LEMMA BasedStep ==
  ASSUME IInv, NEW t \in Threads, NEW k \in Jobs, NEW h \in Gets, CutsFirst(t, k, h)
  PROVE  IInv'
<1>1. PICK j \in Jobs, g \in Gets, c \in Clients : /\ j = job[t] /\ g = got[t] /\ c = call[t] /\ Hand(j, g)
                                                  /\ Purpose(j, g, c) /\ Argued(c, uses[t])
  BY Known
<1>2. /\ Goes(t, k, h, c) /\ j.op = "based" /\ g.node = Null /\ base_mtx' = Null
      /\ UNCHANGED <<tree, base_nodes, unaligned, call, objects, uses>>
  BY <1>1 DEF CutsFirst, Hand
<1>3. CASE /\ g.addr = Null /\ h = g /\ UNCHANGED <<pages, base>>
           /\ Becomes(k, j, "insert", "insert", j.at, j.lead, j.to, j.tail)
  <2>1. Nodes'
    BY <1>1, <1>2, <1>3, Quiet
  <2>2. Hand(k, h)
    BY <1>1, <1>2, <1>3 DEF Hand, Becomes, Allocating
  <2>3. Purpose(k, h, c)
    BY <1>1, <1>2, <1>3 DEF Purpose, Becomes
  <2>4. Others'
    BY <1>2, <1>3, Mutexes, OthersStay
  <2> QED  BY <1>1, <1>2, <2>1, <2>2, <2>3, <2>4, Gone DEF Fit
<1>4. CASE /\ g.addr \in Nat /\ GetIs(h, base.nodes, Null)
           /\ base' = [cut |-> 1, chunks |-> base.chunks \cup {g.addr}, nodes |-> base.nodes + 1]
           /\ Becomes(k, j, "chunk", NextOf(j), j.at, j.lead, j.to, j.tail)
  <2>1. PICK n \in Nat, p \in Nat : n = base.nodes /\ p = g.addr /\ n # Null
    BY <1>4, NodesAre, Constants
  <2>2. base.chunks \cup {p} \in SUBSET Nat
    BY DEF IInv, TypeOK
  <2>3. /\ base'.nodes = n + 1 /\ base'.cut <= BaseNodes
        /\ base' \in [cut : Nat, chunks : SUBSET Nat, nodes : Nat]
    <3>1. n + 1 \in Nat /\ 1 \in Nat /\ 1 <= BaseNodes
      BY Constants
    <3> QED  BY <1>4, <2>1, <2>2, <3>1
  <2>4. Gains(t, n)
    BY <1>1, <1>2, <1>4, <2>1, HandFills DEF Goes, GetIs
  <2>5. Nodes'
    BY <1>2, <2>1, <2>3, <2>4, OffBase
  <2>6. Hand(k, h)
    BY <1>1, <1>2, <1>4, <2>1 DEF Hand, Becomes, GetIs, Allocating, NextOf
  <2>7. Purpose(k, h, c)
    BY <1>1, <1>2, <1>4 DEF Purpose, Becomes, GetIs
  <2>8. Others'
    BY <1>2, <2>3 DEF Others, IInv, TypeOK
  <2> QED  BY <1>1, <1>2, <2>5, <2>6, <2>7, <2>8, Gone DEF Fit
<1> QED  BY <1>1, <1>3, <1>4 DEF CutsFirst

LEMMA FreeStep ==
  ASSUME IInv, NEW t \in Threads, NEW k \in Jobs, NEW h \in Gets, FreesNode(t, k, h)
  PROVE  IInv'
<1>1. PICK j \in Jobs, g \in Gets, c \in Clients : /\ j = job[t] /\ g = got[t] /\ c = call[t] /\ Hand(j, g)
                                                  /\ Purpose(j, g, c) /\ Argued(c, uses[t])
  BY Known
<1>2. /\ Goes(t, k, h, c) /\ j.op = "free_node" /\ g.node # Null /\ base_nodes' = <<g.node>> \o base_nodes
      /\ Fresh(k, IF c.moving THEN "moved" ELSE "give") /\ GetIs(h, Null, g.addr)
      /\ UNCHANGED <<pages, tree, base, base_mtx, unaligned, call, objects, uses>>
  BY <1>1 DEF FreesNode, Hand, Handler
<1>3. PICK n \in Nat : n = g.node /\ n # Null
  BY <1>2, Constants DEF Gets, Addresses
<1>4. InFront(base_nodes', n, base_nodes)
  BY <1>2, <1>3, ToFront DEF IInv, TypeOK
<1>5. Loses(t, n)
  BY <1>1, <1>2, <1>3, HandEmpties DEF Goes, GetIs
<1>6. Nodes'
  BY <1>2, <1>4, <1>5, OnList
<1>7. Hand(k, h)
  BY <1>2 DEF Hand, Fresh, GetIs, Allocating
<1>8. Purpose(k, h, c)
  BY <1>1, <1>2, CallFields DEF Purpose, Fresh, GetIs
<1>9. Others'
  BY <1>2, <1>4 DEF Others, IInv, TypeOK, InFront
<1> QED  BY <1>1, <1>2, <1>6, <1>7, <1>8, <1>9, Gone DEF Fit

LEMMA AlignStep ==
  ASSUME IInv, NEW t \in Threads, NEW k \in Jobs, NEW h \in Gets, Aligns(t, k, h)
  PROVE  IInv'
<1>1. PICK j \in Jobs, g \in Gets, c \in Clients : /\ j = job[t] /\ g = got[t] /\ c = call[t] /\ Hand(j, g)
                                                  /\ Purpose(j, g, c) /\ Argued(c, uses[t])
  BY Known
<1>2. /\ Goes(t, k, h, c) /\ j.op = "align" /\ g.node # Null
      /\ UNCHANGED <<pages, tree, base_nodes, base, base_mtx, unaligned, call, objects, uses>>
      /\ h.node = g.node /\ h.addr = g.addr + k.lead /\ g.addr \in Nat /\ k.op \in {"insert", "trim"} /\ k.then = "insert"
  BY <1>1 DEF Aligns, Hand, Becomes, GetIs
<1>3. h.addr \in Nat /\ h.addr # Null /\ h \in Gets
  <2>1. k.lead \in Nat
    BY JobFields
  <2>2. g.addr + k.lead \in Nat
    BY <1>2, <2>1
  <2> QED  BY <1>2, <2>2, Constants
<1>4. Nodes'
  BY <1>1, <1>2, Quiet
<1>5. Hand(k, h)
  BY <1>2, <1>3 DEF Hand, Allocating
<1>6. Purpose(k, h, c)
  BY <1>1, <1>2, <1>3, CallFields DEF Purpose
<1>7. Others'
  BY <1>2, Mutexes, OthersStay
<1> QED  BY <1>1, <1>2, <1>4, <1>5, <1>6, <1>7, Gone DEF Fit

LEMMA InsertStep ==
  ASSUME IInv, NEW t \in Threads, NEW k \in Jobs, NEW h \in Gets, Inserts(t, k, h)
  PROVE  IInv'
<1>1. PICK j \in Jobs, g \in Gets, c \in Clients : /\ j = job[t] /\ g = got[t] /\ c = call[t] /\ Hand(j, g)
                                                  /\ Purpose(j, g, c) /\ Argued(c, uses[t])
  BY Known
<1>2. /\ Goes(t, k, h, c) /\ j.op = "insert" /\ (g.node = Null => g.addr = Null)
      /\ UNCHANGED <<pages, base_nodes, base, base_mtx, unaligned, call, objects, uses>>
  BY <1>1 DEF Inserts, Hand
<1>3. CASE /\ g.addr = Null /\ h = g /\ UNCHANGED tree
           /\ Fresh(k, IF g.node = Null THEN IF c.moving THEN "moved" ELSE "give" ELSE "free_node")
  <2>1. Nodes'
    BY <1>1, <1>2, <1>3, Quiet
  <2>2. Hand(k, h)
    BY <1>2, <1>3 DEF Hand, Fresh, Allocating
  <2>3. Purpose(k, h, c)
    BY <1>1, <1>2, <1>3, CallFields DEF Purpose, Fresh
  <2>4. Others'
    BY <1>2, <1>3, Mutexes, OthersStay
  <2> QED  BY <1>1, <1>2, <2>1, <2>2, <2>3, <2>4, Gone DEF Fit
<1>4. CASE /\ g.addr \in Nat /\ GetIs(h, Null, g.addr) /\ Fresh(k, IF c.moving THEN "moved" ELSE "give")
           /\ \E e : /\ e = [node |-> g.node, addr |-> g.addr, size |-> j.need]
                     /\ tree' = tree \cup {e}
  <2>1. PICK n \in Nat, p \in Nat, m \in Nat : n = g.node /\ p = g.addr /\ m = j.need /\ n # Null
    <3>1. g.node # Null /\ g.node \in Addresses
      BY <1>2, <1>4, Constants DEF Gets
    <3> QED  BY <1>4, <3>1, JobFields DEF Addresses
  <2>2. PICK e : e = [node |-> n, addr |-> p, size |-> m] /\ tree' = tree \cup {e}
    BY <1>4, <2>1
  <2>3. e \in Extents /\ e.node = n
    BY <2>2 DEF Extents
  <2>4. Loses(t, n)
    BY <1>1, <1>2, <1>4, <2>1, HandEmpties DEF Goes, GetIs
  <2>5. Nodes'
    BY <1>2, <2>2, <2>3, <2>4, IntoTree
  <2>6. Hand(k, h)
    BY <1>4 DEF Hand, Fresh, GetIs, Allocating
  <2>7. Purpose(k, h, c)
    BY <1>1, <1>2, <1>4, CallFields DEF Purpose, Fresh, GetIs
  <2>8. Others'
    BY <1>2, <2>2, <2>3 DEF Others, IInv, TypeOK
  <2> QED  BY <1>1, <1>2, <2>5, <2>6, <2>7, <2>8, Gone DEF Fit
<1> QED  BY <1>1, <1>3, <1>4 DEF Inserts, Handler

LEMMA UntrackStep ==
  ASSUME IInv, NEW t \in Threads, NEW k \in Jobs, NEW h \in Gets, NEW c \in Clients, Untracks(t, k, h, c)
  PROVE  IInv'
<1>1. PICK j \in Jobs, g \in Gets, b \in Clients : /\ j = job[t] /\ g = got[t] /\ b = call[t] /\ Hand(j, g)
                                                  /\ Purpose(j, g, b) /\ Argued(b, uses[t])
  BY Known
<1>2. /\ Goes(t, k, h, c) /\ j.op = "untrack" /\ g.node = Null /\ ~b.moving
      /\ CallIs(c, b.what, b.id, Null, b.moving, b.unmap, b.kept)
      /\ UNCHANGED <<pages, base_nodes, base, base_mtx, unaligned, objects, uses>>
  BY <1>1 DEF Untracks, Hand, Purpose
<1>3. PICK e \in tree :
       /\ e.addr = b.from /\ tree' = tree \ {e} /\ GetIs(h, e.node, g.addr)
       /\ IF b.unmap
          THEN Becomes(k, j, IF e.size = 0 THEN "free_node" ELSE "trim", "free_node", e.addr, e.size, 0, 0)
          ELSE Fresh(k, "free_node")
  BY <1>1 DEF Untracks
<1>4. PICK n \in Nat : n = e.node /\ n # Null
  BY Mutexes, ExtentTyped, Constants
<1>5. k.op \in {"free_node", "trim"} /\ k.then \in {"insert", "free_node"} /\ (k.op = "trim" => k.then = "free_node")
  BY <1>3 DEF Becomes, Fresh
<1>6. h.node = n /\ h.addr = g.addr
  BY <1>3, <1>4 DEF GetIs
<1>7. Gains(t, n)
  BY <1>1, <1>2, <1>6, HandFills DEF Goes
<1>8. Nodes'
  BY <1>2, <1>3, <1>4, <1>7, OutOfTree
<1>9. Hand(k, h)
  BY <1>4, <1>5, <1>6, JobFields DEF Hand, Allocating
<1>10. Purpose(k, h, c)
  BY <1>1, <1>2, <1>5, <1>6, CallFields DEF Purpose, CallIs
<1>11. Argued(c, uses[t])
  BY <1>1, <1>2 DEF Argued, CallIs
<1>12. Others'
  BY <1>2, <1>3 DEF Others, IInv, TypeOK
<1> QED  BY <1>2, <1>8, <1>9, <1>10, <1>11, <1>12, Gone DEF Fit

LEMMA OwnsTyped ==
  ASSUME TypeOK, NEW id \in Ids, NEW p \in Nat, NEW n \in Nat, Owns(id, p, n)
  PROVE  /\ objects' \in [DOMAIN objects' -> [addr : Nat, size : Nat]] /\ DOMAIN objects' = DOMAIN objects \cup {id}
         /\ DOMAIN objects' \subseteq Ids /\ objects'[id].addr = p /\ objects'[id].size = n
         /\ \A i \in DOMAIN objects : i # id => objects'[i] = objects[i]
<1>0. PICK r : r = [addr |-> p, size |-> n]
  OBVIOUS
<1>1. r = [addr |-> p, size |-> n] /\ r \in [addr : Nat, size : Nat] /\ r.addr = p /\ r.size = n
  BY <1>0
<1>2. objects' = [i \in DOMAIN objects \cup {id} |-> IF i = id THEN r ELSE objects[i]]
  BY <1>1 DEF Owns
<1>3. DOMAIN objects' = DOMAIN objects \cup {id}
  BY <1>2
<1>4. \A i \in DOMAIN objects : objects[i] \in [addr : Nat, size : Nat]
  BY DEF TypeOK
<1>5. \A i \in DOMAIN objects \cup {id} : objects'[i] \in [addr : Nat, size : Nat]
  BY <1>1, <1>2, <1>4
<1>6. objects' \in [DOMAIN objects' -> [addr : Nat, size : Nat]]
  BY <1>2, <1>3, <1>5
<1> QED  BY <1>1, <1>2, <1>3, <1>6 DEF TypeOK

LEMMA DisownsTyped ==
  ASSUME TypeOK, NEW id, Disowns(id)
  PROVE  /\ objects' \in [DOMAIN objects' -> [addr : Nat, size : Nat]] /\ DOMAIN objects' = DOMAIN objects \ {id}
         /\ DOMAIN objects' \subseteq Ids /\ \A i \in DOMAIN objects' : objects'[i] = objects[i]
<1>1. objects' = [i \in DOMAIN objects \ {id} |-> objects[i]]
  BY DEF Disowns
<1>2. \A i \in DOMAIN objects : objects[i] \in [addr : Nat, size : Nat]
  BY DEF TypeOK
<1>3. DOMAIN objects' = DOMAIN objects \ {id}
  BY <1>1
<1>4. \A i \in DOMAIN objects' : objects'[i] \in [addr : Nat, size : Nat]
  BY <1>1, <1>2, <1>3
<1>5. objects' \in [DOMAIN objects' -> [addr : Nat, size : Nat]]
  BY <1>1, <1>3, <1>4
<1> QED  BY <1>1, <1>3, <1>5 DEF TypeOK

LEMMA OthersOwn ==
  ASSUME IInv, UNCHANGED <<tree, base_nodes, base, base_mtx, unaligned>>,
         objects' \in [DOMAIN objects' -> [addr : Nat, size : Nat]], DOMAIN objects' \subseteq Ids
  PROVE  Others'
BY DEF IInv, TypeOK, Others

LEMMA OpensHand ==
  ASSUME NEW k, NEW failed \in Handlers, NEW g, Opens(k, failed), g.node = Null, g.addr = Null
  PROVE  Hand(k, g) /\ k.op \in {"node", failed}
BY DEF Opens, Fresh, Hand, Allocating, Handlers

LEMMA MallocStep ==
  ASSUME IInv, NEW t \in Threads, NEW k \in Jobs, NEW c \in Clients, MallocsOf(t, k, c)
  PROVE  IInv'
<1>1. PICK j \in Jobs, g \in Gets, b \in Clients : /\ j = job[t] /\ g = got[t] /\ b = call[t] /\ Hand(j, g)
                                                  /\ Purpose(j, g, b) /\ Argued(b, uses[t])
  BY Known
<1>2. /\ Goes(t, k, g, c) /\ j.op = "idle" /\ "malloc" \in uses[t].calls /\ c.id \in Ids
      /\ CallIs(c, "malloc", c.id, Null, FALSE, FALSE, 0) /\ Opens(k, "give") /\ g.node = Null /\ g.addr = Null
      /\ UNCHANGED <<pages, tree, base_nodes, base, base_mtx, unaligned, got, objects, uses>>
  BY <1>1 DEF MallocsOf, Hand
<1>3. Hand(k, g) /\ k.op \in {"node", "give"}
  BY <1>2, OpensHand DEF Handlers
<1>4. Purpose(k, g, c)
  BY <1>1, <1>2, <1>3 DEF Purpose, CallIs
<1>5. Argued(c, uses[t])
  BY <1>2 DEF Argued, CallIs
<1>6. Nodes' /\ Others'
  BY <1>1, <1>2, Quiet, Mutexes, OthersStay
<1> QED  BY <1>2, <1>3, <1>4, <1>5, <1>6, Gone DEF Fit

LEMMA GiveStep ==
  ASSUME IInv, NEW t \in Threads, NEW k \in Jobs, NEW h \in Gets, Gives(t, k, h)
  PROVE  IInv'
<1>1. PICK j \in Jobs, g \in Gets, b \in Clients : /\ j = job[t] /\ g = got[t] /\ b = call[t] /\ Hand(j, g)
                                                  /\ Purpose(j, g, b) /\ Argued(b, uses[t])
  BY Known
<1>2. /\ Goes(t, k, h, NoCall) /\ j.op = "give" /\ g.node = Null /\ Fresh(k, "idle") /\ GetIs(h, Null, Null)
      /\ UNCHANGED <<tree, base_nodes, base, base_mtx, unaligned, uses>> /\ b.id \in Ids
  BY <1>1 DEF Gives, Hand, Purpose
<1>3. Hand(k, h)
  BY <1>2 DEF Hand, Fresh, GetIs, Allocating
<1>4. Purpose(k, h, NoCall) /\ Argued(NoCall, uses[t])
  BY <1>2, CallNone DEF Purpose, Argued, CallIs, Fresh, GetIs
<1>5. Nodes'
  BY <1>1, <1>2, Quiet DEF GetIs
<1>6. objects' \in [DOMAIN objects' -> [addr : Nat, size : Nat]] /\ DOMAIN objects' \subseteq Ids
  <2>1. CASE UNCHANGED objects
    BY <2>1 DEF IInv, TypeOK
  <2>2. CASE \E e \in tree : Owns(b.id, e.addr, e.size)
    BY <1>2, <2>2, Mutexes, ExtentTyped, OwnsTyped
  <2> QED  BY <1>1, <2>1, <2>2 DEF Gives
<1>7. Others'
  BY <1>2, <1>6, OthersOwn
<1> QED  BY <1>2, <1>3, <1>4, <1>5, <1>7, Gone DEF Fit

LEMMA DallocStep ==
  ASSUME IInv, NEW t \in Threads, NEW k \in Jobs, NEW c \in Clients, NEW id \in DOMAIN objects, DallocsOf(t, k, c, id)
  PROVE  IInv'
<1>1. PICK j \in Jobs, g \in Gets, b \in Clients : /\ j = job[t] /\ g = got[t] /\ b = call[t] /\ Hand(j, g)
                                                  /\ Purpose(j, g, b) /\ Argued(b, uses[t])
  BY Known
<1>2. PICK p \in Nat : p = objects[id].addr /\ id \in Ids /\ p # Null
  BY Mutexes, ObjectTyped, Constants
<1>3. /\ Goes(t, k, g, c) /\ j.op = "idle" /\ "dalloc" \in uses[t].calls
      /\ CallIs(c, "dalloc", id, p, FALSE, TRUE, 0) /\ Fresh(k, "untrack") /\ g.node = Null
      /\ Disowns(id) /\ UNCHANGED <<pages, tree, base_nodes, base, base_mtx, unaligned, got, uses>>
  BY <1>1, <1>2 DEF DallocsOf, Hand
<1>4. Hand(k, g)
  BY <1>3 DEF Hand, Fresh, Allocating
<1>5. g.addr = Null
  BY <1>1, <1>3 DEF Hand
<1>6. Purpose(k, g, c) /\ Argued(c, uses[t])
  BY <1>2, <1>3, <1>5 DEF Purpose, Argued, CallIs, Fresh
<1>7. Nodes' /\ Others'
  BY <1>1, <1>3, Quiet, Mutexes, DisownsTyped, OthersOwn
<1> QED  BY <1>3, <1>4, <1>6, <1>7, Gone DEF Fit

LEMMA RallocStep ==
  ASSUME IInv, NEW t \in Threads, NEW k \in Jobs, NEW c \in Clients, NEW id \in DOMAIN objects, RallocsOf(t, k, c, id)
  PROVE  IInv'
<1>1. PICK j \in Jobs, g \in Gets, b \in Clients : /\ j = job[t] /\ g = got[t] /\ b = call[t] /\ Hand(j, g)
                                                  /\ Purpose(j, g, b) /\ Argued(b, uses[t])
  BY Known
<1>2. PICK p \in Nat : p = objects[id].addr /\ id \in Ids /\ p # Null
  BY Mutexes, ObjectTyped, Constants
<1>3. /\ Goes(t, k, g, c) /\ j.op = "idle" /\ "ralloc" \in uses[t].calls
      /\ CallIs(c, "ralloc", id, p, TRUE, FALSE, 0) /\ Opens(k, "moved") /\ g.node = Null /\ g.addr = Null
      /\ c.size \in uses[t].sizes /\ c.alignment \in uses[t].aligns /\ c.extra \in uses[t].extras
      /\ c.size + c.extra < SizeMod /\ (c.misaligned => c.alignment # 0)
      /\ Disowns(id) /\ UNCHANGED <<pages, tree, base_nodes, base, base_mtx, unaligned, got, uses>>
  BY <1>1, <1>2 DEF RallocsOf, Hand
<1>4. Hand(k, g) /\ k.op \in {"node", "moved"}
  BY <1>3, OpensHand DEF Handlers
<1>5. Purpose(k, g, c)
  BY <1>2, <1>3, <1>4 DEF Purpose, CallIs
<1>6. Argued(c, uses[t])
  BY <1>3 DEF Argued, CallIs
<1>7. Nodes' /\ Others'
  BY <1>1, <1>3, Quiet, Mutexes, DisownsTyped, OthersOwn
<1> QED  BY <1>3, <1>4, <1>5, <1>6, <1>7, Gone DEF Fit

LEMMA AgainStep ==
  ASSUME IInv, NEW t \in Threads, NEW k \in Jobs, NEW c \in Clients, TriesAgain(t, k, c)
  PROVE  IInv'
<1>1. PICK j \in Jobs, g \in Gets, b \in Clients : /\ j = job[t] /\ g = got[t] /\ b = call[t] /\ Hand(j, g)
                                                  /\ Purpose(j, g, b) /\ Argued(b, uses[t])
  BY Known
<1>2. /\ Goes(t, k, g, c) /\ j.op = "moved" /\ g.addr = Null /\ Opens(k, "moved") /\ g.node = Null /\ b.moving
      /\ CallIs(c, b.what, b.id, b.from, b.moving, b.unmap, b.kept)
      /\ Moves(c, b.oldsize, b.size, 0, b.alignment, b.misaligned)
      /\ UNCHANGED <<pages, tree, base_nodes, base, base_mtx, unaligned, got, objects, uses>>
  BY <1>1 DEF TriesAgain, Hand, Purpose
<1>3. Hand(k, g) /\ k.op \in {"node", "moved"}
  BY <1>2, OpensHand DEF Handlers
<1>4. Purpose(k, g, c)
  BY <1>1, <1>2, <1>3, CallFields DEF Purpose, CallIs
<1>5. Argued(c, uses[t])
  <2>1. b.size \in Nat /\ b.size + 0 < SizeMod
    <3>1. b.size \in Nat /\ b.size < SizeMod
      BY <1>1, <1>2, Mutexes, UsesTyped DEF Argued
    <3> QED  BY <3>1
  <2> QED  BY <1>1, <1>2, <2>1 DEF Argued, CallIs, Moves
<1>6. Nodes' /\ Others'
  BY <1>1, <1>2, Quiet, Mutexes, OthersStay
<1> QED  BY <1>2, <1>3, <1>4, <1>5, <1>6, Gone DEF Fit

LEMMA GiveUpStep ==
  ASSUME IInv, NEW t \in Threads, NEW k \in Jobs, GivesUp(t, k)
  PROVE  IInv'
<1>1. PICK j \in Jobs, g \in Gets, b \in Clients : /\ j = job[t] /\ g = got[t] /\ b = call[t] /\ Hand(j, g)
                                                  /\ Purpose(j, g, b) /\ Argued(b, uses[t])
  BY Known
<1>2. /\ Goes(t, k, g, NoCall) /\ j.op = "moved" /\ g.addr = Null /\ Fresh(k, "idle") /\ g.node = Null /\ b.moving
      /\ Owns(b.id, b.from, b.oldsize)
      /\ UNCHANGED <<pages, tree, base_nodes, base, base_mtx, unaligned, got, uses>>
  BY <1>1 DEF GivesUp, Hand, Purpose
<1>3. Hand(k, g)
  BY <1>2 DEF Hand, Fresh, Allocating
<1>4. Purpose(k, g, NoCall) /\ Argued(NoCall, uses[t])
  BY <1>2, CallNone DEF Purpose, Argued, CallIs, Fresh
<1>5. b.id \in Ids /\ b.from \in Nat /\ b.oldsize \in Nat
  <2>1. b.id \in Ids /\ b.from # Null
    BY <1>1, <1>2 DEF Purpose
  <2> QED  BY <2>1, CallFields DEF Addresses
<1>6. Nodes' /\ Others'
  BY <1>1, <1>2, <1>5, Quiet, Mutexes, OwnsTyped, OthersOwn
<1> QED  BY <1>2, <1>3, <1>4, <1>6, Gone DEF Fit

LEMMA MovingStep ==
  ASSUME IInv, NEW t \in Threads, NEW k \in Jobs, NEW c \in Clients, NEW unmap, Moving(t, k, c, unmap)
  PROVE  IInv'
<1>1. PICK j \in Jobs, g \in Gets, b \in Clients : /\ j = job[t] /\ g = got[t] /\ b = call[t] /\ Hand(j, g)
                                                  /\ Purpose(j, g, b) /\ Argued(b, uses[t])
  BY Known
<1>2. /\ Goes(t, k, g, c) /\ j.op = "moved" /\ Fresh(k, "untrack") /\ g.node = Null /\ b.moving
      /\ CallIs(c, "ralloc", b.id, b.from, FALSE, unmap, c.kept)
      /\ UNCHANGED <<tree, base_nodes, base, base_mtx, unaligned, got, objects, uses>>
  BY <1>1 DEF Moving, Hand, Purpose
<1>3. Hand(k, g)
  BY <1>2 DEF Hand, Fresh, Allocating
<1>4. b.what = "ralloc" /\ "ralloc" \in uses[t].calls
  BY <1>1, <1>2 DEF Argued
<1>5. Purpose(k, g, c) /\ Argued(c, uses[t])
  BY <1>1, <1>2, <1>4 DEF Purpose, Argued, CallIs, Fresh
<1>6. Nodes' /\ Others'
  BY <1>1, <1>2, Quiet, Mutexes, OthersStay
<1> QED  BY <1>2, <1>3, <1>5, <1>6, Gone DEF Fit

-----------------------------------------------------------------------------
(* The step of a thread, in these forms. *)
Advances(t) ==
  \/ \E k \in Jobs, h \in Gets :
       \/ MapStep(t, k, h) \/ TakesNode(t, k, h) \/ CutsNode(t, k, h) \/ CutsFirst(t, k, h)
       \/ FreesNode(t, k, h) \/ Aligns(t, k, h) \/ Inserts(t, k, h) \/ Gives(t, k, h)
  \/ \E k \in Jobs, h \in Gets, c \in Clients : Untracks(t, k, h, c)
  \/ \E k \in Jobs, c \in Clients : MallocsOf(t, k, c) \/ TriesAgain(t, k, c)
  \/ \E k \in Jobs : GivesUp(t, k)
  \/ \E id \in DOMAIN objects : \E k \in Jobs, c \in Clients : DallocsOf(t, k, c, id) \/ RallocsOf(t, k, c, id)
  \/ \E k \in Jobs, c \in Clients :
       \/ CopyObject(t) /\ Moving(t, k, c, TRUE)
       \/ RemapObject(t) /\ Moving(t, k, c, FALSE)

LEMMA Advancing ==
  ASSUME IInv, Next
  PROVE  \E t \in Threads : Advances(t)
<1>1. TypeOK /\ \A t \in Threads : Hand(job[t], got[t]) /\ Argued(call[t], uses[t])
                                   /\ (job[t].op = "moved" => call[t].moving)
  BY Known DEF IInv, Purpose
<1>2. ASSUME NEW t \in Threads,
             MapFast(t) \/ Extend(t) \/ TrimHead(t) \/ TrimTail(t) \/ StartSlow(t) \/ MapSlow(t)
      PROVE  Advances(t)
  <2>1. \E k \in Jobs, h \in Gets : MapStep(t, k, h)
    BY <1>1, <1>2, MapFastForm, ExtendForm, TrimForm, MapSlowForm
  <2> QED  BY <2>1 DEF Advances
<1>3. ASSUME NEW t \in Threads, TakeNode(t) \/ CutNode(t) \/ CutFirst(t) PROVE Advances(t)
  <2>1. \E k \in Jobs, h \in Gets : TakesNode(t, k, h) \/ CutsNode(t, k, h) \/ CutsFirst(t, k, h)
    BY <1>1, <1>3, TakeNodeForm, CutNodeForm, CutFirstForm
  <2> QED  BY <2>1 DEF Advances
<1>4. ASSUME NEW t \in Threads, base_node_dealloc(t) \/ AlignChunk(t) \/ Insert(t) \/ Give(t) PROVE Advances(t)
  <2>1. \E k \in Jobs, h \in Gets : FreesNode(t, k, h) \/ Aligns(t, k, h) \/ Inserts(t, k, h) \/ Gives(t, k, h)
    BY <1>1, <1>4, FreeNodeForm, AlignChunkForm, InsertForm, GiveForm
  <2> QED  BY <2>1 DEF Advances
<1>5. ASSUME NEW t \in Threads, Untrack(t) PROVE Advances(t)
  <2>1. \E k \in Jobs, h \in Gets, c \in Clients : Untracks(t, k, h, c)
    BY <1>1, <1>5, UntrackForm
  <2> QED  BY <2>1 DEF Advances
<1>6. ASSUME NEW t \in Threads,
             \E size \in uses[t].sizes, alignment \in uses[t].aligns : CallMalloc(t, size, alignment)
      PROVE  Advances(t)
  <2>1. \E k \in Jobs, c \in Clients : MallocsOf(t, k, c)
    BY <1>1, <1>6, CallMallocForm
  <2> QED  BY <2>1 DEF Advances
<1>7. ASSUME NEW t \in Threads, NEW id \in DOMAIN objects, CallDalloc(t, id) PROVE Advances(t)
  <2>1. \E k \in Jobs, c \in Clients : DallocsOf(t, k, c, id)
    BY <1>1, <1>7, CallDallocForm
  <2> QED  BY <2>1 DEF Advances
<1>8. ASSUME NEW t \in Threads, NEW id \in DOMAIN objects,
             \E size \in uses[t].sizes, extra \in uses[t].extras, alignment \in uses[t].aligns :
               CallRalloc(t, id, size, extra, alignment)
      PROVE  Advances(t)
  <2>1. \E k \in Jobs, c \in Clients : RallocsOf(t, k, c, id)
    BY <1>1, <1>8, CallRallocForm
  <2> QED  BY <2>1 DEF Advances
<1>9. ASSUME NEW t \in Threads, NotMoved(t) PROVE Advances(t)
  <2>1. job[t].op = "moved"
    BY <1>9 DEF NotMoved, Task
  <2>2. \E k \in Jobs : GivesUp(t, k) \/ \E c \in Clients : TriesAgain(t, k, c)
    BY <1>1, <1>9, <2>1, NotMovedForm
  <2> QED  BY <2>2 DEF Advances
<1>10. ASSUME NEW t \in Threads, CopyObject(t) PROVE Advances(t)
  <2>1. /\ Moved(t, TRUE) /\ job[t].op = "moved" /\ got[t].addr # Null
        /\ UNCHANGED <<tree, base_nodes, base, base_mtx, unaligned, got, objects, uses>>
    BY <1>10 DEF CopyObject, Task
  <2>2. \E k \in Jobs, c \in Clients : Moving(t, k, c, TRUE)
    BY <1>1, <2>1, MovedForm
  <2> QED  BY <1>10, <2>2 DEF Advances
<1>11. ASSUME NEW t \in Threads, RemapObject(t) PROVE Advances(t)
  <2>1. /\ Moved(t, FALSE) /\ job[t].op = "moved" /\ got[t].addr # Null
        /\ UNCHANGED <<tree, base_nodes, base, base_mtx, unaligned, got, objects, uses>>
    BY <1>11 DEF RemapObject, Task
  <2>2. \E k \in Jobs, c \in Clients : Moving(t, k, c, FALSE)
    BY <1>1, <2>1, MovedForm
  <2> QED  BY <1>11, <2>2 DEF Advances
<1> QED  BY <1>2, <1>3, <1>4, <1>5, <1>6, <1>7, <1>8, <1>9, <1>10, <1>11 DEF Next

LEMMA Initially == Init => IInv
<1> SUFFICES ASSUME Init PROVE IInv
  OBVIOUS
<1>1. tree = {} /\ base_nodes = <<>> /\ base = [cut |-> BaseNodes - 1, chunks |-> {0}, nodes |-> 0]
  BY DEF Init
<1>2. BaseNodes \in Nat /\ BaseNodes - 1 \in Nat /\ BaseNodes - 1 <= BaseNodes
  BY Constants
<1>3. base \in [cut : Nat, chunks : SUBSET Nat, nodes : Nat] /\ base.cut <= BaseNodes /\ base.nodes = 0
  BY <1>1, <1>2
<1>4. got \in [Threads -> Gets] /\ \A t \in Threads : got[t].node = Null /\ got[t].addr = Null
  BY DEF Init, Gets, Addresses
<1>5. PICK k : k = At("idle")
  OBVIOUS
<1>6. Fresh(k, "idle") /\ k \in Jobs
  BY <1>5, JobAt DEF Ops, Fresh
<1>7. job \in [Threads -> Jobs] /\ \A t \in Threads : job[t] = k
  BY <1>5, <1>6 DEF Init
<1>8. call \in [Threads -> Clients] /\ \A t \in Threads : call[t] = NoCall
  BY CallNone DEF Init, CallIs
<1>9. objects \in [DOMAIN objects -> [addr : Nat, size : Nat]] /\ DOMAIN objects \subseteq Ids
  <2>1. objects = <<>>
    BY DEF Init
  <2>2. DOMAIN objects = {}
    BY <2>1
  <2>3. objects = [i \in DOMAIN objects |-> objects[i]]
    BY <2>1
  <2> QED  BY <2>2, <2>3
<1>10. TypeOK
  <2>1. base_nodes \in Seq(Nat) /\ tree \in SUBSET Extents
    BY <1>1
  <2>2. base_mtx \in Threads \cup {Null} /\ unaligned \in [Threads -> BOOLEAN] /\ uses \in Programs
    BY DEF Init
  <2> QED  BY <1>3, <1>4, <1>7, <1>8, <1>9, <2>1, <2>2 DEF TypeOK
<1>11. ASSUME NEW t \in Threads PROVE Fit(job[t], got[t], call[t], uses[t])
  <2>1. job[t].op = "idle" /\ job[t].then = "insert" /\ got[t].node = Null /\ got[t].addr = Null
    BY <1>4, <1>6, <1>7 DEF Fresh
  <2>2. CallIs(call[t], "none", Null, Null, FALSE, FALSE, 0)
    BY <1>8, CallNone
  <2> QED  BY <2>1, <2>2 DEF Fit, Hand, Purpose, Argued, CallIs, Allocating
<1>12. Hands = {}
  BY <1>4 DEF Hands
<1>13. Len(base_nodes) = 0 /\ ToSet(base_nodes) = {}
  BY <1>1 DEF ToSet
<1>14. IsFiniteSet({}) /\ Cardinality({}) = 0
  BY FS_EmptySet
<1>15. Apart
  BY <1>1, <1>12, <1>13 DEF Apart
<1>16. NodesKept
  <2>1. {n.node : n \in tree} \cup ToSet(base_nodes) \cup {got[t].node : t \in Hands} = 0 .. base.nodes - 1
    BY <1>1, <1>3, <1>12, <1>13
  <2>2. Cardinality(tree) + Len(base_nodes) + Cardinality(Hands) = base.nodes
    BY <1>1, <1>3, <1>12, <1>13, <1>14
  <2> QED  BY <1>3, <2>1, <2>2 DEF NodesKept, Hands
<1> QED  BY <1>1, <1>10, <1>11, <1>12, <1>14, <1>15, <1>16 DEF IInv, Nodes

LEMMA Stuttering == IInv /\ UNCHANGED vars => IInv'
<1> SUFFICES ASSUME IInv, UNCHANGED vars PROVE IInv'
  OBVIOUS
<1>1. UNCHANGED <<tree, base_nodes, base, base_mtx, unaligned, got, job, call, objects, uses>>
  BY DEF vars
<1>2. TypeOK'
  BY <1>1 DEF IInv, TypeOK
<1>3. \A t \in Threads : Fit(job'[t], got'[t], call'[t], uses'[t])
  BY <1>1 DEF IInv
<1>4. Hands' = Hands
  BY <1>1 DEF Hands
<1>5. Apart'
  BY <1>1, <1>4 DEF IInv, Nodes, Apart
<1>6. NodesKept'
  BY <1>1 DEF IInv, Nodes, NodesKept
<1>7. Nodes'
  BY <1>1, <1>4, <1>5, <1>6 DEF IInv, Nodes
<1> QED  BY <1>2, <1>3, <1>7 DEF IInv

LEMMA Steps == IInv /\ [Next]_vars => IInv'
<1> SUFFICES ASSUME IInv, [Next]_vars PROVE IInv'
  OBVIOUS
<1>1. CASE UNCHANGED vars
  BY <1>1, Stuttering
<1>2. CASE Next
  <2>1. PICK t \in Threads : Advances(t)
    BY <1>2, Advancing
  <2>2. ASSUME NEW k \in Jobs, NEW h \in Gets,
               \/ MapStep(t, k, h) \/ TakesNode(t, k, h) \/ CutsNode(t, k, h) \/ CutsFirst(t, k, h)
               \/ FreesNode(t, k, h) \/ Aligns(t, k, h) \/ Inserts(t, k, h) \/ Gives(t, k, h)
        PROVE  IInv'
    BY <2>2, MapStepKeeps, NodeStep, BaseStep, BasedStep, FreeStep, AlignStep, InsertStep, GiveStep
  <2>3. ASSUME NEW k \in Jobs, NEW h \in Gets, NEW c \in Clients, Untracks(t, k, h, c) PROVE IInv'
    BY <2>3, UntrackStep
  <2>4. ASSUME NEW k \in Jobs, NEW c \in Clients, MallocsOf(t, k, c) \/ TriesAgain(t, k, c) PROVE IInv'
    BY <2>4, MallocStep, AgainStep
  <2>5. ASSUME NEW k \in Jobs, GivesUp(t, k) PROVE IInv'
    BY <2>5, GiveUpStep
  <2>6. ASSUME NEW id \in DOMAIN objects, NEW k \in Jobs, NEW c \in Clients,
               DallocsOf(t, k, c, id) \/ RallocsOf(t, k, c, id)
        PROVE  IInv'
    BY <2>6, DallocStep, RallocStep
  <2>7. ASSUME NEW k \in Jobs, NEW c \in Clients, NEW unmap, Moving(t, k, c, unmap) PROVE IInv'
    BY <2>7, MovingStep
  <2> QED  BY <2>1, <2>2, <2>3, <2>4, <2>5, <2>6, <2>7 DEF Advances
<1> QED  BY <1>1, <1>2

(* The inductive invariant: the types, what a thread has in its hands and  *)
(* has to do with its call, and that the tree, the list of free nodes and  *)
(* the hands of the threads are apart and hold all nodes there are         *)
(* (huge.c, base.c, chunk_mmap.c).                                         *)
THEOREM Inductive == Spec => []IInv
BY Initially, Steps, PTL DEF Spec

(* No node of an extent is lost and none is in two places, and no more are *)
(* cut from the base pages than there is room for: whichever mappings      *)
(* fail, of huge_malloc and huge_palloc (huge.c:24), of huge_ralloc and of *)
(* base_alloc itself, and however the threads' calls interleave.           *)
THEOREM EveryNodeKept == Spec => []NodesKept
<1>1. IInv => NodesKept
  BY DEF IInv, Nodes
<1> QED  BY <1>1, Inductive, PTL

(* base_node_alloc gives a thread a node that no other thread has in its   *)
(* hands and that is not in the tree huge; base_node_dealloc never puts    *)
(* one into the list that is there already, or in use.                     *)
THEOREM NodesApart == Spec => []Apart
<1>1. IInv => Apart
  BY DEF IInv, Nodes
<1> QED  BY <1>1, Inductive, PTL

(* Between its calls a thread has no node and no mapping, and an object is *)
(* named by a call from where it is taken from the client to where the     *)
(* tree has it no longer (iralloc, huge_ralloc, huge_dalloc).              *)
THEOREM TypeCorrect == Spec => [](TypeOK /\ \A t \in Threads : Fit(job[t], got[t], call[t], uses[t]))
<1>1. IInv => TypeOK /\ \A t \in Threads : Fit(job[t], got[t], call[t], uses[t])
  BY DEF IInv
<1> QED  BY <1>1, Inductive, PTL

-----------------------------------------------------------------------------
(* Whose the mapped pages are.  A thread has pages that it has mapped and  *)
(* not yet used, and pages that it has to give back.                       *)

Mapping(j) == j.op \in {"trim", "based", "align", "insert"} /\ j.then # "free_node"
Body(j, g) == IF Mapping(j) /\ g.addr # Null THEN Span(g.addr, Amount(j)) ELSE {}
Pieces(j) == Span(j.at, j.lead) \cup Span(j.to, j.tail)
Mine(j, g) == Pieces(j) \cup Body(j, g)

Layout(j, g) ==
  /\ j.op \notin {"extend", "trim"} => j.lead = 0 /\ j.tail = 0
  /\ j.op = "extend" => j.lead = Amount(j) /\ j.tail = 0
  /\ j.op = "trim" /\ j.then = "free_node" => j.tail = 0
  /\ Mapping(j) /\ g.addr # Null =>
       /\ j.lead # 0 => j.at + j.lead = g.addr
       /\ j.tail # 0 => j.to = g.addr + Amount(j)
       /\ g.addr % ChunkPages = 0

(* The replacement of an object is as large as was asked for.              *)
Sizes(j, c) ==
  c.moving /\ (j.op \in Allocating \/ (j.op = "trim" /\ j.then # "free_node")) => j.need >= c.size

(* The old address of an object is nobody's from mremap to huge_dalloc.    *)
Vacated(c) == c.from # Null /\ ~c.moving /\ ~c.unmap

Live(T, C) == {e \in T : \A u \in Threads : Vacated(C[u]) => e.addr # C[u].from}
BasePages(b) == UNION {Span(c, ChunkPages) : c \in b.chunks}
Ext(e) == Span(e.addr, e.size)

(* The mapped pages D are the base pages B, the extents E and the pages M  *)
(* of the threads, and no page is two of these.                            *)
Separate(D, B, E, M) ==
  /\ \A q : q \in D <=> q \in B \/ (\E e \in E : q \in Ext(e)) \/ (\E u \in Threads : q \in M[u])
  /\ \A e, f \in E : e # f => Ext(e) \cap Ext(f) = {}
  /\ \A u, v \in Threads : u # v => M[u] \cap M[v] = {}
  /\ \A e \in E : B \cap Ext(e) = {}
  /\ \A u \in Threads : B \cap M[u] = {}
  /\ \A e \in E, u \in Threads : Ext(e) \cap M[u] = {}

(* The extent a thread has made, or keeps, for its client.                 *)
New(j, g) == IF Mapping(j) THEN Null ELSE g.addr

(* Every extent of the tree is an object of the client, or one a thread is *)
(* to free or to move, or one a thread has made; and just one of these.    *)
Tracked(T, O, F, N) ==
  /\ \A e, f \in T : e.addr = f.addr => e = f
  /\ \A e \in T : e.size > 0
  /\ \A i \in DOMAIN O : \E e \in T : e.addr = O[i].addr /\ e.size = O[i].size
  /\ \A t \in Threads : F[t] # Null => \E e \in T : e.addr = F[t]
  /\ \A t \in Threads : N[t] # Null => \E e \in T : e.addr = N[t]
  /\ \A e \in T : \/ \E i \in DOMAIN O : e.addr = O[i].addr
                  \/ \E t \in Threads : e.addr = F[t]
                  \/ \E t \in Threads : e.addr = N[t]
  /\ \A i, k \in DOMAIN O : O[i].addr = O[k].addr => i = k
  /\ \A t, u \in Threads : F[t] # Null /\ F[t] = F[u] => t = u
  /\ \A t, u \in Threads : N[t] # Null /\ N[t] = N[u] => t = u
  /\ \A i \in DOMAIN O, t \in Threads : O[i].addr # F[t] /\ O[i].addr # N[t]
  /\ \A t, u \in Threads : F[t] # Null => F[t] # N[u]

LEMMA Grows ==
  ASSUME NEW D, NEW B, NEW E, NEW M, NEW t \in Threads, NEW X, NEW m, Separate(D, B, E, M),
         M \in [Threads -> SUBSET Nat], X \cap D = {}, m = M[t] \cup X
  PROVE  Separate(D \cup X, B, E, [M EXCEPT ![t] = m])
<1>1. PICK N : N = [M EXCEPT ![t] = m]
  OBVIOUS
<1>2. N[t] = M[t] \cup X /\ \A u \in Threads : u # t => N[u] = M[u]
  BY <1>1
<1>3. \A q : q \in B \/ (\E e \in E : q \in Ext(e)) \/ (\E u \in Threads : q \in M[u]) => q \notin X
  BY DEF Separate
<1>4. ASSUME NEW q
      PROVE  q \in D \cup X <=> q \in B \/ (\E e \in E : q \in Ext(e)) \/ (\E u \in Threads : q \in N[u])
  BY <1>2 DEF Separate
<1>5. \A u, v \in Threads : u # v => N[u] \cap N[v] = {}
  BY <1>2, <1>3 DEF Separate
<1>6. \A u \in Threads : B \cap N[u] = {}
  BY <1>2, <1>3 DEF Separate
<1>7. \A e \in E, u \in Threads : Ext(e) \cap N[u] = {}
  BY <1>2, <1>3 DEF Separate
<1> QED  BY <1>1, <1>4, <1>5, <1>6, <1>7 DEF Separate

LEMMA Shrinks ==
  ASSUME NEW D, NEW B, NEW E, NEW M, NEW t \in Threads, NEW X, NEW m, Separate(D, B, E, M),
         M \in [Threads -> SUBSET Nat], X \subseteq M[t], m = M[t] \ X
  PROVE  Separate(D \ X, B, E, [M EXCEPT ![t] = m])
<1>1. PICK N : N = [M EXCEPT ![t] = m]
  OBVIOUS
<1>2. N[t] = M[t] \ X /\ \A u \in Threads : u # t => N[u] = M[u]
  BY <1>1
<1>3. /\ \A q \in X : q \in D /\ q \notin B /\ (\A e \in E : q \notin Ext(e)) /\ (\A u \in Threads : u # t => q \notin M[u])
  BY DEF Separate
<1>4. ASSUME NEW q
      PROVE  q \in D \ X <=> q \in B \/ (\E e \in E : q \in Ext(e)) \/ (\E u \in Threads : q \in N[u])
  BY <1>2, <1>3 DEF Separate
<1>5. \A u \in Threads : N[u] \subseteq M[u]
  BY <1>2
<1> QED  BY <1>1, <1>4, <1>5 DEF Separate

(* The pages X of a thread become base pages. *)
LEMMA BecomesBase ==
  ASSUME NEW D, NEW B, NEW E, NEW M, NEW t \in Threads, NEW X, NEW m, Separate(D, B, E, M),
         M \in [Threads -> SUBSET Nat], X \subseteq M[t], m = M[t] \ X
  PROVE  Separate(D, B \cup X, E, [M EXCEPT ![t] = m])
<1>1. PICK N : N = [M EXCEPT ![t] = m]
  OBVIOUS
<1>2. N[t] = M[t] \ X /\ \A u \in Threads : u # t => N[u] = M[u]
  BY <1>1
<1>3. /\ \A q \in X : q \in D /\ q \notin B /\ (\A e \in E : q \notin Ext(e)) /\ (\A u \in Threads : u # t => q \notin M[u])
  BY DEF Separate
<1>4. ASSUME NEW q
      PROVE  q \in D <=> q \in B \cup X \/ (\E e \in E : q \in Ext(e)) \/ (\E u \in Threads : q \in N[u])
  BY <1>2, <1>3 DEF Separate
<1>5. \A u \in Threads : N[u] \subseteq M[u] /\ N[u] \cap X = {}
  BY <1>2, <1>3
<1>6. \A e \in E : (B \cup X) \cap Ext(e) = {}
  BY <1>3 DEF Separate
<1>7. \A u \in Threads : (B \cup X) \cap N[u] = {}
  BY <1>5 DEF Separate
<1> QED  BY <1>1, <1>4, <1>5, <1>6, <1>7 DEF Separate

(* They become an extent. *)
LEMMA BecomesExtent ==
  ASSUME NEW D, NEW B, NEW E, NEW M, NEW t \in Threads, NEW e, NEW m, Separate(D, B, E, M),
         M \in [Threads -> SUBSET Nat], Ext(e) \subseteq M[t], m = M[t] \ Ext(e)
  PROVE  Separate(D, B, E \cup {e}, [M EXCEPT ![t] = m])
<1>1. PICK N : N = [M EXCEPT ![t] = m]
  OBVIOUS
<1>2. N[t] = M[t] \ Ext(e) /\ \A u \in Threads : u # t => N[u] = M[u]
  BY <1>1
<1>3. /\ \A q \in Ext(e) : /\ q \in D /\ q \notin B /\ (\A f \in E : q \notin Ext(f))
                           /\ (\A u \in Threads : u # t => q \notin M[u])
  BY DEF Separate
<1>4. ASSUME NEW q
      PROVE  q \in D <=> q \in B \/ (\E f \in E \cup {e} : q \in Ext(f)) \/ (\E u \in Threads : q \in N[u])
  BY <1>2, <1>3 DEF Separate
<1>5. \A u \in Threads : N[u] \subseteq M[u] /\ N[u] \cap Ext(e) = {}
  BY <1>2, <1>3
<1>6. \A f, h \in E \cup {e} : f # h => Ext(f) \cap Ext(h) = {}
  BY <1>3 DEF Separate
<1>7. \A f \in E \cup {e} : B \cap Ext(f) = {}
  BY <1>3 DEF Separate
<1>8. \A f \in E \cup {e}, u \in Threads : Ext(f) \cap N[u] = {}
  BY <1>5 DEF Separate
<1> QED  BY <1>1, <1>4, <1>5, <1>6, <1>7, <1>8 DEF Separate

(* An extent becomes the pages of a thread, which is to give them back. *)
LEMMA BecomesPieces ==
  ASSUME NEW D, NEW B, NEW E, NEW M, NEW t \in Threads, NEW e \in E, NEW m, Separate(D, B, E, M),
         M \in [Threads -> SUBSET Nat], m = M[t] \cup Ext(e)
  PROVE  Separate(D, B, E \ {e}, [M EXCEPT ![t] = m])
<1>1. PICK N : N = [M EXCEPT ![t] = m]
  OBVIOUS
<1>2. N[t] = M[t] \cup Ext(e) /\ \A u \in Threads : u # t => N[u] = M[u]
  BY <1>1
<1>3. /\ \A q \in Ext(e) : /\ q \in D /\ q \notin B /\ (\A f \in E : f # e => q \notin Ext(f))
                           /\ (\A u \in Threads : q \notin M[u])
  BY DEF Separate
<1>4. ASSUME NEW q
      PROVE  q \in D <=> q \in B \/ (\E f \in E \ {e} : q \in Ext(f)) \/ (\E u \in Threads : q \in N[u])
  BY <1>2, <1>3 DEF Separate
<1>5. \A u, v \in Threads : u # v => N[u] \cap N[v] = {}
  BY <1>2, <1>3 DEF Separate
<1>6. \A u \in Threads : B \cap N[u] = {}
  BY <1>2, <1>3 DEF Separate
<1>7. \A f \in E \ {e}, u \in Threads : Ext(f) \cap N[u] = {}
  BY <1>2, <1>3 DEF Separate
<1> QED  BY <1>1, <1>4, <1>5, <1>6, <1>7 DEF Separate

LEMMA Vanishes ==
  ASSUME NEW D, NEW B, NEW E, NEW M, NEW e \in E, Separate(D, B, E, M)
  PROVE  Separate(D \ Ext(e), B, E \ {e}, M)
<1>1. /\ \A q \in Ext(e) : /\ q \in D /\ q \notin B /\ (\A f \in E : f # e => q \notin Ext(f))
                           /\ (\A u \in Threads : q \notin M[u])
  BY DEF Separate
<1>2. ASSUME NEW q
      PROVE  q \in D \ Ext(e) <=> q \in B \/ (\E f \in E \ {e} : q \in Ext(f)) \/ (\E u \in Threads : q \in M[u])
  BY <1>1 DEF Separate
<1> QED  BY <1>2 DEF Separate

(* How an extent is passed on. *)
Addressed(T, O) == (\A e \in T : e.addr # Null) /\ \A i \in DOMAIN O : O[i].addr # Null

LEMMA Tracks ==
  ASSUME NEW T, NEW O, NEW F, NEW N, Tracked(T, O, F, N), Addressed(T, O), NEW t \in Threads,
         N \in [Threads -> Addresses], N[t] = Null, NEW e, e.size > 0, e.addr # Null, \A f \in T : f.addr # e.addr
  PROVE  Tracked(T \cup {e}, O, F, [N EXCEPT ![t] = e.addr])
<1>1. PICK M : M = [N EXCEPT ![t] = e.addr]
  OBVIOUS
<1>2. M[t] = e.addr /\ \A u \in Threads : u # t => M[u] = N[u]
  BY <1>1
<1>3. /\ \A i \in DOMAIN O : O[i].addr # e.addr
      /\ \A u \in Threads : F[u] # e.addr /\ N[u] # e.addr
  BY DEF Tracked
<1>4. \A f, g \in T \cup {e} : f.addr = g.addr => f = g
  BY DEF Tracked
<1>5. /\ \A f \in T \cup {e} : f.size > 0
      /\ \A i \in DOMAIN O : \E f \in T \cup {e} : f.addr = O[i].addr /\ f.size = O[i].size
      /\ \A u \in Threads : F[u] # Null => \E f \in T \cup {e} : f.addr = F[u]
      /\ \A u \in Threads : M[u] # Null => \E f \in T \cup {e} : f.addr = M[u]
  BY <1>2 DEF Tracked
<1>6. \A f \in T \cup {e} : \/ \E i \in DOMAIN O : f.addr = O[i].addr
                            \/ \E u \in Threads : f.addr = F[u]
                            \/ \E u \in Threads : f.addr = M[u]
  <2>1. ASSUME NEW f \in T, NEW u \in Threads, f.addr = N[u] PROVE f.addr = M[u]
    BY <1>2, <2>1 DEF Addressed
  <2> QED  BY <1>2, <2>1 DEF Tracked
<1>7. \A u, v \in Threads : M[u] # Null /\ M[u] = M[v] => u = v
  BY <1>2, <1>3 DEF Tracked
<1>8. \A i \in DOMAIN O, u \in Threads : O[i].addr # F[u] /\ O[i].addr # M[u]
  BY <1>2, <1>3 DEF Tracked
<1>9. \A u, v \in Threads : F[u] # Null => F[u] # M[v]
  BY <1>2, <1>3 DEF Tracked
<1>10. (\A i, k \in DOMAIN O : O[i].addr = O[k].addr => i = k) /\ \A u, v \in Threads : F[u] # Null /\ F[u] = F[v] => u = v
  BY DEF Tracked
<1> QED  BY <1>1, <1>4, <1>5, <1>6, <1>7, <1>8, <1>9, <1>10 DEF Tracked

LEMMA TracksNot ==
  ASSUME NEW T, NEW O, NEW F, NEW N, Tracked(T, O, F, N), Addressed(T, O), NEW t \in Threads,
         F \in [Threads -> Addresses], F[t] # Null, NEW e \in T, e.addr = F[t]
  PROVE  Tracked(T \ {e}, O, [F EXCEPT ![t] = Null], N)
<1>1. PICK G : G = [F EXCEPT ![t] = Null]
  OBVIOUS
<1>2. G[t] = Null /\ \A u \in Threads : u # t => G[u] = F[u]
  BY <1>1
<1>3. /\ \A i \in DOMAIN O : O[i].addr # e.addr
      /\ \A u \in Threads : (u # t => F[u] # e.addr) /\ N[u] # e.addr
      /\ \A f \in T \ {e} : f.addr # e.addr
  BY DEF Tracked
<1>4. \A i \in DOMAIN O : \E f \in T \ {e} : f.addr = O[i].addr /\ f.size = O[i].size
  BY <1>3 DEF Tracked
<1>5. \A u \in Threads : G[u] # Null => \E f \in T \ {e} : f.addr = G[u]
  BY <1>2, <1>3 DEF Tracked
<1>6. \A u \in Threads : N[u] # Null => \E f \in T \ {e} : f.addr = N[u]
  BY <1>3 DEF Tracked
<1>7. \A f \in T \ {e} : \/ \E i \in DOMAIN O : f.addr = O[i].addr
                         \/ \E u \in Threads : f.addr = G[u]
                         \/ \E u \in Threads : f.addr = N[u]
  BY <1>2, <1>3 DEF Tracked
<1>8. \A u, v \in Threads : G[u] # Null /\ G[u] = G[v] => u = v
  BY <1>2 DEF Tracked
<1>9. \A i \in DOMAIN O, u \in Threads : O[i].addr # G[u] /\ O[i].addr # N[u]
  BY <1>2 DEF Tracked, Addressed
<1>10. \A u, v \in Threads : G[u] # Null => G[u] # N[v]
  BY <1>2 DEF Tracked
<1>11. /\ \A f, g \in T \ {e} : f.addr = g.addr => f = g
       /\ \A f \in T \ {e} : f.size > 0
       /\ \A i, k \in DOMAIN O : O[i].addr = O[k].addr => i = k
       /\ \A u, v \in Threads : N[u] # Null /\ N[u] = N[v] => u = v
  BY DEF Tracked
<1> QED  BY <1>1, <1>4, <1>5, <1>6, <1>7, <1>8, <1>9, <1>10, <1>11 DEF Tracked

(* Q has what O has, and at id the extent e. *)
Adds(O, Q, id, e) ==
  /\ id \notin DOMAIN O /\ DOMAIN Q = DOMAIN O \cup {id} /\ Q[id].addr = e.addr /\ Q[id].size = e.size
  /\ \A i \in DOMAIN O : Q[i] = O[i]

LEMMA TracksGiven ==
  ASSUME NEW T, NEW O, NEW F, NEW N, Tracked(T, O, F, N), Addressed(T, O), NEW t \in Threads,
         N \in [Threads -> Addresses], N[t] # Null, NEW e \in T, e.addr = N[t], NEW Q, NEW id, Adds(O, Q, id, e)
  PROVE  Tracked(T, Q, F, [N EXCEPT ![t] = Null])
<1>1. PICK M : M = [N EXCEPT ![t] = Null]
  OBVIOUS
<1>2. M[t] = Null /\ \A u \in Threads : u # t => M[u] = N[u]
  BY <1>1
<1>3. /\ \A i \in DOMAIN O : O[i].addr # e.addr
      /\ \A u \in Threads : F[u] # e.addr /\ (u # t => N[u] # e.addr)
  BY DEF Tracked
<1>4. \A i \in DOMAIN Q : \E f \in T : f.addr = Q[i].addr /\ f.size = Q[i].size
  BY DEF Tracked, Adds
<1>5. \A u \in Threads : M[u] # Null => \E f \in T : f.addr = M[u]
  BY <1>2 DEF Tracked
<1>6. \A f \in T : \/ \E i \in DOMAIN Q : f.addr = Q[i].addr
                   \/ \E u \in Threads : f.addr = F[u]
                   \/ \E u \in Threads : f.addr = M[u]
  <2>1. ASSUME NEW f \in T, NEW u \in Threads, f.addr = N[u] PROVE f.addr = M[u] \/ f.addr = Q[id].addr
    BY <1>2, <2>1 DEF Adds
  <2>2. ASSUME NEW f \in T, NEW i \in DOMAIN O, f.addr = O[i].addr PROVE i \in DOMAIN Q /\ f.addr = Q[i].addr
    BY <2>2 DEF Adds
  <2>3. id \in DOMAIN Q
    BY DEF Adds
  <2> QED  BY <2>1, <2>2, <2>3 DEF Tracked
<1>7. \A i, k \in DOMAIN Q : Q[i].addr = Q[k].addr => i = k
  BY <1>3 DEF Tracked, Adds
<1>8. \A u, v \in Threads : M[u] # Null /\ M[u] = M[v] => u = v
  BY <1>2 DEF Tracked
<1>9. \A i \in DOMAIN Q, u \in Threads : Q[i].addr # F[u] /\ Q[i].addr # M[u]
  BY <1>2, <1>3 DEF Tracked, Adds, Addressed
<1>10. \A u, v \in Threads : F[u] # Null => F[u] # M[v]
  BY <1>2 DEF Tracked
<1>11. /\ \A f, g \in T : f.addr = g.addr => f = g
       /\ \A f \in T : f.size > 0
       /\ \A u \in Threads : F[u] # Null => \E f \in T : f.addr = F[u]
       /\ \A u, v \in Threads : F[u] # Null /\ F[u] = F[v] => u = v
  BY DEF Tracked
<1> QED  BY <1>1, <1>4, <1>5, <1>6, <1>7, <1>8, <1>9, <1>10, <1>11 DEF Tracked

LEMMA TracksTaken ==
  ASSUME NEW T, NEW O, NEW F, NEW N, Tracked(T, O, F, N), Addressed(T, O), NEW t \in Threads,
         F \in [Threads -> Addresses], F[t] = Null, NEW id \in DOMAIN O, NEW Q,
         DOMAIN Q = DOMAIN O \ {id}, \A i \in DOMAIN Q : Q[i] = O[i]
  PROVE  Tracked(T, Q, [F EXCEPT ![t] = O[id].addr], N)
<1>1. PICK G : G = [F EXCEPT ![t] = O[id].addr]
  OBVIOUS
<1>2. G[t] = O[id].addr /\ G[t] # Null /\ \A u \in Threads : u # t => G[u] = F[u]
  BY <1>1 DEF Addressed
<1>3. /\ \A i \in DOMAIN Q : i \in DOMAIN O /\ i # id /\ Q[i].addr # O[id].addr
      /\ \A u \in Threads : F[u] # O[id].addr /\ N[u] # O[id].addr
  BY DEF Tracked
<1>4. \A i \in DOMAIN Q : \E f \in T : f.addr = Q[i].addr /\ f.size = Q[i].size
  BY <1>3 DEF Tracked
<1>5. \A u \in Threads : G[u] # Null => \E f \in T : f.addr = G[u]
  BY <1>2 DEF Tracked
<1>6. \A f \in T : \/ \E i \in DOMAIN Q : f.addr = Q[i].addr
                   \/ \E u \in Threads : f.addr = G[u]
                   \/ \E u \in Threads : f.addr = N[u]
  <2>1. ASSUME NEW f \in T, NEW u \in Threads, f.addr = F[u] PROVE f.addr = G[u]
    BY <1>2, <2>1 DEF Addressed
  <2>2. ASSUME NEW f \in T, NEW i \in DOMAIN O, f.addr = O[i].addr
        PROVE  f.addr = G[t] \/ (i \in DOMAIN Q /\ f.addr = Q[i].addr)
    BY <1>2, <2>2
  <2> QED  BY <2>1, <2>2 DEF Tracked
<1>7. \A i, k \in DOMAIN Q : Q[i].addr = Q[k].addr => i = k
  BY <1>3 DEF Tracked
<1>8. \A u, v \in Threads : G[u] # Null /\ G[u] = G[v] => u = v
  BY <1>2, <1>3 DEF Tracked
<1>9. \A i \in DOMAIN Q, u \in Threads : Q[i].addr # G[u] /\ Q[i].addr # N[u]
  BY <1>2, <1>3 DEF Tracked
<1>10. \A u, v \in Threads : G[u] # Null => G[u] # N[v]
  BY <1>2, <1>3 DEF Tracked
<1>11. /\ \A f, g \in T : f.addr = g.addr => f = g
       /\ \A f \in T : f.size > 0
       /\ \A u \in Threads : N[u] # Null => \E f \in T : f.addr = N[u]
       /\ \A u, v \in Threads : N[u] # Null /\ N[u] = N[v] => u = v
  BY DEF Tracked
<1> QED  BY <1>1, <1>4, <1>5, <1>6, <1>7, <1>8, <1>9, <1>10, <1>11 DEF Tracked

LEMMA TracksReturned ==
  ASSUME NEW T, NEW O, NEW F, NEW N, Tracked(T, O, F, N), Addressed(T, O), NEW t \in Threads,
         F \in [Threads -> Addresses], F[t] # Null, NEW e \in T, e.addr = F[t], NEW Q, NEW id, Adds(O, Q, id, e)
  PROVE  Tracked(T, Q, [F EXCEPT ![t] = Null], N)
<1>1. PICK G : G = [F EXCEPT ![t] = Null]
  OBVIOUS
<1>2. G[t] = Null /\ \A u \in Threads : u # t => G[u] = F[u]
  BY <1>1
<1>3. /\ \A i \in DOMAIN O : O[i].addr # e.addr
      /\ \A u \in Threads : (u # t => F[u] # e.addr) /\ N[u] # e.addr
  BY DEF Tracked
<1>4. \A i \in DOMAIN Q : \E f \in T : f.addr = Q[i].addr /\ f.size = Q[i].size
  BY DEF Tracked, Adds
<1>5. \A u \in Threads : G[u] # Null => \E f \in T : f.addr = G[u]
  BY <1>2 DEF Tracked
<1>6. \A f \in T : \/ \E i \in DOMAIN Q : f.addr = Q[i].addr
                   \/ \E u \in Threads : f.addr = G[u]
                   \/ \E u \in Threads : f.addr = N[u]
  <2>1. ASSUME NEW f \in T, NEW u \in Threads, f.addr = F[u] PROVE f.addr = G[u] \/ f.addr = Q[id].addr
    BY <1>2, <2>1 DEF Adds
  <2>2. ASSUME NEW f \in T, NEW i \in DOMAIN O, f.addr = O[i].addr PROVE i \in DOMAIN Q /\ f.addr = Q[i].addr
    BY <2>2 DEF Adds
  <2>3. id \in DOMAIN Q
    BY DEF Adds
  <2> QED  BY <2>1, <2>2, <2>3 DEF Tracked
<1>7. \A i, k \in DOMAIN Q : Q[i].addr = Q[k].addr => i = k
  BY <1>3 DEF Tracked, Adds
<1>8. \A u, v \in Threads : G[u] # Null /\ G[u] = G[v] => u = v
  BY <1>2 DEF Tracked
<1>9. \A i \in DOMAIN Q, u \in Threads : Q[i].addr # G[u] /\ Q[i].addr # N[u]
  BY <1>2, <1>3 DEF Tracked, Adds, Addressed
<1>10. \A u, v \in Threads : G[u] # Null => G[u] # N[v]
  BY <1>2 DEF Tracked
<1>11. /\ \A f, g \in T : f.addr = g.addr => f = g
       /\ \A f \in T : f.size > 0
       /\ \A u \in Threads : N[u] # Null => \E f \in T : f.addr = N[u]
       /\ \A u, v \in Threads : N[u] # Null /\ N[u] = N[v] => u = v
  BY DEF Tracked
<1> QED  BY <1>1, <1>4, <1>5, <1>6, <1>7, <1>8, <1>9, <1>10, <1>11 DEF Tracked

-----------------------------------------------------------------------------
(* What mapping and unmapping do to the pages of a thread.                 *)

LEMMA SpanTyped ==
  ASSUME NEW p \in Nat, NEW n \in Nat
  PROVE  /\ Span(p, n) \subseteq Nat /\ (n = 0 => Span(p, n) = {})
         /\ \A q : q \in Span(p, n) <=> q \in Nat /\ p <= q /\ q < p + n
BY DEF Span

LEMMA SpanSplit ==
  ASSUME NEW p \in Nat, NEW n \in Nat, NEW m \in Nat
  PROVE  Span(p, n) \cup Span(p + n, m) = Span(p, n + m) /\ Span(p, n) \cap Span(p + n, m) = {}
BY DEF Span

LEMMA SpanShort ==
  ASSUME NEW p \in Nat, NEW n \in Nat, Span(p, n) \subseteq Pages
  PROVE  n <= NPages /\ n % SizeMod = n /\ (n > 0 => p + n <= NPages)
<1>1. NPages \in Nat /\ SizeMod \in Nat /\ NPages < SizeMod
  BY Constants
<1>2. n > 0 => p + n <= NPages
  <2>1. SUFFICES ASSUME n > 0 PROVE p + n <= NPages
    OBVIOUS
  <2>2. p + n - 1 \in Span(p, n)
    BY <2>1 DEF Span
  <2>3. p + n - 1 \in 0 .. NPages - 1
    BY <2>2 DEF Pages
  <2> QED  BY <1>1, <2>3
<1>3. n <= NPages /\ n < SizeMod
  BY <1>1, <1>2
<1> QED  BY <1>1, <1>2, <1>3, ModuloSmall

Kept(P, Q, D) == \A q \in D : Q[q] = P[q]

(* The pages X are mapped, or unmapped. *)
Gets1(P, Q, X) == X \subseteq Pages /\ X \cap DOMAIN P = {} /\ DOMAIN Q = DOMAIN P \cup X /\ Kept(P, Q, DOMAIN P)
Loses1(P, Q, X) == DOMAIN Q = DOMAIN P \ X /\ Kept(P, Q, DOMAIN Q)

LEMMA MappedFree ==
  ASSUME NEW P, NEW p \in Nat, NEW n \in Nat, Free(P, p, n), NEW Q, Q = Over(Mapped(p, n), P)
  PROVE  Gets1(P, Q, Span(p, n))
<1>1. PICK m : m = Mapped(p, n)
  OBVIOUS
<1>2. DOMAIN m = Span(p, n)
  BY <1>1 DEF Mapped
<1>3. Q = [q \in DOMAIN m \cup DOMAIN P |-> IF q \in DOMAIN m THEN m[q] ELSE P[q]]
  BY <1>1 DEF Over
<1>4. Span(p, n) \cap DOMAIN P = {} /\ p + n <= NPages
  BY DEF Free
<1>5. Span(p, n) \subseteq Pages
  BY <1>4, Constants DEF Span, Pages
<1>6. DOMAIN Q = DOMAIN P \cup Span(p, n) /\ \A q \in DOMAIN P : Q[q] = P[q]
  BY <1>2, <1>3, <1>4
<1> QED  BY <1>4, <1>5, <1>6 DEF Gets1, Kept

LEMMA UnmappedSpan ==
  ASSUME NEW P, NEW p \in Nat, NEW n \in Nat, Span(p, n) \subseteq Pages, NEW Q, Q = Unmapped(P, p, n)
  PROVE  Loses1(P, Q, Span(p, n))
<1>1. ~(n % SizeMod > NPages)
  BY SpanShort, Constants
<1>2. Q = [q \in DOMAIN P \ Span(p, n) |-> P[q]]
  BY <1>1 DEF Unmapped, Without
<1> QED  BY <1>2 DEF Loses1, Kept

(* What a thread has mapped goes from m to o with it. *)
Follows(P, Q, m, o) ==
  \E X : \/ Gets1(P, Q, X) /\ o = m \cup X
         \/ Loses1(P, Q, X) /\ X \subseteq m /\ o = m \ X

LEMMA FollowsGets ==
  ASSUME NEW P, NEW Q, NEW m, NEW o, NEW X, Gets1(P, Q, X), o = m \cup X
  PROVE  Follows(P, Q, m, o)
BY DEF Follows

LEMMA FollowsLoses ==
  ASSUME NEW P, NEW Q, NEW m, NEW o, NEW X, Loses1(P, Q, X), X \subseteq m, o = m \ X
  PROVE  Follows(P, Q, m, o)
BY DEF Follows

LEMMA FollowsSame ==
  ASSUME NEW P, NEW Q, Q = P, NEW m, NEW o, o = m
  PROVE  Follows(P, Q, m, o)
<1>1. Loses1(P, Q, {})
  BY DEF Loses1, Kept
<1> QED  BY <1>1, FollowsLoses

LEMMA NoPieces ==
  ASSUME NEW j \in Jobs, j.lead = 0, j.tail = 0
  PROVE  Pieces(j) = {}
BY JobFields, SpanTyped DEF Pieces

LEMMA NotMapping ==
  ASSUME NEW j, NEW g, j.op \notin {"trim", "based", "align", "insert"} \/ j.then = "free_node" \/ g.addr = Null
  PROVE  Body(j, g) = {}
BY DEF Body, Mapping

LEMMA AmountSame ==
  ASSUME NEW j, NEW k, k.then = j.then, k.all = j.all, k.need = j.need
  PROVE  Amount(k) = Amount(j)
BY DEF Amount

LEMMA MapFailsMine ==
  ASSUME NEW P, NEW Q, NEW j \in Jobs, NEW g \in Gets, NEW k \in Jobs, NEW h \in Gets, Layout(j, g),
         MapFails(P, Q, j, g, k, h)
  PROVE  Layout(k, h) /\ Follows(P, Q, Mine(j, g), Mine(k, h))
<1>1. j.op \in {"chunk", "slow"} /\ Q = P /\ k.op \in {"based", "insert"} /\ k.lead = j.lead /\ k.tail = j.tail /\ h.addr = Null
  BY DEF MapFails, Becomes, GetIs, FailOp
<1>2. j.lead = 0 /\ j.tail = 0
  BY <1>1 DEF Layout
<1>3. Mine(j, g) = {} /\ Mine(k, h) = {}
  BY <1>1, <1>2, NoPieces, NotMapping DEF Mine
<1>4. Layout(k, h)
  BY <1>1, <1>2 DEF Layout
<1> QED  BY <1>1, <1>3, <1>4, FollowsSame

LEMMA MapsAlignedMine ==
  ASSUME NEW P, NEW Q, NEW j \in Jobs, NEW g \in Gets, NEW k \in Jobs, NEW h \in Gets, Layout(j, g), Hand(j, g),
         MapsAligned(P, Q, j, g, k, h)
  PROVE  Layout(k, h) /\ Follows(P, Q, Mine(j, g), Mine(k, h))
<1>1. PICK p \in Nat, n \in Nat : p = h.addr /\ n = Amount(j)
  BY AmountTyped DEF MapsAligned
<1>2. /\ j.op = "chunk" /\ k.op = j.then /\ k.then = j.then /\ k.lead = j.lead /\ k.tail = j.tail
      /\ p % ChunkPages = 0 /\ Free(P, p, n) /\ Q = Over(Mapped(p, n), P) /\ Amount(k) = n
      /\ k.op \in {"based", "align", "insert"} /\ k.then # "free_node" /\ p # Null
  BY <1>1, AmountSame, JobFields, Constants DEF MapsAligned, Becomes, Hand, Allocating, Thens
<1>3. j.lead = 0 /\ j.tail = 0
  BY <1>2 DEF Layout
<1>4. Gets1(P, Q, Span(p, n))
  BY <1>2, MappedFree
<1>5. Mine(j, g) = {}
  BY <1>2, <1>3, NoPieces, NotMapping DEF Mine
<1>6. Mine(k, h) = Span(p, n)
  BY <1>1, <1>2, <1>3, NoPieces DEF Mine, Body, Mapping
<1>7. Layout(k, h)
  BY <1>1, <1>2, <1>3 DEF Layout
<1> QED  BY <1>4, <1>5, <1>6, <1>7, FollowsGets

LEMMA MapsUnalignedMine ==
  ASSUME NEW P, NEW Q, NEW j \in Jobs, NEW g \in Gets, NEW k \in Jobs, NEW h \in Gets, Layout(j, g),
         MapsUnaligned(P, Q, j, g, k, h)
  PROVE  Layout(k, h) /\ Follows(P, Q, Mine(j, g), Mine(k, h))
<1>1. PICK p \in Nat, n \in Nat : p = k.at /\ n = Amount(j)
  BY AmountTyped, JobFields
<1>2. /\ j.op = "chunk" /\ k.op = "extend" /\ k.lead = n /\ k.tail = j.tail /\ k.to = j.to /\ k.to \in Nat
      /\ Free(P, p, n) /\ Q = Over(Mapped(p, n), P) /\ Amount(k) = n
  BY <1>1, AmountSame, JobFields DEF MapsUnaligned, Becomes
<1>3. j.lead = 0 /\ j.tail = 0
  BY <1>2 DEF Layout
<1>4. Gets1(P, Q, Span(p, n))
  BY <1>2, MappedFree
<1>5. Mine(j, g) = {}
  BY <1>2, <1>3, NoPieces, NotMapping DEF Mine
<1>6. Mine(k, h) = Span(p, n)
  BY <1>1, <1>2, <1>3, SpanTyped, NotMapping DEF Mine, Pieces
<1>7. Layout(k, h)
  BY <1>1, <1>2, <1>3 DEF Layout, Mapping
<1> QED  BY <1>4, <1>5, <1>6, <1>7, FollowsGets

LEMMA ExtendsMine ==
  ASSUME NEW P, NEW Q, NEW j \in Jobs, NEW g \in Gets, NEW k \in Jobs, NEW h \in Gets, Layout(j, g), Hand(j, g),
         Extends(P, Q, j, g, k, h)
  PROVE  Layout(k, h) /\ Follows(P, Q, Mine(j, g), Mine(k, h))
<1>1. PICK p \in Nat, n \in Nat, m \in Nat : p = j.at /\ n = Amount(j) /\ m = k.lead
  BY AmountTyped, JobFields
<1>2. /\ j.op = "extend" /\ k.op = "trim" /\ k.then = j.then /\ k.at = p /\ k.tail = 0 /\ k.to = 0
      /\ h.addr = p + m /\ (p + m) % ChunkPages = 0
      /\ Free(P, p + j.lead, m) /\ Q = Over(Mapped(p + j.lead, m), P) /\ Amount(k) = n
  BY <1>1, AmountSame DEF Extends, Becomes, GetIs
<1>3. j.lead = n /\ j.tail = 0 /\ j.then # "free_node"
  BY <1>1, <1>2 DEF Layout, Hand, Allocating
<1>4. Gets1(P, Q, Span(p + n, m))
  <2>1. p + n \in Nat
    OBVIOUS
  <2> QED  BY <1>2, <1>3, <2>1, MappedFree
<1>5. Mine(j, g) = Span(p, n)
  BY <1>1, <1>2, <1>3, SpanTyped, NotMapping, JobFields DEF Mine, Pieces
<1>6. p + m # Null
  BY Constants
<1>7. Mine(k, h) = Span(p, m) \cup Span(p + m, n)
  BY <1>1, <1>2, <1>3, <1>6, SpanTyped DEF Mine, Pieces, Body, Mapping
<1>8. Mine(k, h) = Mine(j, g) \cup Span(p + n, m)
  <2>1. n + m = m + n
    OBVIOUS
  <2> QED  BY <1>5, <1>7, <2>1, SpanSplit
<1>9. Layout(k, h)
  BY <1>1, <1>2, <1>3 DEF Layout
<1> QED  BY <1>4, <1>8, <1>9, FollowsGets

LEMMA ExtendFailsMine ==
  ASSUME NEW P, NEW Q, NEW j \in Jobs, NEW g \in Gets, NEW k \in Jobs, NEW h \in Gets, Layout(j, g),
         Mine(j, g) \subseteq Pages, ExtendFails(P, Q, j, g, k, h)
  PROVE  Layout(k, h) /\ Follows(P, Q, Mine(j, g), Mine(k, h))
<1>1. PICK p \in Nat, n \in Nat : p = j.at /\ n = j.lead
  BY JobFields
<1>2. j.op = "extend" /\ k.op = "slow" /\ k.lead = 0 /\ k.tail = j.tail /\ Q = Unmapped(P, p, n)
  BY <1>1 DEF ExtendFails, Becomes
<1>3. j.tail = 0
  BY <1>2 DEF Layout
<1>4. Mine(j, g) = Span(p, n)
  BY <1>1, <1>2, <1>3, SpanTyped, NotMapping, JobFields DEF Mine, Pieces
<1>5. Mine(k, h) = {}
  BY <1>2, <1>3, NoPieces, NotMapping DEF Mine
<1>6. Loses1(P, Q, Span(p, n))
  BY <1>2, <1>4, UnmappedSpan
<1>7. Layout(k, h)
  BY <1>2, <1>3 DEF Layout, Mapping
<1> QED  BY <1>4, <1>5, <1>6, <1>7, FollowsLoses

LEMMA TrimsHeadMine ==
  ASSUME NEW P, NEW Q, NEW j \in Jobs, NEW g \in Gets, NEW k \in Jobs, NEW h \in Gets, Layout(j, g), Hand(j, g),
         Mine(j, g) \subseteq Pages, TrimsHead(P, Q, j, g, k, h)
  PROVE  Layout(k, h) /\ Follows(P, Q, Mine(j, g), Mine(k, h))
<1>1. PICK p \in Nat, n \in Nat, s \in Nat, m \in Nat, x \in Nat :
        p = j.at /\ n = j.lead /\ s = j.to /\ m = j.tail /\ x = Amount(j)
  BY JobFields, AmountTyped
<1>2. /\ j.op = "trim" /\ h = g /\ k.then = j.then /\ k.at = 0 /\ k.lead = 0 /\ k.to = s /\ k.tail = m
      /\ k.op = (IF m = 0 THEN j.then ELSE "trim") /\ Q = Unmapped(P, p, n) /\ Amount(k) = x /\ j.then \in Thens
  BY <1>1, AmountSame, JobFields DEF TrimsHead, Becomes
<1>3. Pieces(j) = Span(p, n) \cup Span(s, m) /\ Pieces(k) = Span(s, m)
  BY <1>1, <1>2, SpanTyped DEF Pieces
<1>4. Span(p, n) \subseteq Pages
  BY <1>3 DEF Mine
<1>5. Loses1(P, Q, Span(p, n))
  BY <1>2, <1>4, UnmappedSpan
<1>6. CASE j.then = "free_node"
  <2>1. m = 0 /\ Body(j, g) = {} /\ Body(k, h) = {} /\ Span(s, m) = {}
    BY <1>1, <1>2, <1>6, NotMapping, SpanTyped DEF Layout
  <2>2. Mine(j, g) = Span(p, n) /\ Mine(k, h) = {}
    BY <1>3, <2>1 DEF Mine
  <2>3. Layout(k, h)
    BY <1>2, <1>6, <2>1 DEF Layout, Mapping
  <2> QED  BY <1>5, <2>2, <2>3, FollowsLoses
<1>7. CASE j.then # "free_node"
  <2>1. PICK a \in Nat : a = g.addr
    BY <1>2, <1>7 DEF Hand, Gets, Addresses
  <2>2. a # Null
    BY Constants
  <2>3. (n # 0 => p + n = a) /\ (m # 0 => s = a + x) /\ a % ChunkPages = 0
    BY <1>1, <1>2, <1>7, <2>1, <2>2 DEF Layout, Mapping
  <2>4. k.op \in {"trim", "based", "align", "insert"}
    BY <1>2, <1>7 DEF Thens
  <2>5. Body(j, g) = Span(a, x) /\ Body(k, h) = Span(a, x)
    BY <1>1, <1>2, <1>7, <2>1, <2>2, <2>4 DEF Body, Mapping
  <2>6. Mine(k, h) = Mine(j, g) \ Span(p, n)
    <3>1. Span(p, n) \cap (Span(s, m) \cup Span(a, x)) = {}
      BY <2>3, SpanTyped
    <3> QED  BY <1>3, <2>5, <3>1 DEF Mine
  <2>7. Layout(k, h)
    BY <1>2, <1>7, <2>1, <2>3, <2>4 DEF Layout
  <2>8. Span(p, n) \subseteq Mine(j, g)
    BY <1>3 DEF Mine
  <2> QED  BY <1>5, <2>6, <2>7, <2>8, FollowsLoses
<1> QED  BY <1>6, <1>7

LEMMA TrimsTailMine ==
  ASSUME NEW P, NEW Q, NEW j \in Jobs, NEW g \in Gets, NEW k \in Jobs, NEW h \in Gets, Layout(j, g), Hand(j, g),
         Mine(j, g) \subseteq Pages, TrimsTail(P, Q, j, g, k, h)
  PROVE  Layout(k, h) /\ Follows(P, Q, Mine(j, g), Mine(k, h))
<1>1. PICK s \in Nat, m \in Nat, x \in Nat : s = j.to /\ m = j.tail /\ x = Amount(j)
  BY JobFields, AmountTyped
<1>2. /\ j.op = "trim" /\ j.lead = 0 /\ h = g /\ k.then = j.then /\ k.lead = 0 /\ k.tail = 0
      /\ k.op = j.then /\ Q = Unmapped(P, s, m) /\ Amount(k) = x /\ j.then \in Thens
  BY <1>1, AmountSame, JobFields DEF TrimsTail, Becomes
<1>3. Pieces(j) = Span(s, m) /\ Pieces(k) = {}
  BY <1>1, <1>2, SpanTyped, NoPieces, JobFields DEF Pieces
<1>4. Span(s, m) \subseteq Pages /\ Span(s, m) \subseteq Mine(j, g)
  BY <1>3 DEF Mine
<1>5. Loses1(P, Q, Span(s, m))
  BY <1>2, <1>4, UnmappedSpan
<1>6. CASE j.then = "free_node"
  <2>1. Body(j, g) = {} /\ Body(k, h) = {}
    BY <1>2, <1>6, NotMapping
  <2>2. Mine(j, g) = Span(s, m) /\ Mine(k, h) = {}
    BY <1>3, <2>1 DEF Mine
  <2>3. Layout(k, h)
    BY <1>2, <1>6 DEF Layout, Mapping
  <2> QED  BY <1>5, <2>2, <2>3, FollowsLoses
<1>7. CASE j.then # "free_node"
  <2>1. PICK a \in Nat : a = g.addr
    BY <1>2, <1>7 DEF Hand, Gets, Addresses
  <2>2. a # Null
    BY Constants
  <2>3. (m # 0 => s = a + x) /\ a % ChunkPages = 0
    BY <1>1, <1>2, <1>7, <2>1, <2>2 DEF Layout, Mapping
  <2>4. k.op \in {"based", "align", "insert"}
    BY <1>2, <1>7 DEF Thens
  <2>5. Body(j, g) = Span(a, x) /\ Body(k, h) = Span(a, x)
    BY <1>1, <1>2, <1>7, <2>1, <2>2, <2>4 DEF Body, Mapping
  <2>6. Mine(k, h) = Mine(j, g) \ Span(s, m)
    <3>1. Span(s, m) \cap Span(a, x) = {}
      BY <2>3, SpanTyped
    <3> QED  BY <1>3, <2>5, <3>1 DEF Mine
  <2>7. Layout(k, h)
    BY <1>2, <1>7, <2>1, <2>3, <2>4 DEF Layout
  <2> QED  BY <1>4, <1>5, <2>6, <2>7, FollowsLoses
<1> QED  BY <1>6, <1>7

LEMMA StartsSlowMine ==
  ASSUME NEW P, NEW Q, NEW j \in Jobs, NEW g \in Gets, NEW k \in Jobs, NEW h \in Gets, Layout(j, g),
         StartsSlow(P, Q, j, g, k, h)
  PROVE  Layout(k, h) /\ Follows(P, Q, Mine(j, g), Mine(k, h))
<1>1. j.op = "chunk" /\ Q = P /\ k.op = "slow" /\ k.lead = j.lead /\ k.tail = j.tail
  BY DEF StartsSlow, Becomes
<1>2. j.lead = 0 /\ j.tail = 0
  BY <1>1 DEF Layout
<1>3. Mine(j, g) = {} /\ Mine(k, h) = {}
  BY <1>1, <1>2, NoPieces, NotMapping DEF Mine
<1>4. Layout(k, h)
  BY <1>1, <1>2 DEF Layout, Mapping
<1> QED  BY <1>1, <1>3, <1>4, FollowsSame

LEMMA MapsSlowMine ==
  ASSUME NEW P, NEW Q, NEW j \in Jobs, NEW g \in Gets, NEW k \in Jobs, NEW h \in Gets, Layout(j, g), Hand(j, g),
         MapsSlow(P, Q, j, g, k, h)
  PROVE  Layout(k, h) /\ Follows(P, Q, Mine(j, g), Mine(k, h))
<1>1. PICK p \in Nat, n \in Nat, x \in Nat, m \in Nat, c \in Nat :
        p = k.at /\ n = k.lead /\ x = Amount(j) /\ m = k.tail /\ c = ChunkPages
  BY AmountTyped, JobFields, Constants
<1>2. /\ j.op = "slow" /\ k.op = "trim" /\ k.then = j.then /\ h.addr = p + n /\ (p + n) % ChunkPages = 0
      /\ n + m = c /\ k.to = h.addr + x /\ Amount(k) = x
      /\ Free(P, p, x + c) /\ Q = Over(Mapped(p, x + c), P)
  BY <1>1, AmountSame DEF MapsSlow, Becomes, GetIs
<1>3. j.lead = 0 /\ j.tail = 0 /\ j.then # "free_node"
  BY <1>2 DEF Layout, Hand, Allocating
<1>4. Gets1(P, Q, Span(p, x + c))
  BY <1>2, MappedFree
<1>5. Mine(j, g) = {}
  BY <1>2, <1>3, NoPieces, NotMapping DEF Mine
<1>6. p + n # Null /\ k.to = p + n + x
  BY <1>2, Constants
<1>7. Mine(k, h) = (Span(p, n) \cup Span(p + n + x, m)) \cup Span(p + n, x)
  BY <1>1, <1>2, <1>3, <1>6 DEF Mine, Pieces, Body, Mapping
<1>8. Mine(k, h) = Span(p, x + c)
  <2>1. PICK y \in Nat : y = p + n
    OBVIOUS
  <2>2. Span(y, x) \cup Span(y + x, m) = Span(y, x + m)
    BY <2>1, SpanSplit
  <2>3. PICK z \in Nat : z = x + m
    OBVIOUS
  <2>4. Span(p, n) \cup Span(p + n, z) = Span(p, n + z)
    BY SpanSplit
  <2>5. n + z = x + c
    BY <1>2, <2>3
  <2> QED  BY <1>7, <2>1, <2>2, <2>3, <2>4, <2>5
<1>9. Layout(k, h)
  BY <1>1, <1>2, <1>3, <1>6 DEF Layout
<1> QED  BY <1>4, <1>5, <1>8, <1>9, FollowsGets

LEMMA MapsMine ==
  ASSUME NEW P, NEW Q, NEW j \in Jobs, NEW g \in Gets, NEW k \in Jobs, NEW h \in Gets, Layout(j, g), Hand(j, g),
         Mine(j, g) \subseteq Pages, Maps(P, Q, j, g, k, h)
  PROVE  Layout(k, h) /\ Follows(P, Q, Mine(j, g), Mine(k, h))
BY MapFailsMine, MapsAlignedMine, MapsUnalignedMine, ExtendsMine, ExtendFailsMine, TrimsHeadMine, TrimsTailMine,
   StartsSlowMine, MapsSlowMine DEF Maps

(* What an allocation is of stays what it was, and so does what it made. *)
LEMMA MapsSized ==
  ASSUME NEW P, NEW Q, NEW j \in Jobs, NEW g \in Gets, NEW k \in Jobs, NEW h \in Gets, Hand(j, g),
         Maps(P, Q, j, g, k, h)
  PROVE  /\ Sized(j) => Sized(k)
         /\ \A c : Sizes(j, c) => Sizes(k, c)
         /\ New(k, h) = New(j, g)
<1>1. /\ j.op \in {"chunk", "slow", "extend", "trim"} /\ j.then \in Thens /\ k.op \in Ops
      /\ k.all = j.all /\ k.need = j.need /\ k.align = j.align
      /\ j.op = "trim" => h.addr = g.addr /\ k.op \in {"trim", j.then} /\ k.then = j.then
      /\ j.op # "trim" => j.then # "free_node" /\ g.addr = Null /\ k.then # "free_node"
  <2>1. /\ j.op \in {"chunk", "slow", "extend", "trim"} /\ k.all = j.all /\ k.need = j.need /\ k.align = j.align
        /\ j.op = "trim" => h.addr = g.addr /\ k.op \in {"trim", j.then} /\ k.then = j.then
        /\ k.then = j.then \/ k.then \in {"based", "insert"}
    BY DEF Maps, MapFails, MapsAligned, MapsUnaligned, Extends, ExtendFails, TrimsHead, TrimsTail, StartsSlow, MapsSlow,
           Becomes, GetIs, FailOp
  <2>2. j.op # "trim" => j.then # "free_node" /\ g.addr = Null
    BY <2>1 DEF Hand, Allocating
  <2> QED  BY <2>1, <2>2, JobFields
<1>2. j.op \in Allocating \/ (j.op = "trim" /\ j.then # "free_node")
        \/ (j.op = "trim" /\ j.then = "free_node" /\ k.op \in {"trim", "free_node"} /\ k.then = "free_node")
  BY <1>1 DEF Allocating
<1>3. k.op \in {"chunk", "slow", "extend"} \/ Mapping(k) \/ k.then = "free_node"
  <2>1. k.op \in {"chunk", "slow", "extend", "trim", "based", "align", "insert", "free_node"}
    BY <1>1 DEF Maps, MapFails, MapsAligned, MapsUnaligned, Extends, ExtendFails, TrimsHead, TrimsTail, StartsSlow, MapsSlow,
           Becomes, GetIs, FailOp, Thens
  <2>2. k.op = "free_node" => k.then = "free_node"
    BY <1>1 DEF Maps, MapFails, MapsAligned, MapsUnaligned, Extends, ExtendFails, TrimsHead, TrimsTail, StartsSlow, MapsSlow,
           Becomes, GetIs, FailOp, Thens
  <2> QED  BY <2>1, <2>2 DEF Mapping
<1>4. (Sized(j) => Sized(k)) /\ \A c : Sizes(j, c) => Sizes(k, c)
  BY <1>1, <1>2 DEF Sized, Sizes, Allocating
<1>5. k.op \in {"chunk", "slow", "extend"} => h.addr = Null
  BY <1>1 DEF Maps, MapFails, MapsAligned, MapsUnaligned, Extends, ExtendFails, TrimsHead, TrimsTail, StartsSlow, MapsSlow,
           Becomes, GetIs, FailOp, Thens
<1>6. New(k, h) = New(j, g)
  BY <1>1, <1>3, <1>5 DEF New, Mapping, Thens
<1> QED  BY <1>4, <1>6


-----------------------------------------------------------------------------
(* What is held.                                                           *)

Filled(P, a, n, id) == \A q \in Span(a, n) : P[q] = id

(* Every page of an object has its name.                                   *)
Held(P, O) == \A i \in DOMAIN O : Filled(P, O[i].addr, O[i].size, i)

(* An object that is to be moved is as it was, and fits into the extent at *)
(* n; when it has been moved, what is kept of it is there.                 *)
Suits(P, T, c, n) ==
  /\ c.moving => /\ Filled(P, c.from, c.oldsize, c.id)
                 /\ \A e \in T : e.addr = c.from => e.size = c.oldsize
                 /\ \A e \in T : e.addr = n => e.size >= c.size
  /\ c.what = "ralloc" /\ ~c.moving =>
       \A e \in T : e.addr = n => c.kept <= e.size /\ Filled(P, n, c.kept, c.id)

(* No two calls are about one object, and none about one the client has.   *)
Named(O, I) ==
  \A t \in Threads : I[t] # Null => /\ I[t] \notin DOMAIN O
                                    /\ \A u \in Threads : I[u] = I[t] => u = t

Outline(j, g, c) == Layout(j, g) /\ Sized(j) /\ Sizes(j, c)

Mines == [t \in Threads |-> Mine(job[t], got[t])]
News == [t \in Threads |-> New(job[t], got[t])]
Froms == [t \in Threads |-> call[t].from]
Names == [t \in Threads |-> call[t].id]

EInv ==
  /\ DOMAIN pages \subseteq Pages
  /\ \A t \in Threads : Outline(job[t], got[t], call[t])
  /\ Separate(DOMAIN pages, BasePages(base), Live(tree, call), Mines)
  /\ Tracked(tree, objects, Froms, News)
  /\ Named(objects, Names)
  /\ Held(pages, objects)
  /\ \A t \in Threads : Suits(pages, tree, call[t], News[t])

LEMMA MineTyped ==
  ASSUME NEW j \in Jobs, NEW g \in Gets
  PROVE  Mine(j, g) \subseteq Nat /\ New(j, g) \in Addresses
<1>1. Pieces(j) \subseteq Nat
  BY JobFields, SpanTyped DEF Pieces
<1>2. Body(j, g) \subseteq Nat
  <2>1. g.addr # Null => g.addr \in Nat
    BY DEF Gets, Addresses
  <2> QED  BY <2>1, AmountTyped, SpanTyped DEF Body
<1>3. New(j, g) \in Addresses
  BY DEF New, Gets, Addresses
<1> QED  BY <1>1, <1>2, <1>3 DEF Mine

LEMMA OfThreads ==
  ASSUME IInv
  PROVE  /\ Mines \in [Threads -> SUBSET Nat] /\ News \in [Threads -> Addresses]
         /\ Froms \in [Threads -> Addresses] /\ Names \in [Threads -> Addresses]
         /\ Addressed(tree, objects)
         /\ \A t \in Threads : /\ Mines[t] = Mine(job[t], got[t]) /\ News[t] = New(job[t], got[t])
                               /\ Froms[t] = call[t].from /\ Names[t] = call[t].id
<1>1. ASSUME NEW t \in Threads
      PROVE  /\ Mine(job[t], got[t]) \in SUBSET Nat /\ New(job[t], got[t]) \in Addresses
             /\ call[t].from \in Addresses /\ call[t].id \in Addresses
  <2>1. job[t] \in Jobs /\ got[t] \in Gets /\ call[t] \in Clients
    BY Known
  <2> QED  BY <2>1, MineTyped, CallFields
<1>2. Addressed(tree, objects)
  <2>1. TypeOK
    BY DEF IInv
  <2> QED  BY <2>1, ExtentTyped, ObjectTyped, Constants DEF Addressed
<1> QED  BY <1>1, <1>2 DEF Mines, News, Froms, Names

LEMMA OfThreadsGone ==
  ASSUME IInv, NEW t \in Threads, NEW k, NEW h, NEW c, Goes(t, k, h, c)
  PROVE  /\ Mines' = [Mines EXCEPT ![t] = Mine(k, h)]
         /\ News' = [News EXCEPT ![t] = New(k, h)]
         /\ Froms' = [Froms EXCEPT ![t] = c.from]
         /\ Names' = [Names EXCEPT ![t] = c.id]
         /\ job'[t] = k /\ got'[t] = h /\ call'[t] = c
         /\ \A u \in Threads : u # t => job'[u] = job[u] /\ got'[u] = got[u] /\ call'[u] = call[u]
<1>1. job \in [Threads -> Jobs] /\ got \in [Threads -> Gets] /\ call \in [Threads -> Clients]
  BY DEF IInv, TypeOK
<1>2. /\ job'[t] = k /\ got'[t] = h /\ call'[t] = c
      /\ \A u \in Threads : u # t => job'[u] = job[u] /\ got'[u] = got[u] /\ call'[u] = call[u]
  BY <1>1 DEF Goes
<1>3. ASSUME NEW u \in Threads
      PROVE  /\ Mine(job'[u], got'[u]) = IF u = t THEN Mine(k, h) ELSE Mine(job[u], got[u])
             /\ New(job'[u], got'[u]) = IF u = t THEN New(k, h) ELSE New(job[u], got[u])
             /\ call'[u].from = IF u = t THEN c.from ELSE call[u].from
             /\ call'[u].id = IF u = t THEN c.id ELSE call[u].id
  BY <1>2
<1>4. Mines' = [Mines EXCEPT ![t] = Mine(k, h)]
  <2>1. Mines' = [u \in Threads |-> Mine(job'[u], got'[u])]
    BY DEF Mines
  <2>2. Mines' = [u \in Threads |-> IF u = t THEN Mine(k, h) ELSE Mine(job[u], got[u])]
    BY <1>3, <2>1
  <2> QED  BY <2>2 DEF Mines
<1>5. News' = [News EXCEPT ![t] = New(k, h)]
  <2>1. News' = [u \in Threads |-> New(job'[u], got'[u])]
    BY DEF News
  <2>2. News' = [u \in Threads |-> IF u = t THEN New(k, h) ELSE New(job[u], got[u])]
    BY <1>3, <2>1
  <2> QED  BY <2>2 DEF News
<1>6. Froms' = [Froms EXCEPT ![t] = c.from]
  <2>1. Froms' = [u \in Threads |-> call'[u].from]
    BY DEF Froms
  <2>2. Froms' = [u \in Threads |-> IF u = t THEN c.from ELSE call[u].from]
    BY <1>3, <2>1
  <2> QED  BY <2>2 DEF Froms
<1>7. Names' = [Names EXCEPT ![t] = c.id]
  <2>1. Names' = [u \in Threads |-> call'[u].id]
    BY DEF Names
  <2>2. Names' = [u \in Threads |-> IF u = t THEN c.id ELSE call[u].id]
    BY <1>3, <2>1
  <2> QED  BY <2>2 DEF Names
<1> QED  BY <1>2, <1>4, <1>5, <1>6, <1>7

(* What has to be shown of a step of thread t. *)
LEMMA Settled ==
  ASSUME IInv, EInv, NEW t \in Threads, NEW k, NEW h, NEW c, Goes(t, k, h, c), Outline(k, h, c),
         DOMAIN pages' \subseteq Pages,
         Separate(DOMAIN pages', BasePages(base'), Live(tree', call'), Mines'),
         Tracked(tree', objects', Froms', News'), Named(objects', Names'), Held(pages', objects'),
         Suits(pages', tree', c, New(k, h)),
         \A u \in Threads : u # t => Suits(pages', tree', call[u], News[u])
  PROVE  EInv'
<1>1. \A u \in Threads : Outline(job'[u], got'[u], call'[u])
  BY OfThreadsGone DEF EInv
<1>2. ASSUME NEW u \in Threads PROVE Suits(pages', tree', call'[u], News'[u])
  <2>1. News' = [News EXCEPT ![t] = New(k, h)] /\ News \in [Threads -> Addresses]
    BY OfThreads, OfThreadsGone
  <2>2. CASE u = t
    BY <2>1, <2>2, OfThreadsGone
  <2>3. CASE u # t
    BY <2>1, <2>3, OfThreadsGone
  <2> QED  BY <2>2, <2>3
<1> QED  BY <1>1, <1>2 DEF EInv

LEMMA KnownPages ==
  ASSUME IInv, EInv, NEW t \in Threads
  PROVE  /\ job[t] \in Jobs /\ got[t] \in Gets /\ call[t] \in Clients
         /\ Hand(job[t], got[t]) /\ Purpose(job[t], got[t], call[t]) /\ Argued(call[t], uses[t])
         /\ Layout(job[t], got[t]) /\ Sized(job[t]) /\ Sizes(job[t], call[t])
         /\ Mine(job[t], got[t]) \subseteq DOMAIN pages /\ Mine(job[t], got[t]) \subseteq Pages
         /\ Suits(pages, tree, call[t], New(job[t], got[t]))
<1>1. Mines[t] = Mine(job[t], got[t]) /\ News[t] = New(job[t], got[t])
  BY OfThreads
<1>2. Mines[t] \subseteq DOMAIN pages /\ DOMAIN pages \subseteq Pages
  BY DEF EInv, Separate
<1> QED  BY <1>1, <1>2, Known DEF EInv, Outline

(* The pages of the extents E but those at X are as they were.             *)
Spares(P, Q, E, X) == \A e \in E : e.addr \notin X => Kept(P, Q, Ext(e))

LEMMA KeptFilled ==
  ASSUME NEW P, NEW Q, NEW a, NEW n, NEW id, Filled(P, a, n, id), Kept(P, Q, Span(a, n))
  PROVE  Filled(Q, a, n, id)
BY DEF Filled, Kept

LEMMA OwnersLive ==
  ASSUME IInv, EInv, NEW e \in tree
  PROVE  /\ (\E i \in DOMAIN objects : e.addr = objects[i].addr) => e \in Live(tree, call)
         /\ (\E u \in Threads : e.addr = News[u]) => e \in Live(tree, call)
         /\ \A u \in Threads : e.addr = Froms[u] /\ ~Vacated(call[u]) => e \in Live(tree, call)
<1>1. e.addr # Null /\ Tracked(tree, objects, Froms, News) /\ \A u \in Threads : Froms[u] = call[u].from
  BY OfThreads DEF EInv, Addressed
<1>2. ASSUME NEW i \in DOMAIN objects, e.addr = objects[i].addr PROVE e \in Live(tree, call)
  <2>1. \A u \in Threads : e.addr # call[u].from
    BY <1>1, <1>2 DEF Tracked
  <2> QED  BY <2>1 DEF Live
<1>3. ASSUME NEW u \in Threads, e.addr = News[u] PROVE e \in Live(tree, call)
  <2>1. \A v \in Threads : e.addr # call[v].from
    BY <1>1, <1>3 DEF Tracked
  <2> QED  BY <2>1 DEF Live
<1>4. ASSUME NEW u \in Threads, e.addr = Froms[u], ~Vacated(call[u]) PROVE e \in Live(tree, call)
  <2>1. \A v \in Threads : Froms[v] = Froms[u] => v = u
    BY <1>1, <1>4 DEF Tracked
  <2>2. \A v \in Threads : e.addr = call[v].from => v = u
    BY <1>1, <1>4, <2>1
  <2> QED  BY <1>4, <2>2 DEF Live
<1> QED  BY <1>2, <1>3, <1>4

(* What is spared is held still.                                           *)
LEMMA HeldStill ==
  ASSUME IInv, EInv, NEW Q, NEW X, Spares(pages, Q, Live(tree, call), X),
         NEW i \in DOMAIN objects, objects[i].addr \notin X
  PROVE  Filled(Q, objects[i].addr, objects[i].size, i)
<1>1. PICK e \in tree : e.addr = objects[i].addr /\ e.size = objects[i].size
  BY DEF EInv, Tracked
<1>2. e \in Live(tree, call)
  BY <1>1, OwnersLive
<1>3. Kept(pages, Q, Span(objects[i].addr, objects[i].size))
  BY <1>1, <1>2 DEF Spares, Ext
<1> QED  BY <1>3, KeptFilled DEF EInv, Held

LEMMA SuitsStill ==
  ASSUME IInv, EInv, NEW Q, NEW X, Spares(pages, Q, Live(tree, call), X),
         NEW u \in Threads, Froms[u] \notin X, News[u] \notin X
  PROVE  Suits(Q, tree, call[u], News[u])
<1>1. PICK c \in Clients, n \in Addresses : /\ c = call[u] /\ n = News[u] /\ Froms[u] = c.from
                                           /\ Suits(pages, tree, c, n) /\ Tracked(tree, objects, Froms, News)
  BY Known, OfThreads DEF EInv
<1>2. ASSUME c.moving PROVE Filled(Q, c.from, c.oldsize, c.id)
  <2>1. c.from # Null
    BY <1>1, <1>2, Known DEF Purpose
  <2>2. PICK e \in tree : e.addr = c.from
    BY <1>1, <2>1 DEF Tracked
  <2>3. e.size = c.oldsize /\ e \in Live(tree, call)
    BY <1>1, <1>2, <2>2, OwnersLive DEF Suits, Vacated
  <2>4. Kept(pages, Q, Span(c.from, c.oldsize))
    BY <1>1, <2>2, <2>3 DEF Spares, Ext
  <2> QED  BY <1>1, <1>2, <2>4, KeptFilled DEF Suits
<1>3. ASSUME c.what = "ralloc", ~c.moving, NEW e \in tree, e.addr = n
      PROVE  c.kept <= e.size /\ Filled(Q, n, c.kept, c.id)
  <2>1. c.kept <= e.size /\ Filled(pages, n, c.kept, c.id) /\ e \in Live(tree, call)
    BY <1>1, <1>3, OwnersLive DEF Suits
  <2>2. Kept(pages, Q, Span(n, e.size))
    BY <1>1, <1>3, <2>1 DEF Spares, Ext
  <2>3. n \in Nat /\ e.size \in Nat /\ c.kept \in Nat
    BY <1>3, ExtentTyped, CallFields DEF IInv
  <2>4. Span(n, c.kept) \subseteq Span(n, e.size)
    BY <2>1, <2>3, SpanTyped
  <2>5. Kept(pages, Q, Span(n, c.kept))
    BY <2>2, <2>4 DEF Kept
  <2> QED  BY <2>1, <2>5, KeptFilled
<1> QED  BY <1>1, <1>2, <1>3 DEF Suits

(* The tree may lose extents, or get one that is at no known address. *)
LEMMA SuitsTree ==
  ASSUME NEW P, NEW T, NEW U, NEW c, NEW n, Suits(P, T, c, n),
         \A e \in U : e \in T \/ (e.addr # n /\ e.addr # c.from)
  PROVE  Suits(P, U, c, n)
BY DEF Suits

LEMMA SparesAll ==
  ASSUME NEW P, NEW Q, Q = P, NEW E
  PROVE  Spares(P, Q, E, {})
BY DEF Spares, Kept

-----------------------------------------------------------------------------
(* Steps that leave the tree, the calls and the objects as they are.       *)

LEMMA Nothing ==
  ASSUME NEW j \in Jobs, NEW g \in Gets, j.lead = 0, j.tail = 0,
         j.op \notin {"trim", "based", "align", "insert"} \/ j.then = "free_node" \/ g.addr = Null
  PROVE  Mine(j, g) = {}
BY NoPieces, NotMapping DEF Mine

LEMMA FollowsKeeps ==
  ASSUME IInv, EInv, NEW t \in Threads, NEW Q, NEW m, Follows(pages, Q, Mines[t], m)
  PROVE  /\ DOMAIN Q \subseteq Pages
         /\ Separate(DOMAIN Q, BasePages(base), Live(tree, call), [Mines EXCEPT ![t] = m])
         /\ Spares(pages, Q, Live(tree, call), {})
<1>1. PICK D, B, E, M : /\ D = DOMAIN pages /\ B = BasePages(base) /\ E = Live(tree, call) /\ M = Mines
                        /\ Separate(D, B, E, M) /\ M \in [Threads -> SUBSET Nat] /\ D \subseteq Pages
  BY OfThreads DEF EInv
<1>2. PICK X : \/ Gets1(pages, Q, X) /\ m = M[t] \cup X
               \/ Loses1(pages, Q, X) /\ X \subseteq M[t] /\ m = M[t] \ X
  BY <1>1 DEF Follows
<1>3. \A e \in E : Ext(e) \subseteq D /\ Ext(e) \cap M[t] = {}
  BY <1>1 DEF Separate
<1>4. CASE Gets1(pages, Q, X) /\ m = M[t] \cup X
  <2>1. DOMAIN Q = D \cup X /\ X \cap D = {} /\ X \subseteq Pages /\ Kept(pages, Q, D)
    BY <1>1, <1>4 DEF Gets1
  <2>2. Separate(D \cup X, B, E, [M EXCEPT ![t] = m])
    BY <1>1, <1>4, <2>1, Grows
  <2>3. Spares(pages, Q, E, {})
    BY <1>3, <2>1 DEF Spares, Kept
  <2> QED  BY <1>1, <2>1, <2>2, <2>3
<1>5. CASE Loses1(pages, Q, X) /\ X \subseteq M[t] /\ m = M[t] \ X
  <2>1. DOMAIN Q = D \ X /\ Kept(pages, Q, D \ X)
    BY <1>1, <1>5 DEF Loses1
  <2>2. Separate(D \ X, B, E, [M EXCEPT ![t] = m])
    BY <1>1, <1>5, Shrinks
  <2>3. Spares(pages, Q, E, {})
    BY <1>3, <1>5, <2>1 DEF Spares, Kept
  <2> QED  BY <1>1, <2>1, <2>2, <2>3
<1> QED  BY <1>2, <1>4, <1>5

LEMMA Remains ==
  ASSUME NEW f, NEW t \in Threads, NEW S, f \in [Threads -> S], NEW x, x = f[t]
  PROVE  [f EXCEPT ![t] = x] = f
OBVIOUS

LEMMA AllHeld ==
  ASSUME IInv, EInv, Spares(pages, pages', Live(tree, call), {}), NEW O, DOMAIN O \subseteq DOMAIN objects,
         \A i \in DOMAIN O : O[i] = objects[i]
  PROVE  Held(pages', O)
BY HeldStill DEF Held

LEMMA Resting ==
  ASSUME IInv, EInv, NEW t \in Threads, NEW k, NEW h, Goes(t, k, h, call[t]), Outline(k, h, call[t]),
         Follows(pages, pages', Mine(job[t], got[t]), Mine(k, h)), New(k, h) = New(job[t], got[t]),
         UNCHANGED <<tree, call, objects>>, base.chunks' = base.chunks
  PROVE  EInv'
<1>1. /\ Mines[t] = Mine(job[t], got[t]) /\ News[t] = New(job[t], got[t]) /\ News \in [Threads -> Addresses]
      /\ Froms[t] = call[t].from /\ Froms \in [Threads -> Addresses]
      /\ Names[t] = call[t].id /\ Names \in [Threads -> Addresses]
  BY OfThreads
<1>2. /\ DOMAIN pages' \subseteq Pages
      /\ Separate(DOMAIN pages', BasePages(base), Live(tree, call), [Mines EXCEPT ![t] = Mine(k, h)])
      /\ Spares(pages, pages', Live(tree, call), {})
  BY <1>1, FollowsKeeps
<1>3. Mines' = [Mines EXCEPT ![t] = Mine(k, h)] /\ News' = News /\ Froms' = Froms /\ Names' = Names
  BY <1>1, OfThreadsGone, Remains
<1>4. BasePages(base') = BasePages(base)
  BY DEF BasePages
<1>5. Live(tree', call') = Live(tree, call)
  OBVIOUS
<1>6. Separate(DOMAIN pages', BasePages(base'), Live(tree', call'), Mines')
  BY <1>2, <1>3, <1>4, <1>5
<1>7. Tracked(tree', objects', Froms', News') /\ Named(objects', Names')
  BY <1>3 DEF EInv
<1>8. Held(pages', objects')
  BY <1>2, AllHeld
<1>9. \A u \in Threads : Suits(pages', tree', call[u], News[u])
  BY <1>2, SuitsStill
<1> QED  BY <1>1, <1>2, <1>6, <1>7, <1>8, <1>9, Settled

LEMMA MapRests ==
  ASSUME IInv, EInv, NEW t \in Threads, NEW k \in Jobs, NEW h \in Gets, MapStep(t, k, h)
  PROVE  EInv'
<1>1. PICK j \in Jobs, g \in Gets, c \in Clients :
        /\ j = job[t] /\ g = got[t] /\ c = call[t] /\ Hand(j, g) /\ Layout(j, g) /\ Sized(j) /\ Sizes(j, c)
        /\ Mine(j, g) \subseteq Pages
  BY KnownPages
<1>2. /\ Goes(t, k, h, c) /\ Maps(pages, pages', j, g, k, h)
      /\ UNCHANGED <<tree, call, objects>> /\ base.chunks' = base.chunks
  BY <1>1 DEF MapStep
<1>3. Layout(k, h) /\ Follows(pages, pages', Mine(j, g), Mine(k, h))
  BY <1>1, <1>2, MapsMine
<1>4. Sized(k) /\ Sizes(k, c) /\ New(k, h) = New(j, g)
  BY <1>1, <1>2, MapsSized
<1> QED  BY <1>1, <1>2, <1>3, <1>4, Resting DEF Outline

(* A job that goes on with the same mapping to make. *)
LEMMA GoesOn ==
  ASSUME NEW j \in Jobs, NEW k, NEW op, NEW then, Becomes(k, j, op, then, j.at, j.lead, j.to, j.tail), Sized(j),
         j.op \in Allocating, NEW c, Sizes(j, c)
  PROVE  Sized(k) /\ Sizes(k, c)
BY DEF Becomes, Sized, Sizes

LEMMA NodeRests ==
  ASSUME IInv, EInv, NEW t \in Threads, NEW k \in Jobs, NEW h \in Gets, TakesNode(t, k, h) \/ CutsNode(t, k, h)
  PROVE  EInv'
<1>1. PICK j \in Jobs, g \in Gets, c \in Clients :
        /\ j = job[t] /\ g = got[t] /\ c = call[t] /\ Hand(j, g) /\ Layout(j, g) /\ Sized(j) /\ Sizes(j, c)
  BY KnownPages
<1>2. /\ Goes(t, k, h, c) /\ j.op \in {"node", "base"} /\ h.addr = g.addr
      /\ UNCHANGED <<pages, tree, call, objects>> /\ base.chunks' = base.chunks
      /\ \E op \in {"base", "chunk"}, then \in Thens : Becomes(k, j, op, then, j.at, j.lead, j.to, j.tail)
  <2>1. base \in [cut : Nat, chunks : SUBSET Nat, nodes : Nat] /\ j.then \in Thens /\ "based" \in Thens
    BY JobFields DEF IInv, TypeOK, Thens
  <2>2. CASE TakesNode(t, k, h)
    BY <1>1, <2>1, <2>2 DEF TakesNode, GetIs
  <2>3. CASE CutsNode(t, k, h)
    BY <1>1, <2>1, <2>3 DEF CutsNode, GetIs
  <2> QED  BY <2>2, <2>3
<1>3. PICK op \in {"base", "chunk"}, then \in Thens : Becomes(k, j, op, then, j.at, j.lead, j.to, j.tail)
  BY <1>2
<1>4. g.addr = Null /\ j.lead = 0 /\ j.tail = 0
  BY <1>1, <1>2 DEF Hand, Layout
<1>5. k.op \in {"base", "chunk"} /\ k.lead = 0 /\ k.tail = 0
  BY <1>3, <1>4 DEF Becomes
<1>6. Mine(j, g) = {} /\ Mine(k, h) = {}
  BY <1>2, <1>4, <1>5, Nothing
<1>7. New(j, g) = Null /\ New(k, h) = Null
  BY <1>2, <1>4 DEF New
<1>8. Layout(k, h)
  BY <1>2, <1>4, <1>5 DEF Layout, Mapping
<1>9. Sized(k) /\ Sizes(k, c)
  <2>1. j.op \in Allocating
    BY <1>2 DEF Allocating
  <2> QED  BY <1>1, <1>3, <2>1, GoesOn
<1>10. Follows(pages, pages', Mine(j, g), Mine(k, h))
  BY <1>2, <1>6, FollowsSame
<1> QED  BY <1>1, <1>2, <1>7, <1>8, <1>9, <1>10, Resting DEF Outline

LEMMA FreeNodeRests ==
  ASSUME IInv, EInv, NEW t \in Threads, NEW k \in Jobs, NEW h \in Gets, FreesNode(t, k, h)
  PROVE  EInv'
<1>1. PICK j \in Jobs, g \in Gets, c \in Clients :
        /\ j = job[t] /\ g = got[t] /\ c = call[t] /\ Layout(j, g)
  BY KnownPages
<1>2. /\ Goes(t, k, h, c) /\ j.op = "free_node" /\ h.addr = g.addr
      /\ UNCHANGED <<pages, tree, call, objects>> /\ base.chunks' = base.chunks
      /\ k.op \in Handlers /\ k.lead = 0 /\ k.tail = 0
  BY <1>1, HandlerIs DEF FreesNode, Fresh, GetIs
<1>3. j.lead = 0 /\ j.tail = 0
  BY <1>1, <1>2 DEF Layout
<1>4. Mine(j, g) = {} /\ Mine(k, h) = {}
  BY <1>2, <1>3, Nothing DEF Handlers
<1>5. New(k, h) = New(j, g)
  BY <1>2 DEF New, Mapping, Handlers
<1>6. Outline(k, h, c)
  BY <1>2 DEF Outline, Layout, Mapping, Sized, Sizes, Handlers, Allocating
<1>7. Follows(pages, pages', Mine(j, g), Mine(k, h))
  BY <1>2, <1>4, FollowsSame
<1> QED  BY <1>1, <1>2, <1>5, <1>6, <1>7, Resting

LEMMA InsertNoneRests ==
  ASSUME IInv, EInv, NEW t \in Threads, NEW k \in Jobs, Goes(t, k, got[t], call[t]), job[t].op = "insert",
         got[t].addr = Null, UNCHANGED <<pages, tree, call, objects, base>>,
         Fresh(k, IF got[t].node = Null THEN Handler(t) ELSE "free_node")
  PROVE  EInv'
<1>1. PICK j \in Jobs, g \in Gets, c \in Clients :
        /\ j = job[t] /\ g = got[t] /\ c = call[t] /\ Layout(j, g)
  BY KnownPages
<1>2. k.op \in {"moved", "give", "free_node"} /\ k.lead = 0 /\ k.tail = 0
  BY HandlerIs DEF Handlers, Fresh
<1>3. j.lead = 0 /\ j.tail = 0
  BY <1>1 DEF Layout
<1>4. Mine(j, g) = {} /\ Mine(k, g) = {}
  BY <1>1, <1>2, <1>3, Nothing
<1>5. New(k, g) = New(j, g)
  BY <1>1 DEF New
<1>6. Outline(k, g, c)
  BY <1>2 DEF Outline, Layout, Mapping, Sized, Sizes, Allocating
<1>7. Follows(pages, pages', Mine(j, g), Mine(k, g))
  BY <1>4, FollowsSame
<1> QED  BY <1>1, <1>5, <1>6, <1>7, Resting

(* base_pages_alloc has its chunk, or none. *)
LEMMA CutFirstKeeps ==
  ASSUME IInv, EInv, NEW t \in Threads, NEW k \in Jobs, NEW h \in Gets, CutsFirst(t, k, h)
  PROVE  EInv'
<1>1. PICK j \in Jobs, g \in Gets, c \in Clients :
        /\ j = job[t] /\ g = got[t] /\ c = call[t] /\ Hand(j, g) /\ Layout(j, g) /\ Sized(j) /\ Sizes(j, c)
        /\ Purpose(j, g, c)
  BY KnownPages
<1>2. /\ Goes(t, k, h, c) /\ j.op = "based" /\ j.then = "based" /\ j.lead = 0 /\ j.tail = 0 /\ j.op \in Allocating
      /\ UNCHANGED <<tree, call, objects>>
  BY <1>1 DEF CutsFirst, Layout, Hand, Allocating
<1>3. CASE /\ g.addr = Null /\ h = g /\ UNCHANGED <<pages, base>>
           /\ Becomes(k, j, "insert", "insert", j.at, j.lead, j.to, j.tail)
  <2>1. k.op = "insert" /\ k.then = "insert" /\ k.lead = 0 /\ k.tail = 0 /\ Sized(k) /\ Sizes(k, c)
    BY <1>1, <1>2, <1>3, GoesOn DEF Becomes
  <2>2. Mine(j, g) = {} /\ Mine(k, h) = {}
    BY <1>2, <1>3, <2>1, Nothing
  <2>3. New(k, h) = New(j, g)
    BY <1>2, <1>3, <2>1 DEF New, Mapping
  <2>4. Outline(k, h, c)
    BY <1>3, <2>1 DEF Outline, Layout
  <2>5. Follows(pages, pages', Mine(j, g), Mine(k, h))
    BY <1>3, <2>2, FollowsSame
  <2> QED  BY <1>1, <1>2, <1>3, <2>3, <2>4, <2>5, Resting
<1>4. CASE /\ g.addr \in Nat /\ GetIs(h, base.nodes, Null)
           /\ pages' = [q \in DOMAIN pages |-> IF q \in Span(g.addr, ChunkPages) THEN "base" ELSE pages[q]]
           /\ base' = [cut |-> 1, chunks |-> base.chunks \cup {g.addr}, nodes |-> base.nodes + 1]
           /\ Becomes(k, j, "chunk", NextOf(j), j.at, j.lead, j.to, j.tail)
  <2>1. PICK p, X : p = g.addr /\ X = Span(p, ChunkPages) /\ p \in Nat /\ p # Null
    BY <1>4, Constants
  <2>2. k.op = "chunk" /\ k.lead = 0 /\ k.tail = 0 /\ Sized(k) /\ Sizes(k, c)
    BY <1>1, <1>2, <1>4, GoesOn DEF Becomes
  <2>3. Mine(j, g) = X
    <3>1. Body(j, g) = X
      BY <1>2, <2>1 DEF Body, Mapping, Amount
    <3>2. Pieces(j) = {}
      BY <1>2, NoPieces
    <3> QED  BY <3>1, <3>2 DEF Mine
  <2>4. Mine(k, h) = {}
    BY <2>2, Nothing
  <2>5. New(j, g) = Null /\ New(k, h) = Null
    BY <1>2, <1>4, <2>2 DEF New, Mapping, GetIs
  <2>6. Outline(k, h, c)
    BY <1>4, <2>2 DEF Outline, Layout, Mapping, GetIs
  <2>7. BasePages(base') = BasePages(base) \cup X
    <3>1. base'.chunks = base.chunks \cup {p}
      BY <1>4, <2>1
    <3> QED  BY <2>1, <3>1 DEF BasePages
  <2>8. PICK D, B, E, M : /\ D = DOMAIN pages /\ B = BasePages(base) /\ E = Live(tree, call) /\ M = Mines
                          /\ Separate(D, B, E, M) /\ M \in [Threads -> SUBSET Nat] /\ D \subseteq Pages /\ M[t] = X
    BY <1>1, <2>3, OfThreads DEF EInv
  <2>9. Separate(D, B \cup X, E, [M EXCEPT ![t] = {}])
    <3>1. {} = M[t] \ X /\ X \subseteq M[t]
      BY <2>8
    <3> QED  BY <2>8, <3>1, BecomesBase
  <2>10. /\ Mines' = [M EXCEPT ![t] = {}] /\ News' = News /\ Froms' = Froms /\ Names' = Names
         /\ News[t] = New(k, h)
    BY <1>1, <1>2, <2>4, <2>5, <2>8, OfThreads, OfThreadsGone, Remains
  <2>11. DOMAIN pages' = D /\ Live(tree', call') = E
    BY <1>2, <1>4, <2>8
  <2>12. Spares(pages, pages', E, {})
    <3>1. \A e \in E : Ext(e) \subseteq D /\ Ext(e) \cap X = {}
      BY <2>8 DEF Separate
    <3> QED  BY <1>4, <2>1, <2>8, <3>1 DEF Spares, Kept
  <2>13. Tracked(tree', objects', Froms', News') /\ Named(objects', Names')
    BY <1>2, <2>10 DEF EInv
  <2>14. Held(pages', objects')
    BY <1>2, <2>8, <2>12, AllHeld
  <2>15. \A u \in Threads : Suits(pages', tree', call[u], News[u])
    BY <1>2, <2>8, <2>12, SuitsStill
  <2>16. Separate(DOMAIN pages', BasePages(base'), Live(tree', call'), Mines')
    BY <2>7, <2>8, <2>9, <2>10, <2>11
  <2> QED  BY <1>1, <1>2, <2>6, <2>8, <2>10, <2>11, <2>13, <2>14, <2>15, <2>16, Settled
<1> QED  BY <1>1, <1>3, <1>4 DEF CutsFirst

(* The aligned part of a mapping at a chunk is at a chunk, and in it.      *)
LeadOf(ret, a) == IF ret % a = 0 THEN 0 ELSE a - (ret % a)

LEMMA AlignFits ==
  ASSUME NEW ret \in Nat, NEW a \in Nat, NEW c \in Nat, c > 0, a > 0, Multiple(ret, c), Multiple(a, c)
  PROVE  LeadOf(ret, a) \in Nat /\ LeadOf(ret, a) <= a - c /\ (ret + LeadOf(ret, a)) % c = 0
<1>0. PICK lead : lead = LeadOf(ret, a) /\ lead = IF ret % a = 0 THEN 0 ELSE a - (ret % a)
  BY DEF LeadOf
<1>1. PICK b \in Nat : ret = c * b
  BY DEF Multiple
<1>2. PICK d \in Nat : a = c * d
  BY DEF Multiple
<1>3. PICK q \in Nat, r \in Nat : q = ret \div a /\ r = ret % a /\ r < a /\ ret = a * q + r
  BY Modulo
<1>4. a >= c
  <2>1. d >= 1
    BY <1>2
  <2>2. c * d >= c
    BY <2>1
  <2> QED  BY <1>2, <2>2
<1>5. PICK i \in Int : r = c * i
  <2>1. PICK x \in Nat : x = d * q
    OBVIOUS
  <2>2. a * q = c * x
    BY <1>2, <2>1
  <2>3. c * b = c * x + r
    BY <1>1, <1>3, <2>2
  <2>4. PICK i \in Int : i = b - x
    OBVIOUS
  <2>5. r = c * i
    BY <2>3, <2>4
  <2> QED  BY <2>5
<1>6. CASE r = 0
  <2>1. lead = 0
    BY <1>0, <1>3, <1>6
  <2>2. (ret + lead) % c = 0
    <3>1. ret + lead = c * b
      BY <1>1, <2>1
    <3> QED  BY <3>1
  <2> QED  BY <1>0, <1>4, <2>1, <2>2
<1>7. CASE r # 0
  <2>1. lead = a - r /\ lead \in Nat
    BY <1>0, <1>3, <1>7
  <2>2. r >= c
    <3>1. i >= 1
      <4>1. i <= 0 => c * i <= 0
        OBVIOUS
      <4> QED  BY <1>3, <1>5, <1>7, <4>1
    <3>2. c * i >= c
      BY <3>1
    <3> QED  BY <1>5, <3>2
  <2>3. lead <= a - c
    BY <2>1, <2>2
  <2>4. ret + lead = c * (b + d - i)
    <3>1. c * (b + d - i) = c * b + c * d - c * i
      OBVIOUS
    <3> QED  BY <1>1, <1>2, <1>5, <2>1, <3>1
  <2>5. PICK y \in Int : y = b + d - i /\ ret + lead = c * y
    BY <2>4
  <2>6. (c * y) % c = 0
    OBVIOUS
  <2> QED  BY <1>0, <2>1, <2>3, <2>5, <2>6
<1> QED  BY <1>6, <1>7

LEMMA AlignRests ==
  ASSUME IInv, EInv, NEW t \in Threads, NEW k \in Jobs, NEW h \in Gets, Aligns(t, k, h)
  PROVE  EInv'
<1>1. PICK j \in Jobs, g \in Gets, c \in Clients :
        /\ j = job[t] /\ g = got[t] /\ c = call[t] /\ Hand(j, g) /\ Layout(j, g) /\ Sized(j) /\ Sizes(j, c)
  BY KnownPages
<1>2. PICK ret \in Nat, a \in Nat, n \in Nat, all \in Nat, C \in Nat :
        ret = g.addr /\ a = j.align /\ n = j.need /\ all = j.all /\ C = ChunkPages /\ C > 0 /\ ret # Null
  BY <1>1, JobFields, Constants DEF Aligns
<1>3. /\ Goes(t, k, h, c) /\ j.op = "align" /\ j.then = "align" /\ j.lead = 0 /\ j.tail = 0 /\ j.op \in Allocating
      /\ UNCHANGED <<pages, tree, call, objects, base>>
  BY <1>1 DEF Aligns, Layout, Hand, Allocating
<1>4. /\ k.lead = IF ret % a = 0 THEN 0 ELSE a - (ret % a)
      /\ k.tail = (all - k.lead - n) % SizeMod /\ h.addr = ret + k.lead
      /\ Becomes(k, j, IF k.lead = 0 /\ k.tail = 0 THEN "insert" ELSE "trim", "insert", ret, k.lead, h.addr + n, k.tail)
  BY <1>1, <1>2 DEF Aligns, GetIs
<1>5. a > 0 /\ a % C = 0 /\ all >= n + a - C /\ all < SizeMod /\ ret % C = 0 /\ n > 0
  BY <1>1, <1>2, <1>3 DEF Sized, Hand, Layout, Mapping
<1>6. PICK l \in Nat : l = k.lead /\ l <= a - C /\ (ret + l) % C = 0
  <2>1. Multiple(ret, C) /\ Multiple(a, C)
    BY <1>2, <1>5, IsMultiple
  <2>2. LeadOf(ret, a) \in Nat /\ LeadOf(ret, a) <= a - C /\ (ret + LeadOf(ret, a)) % C = 0
    BY <1>2, <1>5, <2>1, AlignFits
  <2>3. k.lead = LeadOf(ret, a)
    BY <1>4 DEF LeadOf
  <2> QED  BY <2>2, <2>3
<1>7. PICK m \in Nat : m = k.tail /\ all = l + n + m
  <2>1. PICK m \in Nat : m = all - l - n
    BY <1>2, <1>5, <1>6
  <2>2. m < SizeMod /\ SizeMod \in Nat
    BY <1>5, <2>1, Constants
  <2>3. m % SizeMod = m
    BY <2>2, ModuloSmall
  <2> QED  BY <1>4, <1>6, <2>1, <2>3
<1>8. Mine(j, g) = Span(ret, all)
  <2>1. Body(j, g) = Span(ret, all)
    BY <1>2, <1>3 DEF Body, Mapping, Amount
  <2>2. Pieces(j) = {}
    BY <1>3, NoPieces
  <2> QED  BY <2>1, <2>2 DEF Mine
<1>9. PICK p \in Nat, s \in Nat : p = ret + l /\ p = h.addr /\ s = p + n /\ p # Null
  BY <1>4, <1>6, Constants
<1>10. k.op \in {"insert", "trim"} /\ k.then = "insert" /\ k.at = ret /\ k.lead = l /\ k.to = s /\ k.tail = m /\ k.need = n
  BY <1>2, <1>4, <1>6, <1>7, <1>9 DEF Becomes
<1>11. Amount(k) = n
  BY <1>10 DEF Amount
<1>12. Mine(k, h) = (Span(ret, l) \cup Span(s, m)) \cup Span(p, n)
  BY <1>9, <1>10, <1>11 DEF Mine, Pieces, Body, Mapping
<1>13. Mine(k, h) = Mine(j, g)
  <2>1. Span(p, n) \cup Span(p + n, m) = Span(p, n + m)
    BY SpanSplit
  <2>2. PICK z \in Nat : z = n + m /\ l + z = all
    BY <1>7
  <2>3. Span(ret, l) \cup Span(ret + l, z) = Span(ret, l + z)
    BY SpanSplit
  <2> QED  BY <1>8, <1>9, <1>12, <2>1, <2>2, <2>3
<1>14. Layout(k, h)
  <2>1. k.op = "insert" => l = 0 /\ m = 0
    BY <1>4, <1>6, <1>7 DEF Becomes
  <2> QED  BY <1>2, <1>6, <1>9, <1>10, <1>11, <2>1 DEF Layout
<1>15. Sized(k) /\ Sizes(k, c)
  BY <1>1, <1>3, <1>4 DEF Becomes, Sized, Sizes
<1>16. New(k, h) = New(j, g)
  BY <1>3, <1>10 DEF New, Mapping
<1>17. Follows(pages, pages', Mine(j, g), Mine(k, h))
  BY <1>3, <1>13, FollowsSame
<1> QED  BY <1>1, <1>3, <1>14, <1>15, <1>16, <1>17, Resting DEF Outline

-----------------------------------------------------------------------------
(* Into the tree, and out of it.                                           *)

LEMMA LiveStill ==
  ASSUME IInv, NEW t \in Threads, NEW k, NEW h, NEW c, Goes(t, k, h, c), ~Vacated(call[t]), ~Vacated(c)
  PROVE  \A T : Live(T, call') = Live(T, call)
<1>1. \A u \in Threads : Vacated(call'[u]) => Vacated(call[u]) /\ call'[u] = call[u]
  BY OfThreadsGone
<1>2. \A u \in Threads : Vacated(call[u]) => Vacated(call'[u]) /\ call'[u] = call[u]
  BY OfThreadsGone
<1> QED  BY <1>1, <1>2 DEF Live

LEMMA InsertKeeps ==
  ASSUME IInv, EInv, NEW t \in Threads, NEW k \in Jobs, NEW h \in Gets, Inserts(t, k, h), ~fault'
  PROVE  EInv'
<1>1. PICK j \in Jobs, g \in Gets, c \in Clients :
        /\ j = job[t] /\ g = got[t] /\ c = call[t] /\ Hand(j, g) /\ Layout(j, g) /\ Sized(j) /\ Sizes(j, c)
        /\ Purpose(j, g, c) /\ Suits(pages, tree, c, New(j, g))
  BY KnownPages
<1>2. /\ Goes(t, k, h, c) /\ j.op = "insert" /\ j.then = "insert" /\ j.lead = 0 /\ j.tail = 0 /\ j.op \in Allocating
      /\ UNCHANGED <<pages, base, call, objects>>
  BY <1>1 DEF Inserts, Layout, Hand, Allocating
<1>3. CASE g.addr = Null
  <2>1. h = g /\ UNCHANGED tree /\ Fresh(k, IF g.node = Null THEN Handler(t) ELSE "free_node")
    BY <1>1, <1>3, Constants DEF Inserts
  <2> QED  BY <1>1, <1>2, <1>3, <2>1, InsertNoneRests
<1>4. CASE g.addr # Null
  <2>1. PICK p \in Nat, n \in Nat : p = g.addr /\ n = j.need /\ p # Null /\ n > 0
    BY <1>1, <1>2, <1>4, JobFields DEF Gets, Addresses, Sized
  <2>2. PICK e : /\ e = [node |-> g.node, addr |-> p, size |-> n] /\ tree' = tree \cup {e}
                 /\ h.addr = p /\ Fresh(k, Handler(t))
    BY <1>1, <1>4, <2>1 DEF Inserts, GetIs
  <2>3. e.addr = p /\ e.size = n /\ k.op \in Handlers /\ k.lead = 0 /\ k.tail = 0
    BY <2>2, HandlerIs DEF Fresh
  <2>4. Mine(j, g) = Ext(e)
    <3>1. Body(j, g) = Span(p, n)
      BY <1>2, <2>1 DEF Body, Mapping, Amount
    <3>2. Pieces(j) = {}
      BY <1>2, NoPieces
    <3> QED  BY <2>3, <3>1, <3>2 DEF Mine, Ext
  <2>5. Mine(k, h) = {}
    BY <2>3, Nothing DEF Handlers
  <2>6. New(j, g) = Null /\ New(k, h) = p
    BY <1>2, <2>2, <2>3 DEF New, Mapping, Handlers
  <2>7. Outline(k, h, c)
    BY <2>3 DEF Outline, Layout, Mapping, Sized, Sizes, Handlers, Allocating
  <2>11. \A f \in tree : f.addr # p
    BY <1>1, <1>4, <2>1 DEF Inserts, Collides
  <2>8. c.what \in {"malloc", "ralloc"} /\ ~Vacated(c) /\ (c.what = "ralloc" => c.moving) /\ c.from # p
    <3>1. c.what \in {"malloc", "ralloc"} /\ (c.what = "ralloc" => c.moving)
      BY <1>1, <1>2, CallFields DEF Purpose
    <3>2. ~Vacated(c)
      BY <1>1, <1>2 DEF Purpose, Vacated
    <3>3. c.from # p
      <4>1. SUFFICES ASSUME c.from = p PROVE FALSE
        OBVIOUS
      <4>2. PICK f \in tree : f.addr = p
        BY <1>1, <2>1, <4>1, OfThreads DEF EInv, Tracked
      <4> QED  BY <2>11, <4>2
    <3> QED  BY <3>1, <3>2, <3>3
  <2>9. PICK L : L = Live(tree, call) /\ Live(tree', call') = L \cup {e}
    <3>0. SUFFICES Live(tree', call') = Live(tree, call) \cup {e}
      OBVIOUS
    <3>1. ASSUME NEW u \in Threads, Vacated(call[u]) PROVE call[u].from # p
      <4>1. PICK f \in tree : f.addr = call[u].from
        BY <3>1, OfThreads DEF EInv, Tracked, Vacated
      <4> QED  BY <2>11, <4>1
    <3>2. call' = call
      BY <1>2
    <3>3. Live(tree \cup {e}, call) = Live(tree, call) \cup {e}
      BY <2>3, <3>1 DEF Live
    <3> QED  BY <2>2, <3>2, <3>3
  <2>10. PICK D, B, M : /\ D = DOMAIN pages /\ B = BasePages(base) /\ M = Mines
                        /\ Separate(D, B, L, M) /\ M \in [Threads -> SUBSET Nat] /\ D \subseteq Pages /\ M[t] = Ext(e)
    BY <1>1, <2>4, <2>9, OfThreads DEF EInv
  <2>12. Separate(D, B, L \cup {e}, [M EXCEPT ![t] = {}])
    <3>1. {} = M[t] \ Ext(e) /\ Ext(e) \subseteq M[t]
      BY <2>10
    <3> QED  BY <2>10, <3>1, BecomesExtent
  <2>13. /\ Mines' = [M EXCEPT ![t] = {}] /\ News' = [News EXCEPT ![t] = e.addr] /\ Froms' = Froms /\ Names' = Names
         /\ News[t] = Null /\ News \in [Threads -> Addresses] /\ Froms[t] = c.from
    BY <1>1, <1>2, <2>3, <2>5, <2>6, <2>10, OfThreads, OfThreadsGone, Remains
  <2>14. Tracked(tree', objects', Froms', News')
    <3>1. Tracked(tree, objects, Froms, News) /\ Addressed(tree, objects)
      BY OfThreads DEF EInv
    <3>2. e.size > 0 /\ e.addr # Null /\ \A f \in tree : f.addr # e.addr
      BY <2>1, <2>3, <2>11
    <3>3. Tracked(tree \cup {e}, objects, Froms, [News EXCEPT ![t] = e.addr])
      BY <2>13, <3>1, <3>2, Tracks
    <3> QED  BY <1>2, <2>2, <2>13, <3>3
  <2>15. Spares(pages, pages', Live(tree, call), {})
    BY <1>2, SparesAll
  <2>16. Held(pages', objects')
    BY <1>2, <2>15, AllHeld
  <2>17. ASSUME NEW u \in Threads, u # t PROVE Suits(pages', tree', call[u], News[u])
    <3>1. Suits(pages', tree, call[u], News[u])
      BY <2>15, SuitsStill
    <3>2. News[u] # p /\ Froms[u] # p /\ Froms[u] = call[u].from
      BY <2>1, <2>11, OfThreads DEF EInv, Tracked
    <3>3. \A f \in tree' : f \in tree \/ (f.addr # News[u] /\ f.addr # call[u].from)
      BY <2>2, <2>3, <3>2
    <3> QED  BY <3>1, <3>3, SuitsTree
  <2>18. Suits(pages', tree', c, p)
    <3>1. c.moving => n >= c.size
      BY <1>1, <1>2, <2>1 DEF Sizes
    <3> QED  BY <1>1, <1>2, <2>2, <2>3, <2>8, <2>11, <3>1 DEF Suits
  <2>19. Separate(DOMAIN pages', BasePages(base'), Live(tree', call'), Mines')
    BY <1>2, <2>9, <2>10, <2>12, <2>13
  <2>20. Named(objects', Names')
    BY <1>2, <2>13 DEF EInv
  <2>21. DOMAIN pages' \subseteq Pages /\ Suits(pages', tree', c, New(k, h))
    BY <1>2, <2>6, <2>10, <2>18
  <2> QED  BY <1>1, <1>2, <2>7, <2>14, <2>16, <2>17, <2>19, <2>20, <2>21, Settled
<1> QED  BY <1>3, <1>4

LEMMA UntrackKeeps ==
  ASSUME IInv, EInv, NEW t \in Threads, NEW k \in Jobs, NEW h \in Gets, NEW c \in Clients, Untracks(t, k, h, c)
  PROVE  EInv'
<1>1. PICK j \in Jobs, g \in Gets, b \in Clients :
        /\ j = job[t] /\ g = got[t] /\ b = call[t] /\ Layout(j, g) /\ Purpose(j, g, b)
        /\ Suits(pages, tree, b, New(j, g))
  BY KnownPages
<1>2. /\ Goes(t, k, h, c) /\ j.op = "untrack" /\ j.lead = 0 /\ j.tail = 0 /\ UNCHANGED <<pages, base, objects>>
      /\ CallIs(c, b.what, b.id, Null, b.moving, b.unmap, b.kept) /\ h.addr = g.addr
  BY <1>1 DEF Untracks, Layout, GetIs
<1>3. PICK e \in tree :
       /\ e.addr = b.from /\ tree' = tree \ {e}
       /\ IF b.unmap
          THEN Becomes(k, j, IF e.size = 0 THEN "free_node" ELSE "trim", "free_node", e.addr, e.size, 0, 0)
          ELSE Fresh(k, "free_node")
  BY <1>1 DEF Untracks
<1>4. PICK p \in Nat, n \in Nat : p = e.addr /\ n = e.size /\ p # Null /\ n > 0
  BY ExtentTyped, Constants DEF EInv, Tracked, IInv
<1>5. ~b.moving /\ ~c.moving /\ c.from = Null /\ ~Vacated(c) /\ (Vacated(b) <=> ~b.unmap)
      /\ c.what = b.what /\ c.id = b.id /\ c.kept = b.kept
  BY <1>1, <1>2, <1>3, <1>4 DEF Purpose, CallIs, Vacated
<1>6. Mine(j, g) = {} /\ New(j, g) = g.addr
  BY <1>2, Nothing DEF New, Mapping
<1>7. PICK D, B, E, M : /\ D = DOMAIN pages /\ B = BasePages(base) /\ E = Live(tree, call) /\ M = Mines
                        /\ Separate(D, B, E, M) /\ M \in [Threads -> SUBSET Nat] /\ D \subseteq Pages /\ M[t] = {}
  BY <1>1, <1>6, OfThreads DEF EInv
<1>8. /\ Mines' = [M EXCEPT ![t] = Mine(k, h)] /\ News' = [News EXCEPT ![t] = New(k, h)]
      /\ Froms' = [Froms EXCEPT ![t] = Null] /\ Names' = Names
      /\ News[t] = g.addr /\ News \in [Threads -> Addresses] /\ Froms[t] = p /\ Froms \in [Threads -> Addresses]
  BY <1>1, <1>2, <1>3, <1>4, <1>5, <1>6, <1>7, OfThreads, OfThreadsGone, Remains
<1>9. Tracked(tree', objects', Froms', News)
  <2>1. Tracked(tree, objects, Froms, News) /\ Addressed(tree, objects)
    BY OfThreads DEF EInv
  <2>2. Tracked(tree \ {e}, objects, [Froms EXCEPT ![t] = Null], News)
    BY <1>4, <1>8, <2>1, TracksNot
  <2> QED  BY <1>2, <1>3, <1>8, <2>2
<1>10. Spares(pages, pages', Live(tree, call), {})
  BY <1>2, SparesAll
<1>11. Held(pages', objects')
  BY <1>2, <1>10, AllHeld
<1>12. ASSUME NEW u \in Threads PROVE Suits(pages', tree', call[u], News[u])
  <2>1. Suits(pages', tree, call[u], News[u])
    BY <1>10, SuitsStill
  <2> QED  BY <1>3, <2>1, SuitsTree
<1>13. Suits(pages', tree', c, g.addr)
  <2>1. Suits(pages', tree', b, g.addr)
    BY <1>1, <1>8, <1>12
  <2> QED  BY <1>5, <2>1 DEF Suits
<1>14. Named(objects', Names')
  BY <1>2, <1>8 DEF EInv
<1>15. \A f \in tree : f.addr = p => f = e
  BY <1>4 DEF EInv, Tracked
<1>16. \A u \in Threads : /\ u # t => call'[u] = call[u] /\ call[u].from # p
                          /\ call'[t] = c
  <2>1. \A u \in Threads : Froms[u] = call[u].from /\ (Froms[u] = Froms[t] => u = t)
    BY <1>4, <1>8, OfThreads DEF EInv, Tracked
  <2>2. call'[t] = c /\ \A u \in Threads : u # t => call'[u] = call[u]
    BY <1>2, OfThreadsGone
  <2>3. \A u \in Threads : u # t => call[u].from # p
    BY <1>8, <2>1
  <2> QED  BY <2>2, <2>3
<1>17. CASE b.unmap
  <2>1. /\ k.op = "trim" /\ k.then = "free_node" /\ k.at = p /\ k.lead = n /\ k.to = 0 /\ k.tail = 0
    BY <1>3, <1>4, <1>17 DEF Becomes
  <2>2. Mine(k, h) = Ext(e)
    BY <1>4, <2>1, SpanTyped, NotMapping DEF Mine, Pieces, Ext
  <2>3. New(k, h) = g.addr
    BY <1>2, <2>1 DEF New, Mapping
  <2>4. Outline(k, h, c)
    BY <1>5, <2>1 DEF Outline, Layout, Mapping, Sized, Sizes, Allocating
  <2>5. e \in E /\ Live(tree', call') = E \ {e}
    <3>1. e \in E
      BY <1>1, <1>4, <1>5, <1>7, <1>16, <1>17 DEF Live
    <3>2. ASSUME NEW f \in tree \ {e} PROVE f \in Live(tree', call') <=> f \in E
      BY <1>1, <1>3, <1>5, <1>7, <1>16, <1>17 DEF Live
    <3> QED  BY <1>3, <1>7, <3>1, <3>2 DEF Live
  <2>6. Separate(D, B, E \ {e}, [M EXCEPT ![t] = Ext(e)])
    <3>1. Ext(e) = M[t] \cup Ext(e)
      BY <1>7
    <3> QED  BY <1>7, <2>5, <3>1, BecomesPieces
  <2>7. News' = News
    BY <1>8, <2>3, Remains
  <2>8. Separate(DOMAIN pages', BasePages(base'), Live(tree', call'), Mines')
    BY <1>2, <1>7, <1>8, <2>2, <2>5, <2>6
  <2>9. DOMAIN pages' \subseteq Pages
    BY <1>2, <1>7
  <2> QED  BY <1>2, <1>9, <1>11, <1>12, <1>13, <1>14, <2>3, <2>4, <2>7, <2>8, <2>9, Settled
<1>18. CASE ~b.unmap
  <2>1. k.op = "free_node" /\ k.lead = 0 /\ k.tail = 0
    BY <1>3, <1>18 DEF Fresh
  <2>2. Mine(k, h) = {} /\ New(k, h) = g.addr
    BY <1>2, <2>1, Nothing DEF New, Mapping
  <2>3. Outline(k, h, c)
    BY <2>1 DEF Outline, Layout, Mapping, Sized, Sizes, Allocating
  <2>4. Live(tree', call') = E
    <3>1. e \notin E
      BY <1>1, <1>3, <1>5, <1>7, <1>18 DEF Live
    <3>2. ASSUME NEW f \in tree \ {e} PROVE f \in Live(tree', call') <=> f \in E
      BY <1>1, <1>3, <1>4, <1>5, <1>7, <1>15, <1>16, <1>18 DEF Live
    <3> QED  BY <1>3, <1>7, <3>1, <3>2 DEF Live
  <2>5. News' = News /\ Mines' = M
    BY <1>7, <1>8, <2>2, Remains
  <2>6. Separate(DOMAIN pages', BasePages(base'), Live(tree', call'), Mines')
    BY <1>2, <1>7, <2>4, <2>5
  <2>7. DOMAIN pages' \subseteq Pages
    BY <1>2, <1>7
  <2> QED  BY <1>2, <1>9, <1>11, <1>12, <1>13, <1>14, <2>2, <2>3, <2>5, <2>6, <2>7, Settled
<1> QED  BY <1>17, <1>18

-----------------------------------------------------------------------------
(* The client.                                                             *)

(* A call begins or goes on without the mapping it has to make. *)
LEMMA IdleOutline ==
  ASSUME NEW k \in Jobs, NEW g \in Gets, NEW c \in Clients, k.lead = 0, k.tail = 0,
         k.op \in {"idle", "untrack"} \/ k.op \in Handlers \/ (k.op = "node" /\ Sized(k) /\ (c.moving => k.need >= c.size)),
         k.op \in {"idle", "node"} => g.addr = Null
  PROVE  Outline(k, g, c) /\ Mine(k, g) = {} /\ New(k, g) = g.addr
<1>1. k.op \in {"idle", "untrack", "moved", "give", "node"}
  BY DEF Handlers
<1>2. ~Mapping(k)
  BY <1>1 DEF Mapping
<1>3. Layout(k, g)
  BY <1>1, <1>2 DEF Layout
<1>4. Sized(k) /\ Sizes(k, c)
  BY <1>1 DEF Sized, Sizes, Allocating, Handlers
<1>5. Mine(k, g) = {}
  BY <1>1, Nothing
<1> QED  BY <1>2, <1>3, <1>4, <1>5 DEF Outline, New

LEMMA OpensOutline ==
  ASSUME NEW k, NEW failed \in Handlers, Opens(k, failed), NEW n \in Nat, Ample(k, n), NEW g \in Gets, g.addr = Null,
         NEW c \in Clients, c.moving => n >= c.size
  PROVE  Outline(k, g, c) /\ Mine(k, g) = {} /\ New(k, g) = Null
<1>1. k \in Jobs /\ k.lead = 0 /\ k.tail = 0 /\ (k.op \in Handlers \/ k.op = "node")
  BY DEF Opens, Fresh
<1>2. k.op = "node" => Sized(k) /\ (c.moving => k.need >= c.size)
  <2>1. k.need \in Nat /\ c.size \in Nat
    BY <1>1, JobFields, CallFields
  <2> QED  BY <2>1 DEF Ample
<1> QED  BY <1>1, <1>2, IdleOutline

(* What a step of the client changes but for what it has to show. *)
LEMMA ClientsStep ==
  ASSUME IInv, EInv, NEW t \in Threads, NEW k, NEW h, NEW c, Goes(t, k, h, c), Outline(k, h, c),
         Mine(job[t], got[t]) = {}, Mine(k, h) = {}, UNCHANGED <<tree, base>>, DOMAIN pages' = DOMAIN pages,
         ~Vacated(call[t]), ~Vacated(c), NEW X, Spares(pages, pages', Live(tree, call), X),
         \A u \in Threads : u # t => Froms[u] \notin X /\ News[u] \notin X,
         Tracked(tree', objects', Froms', News'), Named(objects', Names'), Held(pages', objects'),
         Suits(pages', tree', c, New(k, h))
  PROVE  EInv'
<1>1. Mines' = Mines
  <2>1. Mines' = [Mines EXCEPT ![t] = {}] /\ Mines[t] = {} /\ Mines \in [Threads -> SUBSET Nat]
    BY OfThreads, OfThreadsGone
  <2> QED  BY <2>1
<1>2. Live(tree', call') = Live(tree, call)
  BY LiveStill
<1>3. Separate(DOMAIN pages', BasePages(base'), Live(tree', call'), Mines') /\ DOMAIN pages' \subseteq Pages
  BY <1>1, <1>2 DEF EInv
<1>4. ASSUME NEW u \in Threads, u # t PROVE Suits(pages', tree', call[u], News[u])
  BY <1>4, SuitsStill
<1> QED  BY <1>3, <1>4, Settled

LEMMA MallocKeeps ==
  ASSUME IInv, EInv, NEW t \in Threads, NEW k \in Jobs, NEW c \in Clients, MallocsOf(t, k, c)
  PROVE  EInv'
<1>1. PICK j \in Jobs, g \in Gets, b \in Clients :
        /\ j = job[t] /\ g = got[t] /\ b = call[t] /\ Hand(j, g) /\ Layout(j, g) /\ Purpose(j, g, b)
  BY KnownPages
<1>2. /\ Goes(t, k, g, c) /\ j.op = "idle" /\ Opens(k, "give") /\ Ample(k, 0)
      /\ c.id \in Ids /\ c.id \notin DOMAIN objects \cup Busy /\ CallIs(c, "malloc", c.id, Null, FALSE, FALSE, 0)
      /\ UNCHANGED <<pages, tree, base, objects>>
  BY <1>1 DEF MallocsOf
<1>3. /\ j.lead = 0 /\ j.tail = 0 /\ g.addr = Null /\ b.what = "none" /\ ~b.moving /\ b.from = Null /\ b.id = Null
  BY <1>1, <1>2 DEF Hand, Layout, Purpose
<1>4. c.what = "malloc" /\ ~c.moving /\ c.from = Null /\ c.id \in Ids /\ c.id # Null
  BY <1>2, Constants DEF CallIs
<1>5. /\ Mine(j, g) = {} /\ New(j, g) = Null /\ Outline(k, g, c) /\ Mine(k, g) = {} /\ New(k, g) = Null
  <2>1. Mine(j, g) = {} /\ New(j, g) = Null
    BY <1>2, <1>3, Nothing DEF New
  <2> QED  BY <1>2, <1>3, <1>4, <2>1, OpensOutline DEF Handlers
<1>6. /\ News' = News /\ Froms' = Froms /\ Names' = [Names EXCEPT ![t] = c.id] /\ Names[t] = Null
      /\ Names \in [Threads -> Addresses] /\ \A u \in Threads : Names[u] = call[u].id
  BY <1>1, <1>2, <1>3, <1>4, <1>5, OfThreads, OfThreadsGone, Remains
<1>7. Named(objects', Names')
  <2>1. \A u \in Threads : Names[u] # c.id
    <3>1. ASSUME NEW u \in Threads, call[u].id = c.id PROVE FALSE
      <4>1. call[u].what # "none" /\ job[u].op # "idle"
        BY <1>4, <3>1, Known DEF Purpose
      <4>2. c.id \in Busy
        BY <3>1, <4>1 DEF Busy, Idle, Task
      <4> QED  BY <1>2, <4>2
    <3> QED  BY <1>6, <3>1
  <2>2. Names'[t] = c.id /\ \A u \in Threads : u # t => Names'[u] = Names[u]
    BY <1>6
  <2> QED  BY <1>2, <2>1, <2>2 DEF EInv, Named
<1>8. Spares(pages, pages', Live(tree, call), {})
  BY <1>2, SparesAll
<1>9. Held(pages', objects')
  BY <1>2, <1>8, AllHeld
<1>10. Tracked(tree', objects', Froms', News')
  BY <1>2, <1>6 DEF EInv
<1>11. Suits(pages', tree', c, New(k, g)) /\ ~Vacated(b) /\ ~Vacated(c)
  BY <1>3, <1>4 DEF Suits, Vacated
<1> QED  BY <1>1, <1>2, <1>5, <1>7, <1>8, <1>9, <1>10, <1>11, ClientsStep

(* An object is taken from the client, to be freed or moved. *)
LEMMA Takes ==
  ASSUME IInv, EInv, NEW t \in Threads, NEW id \in DOMAIN objects, Disowns(id), Froms[t] = Null, Names[t] = Null,
         Names' = [Names EXCEPT ![t] = id], Froms' = [Froms EXCEPT ![t] = objects[id].addr], News' = News, UNCHANGED tree
  PROVE  Tracked(tree', objects', Froms', News') /\ Named(objects', Names')
<1>1. DOMAIN objects' = DOMAIN objects \ {id} /\ \A i \in DOMAIN objects' : objects'[i] = objects[i]
  BY DEF Disowns
<1>2. Tracked(tree, objects, Froms, News) /\ Addressed(tree, objects) /\ Froms \in [Threads -> Addresses]
      /\ Names \in [Threads -> Addresses]
  BY OfThreads DEF EInv
<1>3. Tracked(tree, objects', [Froms EXCEPT ![t] = objects[id].addr], News)
  BY <1>1, <1>2, TracksTaken
<1>4. Named(objects', Names')
  <2>1. \A u \in Threads : Names[u] # id
    <3>1. id # Null
      BY ObjectTyped, Constants DEF IInv
    <3> QED  BY <3>1 DEF EInv, Named
  <2>2. Names'[t] = id /\ \A u \in Threads : u # t => Names'[u] = Names[u]
    BY <1>2
  <2> QED  BY <1>1, <2>1, <2>2 DEF EInv, Named
<1> QED  BY <1>3, <1>4

LEMMA DallocKeeps ==
  ASSUME IInv, EInv, NEW t \in Threads, NEW id \in DOMAIN objects, NEW k \in Jobs, NEW c \in Clients, DallocsOf(t, k, c, id)
  PROVE  EInv'
<1>1. PICK j \in Jobs, g \in Gets, b \in Clients :
        /\ j = job[t] /\ g = got[t] /\ b = call[t] /\ Hand(j, g) /\ Layout(j, g) /\ Purpose(j, g, b)
  BY KnownPages
<1>2. /\ Goes(t, k, g, c) /\ j.op = "idle" /\ CallIs(c, "dalloc", id, objects[id].addr, FALSE, TRUE, 0)
      /\ Fresh(k, "untrack") /\ Disowns(id) /\ UNCHANGED <<pages, tree, base>>
  BY <1>1 DEF DallocsOf
<1>3. /\ j.lead = 0 /\ j.tail = 0 /\ g.addr = Null /\ b.what = "none" /\ ~b.moving /\ b.from = Null /\ b.id = Null
  BY <1>1, <1>2 DEF Hand, Layout, Purpose
<1>4. c.what = "dalloc" /\ ~c.moving /\ c.unmap /\ c.from = objects[id].addr /\ c.id = id
  BY <1>2 DEF CallIs
<1>5. /\ Mine(j, g) = {} /\ New(j, g) = Null /\ Outline(k, g, c) /\ Mine(k, g) = {} /\ New(k, g) = Null
  <2>1. Mine(j, g) = {} /\ New(j, g) = Null
    BY <1>2, <1>3, Nothing DEF New
  <2> QED  BY <1>2, <1>3, <2>1, IdleOutline DEF Fresh
<1>6. /\ News' = News /\ Froms' = [Froms EXCEPT ![t] = objects[id].addr] /\ Names' = [Names EXCEPT ![t] = id]
      /\ Names[t] = Null /\ Froms[t] = Null
  BY <1>1, <1>2, <1>3, <1>4, <1>5, OfThreads, OfThreadsGone, Remains
<1>7. Tracked(tree', objects', Froms', News') /\ Named(objects', Names')
  BY <1>2, <1>6, Takes
<1>8. Spares(pages, pages', Live(tree, call), {})
  BY <1>2, SparesAll
<1>9. Held(pages', objects')
  BY <1>2, <1>8, AllHeld DEF Disowns
<1>10. Suits(pages', tree', c, New(k, g)) /\ ~Vacated(b) /\ ~Vacated(c)
  BY <1>3, <1>4 DEF Suits, Vacated
<1> QED  BY <1>1, <1>2, <1>5, <1>7, <1>8, <1>9, <1>10, ClientsStep

LEMMA RallocKeeps ==
  ASSUME IInv, EInv, NEW t \in Threads, NEW id \in DOMAIN objects, NEW k \in Jobs, NEW c \in Clients,
         RallocsOf(t, k, c, id), ~fault'
  PROVE  EInv'
<1>1. PICK j \in Jobs, g \in Gets, b \in Clients :
        /\ j = job[t] /\ g = got[t] /\ b = call[t] /\ Hand(j, g) /\ Layout(j, g) /\ Purpose(j, g, b)
  BY KnownPages
<1>2. /\ Goes(t, k, g, c) /\ j.op = "idle" /\ CallIs(c, "ralloc", id, objects[id].addr, TRUE, FALSE, 0)
      /\ Opens(k, "moved") /\ Disowns(id) /\ UNCHANGED <<pages, tree, base>>
  BY <1>1 DEF RallocsOf
<1>3. /\ j.lead = 0 /\ j.tail = 0 /\ g.addr = Null /\ b.what = "none" /\ ~b.moving /\ b.from = Null /\ b.id = Null
  BY <1>1, <1>2 DEF Hand, Layout, Purpose
<1>4. c.what = "ralloc" /\ c.moving /\ c.from = objects[id].addr /\ c.id = id
  BY <1>2 DEF CallIs
<1>5. PICK n \in Nat : n = c.size + c.extra /\ n >= c.size /\ Ample(k, n)
  <2>1. c.size \in Nat /\ c.extra \in Nat
    BY CallFields
  <2> QED  BY <2>1 DEF RallocsOf
<1>6. /\ Mine(j, g) = {} /\ New(j, g) = Null /\ Outline(k, g, c) /\ Mine(k, g) = {} /\ New(k, g) = Null
  <2>1. Mine(j, g) = {} /\ New(j, g) = Null
    BY <1>2, <1>3, Nothing DEF New
  <2> QED  BY <1>2, <1>3, <1>5, <2>1, OpensOutline DEF Handlers
<1>7. /\ News' = News /\ Froms' = [Froms EXCEPT ![t] = objects[id].addr] /\ Names' = [Names EXCEPT ![t] = id]
      /\ Names[t] = Null /\ Froms[t] = Null
  BY <1>1, <1>2, <1>3, <1>4, <1>6, OfThreads, OfThreadsGone, Remains
<1>8. Tracked(tree', objects', Froms', News') /\ Named(objects', Names')
  BY <1>2, <1>7, Takes
<1>9. Spares(pages, pages', Live(tree, call), {})
  BY <1>2, SparesAll
<1>10. Held(pages', objects')
  BY <1>2, <1>9, AllHeld DEF Disowns
<1>11. Suits(pages', tree', c, Null)
  <2>1. PICK e \in tree : e.addr = objects[id].addr /\ e.size = c.oldsize
    BY DEF RallocsOf
  <2>2. \A f \in tree : f.addr = e.addr => f = e
    BY DEF EInv, Tracked
  <2>3. objects[id].size = c.oldsize
    BY <2>1, <2>2 DEF EInv, Tracked
  <2>4. Filled(pages, c.from, c.oldsize, id)
    BY <1>4, <2>3 DEF EInv, Held
  <2>5. \A f \in tree : f.addr # Null
    BY OfThreads DEF Addressed
  <2> QED  BY <1>2, <1>4, <2>1, <2>2, <2>4, <2>5 DEF Suits
<1>12. Suits(pages', tree', c, New(k, g)) /\ ~Vacated(b) /\ ~Vacated(c)
  BY <1>3, <1>4, <1>6, <1>11 DEF Vacated
<1> QED  BY <1>1, <1>2, <1>6, <1>8, <1>9, <1>10, <1>12, ClientsStep

LEMMA AgainKeeps ==
  ASSUME IInv, EInv, NEW t \in Threads, NEW k \in Jobs, NEW c \in Clients, TriesAgain(t, k, c), ~fault'
  PROVE  EInv'
<1>1. PICK j \in Jobs, g \in Gets, b \in Clients :
        /\ j = job[t] /\ g = got[t] /\ b = call[t] /\ Layout(j, g) /\ Purpose(j, g, b) /\ Argued(b, uses[t])
        /\ Suits(pages, tree, b, New(j, g))
  BY KnownPages
<1>2. /\ Goes(t, k, g, c) /\ j.op = "moved" /\ g.addr = Null /\ Opens(k, "moved")
      /\ CallIs(c, b.what, b.id, b.from, b.moving, b.unmap, b.kept)
      /\ Moves(c, b.oldsize, b.size, 0, b.alignment, b.misaligned)
      /\ Ample(k, b.size)
      /\ UNCHANGED <<pages, tree, base, objects>>
  BY <1>1 DEF TriesAgain
<1>3. j.lead = 0 /\ j.tail = 0 /\ b.moving /\ b.what = "ralloc" /\ b.size \in uses[t].sizes /\ b.alignment \in uses[t].aligns
      /\ "ralloc" \in uses[t].calls
  BY <1>1, <1>2 DEF Layout, Purpose, Argued
<1>4. /\ c.what = b.what /\ c.id = b.id /\ c.from = b.from /\ c.moving = b.moving /\ c.kept = b.kept
      /\ c.oldsize = b.oldsize /\ c.size = b.size
  BY <1>2 DEF CallIs, Moves
<1>5. PICK n \in Nat : n = b.size /\ Ample(k, n)
  <2>1. b.size \in Nat
    BY CallFields
  <2> QED  BY <1>2, <2>1
<1>6. Mine(j, g) = {} /\ New(j, g) = Null
  BY <1>2, <1>3, Nothing DEF New
<1>7. Outline(k, g, c) /\ Mine(k, g) = {} /\ New(k, g) = Null
  <2>1. c.moving => n >= c.size
    BY <1>4, <1>5
  <2> QED  BY <1>2, <1>5, <2>1, OpensOutline DEF Handlers
<1>8. News' = News /\ Froms' = Froms /\ Names' = Names
  BY <1>1, <1>2, <1>4, <1>6, <1>7, OfThreads, OfThreadsGone, Remains
<1>9. Tracked(tree', objects', Froms', News') /\ Named(objects', Names')
  BY <1>2, <1>8 DEF EInv
<1>10. Spares(pages, pages', Live(tree, call), {})
  BY <1>2, SparesAll
<1>11. Held(pages', objects')
  BY <1>2, <1>10, AllHeld
<1>12. Suits(pages', tree', c, New(k, g)) /\ ~Vacated(b) /\ ~Vacated(c)
  BY <1>1, <1>2, <1>3, <1>4, <1>6, <1>7 DEF Suits, Vacated
<1> QED  BY <1>1, <1>2, <1>6, <1>7, <1>9, <1>10, <1>11, <1>12, ClientsStep

(* An object is the client's. *)
LEMMA OwnsAdds ==
  ASSUME NEW id, id \notin DOMAIN objects, NEW p, NEW n, Owns(id, p, n), NEW e, e.addr = p, e.size = n
  PROVE  Adds(objects, objects', id, e)
BY DEF Owns, Adds

LEMMA NamedGiven ==
  ASSUME IInv, EInv, NEW t \in Threads, Names[t] # Null, NEW O, DOMAIN O \subseteq DOMAIN objects \cup {Names[t]}
  PROVE  Named(O, [Names EXCEPT ![t] = Null])
<1>1. PICK I, J : I = Names /\ J = [I EXCEPT ![t] = Null] /\ I \in [Threads -> Addresses] /\ Named(objects, I)
  BY OfThreads DEF EInv
<1>2. J[t] = Null /\ \A u \in Threads : u # t => J[u] = I[u]
  BY <1>1
<1> QED  BY <1>1, <1>2 DEF Named

LEMMA GiveUpKeeps ==
  ASSUME IInv, EInv, NEW t \in Threads, NEW k \in Jobs, GivesUp(t, k)
  PROVE  EInv'
<1>1. PICK j \in Jobs, g \in Gets, b \in Clients :
        /\ j = job[t] /\ g = got[t] /\ b = call[t] /\ Layout(j, g) /\ Purpose(j, g, b)
        /\ Suits(pages, tree, b, New(j, g))
  BY KnownPages
<1>2. /\ Goes(t, k, g, NoCall) /\ j.op = "moved" /\ g.addr = Null /\ Fresh(k, "idle")
      /\ Owns(b.id, b.from, b.oldsize) /\ UNCHANGED <<pages, tree, base>>
  BY <1>1 DEF GivesUp
<1>3. j.lead = 0 /\ j.tail = 0 /\ b.moving /\ b.what # "none" /\ b.from # Null /\ b.id \in Ids
  BY <1>1, <1>2 DEF Layout, Purpose
<1>4. CallIs(NoCall, "none", Null, Null, FALSE, FALSE, 0)
  BY CallNone
<1>5. Mine(j, g) = {} /\ New(j, g) = Null /\ Outline(k, g, NoCall) /\ Mine(k, g) = {} /\ New(k, g) = Null
  <2>1. Mine(j, g) = {} /\ New(j, g) = Null
    BY <1>2, <1>3, Nothing DEF New
  <2> QED  BY <1>2, <1>4, <2>1, IdleOutline DEF Fresh, CallIs
<1>6. /\ News' = News /\ Froms' = [Froms EXCEPT ![t] = Null] /\ Names' = [Names EXCEPT ![t] = Null]
      /\ Names[t] = b.id /\ Froms[t] = b.from /\ Froms \in [Threads -> Addresses]
  BY <1>1, <1>2, <1>4, <1>5, OfThreads, OfThreadsGone, Remains DEF CallIs
<1>7. b.id # Null /\ b.id \notin DOMAIN objects
  <2>1. b.id # Null
    BY <1>3, Constants
  <2> QED  BY <1>6, <2>1 DEF EInv, Named
<1>8. PICK e \in tree : e.addr = b.from /\ e.size = b.oldsize
  <2>1. PICK e \in tree : e.addr = b.from
    BY <1>3, <1>6 DEF EInv, Tracked
  <2> QED  BY <1>1, <1>3, <2>1 DEF Suits
<1>9. Adds(objects, objects', b.id, e)
  BY <1>2, <1>7, <1>8, OwnsAdds
<1>10. Tracked(tree', objects', Froms', News')
  <2>1. Tracked(tree, objects, Froms, News) /\ Addressed(tree, objects)
    BY OfThreads DEF EInv
  <2>2. Tracked(tree, objects', [Froms EXCEPT ![t] = Null], News)
    BY <1>3, <1>6, <1>8, <1>9, <2>1, TracksReturned
  <2> QED  BY <1>2, <1>6, <2>2
<1>11. Named(objects', Names')
  BY <1>6, <1>7, <1>9, NamedGiven DEF Adds
<1>12. Spares(pages, pages', Live(tree, call), {})
  BY <1>2, SparesAll
<1>13. Held(pages', objects')
  <2>1. Filled(pages, b.from, b.oldsize, b.id)
    BY <1>1, <1>3 DEF Suits
  <2> QED  BY <1>2, <1>8, <1>9, <2>1 DEF Held, Adds, EInv
<1>14. Suits(pages', tree', NoCall, New(k, g)) /\ ~Vacated(b) /\ ~Vacated(NoCall)
  BY <1>3, <1>4 DEF Suits, Vacated, CallIs
<1> QED  BY <1>1, <1>2, <1>5, <1>10, <1>11, <1>12, <1>13, <1>14, ClientsStep

LEMMA GiveKeeps ==
  ASSUME IInv, EInv, NEW t \in Threads, NEW k \in Jobs, NEW h \in Gets, Gives(t, k, h)
  PROVE  EInv'
<1>1. PICK j \in Jobs, g \in Gets, b \in Clients :
        /\ j = job[t] /\ g = got[t] /\ b = call[t] /\ Layout(j, g) /\ Purpose(j, g, b)
        /\ Suits(pages, tree, b, New(j, g))
  BY KnownPages
<1>2. /\ Goes(t, k, h, NoCall) /\ j.op = "give" /\ h.addr = Null /\ Fresh(k, "idle") /\ UNCHANGED <<tree, base>>
  BY <1>1 DEF Gives, GetIs
<1>3. j.lead = 0 /\ j.tail = 0 /\ ~b.moving /\ b.what # "none" /\ b.from = Null /\ b.id \in Ids
  BY <1>1, <1>2 DEF Layout, Purpose
<1>4. CallIs(NoCall, "none", Null, Null, FALSE, FALSE, 0)
  BY CallNone
<1>5. Mine(j, g) = {} /\ New(j, g) = g.addr /\ Outline(k, h, NoCall) /\ Mine(k, h) = {} /\ New(k, h) = Null
  <2>1. Mine(j, g) = {} /\ New(j, g) = g.addr
    BY <1>2, <1>3, Nothing DEF New, Mapping
  <2> QED  BY <1>2, <1>4, <2>1, IdleOutline DEF Fresh, CallIs
<1>6. /\ News' = [News EXCEPT ![t] = Null] /\ Froms' = Froms /\ Names' = [Names EXCEPT ![t] = Null]
      /\ Names[t] = b.id /\ News[t] = g.addr /\ News \in [Threads -> Addresses]
  BY <1>1, <1>2, <1>3, <1>4, <1>5, OfThreads, OfThreadsGone, Remains DEF CallIs
<1>7. b.id # Null /\ b.id \notin DOMAIN objects
  <2>1. b.id # Null
    BY <1>3, Constants
  <2> QED  BY <1>6, <2>1 DEF EInv, Named
<1>8. Suits(pages', tree', NoCall, New(k, h)) /\ ~Vacated(b) /\ ~Vacated(NoCall)
  BY <1>3, <1>4 DEF Suits, Vacated, CallIs
<1>9. CASE g.addr = Null /\ UNCHANGED <<pages, objects>>
  <2>1. News' = News
    BY <1>6, <1>9, Remains
  <2>2. Tracked(tree', objects', Froms', News')
    BY <1>2, <1>6, <1>9, <2>1 DEF EInv
  <2>3. Named(objects', Names')
    BY <1>6, <1>7, <1>9, NamedGiven
  <2>4. Spares(pages, pages', Live(tree, call), {})
    BY <1>9, SparesAll
  <2>5. Held(pages', objects')
    BY <1>9, <2>4, AllHeld
  <2> QED  BY <1>1, <1>2, <1>5, <1>8, <1>9, <2>2, <2>3, <2>4, <2>5, ClientsStep
<1>10. CASE \E e \in tree : /\ e.addr = g.addr /\ Owns(b.id, e.addr, e.size)
                            /\ Writes(b.id, Span(e.addr + b.kept, e.size - b.kept))
  <2>1. PICK e \in tree : /\ e.addr = g.addr /\ Owns(b.id, e.addr, e.size)
                          /\ Writes(b.id, Span(e.addr + b.kept, e.size - b.kept))
    BY <1>10
  <2>2. PICK p \in Nat, n \in Nat, m \in Nat : p = e.addr /\ n = e.size /\ m = b.kept /\ p # Null
    BY ExtentTyped, CallFields, Constants DEF IInv
  <2>3. m <= n /\ Filled(pages, p, m, b.id)
    <3>1. CASE b.what = "ralloc"
      BY <1>1, <1>3, <1>5, <2>1, <2>2, <3>1 DEF Suits
    <3>2. CASE b.what # "ralloc"
      <4>1. m = 0
        BY <1>1, <2>2, <3>2 DEF Purpose
      <4> QED  BY <2>2, <4>1, SpanTyped DEF Filled
    <3> QED  BY <3>1, <3>2
  <2>4. PICK d \in Nat : d = n - m
    BY <2>3
  <2>5. /\ DOMAIN pages' = DOMAIN pages
        /\ \A q \in DOMAIN pages : pages'[q] = IF q \in Span(p + m, d) THEN b.id ELSE pages[q]
    BY <2>1, <2>2, <2>4 DEF Writes
  <2>6. Span(p, n) = Span(p, m) \cup Span(p + m, d)
    <3>1. Span(p, m) \cup Span(p + m, d) = Span(p, m + d)
      BY SpanSplit
    <3> QED  BY <2>3, <2>4, <3>1
  <2>7. PICK E : E = Live(tree, call) /\ e \in E /\ Ext(e) = Span(p, n)
                 /\ Separate(DOMAIN pages, BasePages(base), E, Mines)
    BY <1>6, <2>1, <2>2, OwnersLive DEF Ext, EInv
  <2>8. Spares(pages, pages', E, {p})
    <3>1. \A f \in E : f.addr # p => Ext(f) \cap Ext(e) = {} /\ Ext(f) \subseteq DOMAIN pages
      BY <2>2, <2>7 DEF Separate
    <3> QED  BY <2>5, <2>6, <2>7, <3>1 DEF Spares, Kept
  <2>9. Filled(pages', p, n, b.id)
    <3>1. Span(p, n) \subseteq DOMAIN pages
      BY <2>7 DEF Separate
    <3> QED  BY <2>3, <2>5, <2>6, <3>1 DEF Filled
  <2>10. Adds(objects, objects', b.id, e)
    BY <1>7, <2>1, OwnsAdds
  <2>11. Tracked(tree, objects, Froms, News) /\ Addressed(tree, objects)
    BY OfThreads DEF EInv
  <2>12. Tracked(tree', objects', Froms', News')
    <3>1. Tracked(tree, objects', Froms, [News EXCEPT ![t] = Null])
      BY <1>6, <2>1, <2>2, <2>10, <2>11, TracksGiven
    <3> QED  BY <1>2, <1>6, <3>1
  <2>13. Named(objects', Names')
    BY <1>6, <1>7, <2>10, NamedGiven DEF Adds
  <2>14. News[t] = p /\ p # Null
    BY <1>6, <2>1, <2>2
  <2>15. Held(pages', objects')
    <3>1. \A i \in DOMAIN objects : objects[i].addr \notin {p}
      BY <2>11, <2>14 DEF Tracked
    <3>2. \A i \in DOMAIN objects : Filled(pages', objects[i].addr, objects[i].size, i)
      BY <2>7, <2>8, <3>1, HeldStill
    <3> QED  BY <2>2, <2>9, <2>10, <3>2 DEF Held, Adds
  <2>16. \A u \in Threads : u # t => Froms[u] \notin {p} /\ News[u] \notin {p}
    BY <2>11, <2>14 DEF Tracked
  <2> QED  BY <1>1, <1>2, <1>5, <1>8, <2>5, <2>7, <2>8, <2>12, <2>13, <2>15, <2>16, ClientsStep
<1> QED  BY <1>1, <1>9, <1>10 DEF Gives

-----------------------------------------------------------------------------
(* An object is moved, from the extent f to the extent e.                  *)

Relocates(t, k, c, unmap, b, e, f) ==
  /\ b = call[t] /\ b.moving /\ b.from = f.addr /\ b.oldsize = f.size
  /\ got[t].addr = e.addr /\ News[t] = e.addr /\ Froms[t] = f.addr /\ e.addr # f.addr /\ e.size >= b.size
  /\ e \in Live(tree, call) /\ f \in Live(tree, call)
  /\ Filled(pages, f.addr, f.size, b.id)
  /\ c.kept = CopySize(b.size, b.oldsize) /\ c.from = b.from /\ c.id = b.id /\ c.what = "ralloc"
  /\ ~c.moving /\ c.unmap = unmap
  /\ Goes(t, k, got[t], c) /\ Outline(k, got[t], c) /\ New(k, got[t]) = e.addr
  /\ Mine(job[t], got[t]) = {} /\ Mine(k, got[t]) = {}
  /\ News' = News /\ Froms' = Froms /\ Names' = Names /\ UNCHANGED <<tree, base, objects>>
  /\ Tracked(tree', objects', Froms', News') /\ Named(objects', Names')

LEMMA MovingRelocates ==
  ASSUME IInv, EInv, NEW t \in Threads, NEW k \in Jobs, NEW c \in Clients, NEW unmap \in BOOLEAN,
         Moving(t, k, c, unmap)
  PROVE  \E b \in Clients, e \in tree, f \in tree : Relocates(t, k, c, unmap, b, e, f)
<1>1. PICK j \in Jobs, g \in Gets, b \in Clients :
        /\ j = job[t] /\ g = got[t] /\ b = call[t] /\ Layout(j, g) /\ Purpose(j, g, b)
        /\ Suits(pages, tree, b, New(j, g))
  BY KnownPages
<1>2. /\ Goes(t, k, g, c) /\ j.op = "moved" /\ g.addr \in Nat /\ Fresh(k, "untrack")
      /\ c.kept = CopySize(b.size, b.oldsize) /\ CallIs(c, "ralloc", b.id, b.from, FALSE, unmap, c.kept)
      /\ UNCHANGED <<tree, base, objects>>
  BY <1>1 DEF Moving
<1>3. j.lead = 0 /\ j.tail = 0 /\ b.moving /\ b.from # Null /\ g.addr # Null
  BY <1>1, <1>2, Constants DEF Layout, Purpose
<1>4. Mine(j, g) = {} /\ New(j, g) = g.addr
  BY <1>2, <1>3, Nothing DEF New, Mapping
<1>5. Outline(k, g, c) /\ Mine(k, g) = {} /\ New(k, g) = g.addr
  BY <1>2, IdleOutline DEF Fresh
<1>6. /\ News' = News /\ Froms' = Froms /\ Names' = Names /\ News[t] = g.addr /\ Froms[t] = b.from
  BY <1>1, <1>2, <1>4, <1>5, OfThreads, OfThreadsGone, Remains DEF CallIs
<1>7. Tracked(tree', objects', Froms', News') /\ Named(objects', Names')
  BY <1>2, <1>6 DEF EInv
<1>8. PICK e \in tree : e.addr = g.addr
  BY <1>3, <1>6 DEF EInv, Tracked
<1>9. PICK f \in tree : f.addr = b.from
  BY <1>3, <1>6 DEF EInv, Tracked
<1>10. e.size >= b.size /\ f.size = b.oldsize /\ Filled(pages, f.addr, f.size, b.id)
  BY <1>1, <1>3, <1>4, <1>8, <1>9 DEF Suits
<1>11. e.addr # f.addr
  BY <1>3, <1>6, <1>8, <1>9 DEF EInv, Tracked
<1>12. e \in Live(tree, call) /\ f \in Live(tree, call)
  <2>1. ~Vacated(call[t])
    BY <1>1, <1>3 DEF Vacated
  <2> QED  BY <1>6, <1>8, <1>9, <2>1, OwnersLive
<1>13. Relocates(t, k, c, unmap, b, e, f)
  BY <1>1, <1>2, <1>3, <1>4, <1>5, <1>6, <1>7, <1>8, <1>9, <1>10, <1>11, <1>12 DEF Relocates, CallIs
<1> QED  BY <1>13

(* What is kept fits into both extents.                                    *)
LEMMA KeptFits ==
  ASSUME IInv, NEW b \in Clients, NEW e \in tree, NEW f \in tree, e.size >= b.size, b.oldsize = f.size
  PROVE  /\ e.addr \in Nat /\ f.addr \in Nat /\ e.size \in Nat /\ f.size \in Nat
         /\ CopySize(b.size, b.oldsize) \in Nat /\ CopySize(b.size, b.oldsize) <= e.size
         /\ CopySize(b.size, b.oldsize) <= f.size
<1>1. e.addr \in Nat /\ f.addr \in Nat /\ e.size \in Nat /\ f.size \in Nat
  BY ExtentTyped DEF IInv
<1>2. b.size \in Nat /\ b.oldsize \in Nat
  BY CallFields
<1> QED  BY <1>1, <1>2 DEF CopySize

(* A page as far behind new as that one is behind from.                    *)
LEMMA SpanAlong ==
  ASSUME NEW a \in Nat, NEW d \in Nat, NEW n \in Nat, NEW m \in Nat, n <= m, NEW q \in Span(a, n)
  PROVE  d + (q - a) \in Span(d, m) /\ q - a < n /\ q \in Nat
BY DEF Span

LEMMA CopyKeeps ==
  ASSUME IInv, EInv, NEW t \in Threads, NEW k \in Jobs, NEW c \in Clients, CopyObject(t), Moving(t, k, c, TRUE)
  PROVE  EInv'
<1>1. PICK b \in Clients, e \in tree, f \in tree : Relocates(t, k, c, TRUE, b, e, f)
  BY MovingRelocates
<1>2. PICK p \in Nat, d \in Nat, n \in Nat, m \in Nat, l \in Nat :
        /\ p = e.addr /\ d = f.addr /\ n = c.kept /\ m = f.size /\ l = e.size /\ n <= m /\ n <= l
  BY <1>1, KeptFits DEF Relocates
<1>3. pages' = [q \in DOMAIN pages |-> IF q \in Span(p, n) THEN pages[d + (q - p)] ELSE pages[q]]
  <2>1. /\ call[t] = b /\ got[t].addr = p /\ CopySize(b.size, b.oldsize) = n /\ b.from = d
    BY <1>1, <1>2 DEF Relocates
  <2> QED  BY <2>1 DEF CopyObject
<1>4. DOMAIN pages' = DOMAIN pages /\ \A q \in DOMAIN pages :
         pages'[q] = IF q \in Span(p, n) THEN pages[d + (q - p)] ELSE pages[q]
  BY <1>3
<1>5. PICK E : /\ E = Live(tree, call) /\ e \in E /\ Ext(e) = Span(p, l)
               /\ Separate(DOMAIN pages, BasePages(base), E, Mines)
  BY <1>1, <1>2 DEF Relocates, Ext, EInv
<1>6. Span(p, n) \subseteq Ext(e) /\ Ext(e) \subseteq DOMAIN pages
  <2>1. Span(p, n) \subseteq Span(p, l)
    BY <1>2, SpanTyped
  <2> QED  BY <1>5, <2>1 DEF Separate
<1>7. Spares(pages, pages', E, {p})
  <2>1. \A h \in E : h.addr # p => Ext(h) \cap Ext(e) = {} /\ Ext(h) \subseteq DOMAIN pages
    BY <1>2, <1>5 DEF Separate
  <2> QED  BY <1>4, <1>6, <2>1 DEF Spares, Kept
<1>8. Filled(pages', p, n, c.id)
  <2>1. \A q \in Span(d, m) : pages[q] = c.id
    BY <1>1, <1>2 DEF Relocates, Filled
  <2>2. ASSUME NEW q \in Span(p, n) PROVE pages'[q] = c.id
    <3>1. d + (q - p) \in Span(d, m)
      BY <1>2, SpanAlong
    <3> QED  BY <1>4, <1>6, <2>1, <3>1
  <2> QED  BY <2>2 DEF Filled
<1>9. Tracked(tree, objects, Froms, News) /\ News[t] = p /\ p # Null
  BY <1>1, <1>2, Constants DEF Relocates, EInv
<1>10. Held(pages', objects')
  <2>1. \A i \in DOMAIN objects : objects[i].addr \notin {p}
    BY <1>9 DEF Tracked
  <2>2. \A i \in DOMAIN objects : Filled(pages', objects[i].addr, objects[i].size, i)
    BY <1>5, <1>7, <2>1, HeldStill
  <2> QED  BY <1>1, <2>2 DEF Held, Relocates
<1>11. \A u \in Threads : u # t => Froms[u] \notin {p} /\ News[u] \notin {p}
  BY <1>9 DEF Tracked
<1>12. Suits(pages', tree', c, p)
  <2>1. \A h \in tree : h.addr = p => h = e
    BY <1>2, <1>9 DEF Tracked
  <2> QED  BY <1>1, <1>2, <1>8, <2>1 DEF Suits, Relocates
<1>13. /\ Goes(t, k, got[t], c) /\ Outline(k, got[t], c) /\ New(k, got[t]) = p
       /\ Mine(job[t], got[t]) = {} /\ Mine(k, got[t]) = {} /\ UNCHANGED <<tree, base>>
       /\ Tracked(tree', objects', Froms', News') /\ Named(objects', Names')
       /\ ~Vacated(call[t]) /\ ~Vacated(c)
  BY <1>1, <1>2 DEF Relocates, Vacated
<1>14. Spares(pages, pages', Live(tree, call), {p}) /\ Suits(pages', tree', c, New(k, got[t]))
  BY <1>5, <1>7, <1>12, <1>13
<1> QED  BY <1>4, <1>10, <1>11, <1>13, <1>14, ClientsStep

(* After mremap nobody lives at the old address. *)
LEMMA LiveVacates ==
  ASSUME IInv, EInv, NEW t \in Threads, NEW k, NEW h, NEW c, Goes(t, k, h, c), NEW f \in tree,
         ~Vacated(call[t]), Vacated(c), c.from = f.addr
  PROVE  Live(tree, call') = Live(tree, call) \ {f}
<1>1. call'[t] = c /\ \A u \in Threads : u # t => call'[u] = call[u]
  BY OfThreadsGone
<1>2. \A g \in tree : g.addr = f.addr => g = f
  BY DEF EInv, Tracked
<1>3. ASSUME NEW g \in tree PROVE g \in Live(tree, call') <=> g \in Live(tree, call) \ {f}
  BY <1>1, <1>2 DEF Live
<1> QED  BY <1>3 DEF Live

LEMMA RemapKeeps ==
  ASSUME IInv, EInv, NEW t \in Threads, NEW k \in Jobs, NEW c \in Clients, RemapObject(t), Moving(t, k, c, FALSE)
  PROVE  EInv'
<1>1. PICK b \in Clients, e \in tree, f \in tree : Relocates(t, k, c, FALSE, b, e, f)
  BY MovingRelocates
<1>2. PICK p \in Nat, d \in Nat, n \in Nat, m \in Nat, l \in Nat :
        /\ p = e.addr /\ d = f.addr /\ n = c.kept /\ m = f.size /\ l = e.size /\ n <= m /\ n <= l
  BY <1>1, KeptFits DEF Relocates
<1>3. Tracked(tree, objects, Froms, News) /\ News[t] = p /\ Froms[t] = d /\ p # Null /\ d # Null
  BY <1>1, <1>2, Constants DEF Relocates, EInv
<1>4. PICK D, B, E, M : /\ D = DOMAIN pages /\ B = BasePages(base) /\ E = Live(tree, call) /\ M = Mines
                        /\ Separate(D, B, E, M) /\ D \subseteq Pages /\ e \in E /\ f \in E /\ e # f
                        /\ Ext(e) = Span(p, l) /\ Ext(f) = Span(d, m)
  BY <1>1, <1>2 DEF Relocates, Ext, EInv
<1>5. Ext(e) \subseteq D /\ Ext(f) \subseteq D /\ Ext(e) \cap Ext(f) = {}
  BY <1>4 DEF Separate
<1>6. pages' = Over([q \in Span(p, l) |-> IF q - p < m THEN pages[d + (q - p)] ELSE "zero"],
                    Without(pages, Span(d, m)))
  <2>1. call[t] = b /\ got[t].addr = p /\ b.from = d /\ b.oldsize = m
    BY <1>1, <1>2 DEF Relocates
  <2>2. \A h \in tree : h.addr = p => h.size = l
    BY <1>2, <1>3 DEF Tracked
  <2>3. PICK h \in tree : /\ h.addr = p
          /\ pages' = Over([q \in Span(p, h.size) |-> IF q - p < m THEN pages[d + (q - p)] ELSE "zero"],
                           Without(pages, Span(d, m)))
    BY <2>1 DEF RemapObject
  <2> QED  BY <2>2, <2>3
<1>7. /\ DOMAIN pages' = D \ Ext(f)
      /\ \A q \in D \ Ext(f) : pages'[q] = IF q \in Ext(e) THEN IF q - p < m THEN pages[d + (q - p)] ELSE "zero" ELSE pages[q]
  <2>1. PICK W : W = [q \in D \ Ext(f) |-> pages[q]] /\ W = Without(pages, Span(d, m))
    BY <1>4 DEF Without
  <2>2. PICK V : V = [q \in Ext(e) |-> IF q - p < m THEN pages[d + (q - p)] ELSE "zero"]
    OBVIOUS
  <2>3. pages' = Over(V, W) /\ DOMAIN V = Ext(e) /\ DOMAIN W = D \ Ext(f)
    BY <1>4, <1>6, <2>1, <2>2
  <2>4. DOMAIN pages' = D \ Ext(f) /\ \A q \in D \ Ext(f) : pages'[q] = IF q \in Ext(e) THEN V[q] ELSE W[q]
    BY <1>5, <2>3 DEF Over
  <2> QED  BY <2>1, <2>2, <2>4
<1>8. Live(tree', call') = E \ {f} /\ Mines' = M
  <2>1. Goes(t, k, got[t], c) /\ ~Vacated(call[t]) /\ Vacated(c) /\ c.from = f.addr /\ tree' = tree
    BY <1>1, <1>2, <1>3 DEF Relocates, Vacated
  <2>2. Live(tree', call') = E \ {f}
    BY <1>4, <2>1, LiveVacates
  <2>3. Mines' = [Mines EXCEPT ![t] = {}] /\ Mines[t] = {} /\ Mines \in [Threads -> SUBSET Nat]
    BY <1>1, OfThreads, OfThreadsGone DEF Relocates
  <2> QED  BY <1>4, <2>2, <2>3
<1>9. Separate(DOMAIN pages', BasePages(base'), Live(tree', call'), Mines')
  <2>1. Separate(D \ Ext(f), B, E \ {f}, M)
    BY <1>4, Vanishes
  <2>2. BasePages(base') = B
    BY <1>1, <1>4 DEF Relocates, BasePages
  <2> QED  BY <1>7, <1>8, <2>1, <2>2
<1>10. Spares(pages, pages', E, {p, d})
  <2>1. \A h \in E : h.addr \notin {p, d} => Ext(h) \subseteq D /\ Ext(h) \cap Ext(e) = {} /\ Ext(h) \cap Ext(f) = {}
    BY <1>2, <1>4 DEF Separate
  <2> QED  BY <1>7, <2>1 DEF Spares, Kept
<1>11. Filled(pages', p, n, c.id)
  <2>1. \A q \in Span(d, m) : pages[q] = c.id
    BY <1>1, <1>2 DEF Relocates, Filled
  <2>2. ASSUME NEW q \in Span(p, n) PROVE pages'[q] = c.id
    <3>1. d + (q - p) \in Span(d, m) /\ q - p < m
      <4>1. d + (q - p) \in Span(d, m) /\ q - p < n /\ q \in Nat
        BY <1>2, SpanAlong
      <4> QED  BY <1>2, <4>1
    <3>2. q \in Ext(e)
      BY <1>2, <1>4, SpanTyped
    <3> QED  BY <1>5, <1>7, <2>1, <3>1, <3>2
  <2> QED  BY <2>2 DEF Filled
<1>12. Held(pages', objects')
  <2>1. \A i \in DOMAIN objects : objects[i].addr \notin {p, d}
    BY <1>3 DEF Tracked
  <2>2. \A i \in DOMAIN objects : Filled(pages', objects[i].addr, objects[i].size, i)
    BY <1>4, <1>10, <2>1, HeldStill
  <2> QED  BY <1>1, <2>2 DEF Held, Relocates
<1>13. ASSUME NEW u \in Threads, u # t PROVE Suits(pages', tree', call[u], News[u])
  <2>1. Froms[u] \notin {p, d} /\ News[u] \notin {p, d}
    BY <1>3, <1>13 DEF Tracked
  <2>2. Suits(pages', tree, call[u], News[u])
    BY <1>4, <1>10, <2>1, SuitsStill
  <2> QED  BY <1>1, <2>2 DEF Relocates
<1>14. Suits(pages', tree', c, New(k, got[t]))
  <2>1. \A h \in tree : h.addr = p => h = e
    BY <1>2, <1>3 DEF Tracked
  <2> QED  BY <1>1, <1>2, <1>11, <2>1 DEF Suits, Relocates
<1>15. DOMAIN pages' \subseteq Pages
  BY <1>4, <1>7
<1>16. /\ Goes(t, k, got[t], c) /\ Outline(k, got[t], c)
       /\ Tracked(tree', objects', Froms', News') /\ Named(objects', Names')
  BY <1>1 DEF Relocates
<1> QED  BY <1>9, <1>12, <1>13, <1>14, <1>15, <1>16, Settled

-----------------------------------------------------------------------------
(* The invariant of the extents is inductive.                              *)

LEMMA InitialExtents == Init => EInv
<1> SUFFICES ASSUME Init PROVE EInv
  OBVIOUS
<1>1. PICK c \in Nat, n \in Nat : c = ChunkPages /\ n = NPages /\ c <= n /\ c > 0
  BY Constants
<1>2. tree = {} /\ DOMAIN objects = {} /\ pages = [p \in Span(0, c) |-> "base"]
  <2>1. objects = <<>> /\ tree = {} /\ pages = [p \in Span(0, c) |-> "base"]
    BY <1>1 DEF Init
  <2> QED  BY <2>1
<1>3. DOMAIN pages = Span(0, c) /\ Span(0, c) \subseteq Pages
  BY <1>1, <1>2 DEF Span, Pages
<1>4. BasePages(base) = Span(0, c)
  <2>1. base = [cut |-> BaseNodes - 1, chunks |-> {0}, nodes |-> 0]
    BY DEF Init
  <2>2. base.chunks = {0}
    BY <2>1
  <2> QED  BY <1>1, <2>2 DEF BasePages
<1>5. PICK k : k = At("idle")
  OBVIOUS
<1>6. k \in Jobs /\ k.op = "idle" /\ k.lead = 0 /\ k.tail = 0
  BY <1>5, JobAt DEF Ops, Fresh
<1>7. ASSUME NEW t \in Threads
      PROVE  /\ job[t] = k /\ got[t] \in Gets /\ got[t].addr = Null /\ call[t] = NoCall
             /\ Outline(job[t], got[t], call[t]) /\ Mine(job[t], got[t]) = {} /\ New(job[t], got[t]) = Null
  <2>1. job[t] = k /\ got[t] = [node |-> Null, addr |-> Null] /\ call[t] = NoCall
    BY <1>5 DEF Init
  <2>2. got[t] \in Gets /\ got[t].addr = Null /\ call[t] \in Clients /\ call[t].moving = FALSE
    BY <2>1, CallNone DEF Gets, Addresses, CallIs
  <2> QED  BY <1>6, <2>1, <2>2, IdleOutline
<1>8. CallIs(NoCall, "none", Null, Null, FALSE, FALSE, 0)
  BY CallNone
<1>9. \A t \in Threads : Mines[t] = {} /\ News[t] = Null /\ Froms[t] = Null /\ Names[t] = Null
  BY <1>7, <1>8 DEF Mines, News, Froms, Names, CallIs
<1>10. Live(tree, call) = {}
  BY <1>2 DEF Live
<1>11. Separate(DOMAIN pages, BasePages(base), Live(tree, call), Mines)
  BY <1>3, <1>4, <1>9, <1>10 DEF Separate
<1>12. Tracked(tree, objects, Froms, News)
  BY <1>2, <1>9 DEF Tracked
<1>13. Named(objects, Names) /\ Held(pages, objects)
  BY <1>2, <1>9 DEF Named, Held
<1>14. ASSUME NEW t \in Threads PROVE Suits(pages, tree, call[t], News[t])
  BY <1>7, <1>8 DEF Suits, CallIs
<1> QED  BY <1>3, <1>7, <1>11, <1>12, <1>13, <1>14 DEF EInv

LEMMA StutteringExtents == EInv /\ UNCHANGED vars => EInv'
<1> SUFFICES ASSUME EInv, UNCHANGED vars PROVE EInv'
  OBVIOUS
<1>1. UNCHANGED <<pages, tree, base, got, job, call, objects>>
  BY DEF vars
<1>2. Mines' = Mines /\ News' = News /\ Froms' = Froms /\ Names' = Names
  BY <1>1 DEF Mines, News, Froms, Names
<1>3. (DOMAIN pages \subseteq Pages)' /\ \A t \in Threads : Outline(job'[t], got'[t], call'[t])
  BY <1>1 DEF EInv
<1>4. BasePages(base') = BasePages(base) /\ Live(tree', call') = Live(tree, call)
  BY <1>1
<1>5. Separate(DOMAIN pages', BasePages(base'), Live(tree', call'), Mines')
  BY <1>1, <1>2, <1>4 DEF EInv
<1>6. Tracked(tree', objects', Froms', News') /\ Named(objects', Names') /\ Held(pages', objects')
  BY <1>1, <1>2 DEF EInv
<1>7. \A t \in Threads : Suits(pages', tree', call'[t], News'[t])
  BY <1>1, <1>2 DEF EInv
<1> QED  BY <1>3, <1>5, <1>6, <1>7 DEF EInv

LEMMA StepsExtents ==
  ASSUME IInv, EInv, [Next]_vars, ~fault'
  PROVE  EInv'
<1>1. CASE UNCHANGED vars
  BY <1>1, StutteringExtents
<1>2. CASE Next
  <2>1. PICK t \in Threads : Advances(t)
    BY <1>2, Advancing
  <2>2. ASSUME NEW k \in Jobs, NEW h \in Gets,
               MapStep(t, k, h) \/ TakesNode(t, k, h) \/ CutsNode(t, k, h) \/ CutsFirst(t, k, h)
        PROVE  EInv'
    BY <2>2, MapRests, NodeRests, CutFirstKeeps
  <2>3. ASSUME NEW k \in Jobs, NEW h \in Gets,
               FreesNode(t, k, h) \/ Aligns(t, k, h) \/ Inserts(t, k, h) \/ Gives(t, k, h)
        PROVE  EInv'
    BY <2>3, FreeNodeRests, AlignRests, InsertKeeps, GiveKeeps
  <2>4. ASSUME NEW k \in Jobs, NEW h \in Gets, NEW c \in Clients, Untracks(t, k, h, c) PROVE EInv'
    BY <2>4, UntrackKeeps
  <2>5. ASSUME NEW k \in Jobs, NEW c \in Clients, MallocsOf(t, k, c) \/ TriesAgain(t, k, c) PROVE EInv'
    BY <2>5, MallocKeeps, AgainKeeps
  <2>6. ASSUME NEW k \in Jobs, GivesUp(t, k) PROVE EInv'
    BY <2>6, GiveUpKeeps
  <2>7. ASSUME NEW id \in DOMAIN objects, NEW k \in Jobs, NEW c \in Clients,
               DallocsOf(t, k, c, id) \/ RallocsOf(t, k, c, id)
        PROVE  EInv'
    BY <2>7, DallocKeeps, RallocKeeps
  <2>8. ASSUME NEW k \in Jobs, NEW c \in Clients,
               \/ CopyObject(t) /\ Moving(t, k, c, TRUE)
               \/ RemapObject(t) /\ Moving(t, k, c, FALSE)
        PROVE  EInv'
    BY <2>8, CopyKeeps, RemapKeeps
  <2> QED  BY <2>1, <2>2, <2>3, <2>4, <2>5, <2>6, <2>7, <2>8 DEF Advances
<1> QED  BY <1>1, <1>2

(* A fault is not forgotten. *)
LEMMA FaultStays ==
  ASSUME [Next]_vars, fault
  PROVE  fault'
<1>1. CASE UNCHANGED vars
  BY <1>1 DEF vars
<1>2. ASSUME NEW t \in Threads,
             MapFast(t) \/ Extend(t) \/ TrimHead(t) \/ TrimTail(t) \/ StartSlow(t) \/ MapSlow(t)
      PROVE  fault'
  BY <1>2 DEF MapFast, Extend, TrimHead, TrimTail, StartSlow, MapSlow
<1>3. ASSUME NEW t \in Threads, TakeNode(t) \/ CutNode(t) \/ CutFirst(t) \/ base_node_dealloc(t) PROVE fault'
  BY <1>3 DEF TakeNode, CutNode, CutFirst, base_node_dealloc
<1>4. ASSUME NEW t \in Threads, AlignChunk(t) \/ Insert(t) \/ Untrack(t) \/ Give(t) PROVE fault'
  BY <1>4 DEF AlignChunk, Insert, Untrack, Give
<1>5. ASSUME NEW t \in Threads, NEW size, NEW alignment, CallMalloc(t, size, alignment) PROVE fault'
  BY <1>5 DEF CallMalloc
<1>6. ASSUME NEW t \in Threads, NEW id, CallDalloc(t, id) PROVE fault'
  BY <1>6 DEF CallDalloc
<1>7. ASSUME NEW t \in Threads, NEW id, NEW size, NEW extra, NEW alignment, CallRalloc(t, id, size, extra, alignment)
      PROVE  fault'
  BY <1>7 DEF CallRalloc
<1>8. ASSUME NEW t \in Threads, NotMoved(t) \/ CopyObject(t) \/ RemapObject(t) PROVE fault'
  BY <1>8 DEF NotMoved, CopyObject, RemapObject
<1> QED  BY <1>1, <1>2, <1>3, <1>4, <1>5, <1>6, <1>7, <1>8 DEF Next

(* The inductive invariant of the extents, of all clients and as long as   *)
(* no call has collided or overreached (rb.h:463, huge.c:91): every mapped *)
(* page is a base chunk's, one of one extent of the tree, or one thread's  *)
(* that has yet to use it or to give it back, though the tree may have     *)
(* extents that are mapped no more; and every extent is known to one       *)
(* object or one call.                                                     *)
THEOREM ExtentsInductive == Spec => [](IInv /\ (~fault => EInv))
<1>1. Init => IInv /\ (~fault => EInv)
  BY Initially, InitialExtents
<1>2. IInv /\ (~fault => EInv) /\ [Next]_vars => (IInv /\ (~fault => EInv))'
  BY Steps, StepsExtents, FaultStays
<1> QED  BY <1>1, <1>2, PTL DEF Spec

LEMMA ExtentsHeld ==
  ASSUME IInv, EInv
  PROVE  HeldIntact
<1>1. SUFFICES ASSUME NEW id \in DOMAIN objects, NEW p \in Span(objects[id].addr, objects[id].size)
               PROVE  p \in DOMAIN pages /\ pages[p] = id
  BY DEF HeldIntact
<1>2. PICK e \in tree : e.addr = objects[id].addr /\ e.size = objects[id].size
  BY DEF EInv, Tracked
<1>3. e \in Live(tree, call)
  BY <1>2, OwnersLive
<1>4. p \in Ext(e)
  BY <1>1, <1>2 DEF Ext
<1>5. p \in DOMAIN pages
  BY <1>3, <1>4 DEF EInv, Separate
<1>6. pages[p] = id
  BY <1>1 DEF EInv, Held, Filled
<1> QED  BY <1>5, <1>6

(* Whatever other threads map, trim, unmap and remap, an old extent that a *)
(* move has left included, an object is mapped and holds what its owner    *)
(* wrote, and after huge_ralloc what the old and the new size have in      *)
(* common (huge.c:219, chunk_mmap.c:62, 95): until a mapping that starts   *)
(* where the tree has an extent is inserted (rb.h:463), or huge_palloc is  *)
(* called against its assertion or with a size that wraps (huge.c:91).     *)
THEOREM ObjectsHeld == Spec => []HeldIntact
<1>1. IInv /\ (~fault => EInv) => HeldIntact
  BY ExtentsHeld DEF HeldIntact
<1> QED  BY <1>1, ExtentsInductive, PTL

-----------------------------------------------------------------------------
(* What is mapped when no call is under way.                               *)

LEMMA Rested ==
  ASSUME IInv, EInv, \A t \in Threads : Idle(t)
  PROVE  /\ Live(tree, call) = tree
         /\ \A t \in Threads : Mines[t] = {} /\ Froms[t] = Null /\ News[t] = Null
<1>1. ASSUME NEW t \in Threads
      PROVE  ~Vacated(call[t]) /\ Mines[t] = {} /\ Froms[t] = Null /\ News[t] = Null
  <2>1. PICK j \in Jobs, g \in Gets, c \in Clients :
          /\ j = job[t] /\ g = got[t] /\ c = call[t] /\ Hand(j, g) /\ Purpose(j, g, c) /\ Layout(j, g)
    BY KnownPages
  <2>2. j.op = "idle" /\ j.lead = 0 /\ j.tail = 0 /\ g.addr = Null /\ c.from = Null
    BY <2>1 DEF Idle, Task, Hand, Purpose, Layout
  <2>3. Mine(j, g) = {} /\ New(j, g) = Null
    BY <2>2, Nothing DEF New
  <2> QED  BY <2>1, <2>2, <2>3, OfThreads DEF Vacated
<1> QED  BY <1>1 DEF Live

(* The objects and the extents of the tree are the same when they are one  *)
(* to one.                                                                 *)
LEMMA OneToOne ==
  ASSUME NEW T, NEW O, IsFiniteSet(T),
         \A e, f \in T : e.addr = f.addr => e = f,
         \A i \in DOMAIN O : \E e \in T : e.addr = O[i].addr,
         \A e \in T : \E i \in DOMAIN O : e.addr = O[i].addr,
         \A i, k \in DOMAIN O : O[i].addr = O[k].addr => i = k
  PROVE  Cardinality(T) = Cardinality(DOMAIN O)
<1>1. PICK w : w = [e \in T |-> CHOOSE i \in DOMAIN O : e.addr = O[i].addr]
  OBVIOUS
<1>2. \A e \in T : w[e] \in DOMAIN O /\ e.addr = O[w[e]].addr
  BY <1>1
<1>3. w \in [T -> DOMAIN O]
  BY <1>1, <1>2
<1>4. \A e, f \in T : w[e] = w[f] => e = f
  BY <1>2
<1>5. \A i \in DOMAIN O : \E e \in T : w[e] = i
  BY <1>2
<1>6. w \in Bijection(T, DOMAIN O)
  BY <1>3, <1>4, <1>5 DEF Bijection, Injection, Surjection, IsInjective
<1> QED  BY <1>6, FS_Bijection DEF ExistsBijection

LEMMA ExtentsNothingLeaks ==
  ASSUME IInv, EInv
  PROVE  NothingLeaks
<1> SUFFICES ASSUME \A t \in Threads : Idle(t)
             PROVE  /\ DOMAIN pages = UNION ({Span(c, ChunkPages) : c \in base.chunks}
                                             \cup {Span(n.addr, n.size) : n \in tree})
                    /\ {[addr |-> n.addr, size |-> n.size] : n \in tree} = {objects[id] : id \in DOMAIN objects}
                    /\ Cardinality(tree) = Cardinality(DOMAIN objects)
  BY DEF NothingLeaks
<1>1. Live(tree, call) = tree /\ \A t \in Threads : Mines[t] = {} /\ Froms[t] = Null /\ News[t] = Null
  BY Rested
<1>2. Tracked(tree, objects, Froms, News) /\ Addressed(tree, objects)
  BY OfThreads DEF EInv
<1>3. ASSUME NEW q PROVE q \in DOMAIN pages <=> q \in BasePages(base) \/ (\E e \in tree : q \in Ext(e))
  BY <1>1 DEF EInv, Separate
<1>4. DOMAIN pages = UNION ({Span(c, ChunkPages) : c \in base.chunks} \cup {Span(n.addr, n.size) : n \in tree})
  BY <1>3 DEF BasePages, Ext
<1>5. \A i \in DOMAIN objects : \E e \in tree : e.addr = objects[i].addr /\ e.size = objects[i].size
  BY <1>2 DEF Tracked
<1>6. \A e, f \in tree : e.addr = f.addr => e = f
  BY <1>2 DEF Tracked
<1>7. \A e \in tree : \E i \in DOMAIN objects : e.addr = objects[i].addr
  BY <1>1, <1>2 DEF Tracked, Addressed
<1>8. \A i, k \in DOMAIN objects : objects[i].addr = objects[k].addr => i = k
  BY <1>2 DEF Tracked
<1>9. \A i \in DOMAIN objects : objects[i] = [addr |-> objects[i].addr, size |-> objects[i].size]
  <2>1. \A i \in DOMAIN objects : objects[i] \in [addr : Nat, size : Nat]
    BY DEF IInv, TypeOK
  <2> QED  BY <2>1
<1>10. \A e \in tree : \E i \in DOMAIN objects : e.addr = objects[i].addr /\ e.size = objects[i].size
  BY <1>5, <1>6, <1>7
<1>11. {[addr |-> n.addr, size |-> n.size] : n \in tree} = {objects[id] : id \in DOMAIN objects}
  <2>1. ASSUME NEW e \in tree PROVE [addr |-> e.addr, size |-> e.size] \in {objects[id] : id \in DOMAIN objects}
    <3>1. PICK i \in DOMAIN objects : e.addr = objects[i].addr /\ e.size = objects[i].size
      BY <1>10
    <3>2. [addr |-> e.addr, size |-> e.size] = objects[i]
      BY <1>9, <3>1
    <3> QED  BY <3>2
  <2>2. ASSUME NEW i \in DOMAIN objects PROVE objects[i] \in {[addr |-> n.addr, size |-> n.size] : n \in tree}
    <3>1. PICK e \in tree : e.addr = objects[i].addr /\ e.size = objects[i].size
      BY <1>5
    <3>2. [addr |-> e.addr, size |-> e.size] = objects[i]
      BY <1>9, <3>1
    <3> QED  BY <3>2
  <2> QED  BY <2>1, <2>2
<1>12. Cardinality(tree) = Cardinality(DOMAIN objects)
  <2>1. IsFiniteSet(tree)
    BY DEF IInv, Nodes
  <2>2. \A i \in DOMAIN objects : \E e \in tree : e.addr = objects[i].addr
    BY <1>5
  <2> QED  BY <1>6, <1>7, <1>8, <2>1, <2>2, OneToOne
<1> QED  BY <1>4, <1>11, <1>12

(* After huge_malloc, huge_palloc, huge_ralloc and huge_dalloc, whichever  *)
(* of their mappings failed or were trimmed, nothing is mapped but the     *)
(* base chunks and the extents, and these are the objects of the client    *)
(* (chunk_alloc_mmap_slow, chunk_mmap.c:95); until one of the two faults.  *)
THEOREM NoLeaks == Spec => []NothingLeaks
<1>1. IInv /\ (~fault => EInv) => NothingLeaks
  BY ExtentsNothingLeaks DEF NothingLeaks
<1> QED  BY <1>1, ExtentsInductive, PTL
=============================================================================
