-------------------------------- MODULE Text --------------------------------
(***************************************************************************)
(* betakit's strings, bstring.c, its numbers, number.c, and mem_copy of    *)
(* memory.c: functions without state.  A string is the sequence of its     *)
(* codes, without the NUL that ends it.  Null pointers are left out: all   *)
(* the string functions refuse them.  A call gives the string it leaves    *)
(* behind and what it returns.                                             *)
(***************************************************************************)
EXTENDS Integers, Sequences, SequencesExt, FiniteSets

Codes == 1 .. 255
Upper == 65 .. 90
Lower == 97 .. 122
Map(Op(_), s) == [i \in DOMAIN s |-> Op(s[i])]

(* Counts the NUL; max is BK_SZ_MAXLEN.                                    *)
bk_strlen(s, max) == IF Len(s) < max THEN Len(s) + 1 ELSE max + 1

(* Two codes more than max are copied; wrote counts the bytes written,     *)
(* with the second NUL behind the first.                                   *)
bk_strcpy(s, max) ==
  IF Len(s) < max + 2 THEN [text |-> s, returns |-> Len(s), wrote |-> Len(s) + 2]
  ELSE [text |-> SubSeq(s, 1, max + 2), returns |-> max + 2, wrote |-> max + 3]

bk_strrev(s, max) ==
  LET len == bk_strlen(s, max) - 1
  IN  [text |-> [i \in 1 .. len |-> s[len + 1 - i]], returns |-> len]

(* The digits from the lowest, and then turned around.                     *)
Digits[n \in Nat] == <<48 + (n % 10)>> \o (IF n < 10 THEN <<>> ELSE Digits[n \div 10])
bk_ultostr(n, max) ==
  LET copy == bk_strcpy(bk_strrev(Digits[n], max).text, max)
  IN  [text |-> copy.text, returns |-> 0, wrote |-> copy.wrote]

bk_tolower(s) ==
  [text |-> Map(LAMBDA c : IF c \in Upper THEN c - 65 + 97 ELSE c, s), returns |-> Len(s) + 1]
bk_toupper(s) ==
  [text |-> Map(LAMBDA c : IF c \in Lower THEN c - 97 + 65 ELSE c, s), returns |-> Len(s) + 1]

(* A code that comes to be NUL ends the string, and the rotation.          *)
BERR_INVALID == 4
Rotations == (-127 .. 127) \ {0}
bk_trstr(s, rot) ==
  LET turned == Map(LAMBDA c : (c + rot) % 256, s)
      end == SelectInSeq(turned, LAMBDA c : c = 0)
  IN  CASE rot \notin Rotations -> [text |-> s, returns |-> -BERR_INVALID]
        [] rot \in Rotations /\ end = 0 -> [text |-> turned, returns |-> Len(s) + 1]
        [] OTHER -> [text |-> SubSeq(turned, 1, end - 1), returns |-> end]

(* The distance of a letter from the middle, put on the other side; and    *)
(* sent to the letters from base on.                                       *)
Half == (90 - 65) \div 2
Mirrored(letter, base) ==
  LET chr == CASE letter < Half -> Half + (Half - letter)
               [] letter > Half -> (Half - (letter - Half)) % 256
               [] OTHER -> letter
  IN  (chr + base + 1) % 256

(* The second test sees what the first has made of the letter.             *)
Transformed(c, ofUpper, ofLower) ==
  LET first == IF c \in Upper THEN Mirrored(c - 65, ofUpper) ELSE c
  IN  IF first \in Lower THEN Mirrored(first - 97, ofLower) ELSE first
bk_atbash(s) == [text |-> Map(LAMBDA c : Transformed(c, 65, 97), s), returns |-> Len(s)]
bk_AtBash(s) == [text |-> Map(LAMBDA c : Transformed(c, 97, 65), s), returns |-> Len(s)]

-----------------------------------------------------------------------------
(* Numbers of w = 2^lg bits; 64 in the code.  Each step keeps the half of  *)
(* the bits that has the one looked for.                                   *)

Halves(lg) == [i \in 1 .. lg |-> 2^(lg - i)]
number_msbit(n, lg) ==
  IF n = 0 THEN 2^lg
  ELSE FoldLeft(LAMBDA at, h : IF at.hold \div 2^h # 0
                                 THEN [hold |-> at.hold \div 2^h, shift |-> at.shift + h] ELSE at,
                [hold |-> n, shift |-> 0], Halves(lg)).shift
number_lsbit(n, lg) ==
  IF n = 0 THEN 2^lg + 1
  ELSE FoldLeft(LAMBDA at, h : IF at.hold % 2^h # 0 THEN [at EXCEPT !.hold = @ % 2^h]
                                 ELSE [hold |-> at.hold \div 2^h, shift |-> at.shift + h],
                [hold |-> n, shift |-> 0], Halves(lg)).shift

(* The product of two numbers of w bits is taken in w bits.                *)
number_mul(foo, bar, w) == (foo * bar) % 2^w

(* mem_copy: both pointers move by a byte, also after a word.              *)
Put(dest, src, at, n) == [i \in DOMAIN dest |-> IF i \in at .. at + n - 1 THEN src[i] ELSE dest[i]]
mem_copy(dest, src, n, word) ==
  LET words == n \div word
      bytes == n % word
      byWord == FoldLeft(LAMBDA d, k : Put(d, src, k, word), dest, [k \in 1 .. words |-> k])
  IN  [dest |-> FoldLeft(LAMBDA d, k : Put(d, src, words + k, 1), byWord, [k \in 1 .. bytes |-> k]),
       returns |-> bytes + 1 + word * (words + 1)]
=============================================================================
