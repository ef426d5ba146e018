------------------------------- MODULE MCText -------------------------------
(***************************************************************************)
(* What the functions of Text compute, for all short arguments.  There is  *)
(* no state: TLC evaluates the assumptions when a run extends this module. *)
(***************************************************************************)
EXTENDS Text

Max64K == 65536
Sample == {1, 48, 64, 65, 78, 90, 91, 97, 122, 255}
Strings == UNION {[1 .. n -> Sample] : n \in 0 .. 3}

(* bk_ultostr writes the decimal digits of a number, none too many.        *)
ASSUME UltostrIsDecimal ==
  \A n \in (0 .. 1100) \cup {2^30, 2147483647} :
    LET s == bk_ultostr(n, Max64K).text
    IN  /\ n > 0 => s[1] # 48
        /\ FoldLeft(LAMBDA value, c : 10 * value + (c - 48), 0, s) = n

(* Reversing twice and turning letters around twice give the string back;  *)
(* so does rotating to and fro, unless a code came to be NUL.              *)
ASSUME InversesHold ==
  \A s \in Strings :
    /\ bk_strrev(bk_strrev(s, Max64K).text, Max64K).text = s
    /\ bk_atbash(bk_atbash(s).text).text = s
    /\ bk_tolower(bk_toupper(bk_tolower(s).text).text) = bk_tolower(s)
    /\ \A rot \in {-127, -1, 1, 127} :
         (\A i \in DOMAIN s : (s[i] + rot) % 256 # 0) => bk_trstr(bk_trstr(s, rot).text, -rot).text = s

(* bk_atbash swaps A and Z, B and Y, and so on, in either case.  bk_AtBash *)
(* does so for small letters, which it makes capitals; a capital it sends  *)
(* to a small letter and from there back to itself ("lower to upper, upper *)
(* to lower with atbash", bstring.c:329).                                  *)
ASSUME AtbashSwaps ==
  \A k \in 0 .. 25 :
    /\ bk_atbash(<<65 + k, 97 + k>>).text = <<90 - k, 122 - k>>
    /\ bk_AtBash(<<65 + k, 97 + k>>).text = <<65 + k, 90 - k>>

(* A copy ends one byte behind the NUL it copies; one that is cut short    *)
(* ends in its only NUL.                                                   *)
ASSUME CopiesEnd ==
  \A s \in Strings : \A max \in 0 .. 4 :
    LET copy == bk_strcpy(s, max)
    IN  /\ copy.wrote = Len(copy.text) + (IF Len(s) < max + 2 THEN 2 ELSE 1)
        /\ copy.text = SubSeq(s, 1, copy.returns)
        /\ bk_strlen(copy.text, max) <= max + 1

(* The bits found are the highest and the lowest that are set.             *)
ASSUME BitsAreFound ==
  \A n \in (1 .. 255) \cup UNION {2^k - 1 .. 2^k + 1 : k \in 8 .. 15} :
    LET ones == {k \in 0 .. 15 : (n \div 2^k) % 2 = 1}
    IN  /\ number_msbit(n, 4) \in ones /\ \A k \in ones : k <= number_msbit(n, 4)
        /\ number_lsbit(n, 4) \in ones /\ \A k \in ones : k >= number_lsbit(n, 4)

(* mem_copy copies the first bytes right and writes none behind the last;  *)
(* but it is complete only up to one word, and returns five bytes more     *)
(* than asked for ("@return bytes copied", memory.c:413).                  *)
ASSUME CopyIsPrefix ==
  \A n \in 0 .. 14 :
    LET none == [i \in 1 .. 16 |-> 0]
        all == [i \in 1 .. 16 |-> i]
        copy == mem_copy(none, all, n, 4)
        copied == {i \in 1 .. 16 : copy.dest[i] = i}
    IN  /\ \E k \in 0 .. n : copied = 1 .. k
        /\ copied = 1 .. n <=> n <= 4
        /\ \A i \in (1 .. 16) \ copied : copy.dest[i] = 0
        /\ copy.returns = n + 5
=============================================================================
