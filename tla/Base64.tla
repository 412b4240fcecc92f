-------------------------------- MODULE Base64 --------------------------------
(***************************************************************************)
(* Base64 as inc/base64.hh has it.  A string is a sequence of bytes; what  *)
(* encode writes in rounds of three bytes is given here by position.       *)
(***************************************************************************)
EXTENDS Integers, Sequences

Pad == 61 (* "=" *)

(* base64_chars: the letter of a value, and find, which is 255 (npos as a    *)
(* byte) for what is no letter.                                              *)
Letter(v) ==
  IF v < 26 THEN 65 + v ELSE IF v < 52 THEN 71 + v
  ELSE IF v < 62 THEN v - 4 ELSE IF v = 62 THEN 43 ELSE 47
Find(c) ==
  IF \E v \in 0..63 : Letter(v) = c THEN CHOOSE v \in 0..63 : Letter(v) = c ELSE 255

IsBase64(c) == c = 43 \/ c \in 47..57 \/ c \in 65..90 \/ c \in 97..122

Sextets(a, b, c) ==
  <<a \div 4, (a % 4) * 16 + (b \div 16), (b % 16) * 4 + (c \div 64), c % 64>>
Octets(a, b, c, d) ==
  <<(a * 4 + ((b % 64) \div 16)) % 256, ((b % 16) * 16 + ((c % 64) \div 4)) % 256,
    ((c % 4) * 64 + d) % 256>>

(* Byte or letter i of a string, and 0 past its end.                         *)
At(s, i) == IF i <= Len(s) THEN s[i] ELSE 0

(* Slip: the rest of one or two bytes is not written.                        *)
EncodeWholeGroups(input) ==
  [i \in 1..4 * (Len(input) \div 3) |->
     LET g == 3 * ((i - 1) \div 4) IN
     Letter(Sextets(At(input, g + 1), At(input, g + 2), At(input, g + 3))[((i - 1) % 4) + 1])]

Encode(input) ==
  [i \in 1..4 * ((Len(input) + 2) \div 3) |->
     LET g == 3 * ((i - 1) \div 4)
         j == (i - 1) % 4
     IN  IF g + j > Len(input) THEN Pad
         ELSE Letter(Sextets(At(input, g + 1), At(input, g + 2), At(input, g + 3))[j + 1])]

(* What decode reads of its input: up to the first "=" or stranger.          *)
Readable(input) ==
  LET bad == {i \in 1..Len(input) : ~IsBase64(input[i])} IN
  IF bad = {} THEN input
  ELSE SubSeq(input, 1, (CHOOSE i \in bad : \A k \in bad : i <= k) - 1)

(* A rest of n letters gives n - 1 bytes.                                    *)
Decode(input) ==
  LET s == Readable(input)
      whole == Len(s) \div 4
      rest == Len(s) % 4
  IN  [i \in 1..3 * whole + (IF rest = 0 THEN 0 ELSE rest - 1) |->
         LET g == 4 * ((i - 1) \div 3) IN
         Octets(Find(At(s, g + 1)), Find(At(s, g + 2)),
                Find(At(s, g + 3)), Find(At(s, g + 4)))[((i - 1) % 3) + 1]]
=============================================================================
