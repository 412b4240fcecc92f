------------------------------ MODULE MailProofs ------------------------------
(***************************************************************************)
(* Theorems about Mail, for all accounts and all bounds.                   *)
(*                                                                         *)
(* First Base64: encode is the code of its reference (EncodeEncodes) and   *)
(* decode its inverse (DecodeInverts), for every string of bytes.          *)
(*                                                                         *)
(* Then the inductive invariant IInv.  The client takes every line that is *)
(* there for the answer to its last command, so that what an answer means  *)
(* is a fact about everything under way.  Types, OneStep and Chained say   *)
(* what the client has written and reported at each step of the chain;     *)
(* DataIsLast that only the message follows DATA; AnswersFollow that a 250 *)
(* after a 354 stands for an accepted message; OnItsWay that the message   *)
(* is whole between the package, the queue and the server; InLockStep that *)
(* nothing goes wrong without a reason; LoginInOrder that the name and the *)
(* password are sent once, and in this order.  The last five are about what*)
(* the answers mean, so that they end where one is taken by accident; that *)
(* the application is told once does not.                                  *)
(***************************************************************************)
EXTENDS Mail, SequenceTheorems, WellFoundedInduction, TLAPS

(* A letter of the alphabet is found at the value it stands for.             *)
LEMMA LetterFinds ==
  ASSUME NEW v \in 0..63
  PROVE  /\ Letter(v) \in 43..122 /\ IsBase64(Letter(v)) /\ Letter(v) # Pad
         /\ Find(Letter(v)) = v
<1>1. Letter(v) \in 43..122 /\ IsBase64(Letter(v)) /\ Letter(v) # Pad
  BY DEF Letter, IsBase64, Pad
<1>2. \A u \in 0..63 : Letter(u) = Letter(v) => u = v
  BY DEF Letter
<1> DEFINE c == Letter(v)
<1>3. \E u \in 0..63 : Letter(u) = c
  OBVIOUS
<1>4. (CHOOSE u \in 0..63 : Letter(u) = c) = v
  <2>1. (CHOOSE u \in 0..63 : Letter(u) = c) \in 0..63 /\ Letter(CHOOSE u \in 0..63 : Letter(u) = c) = c
    BY ONLY <1>3
  <2> QED
    BY <1>2, <2>1
<1>5. Find(c) = v
  BY <1>3, <1>4 DEF Find
<1> QED
  BY <1>1, <1>5

Byte == 0..255
Six == 0..63
Of64(x) == ((x[1] * 64 + x[2]) * 64 + x[3]) * 64 + x[4]
Of256(a, b, c) == (a * 256 + b) * 256 + c

(* Three bytes and the four sextets cut from them are the same number.       *)
LEMMA SextetsIn ==
  ASSUME NEW a \in Byte, NEW b \in Byte, NEW c \in Byte, NEW x, x = Sextets(a, b, c)
  PROVE  /\ x[1] \in Six /\ x[2] \in Six /\ x[3] \in Six /\ x[4] \in Six
         /\ Of64(x) = Of256(a, b, c)
<1>1. PICK a1 \in 0..63, a2 \in 0..3 : a = 4 * a1 + a2
  BY DEF Byte
<1>2. PICK b1 \in 0..15, b2 \in 0..15 : b = 16 * b1 + b2
  BY DEF Byte
<1>3. PICK c1 \in 0..3, c2 \in 0..63 : c = 64 * c1 + c2
  BY DEF Byte
<1>4. /\ a \div 4 = a1 /\ a % 4 = a2 /\ b \div 16 = b1 /\ b % 16 = b2 /\ c \div 64 = c1 /\ c % 64 = c2
  BY <1>1, <1>2, <1>3
<1>5. x = <<a1, a2 * 16 + b1, b2 * 4 + c1, c2>>
  BY <1>4 DEF Sextets
<1> DEFINE s2 == a2 * 16 + b1
           s3 == b2 * 4 + c1
<1>6. s2 \in 0..63 /\ s3 \in 0..63 /\ s2 % 64 = s2 /\ s3 % 64 = s3 /\ s2 \div 16 = a2 /\ s2 % 16 = b1
      /\ s3 \div 4 = b2 /\ s3 % 4 = c1
  OBVIOUS
<1>7. x[1] = a1 /\ x[2] = s2 /\ x[3] = s3 /\ x[4] = c2
  BY ONLY <1>5
<1>8. ((a1 * 64 + s2) * 64 + s3) * 64 + c2 = (a * 256 + b) * 256 + c
  BY <1>1, <1>2, <1>3
<1> HIDE DEF s2, s3
<1> QED
  BY ONLY <1>6, <1>7, <1>8, a1 \in 0..63, c2 \in 0..63 DEF Six, Of64, Of256

Back(x, a, b, c, d, e) ==
  /\ Octets(x[1], x[2], d, e)[1] = a
  /\ Octets(x[1], x[2], x[3], d)[2] = b
  /\ Octets(x[1], x[2], x[3], x[4])[3] = c

(* The sextets of three bytes joined give back these bytes.                  *)
LEMMA OctetsOf ==
  ASSUME NEW a, NEW b, NEW c, a \in Byte, b \in Byte, c \in Byte, NEW x, x = Sextets(a, b, c),
         NEW d, NEW e
  PROVE  Back(x, a, b, c, d, e)
<1>1. PICK a1 \in 0..63, a2 \in 0..3 : a = 4 * a1 + a2
  BY DEF Byte
<1>2. PICK b1 \in 0..15, b2 \in 0..15 : b = 16 * b1 + b2
  BY DEF Byte
<1>3. PICK c1 \in 0..3, c2 \in 0..63 : c = 64 * c1 + c2
  BY DEF Byte
<1>4. /\ a \div 4 = a1 /\ a % 4 = a2 /\ b \div 16 = b1 /\ b % 16 = b2 /\ c \div 64 = c1 /\ c % 64 = c2
  BY <1>1, <1>2, <1>3
<1>5. x = <<a1, a2 * 16 + b1, b2 * 4 + c1, c2>>
  BY <1>4 DEF Sextets
<1> DEFINE s2 == a2 * 16 + b1
           s3 == b2 * 4 + c1
<1>6. s2 \in 0..63 /\ s3 \in 0..63 /\ s2 % 64 = s2 /\ s3 % 64 = s3 /\ s2 \div 16 = a2 /\ s2 % 16 = b1
      /\ s3 \div 4 = b2 /\ s3 % 4 = c1
  OBVIOUS
<1>7. x[1] = a1 /\ x[2] = s2 /\ x[3] = s3 /\ x[4] = c2
  BY ONLY <1>5
<1>8. Octets(a1, s2, d, e)[1] = (a1 * 4 + ((s2 % 64) \div 16)) % 256
  BY DEF Octets
<1>9. Octets(a1, s2, s3, d)[2] = ((s2 % 16) * 16 + ((s3 % 64) \div 4)) % 256
  BY DEF Octets
<1>10. Octets(a1, s2, s3, c2)[3] = ((s3 % 4) * 64 + c2) % 256
  BY DEF Octets
<1>11. (a1 * 4 + a2) % 256 = a /\ (b1 * 16 + b2) % 256 = b /\ (c1 * 64 + c2) % 256 = c
  BY <1>1, <1>2, <1>3
<1> HIDE DEF s2, s3
<1>12. Octets(x[1], x[2], d, e)[1] = a
  BY ONLY <1>6, <1>7, <1>8, <1>11
<1>13. Octets(x[1], x[2], x[3], d)[2] = b
  BY ONLY <1>6, <1>7, <1>9, <1>11
<1>14. Octets(x[1], x[2], x[3], x[4])[3] = c
  BY ONLY <1>6, <1>7, <1>10, <1>11
<1> QED
  BY ONLY <1>12, <1>13, <1>14 DEF Back

(* How many groups of letters the code has, and how many letters.            *)
NumGroups(s) == (Len(s) + 2) \div 3
NumLetters(s) == (4 * Len(s) + 2) \div 3

(* Groups and letters of an input, by its length modulo three.               *)
LEMMA Sizes ==
  ASSUME NEW s \in Seq(0..255)
  PROVE  /\ NumGroups(s) \in Nat /\ NumLetters(s) \in Nat
         /\ \E m \in Nat, r \in 0..2 :
              /\ Len(s) = 3 * m + r
              /\ NumGroups(s) = IF r = 0 THEN m ELSE m + 1
              /\ NumLetters(s) = IF r = 0 THEN 4 * m ELSE (4 * m + r) + 1
<1> DEFINE n == Len(s)
<1>0. n \in Nat
  OBVIOUS
<1> HIDE DEF n
<1>1. PICK m \in Nat, r \in 0..2 : n = 3 * m + r
  BY <1>0, n \div 3 \in Nat, n % 3 \in 0..2, n = 3 * (n \div 3) + (n % 3)
<1>2. (n + 2) \div 3 = IF r = 0 THEN m ELSE m + 1
  BY <1>1
<1>3. (4 * n + 2) \div 3 = IF r = 0 THEN 4 * m ELSE (4 * m + r) + 1
  BY <1>1
<1> QED
  BY <1>1, <1>2, <1>3 DEF n, NumGroups, NumLetters

(* Behind its end a string is read as zeros.                                 *)
LEMMA AtIsByte ==
  ASSUME NEW s \in Seq(0..255), NEW i \in Nat, i >= 1
  PROVE  At(s, i) \in 0..255 /\ (i <= Len(s) => At(s, i) = s[i])
<1>1. CASE i <= Len(s)
  <2>1. i \in 1..Len(s)
    BY <1>1
  <2>2. s[i] \in 0..255
    BY <2>1, ElementOfSeq
  <2>3. At(s, i) = s[i]
    BY <1>1 DEF At
  <2> QED
    BY <2>2, <2>3
<1>2. CASE ~(i <= Len(s))
  <2>1. At(s, i) = 0
    BY <1>2 DEF At
  <2> QED
    BY <1>2, <2>1
<1> QED
  BY <1>1, <1>2

(* A group of an input is three bytes, and cut into sextets.                 *)
LEMMA SextetsAt ==
  ASSUME NEW s \in Seq(0..255), NEW g \in Nat
  PROVE  /\ At(s, 3 * g + 1) \in 0..255 /\ At(s, 3 * g + 2) \in 0..255 /\ At(s, 3 * g + 3) \in 0..255
         /\ \A j \in 0..3 :
              Sextets(At(s, 3 * g + 1), At(s, 3 * g + 2), At(s, 3 * g + 3))[j + 1] \in 0..63
<1>1. 3 * g + 1 \in Nat /\ 3 * g + 2 \in Nat /\ 3 * g + 3 \in Nat
      /\ 3 * g + 1 >= 1 /\ 3 * g + 2 >= 1 /\ 3 * g + 3 >= 1
  OBVIOUS
<1>2. At(s, 3 * g + 1) \in 0..255 /\ At(s, 3 * g + 2) \in 0..255 /\ At(s, 3 * g + 3) \in 0..255
  BY ONLY <1>1, s \in Seq(0..255), AtIsByte
<1>3. PICK a \in 0..255, b \in 0..255, c \in 0..255 :
        a = At(s, 3 * g + 1) /\ b = At(s, 3 * g + 2) /\ c = At(s, 3 * g + 3)
  BY ONLY <1>2
<1>4. \A j \in 0..3 : Sextets(a, b, c)[j + 1] \in 0..63
  <2>1. PICK x : x = Sextets(a, b, c)
    OBVIOUS
  <2>2. a \in Byte /\ b \in Byte /\ c \in Byte
    BY ONLY a \in 0..255, b \in 0..255, c \in 0..255 DEF Byte
  <2>3. x[1] \in Six /\ x[2] \in Six /\ x[3] \in Six /\ x[4] \in Six
    BY ONLY <2>1, <2>2, SextetsIn
  <2>4. \A j \in 0..3 : j + 1 = 1 \/ j + 1 = 2 \/ j + 1 = 3 \/ j + 1 = 4
    OBVIOUS
  <2>5. \A j \in 0..3 : x[j + 1] \in Six
    BY ONLY <2>3, <2>4
  <2> QED
    BY ONLY <2>1, <2>5 DEF Six
<1> QED
  BY ONLY <1>2, <1>3, <1>4

(* The code of a string of bytes, by the groups.                             *)
CodeAt(s, g, j) ==
  IF 3 * g + j > Len(s) THEN Pad
  ELSE Letter(Sextets(At(s, 3 * g + 1), At(s, 3 * g + 2), At(s, 3 * g + 3))[j + 1])

(* Each place of a group: a letter for its sextet, or padding behind the     *)
(* input.                                                                    *)
LEMMA CodeAtIs ==
  ASSUME NEW s \in Seq(0..255), NEW g \in Nat, NEW j \in 0..3
  PROVE  /\ CodeAt(s, g, j) \in 43..122
         /\ CodeAt(s, g, j) = Pad <=> 3 * g + j > Len(s)
         /\ IsBase64(CodeAt(s, g, j)) <=> ~(3 * g + j > Len(s))
         /\ ~(3 * g + j > Len(s)) =>
              Find(CodeAt(s, g, j))
                = Sextets(At(s, 3 * g + 1), At(s, 3 * g + 2), At(s, 3 * g + 3))[j + 1]
<1>1. Sextets(At(s, 3 * g + 1), At(s, 3 * g + 2), At(s, 3 * g + 3))[j + 1] \in 0..63
  BY SextetsAt
<1>2. Pad \in 43..122 /\ ~IsBase64(Pad)
  BY DEF Pad, IsBase64
<1> QED
  BY ONLY <1>1, <1>2, LetterFinds DEF CodeAt

(* A place in the code is a group and a place in that.                       *)
LEMMA Quarters ==
  ASSUME NEW k \in Nat
  PROVE  /\ \A i \in 1..4 * k : \E g \in 0..k - 1, j \in 0..3 : i = 4 * g + j + 1
         /\ \A g \in 0..k - 1, j \in 0..3 :
              /\ 4 * g + j + 1 \in 1..4 * k
              /\ ((4 * g + j + 1) - 1) \div 4 = g /\ ((4 * g + j + 1) - 1) % 4 = j
<1>1. ASSUME NEW i \in 1..4 * k PROVE \E g \in 0..k - 1, j \in 0..3 : i = 4 * g + j + 1
  <2>1. /\ (i - 1) \div 4 \in 0..k - 1 /\ (i - 1) % 4 \in 0..3
        /\ i = (4 * ((i - 1) \div 4) + ((i - 1) % 4)) + 1
    OBVIOUS
  <2> QED
    BY <2>1
<1>2. ASSUME NEW g \in 0..k - 1, NEW j \in 0..3
      PROVE  /\ 4 * g + j + 1 \in 1..4 * k
             /\ ((4 * g + j + 1) - 1) \div 4 = g /\ ((4 * g + j + 1) - 1) % 4 = j
  OBVIOUS
<1> QED
  BY <1>1, <1>2

(* The code is its groups one after the other, four letters each.            *)
LEMMA EncodeIs ==
  ASSUME NEW s \in Seq(0..255)
  PROVE  /\ Encode(s) \in Seq(43..122) /\ Len(Encode(s)) = 4 * NumGroups(s)
         /\ \A g \in 0..NumGroups(s) - 1, j \in 0..3 : Encode(s)[4 * g + j + 1] = CodeAt(s, g, j)
<1> DEFINE E(i) == LET g == 3 * ((i - 1) \div 4)
                       j == (i - 1) % 4
                   IN  IF g + j > Len(s) THEN Pad
                       ELSE Letter(Sextets(At(s, g + 1), At(s, g + 2), At(s, g + 3))[j + 1])
<1>1. PICK k \in Nat : k = NumGroups(s)
  BY Sizes
<1>2. Encode(s) = [i \in 1..4 * k |-> E(i)]
  BY <1>1 DEF Encode, NumGroups
<1>4. ASSUME NEW g \in 0..k - 1, NEW j \in 0..3
      PROVE  4 * g + j + 1 \in 1..4 * k /\ E(4 * g + j + 1) = CodeAt(s, g, j)
  <2>1. /\ 4 * g + j + 1 \in 1..4 * k
        /\ ((4 * g + j + 1) - 1) \div 4 = g /\ ((4 * g + j + 1) - 1) % 4 = j
    BY Quarters
  <2> QED
    BY <2>1 DEF CodeAt
<1> HIDE DEF E
<1>5. ASSUME NEW g \in 0..k - 1, NEW j \in 0..3 PROVE E(4 * g + j + 1) \in 43..122
  <2>1. g \in Nat
    OBVIOUS
  <2> QED
    <3>1. E(4 * g + j + 1) = CodeAt(s, g, j)
      BY ONLY <1>4, g \in 0..k - 1, j \in 0..3
    <3>2. CodeAt(s, g, j) \in 43..122
      BY ONLY <2>1, s \in Seq(0..255), j \in 0..3, CodeAtIs
    <3> QED
      BY ONLY <3>1, <3>2
<1>6. \A i \in 1..4 * k : E(i) \in 43..122
  BY ONLY <1>5, k \in Nat, Quarters
<1>7. Encode(s) \in Seq(43..122) /\ Len(Encode(s)) = 4 * k
  BY <1>2, <1>6
<1> QED
  BY <1>1, <1>2, <1>4, <1>7

(* Where the padding is: behind the last letter.                             *)
LEMMA PadsAt ==
  ASSUME NEW s \in Seq(0..255), NEW i \in 1..4 * NumGroups(s)
  PROVE  /\ Encode(s)[i] = Pad <=> ~(i <= NumLetters(s))
         /\ IsBase64(Encode(s)[i]) <=> i <= NumLetters(s)
<1>1. PICK m \in Nat, r \in 0..2 :
        /\ Len(s) = 3 * m + r
        /\ NumGroups(s) = IF r = 0 THEN m ELSE m + 1
        /\ NumLetters(s) = IF r = 0 THEN 4 * m ELSE (4 * m + r) + 1
  BY Sizes
<1>2. PICK k \in Nat, h \in Nat : k = NumGroups(s) /\ h = NumLetters(s)
  BY Sizes
<1>3. PICK g \in 0..k - 1, j \in 0..3 : i = 4 * g + j + 1
  BY <1>2, Quarters
<1>4. g \in Nat /\ Encode(s)[i] = CodeAt(s, g, j)
  <2>1. g \in Nat
    BY ONLY k \in Nat, g \in 0..k - 1
  <2>2. g \in 0..NumGroups(s) - 1
    BY ONLY <1>2, g \in 0..k - 1
  <2>3. Encode(s)[4 * g + j + 1] = CodeAt(s, g, j)
    BY ONLY <2>2, s \in Seq(0..255), j \in 0..3, EncodeIs
  <2> QED
    BY ONLY <2>1, <2>3, <1>3
<1>5. 3 * g + j > Len(s) <=> ~(i <= h)
  <2>1. k = (IF r = 0 THEN m ELSE m + 1) /\ h = (IF r = 0 THEN 4 * m ELSE (4 * m + r) + 1)
    BY <1>1, <1>2
  <2>2. ASSUME NEW l \in Nat, l = 3 * m + r PROVE 3 * g + j > l <=> ~(i <= h)
    <3>1. CASE r = 0
      BY ONLY <2>1, <2>2, <3>1, <1>3, k \in Nat, m \in Nat, r \in 0..2, g \in 0..k - 1, j \in 0..3
    <3>2. CASE r # 0 /\ g < m
      BY ONLY <2>1, <2>2, <3>2, <1>3, k \in Nat, m \in Nat, r \in 0..2, g \in 0..k - 1, j \in 0..3
    <3>3. CASE r # 0 /\ g = m
      BY ONLY <2>1, <2>2, <3>3, <1>3, k \in Nat, m \in Nat, r \in 0..2, g \in 0..k - 1, j \in 0..3
    <3>4. r # 0 => g < m \/ g = m
      BY ONLY <2>1, k \in Nat, m \in Nat, r \in 0..2, g \in 0..k - 1
    <3> QED
      BY ONLY <3>1, <3>2, <3>3, <3>4
  <2>3. Len(s) \in Nat
    OBVIOUS
  <2> QED
    BY ONLY <1>1, <2>2, <2>3
<1>6. /\ CodeAt(s, g, j) = Pad <=> 3 * g + j > Len(s)
      /\ IsBase64(CodeAt(s, g, j)) <=> ~(3 * g + j > Len(s))
  BY ONLY <1>4, s \in Seq(0..255), j \in 0..3, CodeAtIs
<1> QED
  BY ONLY <1>2, <1>4, <1>5, <1>6

(* The beginning of a sequence.                                              *)
LEMMA StartOf ==
  ASSUME NEW S, NEW s \in Seq(S), NEW h \in Nat, h <= Len(s)
  PROVE  /\ SubSeq(s, 1, h) \in Seq(S) /\ Len(SubSeq(s, 1, h)) = h
         /\ \A i \in 1..h : SubSeq(s, 1, h)[i] = s[i]
OBVIOUS

(* decode reads the letters and stops before the padding.                    *)
LEMMA ReadableIs ==
  ASSUME NEW s \in Seq(0..255)
  PROVE  /\ Readable(Encode(s)) \in Seq(43..122) /\ Len(Readable(Encode(s))) = NumLetters(s)
         /\ \A i \in 1..NumLetters(s) : Readable(Encode(s))[i] = Encode(s)[i]
         /\ NumLetters(s) <= 4 * NumGroups(s)
<1> DEFINE code == Encode(s)
           bad == {i \in 1..Len(code) : ~IsBase64(code[i])}
<1>1. PICK k \in Nat, h \in Nat : k = NumGroups(s) /\ h = NumLetters(s) /\ h <= 4 * k
  BY Sizes
<1>2. code \in Seq(43..122) /\ Len(code) = 4 * k
  BY <1>1, EncodeIs
<1>3. \A i \in 1..4 * k : IsBase64(code[i]) <=> i <= h
  BY <1>1, PadsAt
<1>4. Readable(code) = IF bad = {} THEN code
                       ELSE SubSeq(code, 1, (CHOOSE i \in bad : \A l \in bad : i <= l) - 1)
  BY DEF Readable
<1> HIDE DEF code
<1>5. CASE h = 4 * k
  <2>1. bad = {}
    BY ONLY <1>2, <1>3, <1>5, k \in Nat, h \in Nat
  <2>2. Readable(code) = code
    BY ONLY <2>1, <1>4
  <2> QED
    BY <1>1, <1>2, <1>5, <2>2 DEF code
<1>6. CASE h < 4 * k
  <2>1. h + 1 \in bad /\ \A l \in bad : h + 1 <= l
    BY ONLY <1>2, <1>3, <1>6, k \in Nat, h \in Nat
  <2>2. \A i \in bad : i \in Nat
    BY ONLY <1>2, k \in Nat
  <2>3. (CHOOSE i \in bad : \A l \in bad : i <= l) = h + 1
    <3> HIDE DEF bad
    <3> DEFINE c == CHOOSE i \in bad : \A l \in bad : i <= l
    <3>1. c \in bad /\ \A l \in bad : c <= l
      BY ONLY <2>1
    <3>2. c <= h + 1 /\ h + 1 <= c /\ c \in Nat
      BY ONLY <2>1, <2>2, <3>1
    <3> HIDE DEF c
    <3>3. c = h + 1
      BY ONLY <3>2, h \in Nat
    <3> QED
      BY ONLY <3>3 DEF c
  <2>4. bad # {}
    BY ONLY <2>1
  <2>5. (h + 1) - 1 = h /\ h <= Len(code)
    BY ONLY <1>2, <1>6, h \in Nat, k \in Nat
  <2>6. Readable(code) = SubSeq(code, 1, h)
    BY ONLY <1>4, <2>3, <2>4, <2>5
  <2>7. /\ SubSeq(code, 1, h) \in Seq(43..122) /\ Len(SubSeq(code, 1, h)) = h
        /\ \A i \in 1..h : SubSeq(code, 1, h)[i] = code[i]
    BY ONLY <1>2, <2>5, h \in Nat, StartOf
  <2> QED
    BY ONLY <1>1, <2>6, <2>7 DEF code
<1>7. h = 4 * k \/ h < 4 * k
  BY ONLY <1>1, h \in Nat, k \in Nat
<1> QED
  BY ONLY <1>5, <1>6, <1>7

(* What decode finds at a place is the sextet encode put there.              *)
LEMMA LetterAt ==
  ASSUME NEW s \in Seq(0..255), NEW g \in Nat, NEW j \in 0..3,
         3 * g < Len(s), 3 * g + j <= Len(s)
  PROVE  Find(At(Readable(Encode(s)), 4 * g + (j + 1)))
           = Sextets(At(s, 3 * g + 1), At(s, 3 * g + 2), At(s, 3 * g + 3))[j + 1]
<1>1. PICK m \in Nat, r \in 0..2 :
        /\ Len(s) = 3 * m + r
        /\ NumGroups(s) = IF r = 0 THEN m ELSE m + 1
        /\ NumLetters(s) = IF r = 0 THEN 4 * m ELSE (4 * m + r) + 1
  BY Sizes
<1>2. PICK k \in Nat, h \in Nat, n \in Nat :
        k = NumGroups(s) /\ h = NumLetters(s) /\ n = Len(s)
  BY Sizes
<1>3. /\ n = 3 * m + r /\ k = (IF r = 0 THEN m ELSE m + 1)
      /\ h = IF r = 0 THEN 4 * m ELSE (4 * m + r) + 1
  BY ONLY <1>1, <1>2
<1>4. 3 * g < n /\ 3 * g + j <= n
  BY ONLY <1>2, 3 * g < Len(s), 3 * g + j <= Len(s)
<1>5. g \in 0..k - 1
  BY ONLY <1>3, <1>4, k \in Nat, m \in Nat, r \in 0..2, g \in Nat
<1>6. 4 * g + (j + 1) \in 1..h /\ 4 * g + (j + 1) = 4 * g + j + 1
  <2>1. CASE r = 0
    BY ONLY <2>1, <1>3, <1>4, h \in Nat, m \in Nat, g \in Nat, j \in 0..3
  <2>2. CASE r # 0 /\ g < m
    BY ONLY <2>2, <1>3, <1>4, h \in Nat, m \in Nat, r \in 0..2, g \in Nat, j \in 0..3
  <2>3. CASE r # 0 /\ g = m
    BY ONLY <2>3, <1>3, <1>4, h \in Nat, m \in Nat, r \in 0..2, g \in Nat, j \in 0..3
  <2>4. r # 0 => g < m \/ g = m
    BY ONLY <1>3, <1>4, m \in Nat, r \in 0..2, g \in Nat
  <2> QED
    BY ONLY <2>1, <2>2, <2>3, <2>4
<1> DEFINE t == Readable(Encode(s))
           p == 4 * g + (j + 1)
<1>7. Len(t) = h /\ \A i \in 1..h : t[i] = Encode(s)[i]
  BY ONLY <1>2, s \in Seq(0..255), ReadableIs
<1> HIDE DEF t
<1>8. At(t, p) = t[p]
  <2>1. p <= h
    BY ONLY <1>6, h \in Nat
  <2> QED
    BY ONLY <1>7, <2>1 DEF At
<1>9. t[p] = CodeAt(s, g, j)
  <2>1. g \in 0..NumGroups(s) - 1
    BY ONLY <1>2, <1>5
  <2>2. Encode(s)[4 * g + j + 1] = CodeAt(s, g, j)
    BY ONLY <2>1, s \in Seq(0..255), j \in 0..3, EncodeIs
  <2> QED
    BY ONLY <1>6, <1>7, <2>2
<1>10. ~(3 * g + j > Len(s))
  BY ONLY <1>2, <1>4, n \in Nat, g \in Nat, j \in 0..3
<1>11. Find(CodeAt(s, g, j))
         = Sextets(At(s, 3 * g + 1), At(s, 3 * g + 2), At(s, 3 * g + 3))[j + 1]
  BY ONLY <1>10, s \in Seq(0..255), g \in Nat, j \in 0..3, CodeAtIs
<1> QED
  BY ONLY <1>8, <1>9, <1>11 DEF t

(* Base64::decode gives back the bytes that Base64::encode was given.        *)
LEMMA DecodeInverts ==
  ASSUME NEW s \in Seq(0..255)
  PROVE  Decode(Encode(s)) = s
<1>1. PICK m \in Nat, r \in 0..2 :
        /\ Len(s) = 3 * m + r
        /\ NumGroups(s) = IF r = 0 THEN m ELSE m + 1
        /\ NumLetters(s) = IF r = 0 THEN 4 * m ELSE (4 * m + r) + 1
  BY Sizes
<1>2. PICK h \in Nat, n \in Nat : h = NumLetters(s) /\ n = Len(s)
  BY Sizes
<1>3. n = 3 * m + r /\ h = IF r = 0 THEN 4 * m ELSE (4 * m + r) + 1
  BY <1>1, <1>2
<1> DEFINE t == Readable(Encode(s))
           B(i) == LET g == 4 * ((i - 1) \div 3) IN
                   Octets(Find(At(t, g + 1)), Find(At(t, g + 2)),
                          Find(At(t, g + 3)), Find(At(t, g + 4)))[((i - 1) % 3) + 1]
<1>4. Decode(Encode(s)) =
        [i \in 1..3 * (Len(t) \div 4) + (IF Len(t) % 4 = 0 THEN 0 ELSE (Len(t) % 4) - 1) |-> B(i)]
  BY DEF Decode
<1>5. Len(t) = h
  BY <1>2, ReadableIs
<1>6. 3 * (h \div 4) + (IF h % 4 = 0 THEN 0 ELSE (h % 4) - 1) = n
  BY ONLY <1>3, n \in Nat, m \in Nat, r \in 0..2
<1>7. Decode(Encode(s)) = [i \in 1..n |-> B(i)]
  BY <1>4, <1>5, <1>6
<1>8. ASSUME NEW i \in 1..n PROVE B(i) = s[i]
  <2>1. PICK g \in Nat, j \in 0..2 :
          i = 3 * g + j + 1 /\ (i - 1) \div 3 = g /\ (i - 1) % 3 = j
    BY i \in Nat, i >= 1, (i - 1) \div 3 \in Nat, (i - 1) % 3 \in 0..2,
       i - 1 = 3 * ((i - 1) \div 3) + ((i - 1) % 3)
  <2> PICK x : x = Sextets(At(s, 3 * g + 1), At(s, 3 * g + 2), At(s, 3 * g + 3))
    OBVIOUS
  <2>2. B(i) = Octets(Find(At(t, 4 * g + 1)), Find(At(t, 4 * g + 2)),
                      Find(At(t, 4 * g + 3)), Find(At(t, 4 * g + 4)))[j + 1]
    BY ONLY <2>1
  <2>3. PICK a, b, c : /\ a \in Byte /\ b \in Byte /\ c \in Byte
                       /\ a = At(s, 3 * g + 1) /\ b = At(s, 3 * g + 2) /\ c = At(s, 3 * g + 3)
    <3>1. At(s, 3 * g + 1) \in 0..255 /\ At(s, 3 * g + 2) \in 0..255 /\ At(s, 3 * g + 3) \in 0..255
      BY ONLY g \in Nat, s \in Seq(0..255), SextetsAt
    <3> QED
      BY ONLY <3>1 DEF Byte
  <2>4. x = Sextets(a, b, c)
    BY <2>3
  <2>5. \A l \in 0..3 : 3 * g + l <= n => Find(At(t, 4 * g + (l + 1))) = x[l + 1]
    <3>1. 3 * g < n
      BY ONLY <2>1, n \in Nat, g \in Nat, j \in 0..2, i \in 1..n
    <3>2. 3 * g < Len(s) /\ n = Len(s)
      BY ONLY <3>1, <1>2
    <3>3. \A l \in 0..3 : 3 * g + l <= n => Find(At(t, 4 * g + (l + 1)))
            = Sextets(At(s, 3 * g + 1), At(s, 3 * g + 2), At(s, 3 * g + 3))[l + 1]
      BY ONLY <3>2, s \in Seq(0..255), g \in Nat, LetterAt
    <3> QED
      BY <3>3
  <2> HIDE DEF t
  <2>6. /\ Find(At(t, 4 * g + 1)) = x[1] /\ Find(At(t, 4 * g + 2)) = x[2]
        /\ j \in {1, 2} => Find(At(t, 4 * g + 3)) = x[3]
        /\ j = 2 => Find(At(t, 4 * g + 4)) = x[4]
    <3>1. 3 * g + 0 <= n /\ 3 * g + 1 <= n /\ (j \in {1, 2} => 3 * g + 2 <= n) /\ (j = 2 => 3 * g + 3 <= n)
      BY ONLY <2>1, n \in Nat, g \in Nat, j \in 0..2, i \in 1..n
    <3>2. 0 + 1 = 1 /\ 1 + 1 = 2 /\ 2 + 1 = 3 /\ 3 + 1 = 4 /\ {0, 1, 2, 3} = 0..3
      OBVIOUS
    <3> QED
      BY ONLY <2>5, <3>1, <3>2
  <2>7. /\ \A d, e : Octets(x[1], x[2], d, e)[1] = a
        /\ \A d : Octets(x[1], x[2], x[3], d)[2] = b
        /\ Octets(x[1], x[2], x[3], x[4])[3] = c
    <3>1. a \in Byte /\ b \in Byte /\ c \in Byte
      BY ONLY <2>3
    <3>2. \A d, e : Back(x, a, b, c, d, e)
      BY ONLY <2>4, <3>1, OctetsOf
    <3> QED
      BY ONLY <3>2 DEF Back
  <2>8. s[i] = At(s, 3 * g + (j + 1))
    <3>1. i \in Nat /\ i >= 1 /\ i <= Len(s) /\ i = 3 * g + (j + 1)
      BY ONLY <1>2, <2>1, n \in Nat, g \in Nat, j \in 0..2, i \in 1..n
    <3>2. At(s, i) = s[i]
      BY ONLY <3>1, s \in Seq(0..255), AtIsByte
    <3> QED
      BY ONLY <3>1, <3>2
  <2>9. CASE j = 0
    <3>1. s[i] = a /\ j + 1 = 1
      BY ONLY <2>3, <2>8, <2>9
    <3> QED
      BY ONLY <2>2, <2>6, <2>7, <3>1
  <2>10. CASE j = 1
    <3>1. s[i] = b /\ j + 1 = 2 /\ j \in {1, 2}
      BY ONLY <2>3, <2>8, <2>10
    <3> QED
      BY ONLY <2>2, <2>6, <2>7, <3>1
  <2>11. CASE j = 2
    <3>1. s[i] = c /\ j + 1 = 3 /\ j \in {1, 2}
      BY ONLY <2>3, <2>8, <2>11
    <3> QED
      BY ONLY <2>2, <2>6, <2>7, <3>1, <2>11
  <2> QED
    BY ONLY <2>9, <2>10, <2>11, j \in 0..2
<1> HIDE DEF B
<1>9. s = [i \in 1..n |-> s[i]]
  BY <1>2
<1> QED
  BY ONLY <1>7, <1>8, <1>9

(* A letter of the code, padding being 0, is the sextet of its place.        *)
LEMMA DigitAt ==
  ASSUME NEW s \in Seq(0..255), NEW g \in 0..NumGroups(s) - 1, NEW j \in 0..3
  PROVE  Digit(Encode(s)[4 * g + (j + 1)])
           = Sextets(At(s, 3 * g + 1), At(s, 3 * g + 2), At(s, 3 * g + 3))[j + 1]
<1>1. PICK m \in Nat, r \in 0..2 :
        /\ Len(s) = 3 * m + r
        /\ NumGroups(s) = IF r = 0 THEN m ELSE m + 1
        /\ NumLetters(s) = IF r = 0 THEN 4 * m ELSE (4 * m + r) + 1
  BY Sizes
<1>2. PICK k \in Nat, n \in Nat : k = NumGroups(s) /\ n = Len(s)
  BY Sizes
<1>3. n = 3 * m + r /\ k = (IF r = 0 THEN m ELSE m + 1)
  BY ONLY <1>1, <1>2
<1>4. g \in 0..k - 1
  BY ONLY <1>2, g \in 0..NumGroups(s) - 1
<1>5. g \in Nat /\ 3 * g + 1 <= n
  BY ONLY <1>3, <1>4, k \in Nat, m \in Nat, n \in Nat, r \in 0..2
<1>6. Encode(s)[4 * g + (j + 1)] = CodeAt(s, g, j)
  <2>1. 4 * g + (j + 1) = 4 * g + j + 1
    BY ONLY <1>5, j \in 0..3
  <2>2. Encode(s)[4 * g + j + 1] = CodeAt(s, g, j)
    BY ONLY g \in 0..NumGroups(s) - 1, s \in Seq(0..255), j \in 0..3, EncodeIs
  <2> QED
    BY ONLY <2>1, <2>2
<1>7. CASE ~(3 * g + j > Len(s))
  <2>1. CodeAt(s, g, j) # Pad
    BY ONLY <1>7, <1>5, s \in Seq(0..255), j \in 0..3, CodeAtIs
  <2>2. Find(CodeAt(s, g, j))
          = Sextets(At(s, 3 * g + 1), At(s, 3 * g + 2), At(s, 3 * g + 3))[j + 1]
    BY ONLY <1>7, <1>5, s \in Seq(0..255), j \in 0..3, CodeAtIs
  <2> QED
    BY ONLY <1>6, <2>1, <2>2 DEF Digit
<1>8. CASE 3 * g + j > Len(s)
  <2>1. CodeAt(s, g, j) = Pad
    BY ONLY <1>8, <1>5, s \in Seq(0..255), j \in 0..3, CodeAtIs
  <2>2. (j = 2 /\ 3 * g + 2 > n /\ 3 * g + 3 > n) \/ (j = 3 /\ 3 * g + 3 > n)
    <3>1. 3 * g + j > n
      BY ONLY <1>2, <1>8
    <3> QED
      BY ONLY <3>1, <1>5, n \in Nat, j \in 0..3
  <2>3. PICK a \in 0..255, b \in 0..255, c \in 0..255 :
          a = At(s, 3 * g + 1) /\ b = At(s, 3 * g + 2) /\ c = At(s, 3 * g + 3)
    <3>1. At(s, 3 * g + 1) \in 0..255 /\ At(s, 3 * g + 2) \in 0..255 /\ At(s, 3 * g + 3) \in 0..255
      BY ONLY <1>5, s \in Seq(0..255), SextetsAt
    <3> QED
      BY ONLY <3>1
  <2>4. c = 0 /\ (j = 2 => b = 0)
    <3>1. ASSUME NEW i, ~(i <= Len(s)) PROVE At(s, i) = 0
      BY ONLY <3>1 DEF At
    <3>2. ASSUME NEW i \in Nat, i > n PROVE ~(i <= Len(s))
      BY ONLY <3>2, <1>2, n \in Nat
    <3>3. 3 * g + 2 \in Nat /\ 3 * g + 3 \in Nat
      BY ONLY <1>5
    <3>4. ~(3 * g + 3 <= Len(s)) /\ (j = 2 => ~(3 * g + 2 <= Len(s)))
      BY ONLY <2>2, <3>2, <3>3
    <3> QED
      BY ONLY <3>1, <3>4, <2>3
  <2>5. PICK x : x = Sextets(a, b, c)
    OBVIOUS
  <2>6. x[j + 1] = 0
    <3>1. CASE j = 2
      <4>1. x[3] = (b % 16) * 4 + (c \div 64)
        BY ONLY <2>5 DEF Sextets
      <4>2. b = 0 /\ c = 0 /\ j + 1 = 3
        BY ONLY <2>4, <3>1
      <4>3. (0 % 16) * 4 + (0 \div 64) = 0
        OBVIOUS
      <4> QED
        BY ONLY <4>1, <4>2, <4>3
    <3>2. CASE j = 3
      <4>1. x[4] = c % 64
        BY ONLY <2>5 DEF Sextets
      <4>2. c = 0 /\ j + 1 = 4
        BY ONLY <2>4, <3>2
      <4>3. 0 % 64 = 0
        OBVIOUS
      <4> QED
        BY ONLY <4>1, <4>2, <4>3
    <3> QED
      BY ONLY <2>2, <3>1, <3>2
  <2>7. Sextets(At(s, 3 * g + 1), At(s, 3 * g + 2), At(s, 3 * g + 3)) = x
    BY ONLY <2>3, <2>5
  <2>8. Digit(CodeAt(s, g, j)) = 0
    BY ONLY <2>1 DEF Digit
  <2> QED
    BY ONLY <1>6, <2>6, <2>7, <2>8
<1> QED
  BY ONLY <1>7, <1>8

(* Four letters of the code and three bytes are the same number.             *)
LEMMA GroupEncodes ==
  ASSUME NEW s \in Seq(0..255), NEW g \in 0..NumGroups(s) - 1,
         NEW d, d = [i \in 1..4 |-> Digit(Encode(s)[4 * g + i])]
  PROVE  Of64(d) = Of256(At(s, 3 * g + 1), At(s, 3 * g + 2), At(s, 3 * g + 3))
<1>1. g \in Nat
  <2>1. PICK k \in Nat : k = NumGroups(s)
    BY Sizes
  <2>2. g \in 0..k - 1
    BY ONLY <2>1, g \in 0..NumGroups(s) - 1
  <2> QED
    BY ONLY <2>2, k \in Nat
<1>2. PICK a, b, c : /\ a \in Byte /\ b \in Byte /\ c \in Byte
                     /\ a = At(s, 3 * g + 1) /\ b = At(s, 3 * g + 2) /\ c = At(s, 3 * g + 3)
  <2>1. At(s, 3 * g + 1) \in 0..255 /\ At(s, 3 * g + 2) \in 0..255 /\ At(s, 3 * g + 3) \in 0..255
    BY ONLY <1>1, s \in Seq(0..255), SextetsAt
  <2> QED
    BY ONLY <2>1 DEF Byte
<1>3. PICK x : x = Sextets(a, b, c)
  OBVIOUS
<1>4. \A j \in 0..3 : Digit(Encode(s)[4 * g + (j + 1)]) = x[j + 1]
  <2>1. \A j \in 0..3 : Digit(Encode(s)[4 * g + (j + 1)])
           = Sextets(At(s, 3 * g + 1), At(s, 3 * g + 2), At(s, 3 * g + 3))[j + 1]
    BY ONLY s \in Seq(0..255), g \in 0..NumGroups(s) - 1, DigitAt
  <2>2. Sextets(At(s, 3 * g + 1), At(s, 3 * g + 2), At(s, 3 * g + 3)) = x
    BY ONLY <1>2, <1>3
  <2> QED
    BY ONLY <2>1, <2>2
<1>5. d[1] = x[1] /\ d[2] = x[2] /\ d[3] = x[3] /\ d[4] = x[4]
  <2>1. \A i \in 1..4 : d[i] = Digit(Encode(s)[4 * g + i])
    BY ONLY d = [i \in 1..4 |-> Digit(Encode(s)[4 * g + i])]
  <2>2. 0 + 1 = 1 /\ 1 + 1 = 2 /\ 2 + 1 = 3 /\ 3 + 1 = 4 /\ {0, 1, 2, 3} = 0..3 /\ {1, 2, 3, 4} = 1..4
    OBVIOUS
  <2> QED
    BY ONLY <1>4, <2>1, <2>2
<1>6. Of64(x) = Of256(a, b, c)
  BY ONLY <1>2, <1>3, SextetsIn
<1>7. Of64(d) = Of64(x)
  BY ONLY <1>5 DEF Of64
<1> QED
  BY ONLY <1>2, <1>6, <1>7

(* Base64::encode is the code that the reference defines.                    *)
LEMMA EncodeEncodes ==
  ASSUME NEW s \in Seq(0..255)
  PROVE  Encodes(Encode(s), s)
<1>1. PICK m \in Nat, r \in 0..2 :
        /\ Len(s) = 3 * m + r
        /\ NumGroups(s) = IF r = 0 THEN m ELSE m + 1
        /\ NumLetters(s) = IF r = 0 THEN 4 * m ELSE (4 * m + r) + 1
  BY Sizes
<1>2. PICK k \in Nat, h \in Nat, n \in Nat : k = NumGroups(s) /\ n = Len(s) /\ h = NumLetters(s)
  BY Sizes
<1>3. n = 3 * m + r /\ k = (IF r = 0 THEN m ELSE m + 1) /\ h = (IF r = 0 THEN 4 * m ELSE (4 * m + r) + 1)
  BY ONLY <1>1, <1>2
<1>4. Len(Encode(s)) = 4 * k
  BY ONLY <1>2, s \in Seq(0..255), EncodeIs
<1>5. Len(Encode(s)) % 4 = 0 /\ Len(Encode(s)) \div 4 = k
  BY ONLY <1>4, k \in Nat
<1>6. \E pads \in 0..2 :
        /\ Len(s) + pads = 3 * (Len(Encode(s)) \div 4)
        /\ \A i \in 1..Len(Encode(s)) : Encode(s)[i] = Pad <=> i > Len(Encode(s)) - pads
  <2>1. PICK pads \in 0..2 : n + pads = 3 * k /\ 4 * k - pads = h
    <3>1. CASE r = 0
      <4>1. n + 0 = 3 * k /\ 4 * k - 0 = h
        BY ONLY <1>3, <3>1, m \in Nat
      <4> QED
        BY ONLY <4>1
    <3>2. CASE r \in {1, 2}
      <4>1. n + (3 - r) = 3 * k /\ 4 * k - (3 - r) = h /\ 3 - r \in 0..2
        BY ONLY <1>3, <3>2, m \in Nat
      <4> QED
        BY ONLY <4>1
    <3> QED
      BY ONLY <3>1, <3>2, r \in 0..2
  <2>2. \A i \in 1..4 * k : Encode(s)[i] = Pad <=> ~(i <= h)
    <3>1. \A i \in 1..4 * NumGroups(s) : Encode(s)[i] = Pad <=> ~(i <= NumLetters(s))
      BY ONLY s \in Seq(0..255), PadsAt
    <3> QED
      BY ONLY <3>1, <1>2
  <2>3. \A i \in 1..4 * k : Encode(s)[i] = Pad <=> i > 4 * k - pads
    BY ONLY <2>1, <2>2, k \in Nat, h \in Nat
  <2> QED
    BY ONLY <1>2, <1>4, <1>5, <2>1, <2>3
<1>7. ASSUME NEW g \in 0..(Len(Encode(s)) \div 4) - 1
      PROVE  LET d(i) == Digit(Encode(s)[4 * g + i])  b(i) == At(s, 3 * g + i) IN
               ((d(1) * 64 + d(2)) * 64 + d(3)) * 64 + d(4) = (b(1) * 256 + b(2)) * 256 + b(3)
  <2>1. g \in 0..NumGroups(s) - 1
    BY ONLY <1>2, <1>5, <1>7
  <2>2. PICK d : d = [i \in 1..4 |-> Digit(Encode(s)[4 * g + i])]
    OBVIOUS
  <2>3. Of64(d) = Of256(At(s, 3 * g + 1), At(s, 3 * g + 2), At(s, 3 * g + 3))
    BY ONLY <2>1, <2>2, s \in Seq(0..255), GroupEncodes
  <2>4. /\ d[1] = Digit(Encode(s)[4 * g + 1]) /\ d[2] = Digit(Encode(s)[4 * g + 2])
        /\ d[3] = Digit(Encode(s)[4 * g + 3]) /\ d[4] = Digit(Encode(s)[4 * g + 4])
    BY ONLY <2>2
  <2> QED
    BY ONLY <2>3, <2>4 DEF Of64, Of256
<1> QED
  BY ONLY <1>5, <1>6, <1>7 DEF Encodes

-----------------------------------------------------------------------------

(* What is under way: the items of one mail, what the client wrote and the   *)
(* server has not read, what the server said and the client has not read.    *)
Commands == Steps \ {"END"}
TextLines == {Line(s) : s \in {"head", "text", "dot", "end"}}
BodyLines == {Line("text"), Line("dot")}
UserItem == Item("USER", Encode(User(account.username)))
PassItem == Item("PASS", Encode(account.password))
Items ==
  TextLines \cup {Line(s) : s \in {"HELO", "AUTH", "MAIL", "RCPT", "DATA"}}
    \cup {UserItem, PassItem}
Writes == [string : Seq(Items), step : BOOLEAN]

IsText(s) == \A i \in 1..Len(s) : s[i] \in TextLines
Says(q, s) == \E i \in 1..Len(q) : q[i].say = s
Has(q, x) == \E i \in 1..Len(q) : q[i] = x
Before(q, x, y) == \E i, k \in 1..Len(q) : k < i /\ q[k] = x /\ q[i] = y
Stream == buf \o toClient

Types ==
  /\ account \in Accounts
  /\ at \in Steps \cup {"connect", "greeting", "compose", "over"}
  /\ pkg \in {"none", "app", "gone"}
  /\ server \in {"absent", "greeting", "commands", "data", "closed"}
  /\ granted \subseteq Steps /\ extra \in 0..MaxExtra
  /\ reading \in BOOLEAN /\ threw \in BOOLEAN /\ started \in BOOLEAN /\ grumbled \in BOOLEAN
  /\ buf \in Seq(Nat) /\ toClient \in Seq(Nat)
  /\ out \in Seq(Writes) /\ toServer \in Seq(Items)
  /\ body \in Seq(BodyLines) /\ written \in Seq(BodyLines)
  /\ mail \in Seq(Items) /\ accepted \in Seq(Seq(Items))

(* The step under way is the one entry of a step in the queue, or it reads.  *)
OneStep ==
  /\ \A i \in 1..Len(out) : out[i].step =>
       at \in Steps /\ ~reading /\ \A k \in 1..Len(out) : out[k].step => k = i
  /\ reading => at \in Steps \cup {"greeting"}

(* Where the chain is, what its queue holds and whether anybody was told.    *)
Chained ==
  /\ results \in IF at = "over" THEN {<<TRUE>>, <<FALSE>>} ELSE {<<>>}
  /\ at = "connect" => server = "absent"
  /\ server = "absent" =>
       /\ at \in {"connect", "over"} /\ pkg = "none"
       /\ toServer = <<>> /\ buf = <<>> /\ toClient = <<>>
  /\ pkg = "none" =>
       /\ at \notin {"compose", "END"}
       /\ \A s \in Commands : at = s /\ ~reading =>
            out = <<[string |-> Message(s), step |-> TRUE]>>
       /\ at \notin Commands \/ reading => out = <<>>
       /\ body = <<>> /\ written = <<>> /\ ~started
  /\ pkg # "none" =>
       /\ at \in {"compose", "END", "over"}
       /\ \A i \in 1..Len(out) : IsText(out[i].string)
  /\ at = "compose" => pkg = "app"

(* DATA is the last command, and what follows it is the message.             *)
DataIsLast ==
  /\ pkg # "none" => "DATA" \in granted
  /\ "DATA" \in granted => IsText(toServer) /\ server \in {"data", "commands", "closed"}
  /\ "DATA" \in granted \/ Says(toServer, "DATA") =>
       (at = "DATA" /\ reading) \/ at \in {"compose", "END", "over"}
  /\ \A i \in 1..Len(toServer) : toServer[i].say = "DATA" => i = Len(toServer)
  /\ server = "data" =>
       "DATA" \in granted /\ accepted = <<>> /\ (pkg = "none" => toServer = <<>> /\ mail = <<>>)
  /\ mail # <<>> => server \in {"data", "closed"}
  /\ accepted # <<>> => "DATA" \in granted /\ server \in {"commands", "closed"}

(* An answer to the message comes after the one to DATA.                     *)
AnswersFollow ==
  /\ Has(Stream, 354) => "DATA" \in granted
  /\ Before(Stream, 354, 250) => accepted # <<>>
  /\ at \in {"compose", "END"} /\ Has(Stream, 250) => accepted # <<>>
  /\ results = <<TRUE>> => accepted # <<>>

(* T is what the strings of a write queue spell.                             *)
Cuts(cut, n, q, T) ==
  /\ cut[0] = 0 /\ cut[n] = Len(T)
  /\ \A i \in 0..n, k \in 0..n : i <= k => cut[i] <= cut[k]
  /\ \A i \in 1..n :
       /\ cut[i] = cut[i - 1] + Len(q[i].string)
       /\ \A k \in 1..Len(q[i].string) : T[cut[i - 1] + k] = q[i].string[k]
Spells(q, T) == \E cut \in [0..Len(q) -> Nat] : Cuts(cut, Len(q), q, T)

(* While the server reads the message: all of it is somewhere on its way.    *)
Whole == <<Line("head")>> \o written
Sent(T) == mail \o (toServer \o T)
Complete(T) ==
  /\ Spells(out, T)
  /\ pkg # "gone" => Sent(T \o Piece) = Whole
  /\ pkg = "gone" => Sent(T) = Whole \o <<Line("end")>>
OnItsWay ==
  /\ \A i \in 1..Len(mail) : mail[i].say \notin {"dot", "end"}
  /\ server = "data" => \E T \in Seq(Items) : Complete(T)
  /\ accepted # <<>> /\ Line("dot") \notin ToSet(written) => pkg = "gone" /\ accepted = <<Whole>>

(* As long as the server grants everything, in one line each, the two go in  *)
(* lock-step.                                                                *)
Quiet == ~grumbled /\ server \notin {"absent", "closed"} /\ extra = 0
Aligned ==
  /\ at = "greeting" =>
       /\ toServer = <<>>
       /\ \/ server = "greeting" /\ Stream = <<>>
          \/ server = "commands" /\ Stream = <<220, EndOfLine>>
  /\ \A s \in Commands : at = s =>
       \/ /\ server = "commands" /\ Stream = <<>>
          /\ toServer = IF reading THEN Message(s) ELSE <<>>
       \/ /\ reading /\ server = (IF s = "DATA" THEN "data" ELSE "commands")
          /\ toServer = <<>> /\ Stream = <<Expected[s], EndOfLine>>
  /\ at \in {"compose", "END"} =>
       \/ server = "data" /\ Stream = <<>>
       \/ server = "commands" /\ Stream = <<250, EndOfLine>>
  /\ at = "over" => results = <<TRUE>>
InLockStep == Quiet => Aligned

(* The user name goes first, then the password, both after AUTH was granted: *)
(* q is on its way to a server that got l.                                   *)
Logins == {<<>>, <<UserItem.text>>, <<UserItem.text, PassItem.text>>}
InOrder(q, l) ==
  \A i \in 1..Len(q) :
    /\ q[i].say = "USER" => l = <<>> /\ \A k \in 1..i - 1 : q[k].say \notin {"USER", "PASS"}
    /\ q[i].say = "PASS" =>
         /\ l # <<UserItem.text, PassItem.text>> /\ \A k \in 1..i - 1 : q[k].say # "PASS"
         /\ l = <<>> => \E k \in 1..i - 1 : q[k].say = "USER"
LoginInOrder ==
  /\ at \in {"USER", "PASS"} \/ Says(toServer, "USER") \/ Says(toServer, "PASS") \/ login # <<>> =>
       "AUTH" \in granted
  /\ Has(Stream, 334) => "AUTH" \in granted
  /\ login \in Logins
  /\ InOrder(toServer, login)
  /\ at \in {"connect", "greeting", "HELO", "AUTH"} \/ (at = "USER" /\ ~reading) =>
       login = <<>> /\ ~Says(toServer, "USER") /\ ~Says(toServer, "PASS")
  /\ (at = "USER" /\ reading) \/ (at = "PASS" /\ ~reading) =>
       /\ ~Says(toServer, "PASS") /\ login # <<UserItem.text, PassItem.text>>
       /\ login = <<>> /\ server # "closed" => Says(toServer, "USER")

(* All that depends on what the answers mean holds as long as none was taken *)
(* by accident.                                                              *)
Meant == DataIsLast /\ AnswersFollow /\ OnItsWay /\ InLockStep /\ LoginInOrder
IInv == Types /\ OneStep /\ Chained /\ (~astray => Meant)

-----------------------------------------------------------------------------
(* Sequences.                                                                *)
LEMMA TailIs ==
  ASSUME NEW S, NEW q \in Seq(S), q # <<>>
  PROVE  /\ Head(q) \in S /\ Head(q) = q[1] /\ Len(q) \in Nat /\ Len(q) >= 1
         /\ Tail(q) \in Seq(S) /\ Len(Tail(q)) = Len(q) - 1
         /\ \A i \in 1..Len(q) - 1 : Tail(q)[i] = q[i + 1]
OBVIOUS

(* An element more: the length, the last and the others.                     *)
LEMMA AppendIs ==
  ASSUME NEW S, NEW q \in Seq(S), NEW e \in S
  PROVE  /\ Append(q, e) \in Seq(S) /\ Len(Append(q, e)) = Len(q) + 1 /\ Len(q) \in Nat
         /\ Append(q, e)[Len(q) + 1] = e
         /\ \A i \in 1..Len(q) : Append(q, e)[i] = q[i]
OBVIOUS

(* Two sequences in one: the length and the elements.                        *)
LEMMA ConcatIs ==
  ASSUME NEW S, NEW q \in Seq(S), NEW r \in Seq(S)
  PROVE  /\ q \o r \in Seq(S) /\ Len(q \o r) = Len(q) + Len(r) /\ Len(q) \in Nat /\ Len(r) \in Nat
         /\ \A i \in 1..Len(q) : (q \o r)[i] = q[i]
         /\ \A i \in 1..Len(r) : (q \o r)[Len(q) + i] = r[i]
OBVIOUS

(* The places of two sequences in one, and their order.                      *)
LEMMA Places ==
  ASSUME NEW m \in Nat, NEW n \in Nat
  PROVE  /\ \A i \in 1..m + n : i \in 1..m \/ \E k \in 1..n : i = m + k
         /\ \A i \in 1..m : i \in 1..m + n
         /\ \A k \in 1..n : m + k \in 1..m + n
         /\ \A k, l \in 1..n : m + k < m + l <=> k < l
         /\ \A k \in 1..m, l \in 1..n : k < m + l /\ ~(m + l < k)
<1>1. \A i \in 1..m + n : i \in 1..m \/ \E k \in 1..n : i = m + k
  <2> TAKE i \in 1..m + n
  <2>1. CASE i <= m
    BY <2>1
  <2>2. CASE i > m
    <3>1. i - m \in 1..n /\ i = m + (i - m)
      BY <2>2
    <3> QED
      BY <3>1
  <2> QED
    BY <2>1, <2>2
<1> QED
  BY <1>1

(* What two sequences in one contain.                                        *)
LEMMA HasConcat ==
  ASSUME NEW S, NEW q \in Seq(S), NEW r \in Seq(S), NEW x
  PROVE  Has(q \o r, x) <=> Has(q, x) \/ Has(r, x)
<1> DEFINE s == q \o r
           m == Len(q)
           n == Len(r)
<1>1. /\ Len(s) = m + n /\ m \in Nat /\ n \in Nat
      /\ \A i \in 1..m : s[i] = q[i]
      /\ \A i \in 1..n : s[m + i] = r[i]
  BY ConcatIs
<1> HIDE DEF s
<1>2. Has(s, x) <=> \E i \in 1..m + n : s[i] = x
  BY ONLY <1>1 DEF Has
<1>3. Has(q, x) <=> \E i \in 1..m : q[i] = x
  BY ONLY <1>1 DEF Has
<1>4. Has(r, x) <=> \E i \in 1..n : r[i] = x
  BY ONLY <1>1 DEF Has
<1> HIDE DEF m, n
<1>5. /\ \A i \in 1..m + n : i \in 1..m \/ \E k \in 1..n : i = m + k
      /\ \A i \in 1..m : i \in 1..m + n
      /\ \A k \in 1..n : m + k \in 1..m + n
  BY ONLY <1>1, Places
<1>6. Has(s, x) => Has(q, x) \/ Has(r, x)
  <2> SUFFICES ASSUME Has(s, x) PROVE Has(q, x) \/ Has(r, x)
    OBVIOUS
  <2>1. PICK i \in 1..m + n : s[i] = x
    BY ONLY <1>2, Has(s, x)
  <2>2. CASE i \in 1..m
    BY ONLY <1>1, <1>3, <2>1, <2>2
  <2>3. CASE \E k \in 1..n : i = m + k
    BY ONLY <1>1, <1>4, <2>1, <2>3
  <2> QED
    BY ONLY <1>5, <2>2, <2>3, i \in 1..m + n
<1>7. Has(q, x) => Has(s, x)
  BY ONLY <1>1, <1>2, <1>3, <1>5
<1>8. Has(r, x) => Has(s, x)
  BY ONLY <1>1, <1>2, <1>4, <1>5
<1> QED
  BY ONLY <1>6, <1>7, <1>8 DEF s

(* What comes before what in two sequences in one.                           *)
LEMMA BeforeConcat ==
  ASSUME NEW S, NEW q \in Seq(S), NEW r \in Seq(S), NEW x, NEW y
  PROVE  Before(q \o r, x, y)
           <=> Before(q, x, y) \/ Before(r, x, y) \/ (Has(q, x) /\ Has(r, y))
<1> DEFINE s == q \o r
           m == Len(q)
           n == Len(r)
<1>1. /\ Len(s) = m + n /\ m \in Nat /\ n \in Nat
      /\ \A i \in 1..m : s[i] = q[i]
      /\ \A i \in 1..n : s[m + i] = r[i]
  BY ConcatIs
<1> HIDE DEF s
<1>2. Before(s, x, y) <=> \E i, k \in 1..m + n : k < i /\ s[k] = x /\ s[i] = y
  BY ONLY <1>1 DEF Before
<1>3. Before(q, x, y) <=> \E i, k \in 1..m : k < i /\ q[k] = x /\ q[i] = y
  BY ONLY <1>1 DEF Before
<1>4. Before(r, x, y) <=> \E i, k \in 1..n : k < i /\ r[k] = x /\ r[i] = y
  BY ONLY <1>1 DEF Before
<1>5. (Has(q, x) <=> \E i \in 1..m : q[i] = x) /\ (Has(r, y) <=> \E i \in 1..n : r[i] = y)
  BY ONLY <1>1 DEF Has
<1> HIDE DEF m, n
<1>6. /\ \A i \in 1..m + n : i \in 1..m \/ \E k \in 1..n : i = m + k
      /\ \A i \in 1..m : i \in 1..m + n
      /\ \A k \in 1..n : m + k \in 1..m + n
      /\ \A k, l \in 1..n : m + k < m + l <=> k < l
      /\ \A k \in 1..m, l \in 1..n : k < m + l /\ ~(m + l < k)
  BY ONLY <1>1, Places
<1>7. ASSUME NEW i \in 1..m + n, NEW k \in 1..m + n, k < i, s[k] = x, s[i] = y
      PROVE  Before(q, x, y) \/ Before(r, x, y) \/ (Has(q, x) /\ Has(r, y))
  <2>1. CASE i \in 1..m /\ k \in 1..m
    BY ONLY <1>1, <1>3, <1>7, <2>1
  <2>2. CASE i \in 1..m /\ \E l \in 1..n : k = m + l
    BY ONLY <1>6, <1>7, <2>2
  <2>3. CASE (\E l \in 1..n : i = m + l) /\ k \in 1..m
    BY ONLY <1>1, <1>5, <1>7, <2>3
  <2>4. CASE (\E l \in 1..n : i = m + l) /\ (\E l \in 1..n : k = m + l)
    <3>1. PICK i2 \in 1..n, k2 \in 1..n : i = m + i2 /\ k = m + k2
      BY ONLY <2>4
    <3>2. k2 < i2 /\ r[k2] = x /\ r[i2] = y
      BY ONLY <1>1, <1>6, <1>7, <3>1
    <3> QED
      BY ONLY <1>4, <3>2
  <2> QED
    BY ONLY <1>6, <2>1, <2>2, <2>3, <2>4, i \in 1..m + n, k \in 1..m + n
<1>8. Before(q, x, y) => Before(s, x, y)
  BY ONLY <1>1, <1>2, <1>3, <1>6
<1>9. ASSUME Before(r, x, y) PROVE Before(s, x, y)
  <2>1. PICK i \in 1..n, k \in 1..n : k < i /\ r[k] = x /\ r[i] = y
    BY ONLY <1>4, <1>9
  <2>2. m + i \in 1..m + n /\ m + k \in 1..m + n /\ m + k < m + i /\ s[m + k] = x /\ s[m + i] = y
    BY ONLY <1>1, <1>6, <2>1
  <2> QED
    BY ONLY <1>2, <2>2
<1>10. ASSUME Has(q, x), Has(r, y) PROVE Before(s, x, y)
  <2>1. PICK k \in 1..m, i \in 1..n : q[k] = x /\ r[i] = y
    BY ONLY <1>5, <1>10
  <2>2. m + i \in 1..m + n /\ k \in 1..m + n /\ k < m + i /\ s[k] = x /\ s[m + i] = y
    BY ONLY <1>1, <1>6, <2>1
  <2> QED
    BY ONLY <1>2, <2>2
<1> QED
  BY ONLY <1>2, <1>7, <1>8, <1>9, <1>10 DEF s

(* The pieces of what is said, and what they add.                            *)
LEMMA PairIs ==
  ASSUME NEW g \in Nat
  PROVE  /\ <<g, 10>> \in Seq(Nat)
         /\ \A x : Has(<<g, 10>>, x) <=> x = g \/ x = 10
         /\ \A x, y : Before(<<g, 10>>, x, y) => x = g /\ y = 10
<1>1. 1..2 = {1, 2} /\ Len(<<g, 10>>) = 2 /\ <<g, 10>> \in Seq(Nat)
  OBVIOUS
<1>2. \A x : Has(<<g, 10>>, x) <=> x = g \/ x = 10
  BY ONLY <1>1 DEF Has
<1>3. \A x, y : Before(<<g, 10>>, x, y) => x = g /\ y = 10
  <2>1. ~(1 < 1) /\ ~(2 < 2) /\ ~(2 < 1)
    OBVIOUS
  <2> QED
    BY ONLY <1>1, <2>1 DEF Before
<1> QED
  BY ONLY <1>1, <1>2, <1>3

(* Joining codes is associative.                                             *)
LEMMA Numbers ==
  ASSUME NEW s \in Seq(Nat), NEW t \in Seq(Nat), NEW u \in Seq(Nat)
  PROVE  (s \o t) \o u = s \o (t \o u)
BY ConcatAssociative

(* What one answer of the server, in one line or two, adds to the stream.    *)
LEMMA AnswerAdds ==
  ASSUME MaxExtra \in Nat, extra \in 0..MaxExtra, buf \in Seq(Nat), toClient \in Seq(Nat),
         NEW good \in Nat, Answer(good), buf' = buf
  PROVE  /\ toClient' \in Seq(Nat) /\ extra' \in 0..MaxExtra
         /\ \A x : Has(Stream', x) <=> Has(Stream, x) \/ x = good \/ x = 10
         /\ \A x, y : Before(Stream', x, y) =>
              Before(Stream, x, y) \/ ((Has(Stream, x) \/ x = good \/ x = 10) /\ (y = good \/ y = 10))
         /\ extra' = 0 => extra = 0 /\ Stream' = Stream \o <<good, EndOfLine>>
<1> DEFINE line == <<good, 10>>
<1>1. /\ line \in Seq(Nat)
      /\ \A x : Has(line, x) <=> x = good \/ x = 10
      /\ \A x, y : Before(line, x, y) => x = good /\ y = 10
  BY ONLY good \in Nat, PairIs
<1>2. \/ toClient' = toClient \o line /\ extra' = extra
      \/ extra < MaxExtra /\ extra' = extra + 1 /\ toClient' = (toClient \o line) \o line
  BY DEF Answer, EndOfLine
<1> HIDE DEF line
<1>3. Stream \in Seq(Nat)
  BY ConcatIs DEF Stream
<1>4. /\ Stream \o line \in Seq(Nat)
      /\ \A x : Has(Stream \o line, x) <=> Has(Stream, x) \/ Has(line, x)
      /\ \A x, y : Before(Stream \o line, x, y) <=>
           Before(Stream, x, y) \/ Before(line, x, y) \/ (Has(Stream, x) /\ Has(line, y))
  BY ONLY <1>1, <1>3, ConcatIs, HasConcat, BeforeConcat
<1>5. CASE toClient' = toClient \o line /\ extra' = extra
  <2>1. Stream' = Stream \o line
    BY ONLY <1>1, <1>5, buf' = buf, buf \in Seq(Nat), toClient \in Seq(Nat), Numbers DEF Stream
  <2>2. toClient' \in Seq(Nat)
    BY ONLY <1>1, <1>5, toClient \in Seq(Nat), ConcatIs
  <2> QED
    BY ONLY <1>1, <1>4, <1>5, <2>1, <2>2, extra \in 0..MaxExtra DEF line, EndOfLine
<1>6. CASE extra < MaxExtra /\ extra' = extra + 1 /\ toClient' = (toClient \o line) \o line
  <2>1. toClient \o line \in Seq(Nat) /\ toClient' \in Seq(Nat)
    BY ONLY <1>1, <1>6, toClient \in Seq(Nat), ConcatIs
  <2>2. Stream' = (Stream \o line) \o line
    <3>1. Stream' = (buf \o (toClient \o line)) \o line
      <4>1. (buf \o (toClient \o line)) \o line = buf \o ((toClient \o line) \o line)
        <5>1. PICK m \in Seq(Nat) : m = toClient \o line
          BY ONLY <2>1
        <5>2. (buf \o m) \o line = buf \o (m \o line)
          BY ONLY <1>1, buf \in Seq(Nat), m \in Seq(Nat), Numbers
        <5> QED
          BY ONLY <5>1, <5>2
      <4> QED
        BY ONLY <1>6, <4>1, buf' = buf DEF Stream
    <3>2. buf \o (toClient \o line) = Stream \o line
      <4>1. (buf \o toClient) \o line = buf \o (toClient \o line)
        BY ONLY <1>1, buf \in Seq(Nat), toClient \in Seq(Nat), Numbers
      <4> QED
        BY ONLY <4>1 DEF Stream
    <3> QED
      BY ONLY <3>1, <3>2
  <2>3. /\ \A x : Has(Stream', x) <=> Has(Stream \o line, x) \/ Has(line, x)
        /\ \A x, y : Before(Stream', x, y) <=>
             Before(Stream \o line, x, y) \/ Before(line, x, y) \/ (Has(Stream \o line, x) /\ Has(line, y))
    BY ONLY <1>1, <1>4, <2>2, HasConcat, BeforeConcat
  <2>4. extra' \in 0..MaxExtra /\ extra' # 0
    BY ONLY <1>6, extra \in 0..MaxExtra, MaxExtra \in Nat
  <2> QED
    BY ONLY <1>1, <1>4, <2>1, <2>3, <2>4
<1> QED
  BY ONLY <1>2, <1>5, <1>6

Heard(good) ==
  /\ \A x : Has(Stream', x) => Has(Stream, x) \/ x = good \/ x = 10
  /\ \A x, y : Before(Stream', x, y) =>
       Before(Stream, x, y) \/ ((Has(Stream, x) \/ x = good) /\ y = good) \/ x = 10 \/ y = 10

(* The same as an opaque fact, to be cited for an answer of any code.        *)
LEMMA AnswerHeard ==
  ASSUME MaxExtra \in Nat, extra \in 0..MaxExtra, buf \in Seq(Nat), toClient \in Seq(Nat),
         NEW good, good \in Nat, Answer(good), buf' = buf
  PROVE  Heard(good)
BY AnswerAdds DEF Heard

(* What the client reads of the stream.                                      *)
LEMMA ReceiveKeeps ==
  ASSUME buf \in Seq(Nat), toClient \in Seq(Nat), Receive
  PROVE  buf' \in Seq(Nat) /\ toClient' \in Seq(Nat) /\ Stream' = Stream
<1>1. PICK n \in 1..Len(toClient) :
        buf' = buf \o SubSeq(toClient, 1, n) /\ toClient' = SubSeq(toClient, n + 1, Len(toClient))
  BY DEF Receive
<1>2. /\ SubSeq(toClient, 1, n) \in Seq(Nat) /\ SubSeq(toClient, n + 1, Len(toClient)) \in Seq(Nat)
      /\ SubSeq(toClient, 1, n) \o SubSeq(toClient, n + 1, Len(toClient)) = toClient
  BY toClient \in Seq(Nat)
<1>3. buf' \in Seq(Nat) /\ toClient' \in Seq(Nat)
  BY ONLY <1>1, <1>2, buf \in Seq(Nat), ConcatIs
<1>4. Stream' = buf \o (SubSeq(toClient, 1, n) \o SubSeq(toClient, n + 1, Len(toClient)))
  <2>1. (buf \o SubSeq(toClient, 1, n)) \o SubSeq(toClient, n + 1, Len(toClient))
          = buf \o (SubSeq(toClient, 1, n) \o SubSeq(toClient, n + 1, Len(toClient)))
    <3>1. PICK a \in Seq(Nat), b \in Seq(Nat) :
            a = SubSeq(toClient, 1, n) /\ b = SubSeq(toClient, n + 1, Len(toClient))
      BY ONLY <1>2
    <3>2. (buf \o a) \o b = buf \o (a \o b)
      BY ONLY buf \in Seq(Nat), a \in Seq(Nat), b \in Seq(Nat), Numbers
    <3> QED
      BY ONLY <3>1, <3>2
  <2> QED
    BY ONLY <1>1, <2>1 DEF Stream
<1> QED
  BY ONLY <1>2, <1>3, <1>4 DEF Stream

(* The step's handler takes the line it was waiting for and what came with it.*)
LEMMA AnsweredTakes ==
  ASSUME buf \in Seq(Nat), toClient \in Seq(Nat), Answered
  PROVE  /\ Stream' = toClient /\ buf' = <<>> /\ toClient' = toClient
         /\ \A x : Has(Stream', x) => Has(Stream, x)
         /\ \A x, y : Before(Stream', x, y) => Before(Stream, x, y)
         /\ Has(buf, EndOfLine)
         /\ \A c \in CodesRead : c # 0 =>
              Has(Stream, c) /\ \A y : Has(toClient, y) => Before(Stream, c, y)
<1>1. buf' = <<>> /\ toClient' = toClient /\ HasLine(buf)
  BY DEF Answered
<1>2. Stream' = toClient
  BY ONLY <1>1, toClient \in Seq(Nat), ConcatEmptySeq DEF Stream
<1>3. /\ \A x : Has(Stream, x) <=> Has(buf, x) \/ Has(toClient, x)
      /\ \A x, y : Before(Stream, x, y) <=>
           Before(buf, x, y) \/ Before(toClient, x, y) \/ (Has(buf, x) /\ Has(toClient, y))
  BY ONLY buf \in Seq(Nat), toClient \in Seq(Nat), HasConcat, BeforeConcat DEF Stream
<1>4. Has(buf, EndOfLine)
  BY <1>1 DEF HasLine, Contains, Has
<1>5. 1 \in 1..Len(buf) /\ Head(buf) = buf[1] /\ DOMAIN buf = 1..Len(buf)
  BY ONLY <1>4, buf \in Seq(Nat) DEF Has
<1>6. \A c \in CodesRead : c # 0 => Has(buf, c)
  BY ONLY <1>5 DEF CodesRead, Has
<1> QED
  BY ONLY <1>1, <1>2, <1>3, <1>4, <1>6

(* A code that is not 0 begins a line of the stream.                         *)
Truly(code) == Has(Stream, code) /\ \A y : Has(toClient, y) => Before(Stream, code, y)

-----------------------------------------------------------------------------
(* The dialogue.                                                             *)
LEMMA Codes ==
  /\ Expected["greeting"] = 220 /\ Expected["HELO"] = 250 /\ Expected["AUTH"] = 334
  /\ Expected["USER"] = 334 /\ Expected["PASS"] = 235 /\ Expected["MAIL"] = 250
  /\ Expected["RCPT"] = 250 /\ Expected["DATA"] = 354 /\ Expected["END"] = 250
BY DEF Expected, Steps

LEMMA CodesAreNumbers == \A s \in Steps : Expected[s] \in Nat
BY Codes DEF Steps

(* Unless by accident, the chain goes on for a line of the expected code.    *)
LEMMA Took ==
  ASSUME buf \in Seq(Nat), toClient \in Seq(Nat), Answered, at \in Steps \cup {"greeting"}, ~astray'
  PROVE  (Fail /\ pkg' = pkg) \/ (GoesOn /\ Truly(Expected[at]))
<1>1. \A c \in CodesRead : c # 0 => Truly(c)
  BY AnsweredTakes DEF Truly
<1>2. Expected[at] # 0
  BY Codes DEF Steps
<1>3. ((\E c \in CodesRead : c = Expected[at]) /\ GoesOn) \/ (Fail /\ pkg' = pkg)
  <2>1. \/ (\E code \in CodesRead : IsExpected(code)) /\ GoesOn
        \/ Fail /\ pkg' = pkg
        \/ astray' = TRUE
    BY ONLY Answered DEF Answered
  <2>2. astray' # TRUE
    BY ONLY ~astray'
  <2> QED
    BY ONLY <2>1, <2>2 DEF IsExpected
<1> QED
  BY ONLY <1>1, <1>2, <1>3

(* Nothing is forgotten: an accident stays one.                              *)
LEMMA StaysAstray ==
  ASSUME [Next]_vars, ~astray'
  PROVE  ~astray
BY DEF Next, Chain, Serve, vars, client, NotConnected, Connected, Written, WriteFails, Receive, ReadFails,
       Answered, Composed, Greet, Command, Data, Close, WriteLine, Flush, Drop

(* The step after each.                                                      *)
LEMMA Afters ==
  /\ StepAfter("greeting") = "HELO" /\ StepAfter("HELO") \in {"AUTH", "MAIL"}
  /\ StepAfter("AUTH") = "USER" /\ StepAfter("USER") = "PASS" /\ StepAfter("PASS") = "MAIL"
  /\ StepAfter("MAIL") = "RCPT" /\ StepAfter("RCPT") = "DATA" /\ StepAfter("DATA") = "END"
BY DEF StepAfter

(* The string of each step.                                                  *)
LEMMA Messages ==
  /\ Message("USER") = <<UserItem>> /\ Message("PASS") = <<PassItem>> /\ Message("END") = <<>>
  /\ Message("HELO") = <<Line("HELO")>> /\ Message("AUTH") = <<Line("AUTH")>>
  /\ Message("MAIL") = <<Line("MAIL")>> /\ Message("RCPT") = <<Line("RCPT")>>
  /\ Message("DATA") = <<Line("DATA")>>
BY DEF Message, UserItem, PassItem

(* An item has what it was made of.                                          *)
LEMMA Said == \A s, t : Item(s, t).say = s /\ Item(s, t).text = t /\ Line(s).say = s
BY DEF Item, Line

(* The items by what they say; a line of text has nothing but that.          *)
LEMMA ItemsAre ==
  /\ TextLines \subseteq Items /\ BodyLines \subseteq TextLines
  /\ UserItem \in Items /\ PassItem \in Items
  /\ \A s \in {"HELO", "AUTH", "MAIL", "RCPT", "DATA"} : Line(s) \in Items
  /\ \A s \in {"head", "text", "dot", "end"} : Line(s) \in TextLines
  /\ \A s \in {"text", "dot"} : Line(s) \in BodyLines
  /\ \A x \in TextLines : x.say \in {"head", "text", "dot", "end"} /\ x = Line(x.say)
  /\ \A x \in BodyLines : x.say \in {"text", "dot"}
  /\ \A x \in Items :
       /\ x.say \in Commands \cup {"head", "text", "dot", "end"}
       /\ x.say = "USER" => x = UserItem
       /\ x.say = "PASS" => x = PassItem
       /\ x.say \in {"head", "text", "dot", "end"} => x \in TextLines
<1>1. UserItem.say = "USER" /\ PassItem.say = "PASS"
  BY Said DEF UserItem, PassItem
<1>2. \A x \in TextLines : x.say \in {"head", "text", "dot", "end"} /\ x = Line(x.say)
  BY Said DEF TextLines
<1>3. \A x \in {Line(s) : s \in {"HELO", "AUTH", "MAIL", "RCPT", "DATA"}} :
        x.say \in {"HELO", "AUTH", "MAIL", "RCPT", "DATA"}
  BY Said
<1>4. \A x \in Items :
       /\ x.say \in Commands \cup {"head", "text", "dot", "end"}
       /\ x.say = "USER" => x = UserItem
       /\ x.say = "PASS" => x = PassItem
       /\ x.say \in {"head", "text", "dot", "end"} => x \in TextLines
  BY <1>1, <1>2, <1>3 DEF Items, Commands, Steps
<1>5. \A x \in BodyLines : x.say \in {"text", "dot"}
  BY Said DEF BodyLines
<1>6. /\ TextLines \subseteq Items /\ BodyLines \subseteq TextLines
      /\ UserItem \in Items /\ PassItem \in Items
      /\ \A s \in {"HELO", "AUTH", "MAIL", "RCPT", "DATA"} : Line(s) \in Items
      /\ \A s \in {"head", "text", "dot", "end"} : Line(s) \in TextLines
      /\ \A s \in {"text", "dot"} : Line(s) \in BodyLines
  BY DEF TextLines, BodyLines, Items
<1> QED
  BY ONLY <1>2, <1>4, <1>5, <1>6

(* A step writes one command, and the last one nothing.                      *)
LEMMA MessagesTyped ==
  ASSUME NEW s \in Steps
  PROVE  /\ Message(s) \in Seq(Items)
         /\ s \in Commands => \E x \in Items : Message(s) = <<x>> /\ x.say = s
         /\ s = "END" => Message(s) = <<>>
<1>1. UserItem.say = "USER" /\ PassItem.say = "PASS"
  BY Said DEF UserItem, PassItem
<1>2. s \in Commands => \E x \in Items : Message(s) = <<x>> /\ x.say = s
  BY <1>1, Messages, Said, ItemsAre DEF Commands, Steps
<1>3. \A x \in Items : <<x>> \in Seq(Items)
  OBVIOUS
<1>4. s = "END" => Message(s) \in Seq(Items)
  <2>1. Message("END") = <<>>
    BY Messages
  <2>2. <<>> \in Seq(Items)
    OBVIOUS
  <2> QED
    BY ONLY <2>1, <2>2
<1>5. s \in Commands => Message(s) \in Seq(Items)
  BY ONLY <1>2, <1>3
<1> QED
  BY <1>2, <1>4, <1>5, Messages DEF Commands

-----------------------------------------------------------------------------
(* The types.                                                                *)
LEMMA AccountStays ==
  ASSUME [Next]_vars
  PROVE  account' = account /\ Items' = Items /\ Writes' = Writes /\ UserItem' = UserItem /\ PassItem' = PassItem
<1>1. account' = account
  BY DEF Next, vars, Chain, Serve, NotConnected, Connected, Written, WriteFails, Receive, ReadFails,
         Answered, Composed, Greet, Command, Data, Close, WriteLine, Flush, Drop
<1> QED
  BY <1>1 DEF Items, Writes, UserItem, PassItem

(* What a flush writes is text.                                              *)
LEMMA PieceIs ==
  ASSUME Types
  PROVE  Piece \in Seq(TextLines) /\ Piece \in Seq(Items) /\ IsText(Piece)
<1>1. body \in Seq(TextLines)
  <2>1. body \in Seq(BodyLines)
    BY DEF Types
  <2> QED
    BY ONLY <2>1, ItemsAre, SeqMonotonic
<1>2. (IF started THEN <<>> ELSE <<Line("head")>>) \in Seq(TextLines)
  <2>1. Line("head") \in TextLines
    BY ItemsAre
  <2> QED
    BY ONLY <2>1
<1>3. Piece \in Seq(TextLines)
  BY ONLY <1>1, <1>2, ConcatIs DEF Piece
<1>4. Piece \in Seq(Items)
  BY ONLY <1>3, ItemsAre, SeqMonotonic
<1> QED
  BY ONLY <1>3, <1>4, ElementOfSeq DEF IsText

(* An entry of the write queue.                                              *)
LEMMA WriteIs ==
  ASSUME NEW s \in Seq(Items), NEW b \in BOOLEAN, NEW w, w = [string |-> s, step |-> b]
  PROVE  w \in Writes /\ w.string = s /\ w.step = b
BY DEF Writes

(* asyncWrite appends an entry to the queue.                                 *)
LEMMA AsyncWriteIs ==
  ASSUME NEW q \in Seq(Writes), NEW s \in Seq(Items), NEW b \in BOOLEAN
  PROVE  /\ AsyncWrite(q, s, b) \in Seq(Writes) /\ Len(AsyncWrite(q, s, b)) = Len(q) + 1 /\ Len(q) \in Nat
         /\ AsyncWrite(q, s, b)[Len(q) + 1].string = s /\ AsyncWrite(q, s, b)[Len(q) + 1].step = b
         /\ \A i \in 1..Len(q) : AsyncWrite(q, s, b)[i] = q[i]
<1>1. PICK w : w = [string |-> s, step |-> b]
  OBVIOUS
<1>2. w \in Writes /\ w.string = s /\ w.step = b
  BY ONLY <1>1, s \in Seq(Items), b \in BOOLEAN, WriteIs
<1>3. AsyncWrite(q, s, b) = Append(q, w)
  BY ONLY <1>1 DEF AsyncWrite
<1> HIDE <1>1
<1> QED
  BY ONLY <1>2, <1>3, q \in Seq(Writes), AppendIs

Adds(q, r, s, b) ==
  /\ Len(r) = Len(q) + 1 /\ Len(q) \in Nat
  /\ r[Len(q) + 1].string = s /\ r[Len(q) + 1].step = b
  /\ \A i \in 1..Len(q) : r[i] = q[i]

(* The same as an opaque fact, for strings that are expressions of the       *)
(* state.                                                                    *)
LEMMA AsyncWriteAdds ==
  ASSUME NEW q, q \in Seq(Writes), NEW s, s \in Seq(Items), NEW b, b \in BOOLEAN,
         NEW r, r = AsyncWrite(q, s, b)
  PROVE  r \in Seq(Writes) /\ Adds(q, r, s, b)
<1>1. /\ AsyncWrite(q, s, b) \in Seq(Writes) /\ Len(AsyncWrite(q, s, b)) = Len(q) + 1 /\ Len(q) \in Nat
      /\ AsyncWrite(q, s, b)[Len(q) + 1].string = s /\ AsyncWrite(q, s, b)[Len(q) + 1].step = b
      /\ \A i \in 1..Len(q) : AsyncWrite(q, s, b)[i] = q[i]
  BY ONLY q \in Seq(Writes), s \in Seq(Items), b \in BOOLEAN, AsyncWriteIs
<1> QED
  BY ONLY <1>1, r = AsyncWrite(q, s, b) DEF Adds

(* The write queue is its front and the rest.                                *)
LEMMA FrontIs ==
  ASSUME out \in Seq(Writes), out # <<>>
  PROVE  /\ Head(out) = out[1] /\ Head(out).string \in Seq(Items) /\ Head(out).step \in BOOLEAN
         /\ Tail(out) \in Seq(Writes) /\ Len(Tail(out)) = Len(out) - 1
         /\ Len(out) \in Nat /\ Len(out) >= 1
         /\ \A i \in 1..Len(out) - 1 : Tail(out)[i] = out[i + 1]
<1>1. PICK w \in Writes : w = Head(out)
  BY TailIs
<1>2. w.string \in Seq(Items) /\ w.step \in BOOLEAN
  BY DEF Writes
<1> QED
  BY <1>1, <1>2, TailIs

(* One lemma per part of the invariant: the types.                           *)
LEMMA TypesStep ==
  ASSUME MailAssumption, Types, OneStep, [Next]_vars
  PROVE  Types'
<1>0. /\ Items' = Items /\ Writes' = Writes /\ account' = account
      /\ MaxExtra \in Nat
  BY AccountStays DEF MailAssumption
<1> USE DEF Types
<1>1. CASE NotConnected
  BY <1>0, <1>1 DEF NotConnected, package, peer, Steps
<1>2. CASE Connected
  BY <1>0, <1>2 DEF Connected, package, Steps
<1>3. CASE Written
  <2>1. toServer' \in Seq(Items)
    <3>1. toServer \in Seq(Items) /\ toServer \o Head(out).string \in Seq(Items)
      BY <1>3, FrontIs, ConcatIs DEF Written
    <3>2. toServer' = toServer \/ toServer' = toServer \o Head(out).string
      BY <1>3 DEF Written
    <3> QED
      BY ONLY <3>1, <3>2
  <2>2. out' \in Seq(Writes) /\ reading' \in BOOLEAN
    BY <1>3, FrontIs DEF Written
  <2> QED
    BY <1>0, <1>3, <2>1, <2>2 DEF Written, package, peer
<1>4. CASE WriteFails
  <2>0. out # <<>> /\ out' = Tail(out)
    BY ONLY <1>4 DEF WriteFails
  <2>2. out' \in Seq(Writes)
    BY <2>0, FrontIs
  <2>3. (threw' = (at # "END") \/ threw' = threw) /\ at' \in {at, "over"}
    BY ONLY <1>4 DEF WriteFails
  <2>4. (at # "END") \in BOOLEAN /\ threw \in BOOLEAN
    OBVIOUS
  <2>1. out' \in Seq(Writes) /\ threw' \in BOOLEAN /\ at' \in {at, "over"}
    BY ONLY <2>2, <2>3, <2>4
  <2> QED
    BY <1>0, <1>4, <2>1 DEF WriteFails, package, peer
<1>5. CASE Receive
  <2>1. buf' \in Seq(Nat) /\ toClient' \in Seq(Nat)
    BY <1>5, ReceiveKeeps
  <2>2. /\ UNCHANGED <<at, reading, threw, out, toServer, pkg, body, started, written>>
        /\ UNCHANGED <<server, granted, mail, accepted, grumbled, extra>>
    BY <1>5 DEF Receive, package, peer
  <2> QED
    BY <1>0, <2>1, <2>2
<1>6. CASE ReadFails
  BY <1>0, <1>6 DEF ReadFails, package, peer
<1>7. CASE Answered
  <2>1. buf' \in Seq(Nat) /\ toClient' \in Seq(Nat)
    BY <1>7 DEF Answered
  <2>2. threw' \in BOOLEAN /\ pkg' \in {pkg, "app"} /\ reading' = FALSE
    <3>1. pkg' \in {pkg, "app"} /\ reading' = FALSE
      BY ONLY <1>7 DEF Answered, GoesOn
    <3>2. threw' = (at # "END") \/ threw' = threw
      BY ONLY <1>7 DEF Answered, GoesOn, Fail, Step
    <3>3. (at # "END") \in BOOLEAN /\ threw \in BOOLEAN
      OBVIOUS
    <3> QED
      BY ONLY <3>1, <3>2, <3>3
  <2>3. at' \in Steps \cup {"connect", "greeting", "compose", "over"} /\ out' \in Seq(Writes)
    <3>1. CASE Fail \/ (GoesOn /\ at \in {"DATA", "END"})
      BY <3>1 DEF GoesOn, Fail
    <3>2. CASE GoesOn /\ at # "END" /\ at # "DATA"
      <4>1. Step(StepAfter(at)) /\ reading
        BY <1>7, <3>2 DEF Answered, GoesOn
      <4>2. PICK s \in Steps : s = StepAfter(at)
        <5>1. at \in {"greeting", "HELO", "AUTH", "USER", "PASS", "MAIL", "RCPT"}
                \/ at \in {"connect", "compose", "over"}
          BY <3>2 DEF Steps
        <5>2. at \notin {"connect", "compose", "over"}
          BY <4>1 DEF OneStep, Steps
        <5> QED
          BY <5>1, <5>2, Afters DEF Steps
      <4>3. at' = s /\ out' = AsyncWrite(out, Message(s), TRUE)
        BY ONLY <4>1, <4>2 DEF Step
      <4>4. out' \in Seq(Writes)
        BY <4>3, MessagesTyped, AsyncWriteIs
      <4> QED
        BY ONLY <4>3, <4>4
    <3> QED
      BY <1>7, <3>1, <3>2 DEF Answered
  <2> QED
    BY <1>0, <1>7, <2>1, <2>2, <2>3 DEF Answered, peer
<1>8. CASE Composed
  <2>1. out' \in Seq(Writes) /\ at' = "END"
    <3>1. Message("END") \in Seq(Items)
      BY MessagesTyped DEF Steps
    <3>2. out' = AsyncWrite(out, Message("END"), TRUE) /\ at' = "END"
      BY <1>8 DEF Composed, Step
    <3> QED
      BY <3>1, <3>2, AsyncWriteIs
  <2> QED
    BY <1>0, <1>8, <2>1 DEF Composed, Step, package, peer, Steps
<1>9. CASE Greet
  <2>1. \E good \in Nat : Answer(good)
    BY <1>9 DEF Greet, Refusal
  <2>2. toClient' \in Seq(Nat) /\ extra' \in 0..MaxExtra
    BY <1>0, <1>9, <2>1, AnswerAdds DEF Greet, client
  <2>3. server' = "commands" /\ grumbled' \in BOOLEAN
    BY <1>9 DEF Greet
  <2> QED
    BY <1>0, <1>9, <2>2, <2>3 DEF Greet, client, package
<1>10. CASE Command
  <2>1. \E good \in Nat : Answer(good)
    <3>1. ASSUME NEW s \in Steps \ {"END"} PROVE Expected[s] \in Nat
      BY ONLY CodesAreNumbers
    <3>2. \/ \E s \in Steps \ {"END"} : Answer(Expected[s])
          \/ Answer(Refusal)
      BY ONLY <1>10 DEF Command
    <3>3. Refusal \in Nat
      BY ONLY TRUE DEF Refusal
    <3> QED
      BY ONLY <3>1, <3>2, <3>3
  <2>2. toClient' \in Seq(Nat) /\ extra' \in 0..MaxExtra
    BY <1>0, <1>10, <2>1, AnswerAdds DEF Command, client
  <2>3. toServer' \in Seq(Items)
    BY <1>10, TailIs DEF Command
  <2>4. granted' \subseteq Steps /\ server' \in {server, "data"} /\ grumbled' \in BOOLEAN
    BY <1>10 DEF Command
  <2> QED
    BY <1>0, <1>10, <2>2, <2>3, <2>4 DEF Command, client, package
<1>11. CASE Data
  <2>1. toServer' \in Seq(Items) /\ Head(toServer) \in Items
    BY <1>11, TailIs DEF Data
  <2>2. CASE Head(toServer).say \notin {"dot", "end"}
    <3>1. Head(toServer) \in Items
      BY <2>1
    <3>2. mail' \in Seq(Items)
      <4>1. mail' = Append(mail, Head(toServer))
        BY <1>11, <2>2 DEF Data
      <4> QED
        BY ONLY <3>1, <4>1, mail \in Seq(Items), AppendIs
    <3> QED
      BY <1>0, <1>11, <2>1, <2>2, <3>2 DEF Data, client, package
  <2>3. CASE Head(toServer).say \in {"dot", "end"}
    <3>1. \E good \in Nat : Answer(good)
      BY <1>11, <2>3 DEF Data, Refusal
    <3>2. toClient' \in Seq(Nat) /\ extra' \in 0..MaxExtra
      BY <1>0, <1>11, <3>1, AnswerAdds DEF Data, client
    <3>3. mail' = <<>> /\ server' = "commands" /\ grumbled' \in BOOLEAN
          /\ accepted' \in {accepted, Append(accepted, mail)}
      BY <1>11, <2>3 DEF Data
    <3>4. accepted' \in Seq(Seq(Items))
      BY ONLY <3>3, mail \in Seq(Items), accepted \in Seq(Seq(Items)), AppendIs
    <3> QED
      BY <1>0, <1>11, <2>1, <3>2, <3>3, <3>4 DEF Data, client, package
  <2> QED
    BY ONLY <2>2, <2>3
<1>12. CASE Close
  BY <1>0, <1>12 DEF Close, client, package
<1>13. ASSUME NEW l \in {"text", "dot"}, WriteLine(l)
       PROVE  Types'
  <2>1. Line(l) \in BodyLines
    BY ItemsAre
  <2>2. body' \in Seq(BodyLines) /\ written' \in Seq(BodyLines)
    BY <1>13, <2>1, AppendIs DEF WriteLine
  <2> QED
    BY <1>0, <1>13, <2>2 DEF WriteLine, client, peer
<1>14. CASE Flush
  <2>1. out' \in Seq(Writes)
    BY <1>14, PieceIs, AsyncWriteIs DEF Flush
  <2>2. body' \in Seq(BodyLines) /\ started' \in BOOLEAN
    BY <1>14 DEF Flush
  <2> QED
    BY <1>0, <1>14, <2>1, <2>2 DEF Flush, peer
<1>15. CASE Drop
  <2>1. <<Line("end")>> \in Seq(Items)
    BY ItemsAre
  <2>2. out' \in Seq(Writes)
    <3>1. out' = AsyncWrite(AsyncWrite(out, Piece, FALSE), <<Line("end")>>, FALSE)
      BY <1>15 DEF Drop
    <3> QED
      BY <2>1, <3>1, PieceIs, AsyncWriteIs
  <2>3. body' \in Seq(BodyLines) /\ started' \in BOOLEAN /\ pkg' = "gone"
    BY <1>15 DEF Drop
  <2> QED
    BY <1>0, <1>15, <2>2, <2>3 DEF Drop, peer
<1>16. CASE UNCHANGED vars
  BY <1>0, <1>16 DEF vars, client, package, peer
<1> QED
  BY <1>1, <1>2, <1>3, <1>4, <1>5, <1>6, <1>7, <1>8, <1>9, <1>10, <1>11, <1>12, <1>13, <1>14, <1>15, <1>16
     DEF Next, Chain, Serve

-----------------------------------------------------------------------------
(* One step is under way.                                                    *)
LEMMA OneMore ==
  ASSUME NEW q, NEW r, NEW n \in Nat, Len(q) = n, Len(r) = n + 1, ~r[n + 1].step,
         \A i \in 1..n : r[i] = q[i]
  PROVE  \A i \in 1..Len(r) : r[i].step => i \in 1..Len(q) /\ q[i].step /\ r[i] = q[i]
<1> TAKE i \in 1..Len(r)
<1>1. i \in 1..n \/ i = n + 1
  OBVIOUS
<1> QED
  BY ONLY <1>1, Len(q) = n, ~r[n + 1].step, \A k \in 1..n : r[k] = q[k]

(* Only the chain starts a step, and only when the last one is over.         *)
LEMMA OneStepStep ==
  ASSUME Types, OneStep, [Next]_vars
  PROVE  OneStep'
<1> DEFINE n == Len(out)
<1>0. out \in Seq(Writes) /\ n \in Nat /\ reading \in BOOLEAN
  BY DEF Types
<1> HIDE DEF n
<1>a. ASSUME out' = out, at' = at, reading' = reading PROVE OneStep'
  BY <1>a DEF OneStep
<1>1. CASE NotConnected
  BY <1>1 DEF NotConnected, OneStep, Steps
<1>2. CASE Connected
  BY <1>2 DEF Connected, OneStep, Steps
<1>3. CASE Written
  <2>1. /\ out' = Tail(out) /\ at' = at /\ Len(out') = n - 1 /\ n >= 1 /\ reading' = (reading \/ out[1].step)
        /\ \A i \in 1..n - 1 : out'[i] = out[i + 1]
    BY <1>0, <1>3, FrontIs DEF Written, n
  <2>2. \A i \in 1..n - 1 : i + 1 \in 1..n /\ i + 1 # 1 /\ 1 \in 1..n
    BY ONLY <1>0, <2>1
  <2>3. /\ \A i \in 1..n : out[i].step => at \in Steps /\ ~reading /\ \A k \in 1..n : out[k].step => k = i
        /\ reading => at \in Steps \cup {"greeting"}
    BY ONLY OneStep DEF OneStep, n
  <2>4. CASE out[1].step
    <3>1. \A i \in 1..n - 1 : ~out'[i].step
      BY ONLY <2>1, <2>2, <2>3, <2>4
    <3>2. 1 \in 1..n
      BY ONLY <1>0, <2>1
    <3>3. at \in Steps
      BY ONLY <2>3, <2>4, <3>2
    <3> QED
      BY ONLY <2>1, <3>1, <3>3 DEF OneStep
  <2>5. CASE ~out[1].step
    <3>1. reading' = reading /\ at' = at /\ Len(out') = n - 1
      BY ONLY <1>0, <2>1, <2>5
    <3>2. ASSUME NEW i \in 1..n - 1, out'[i].step
          PROVE  at' \in Steps /\ ~reading' /\ \A k \in 1..n - 1 : out'[k].step => k = i
      <4>1. i + 1 \in 1..n /\ out[i + 1].step
        BY ONLY <2>1, <2>2, <3>2
      <4>2. at \in Steps /\ ~reading /\ \A k \in 1..n : out[k].step => k = i + 1
        BY ONLY <2>3, <4>1
      <4>3. \A k \in 1..n - 1 : out'[k].step => k + 1 = i + 1
        BY ONLY <2>1, <2>2, <4>2
      <4> QED
        BY ONLY <2>1, <3>1, <4>2, <4>3, i \in 1..n - 1
    <3> QED
      BY ONLY <2>3, <3>1, <3>2 DEF OneStep
  <2> QED
    BY ONLY <2>4, <2>5
<1>4. CASE WriteFails
  <2>1. /\ out' = Tail(out) /\ reading' = reading /\ Len(out') = n - 1 /\ n >= 1
        /\ out[1].step => at' = "over"
        /\ ~out[1].step => at' = at
        /\ \A i \in 1..n - 1 : out'[i] = out[i + 1]
    BY <1>0, <1>4, FrontIs DEF WriteFails, n
  <2>2. \A i \in 1..n - 1 : i + 1 \in 1..n /\ i + 1 # 1
    BY ONLY <1>0, <2>1
  <2>3. /\ \A i \in 1..n : out[i].step => at \in Steps /\ ~reading /\ \A k \in 1..n : out[k].step => k = i
        /\ reading => at \in Steps \cup {"greeting"}
    BY ONLY OneStep DEF OneStep, n
  <2>4. CASE out[1].step
    <3>1. 1 \in 1..n
      BY ONLY <1>0, <2>1
    <3>2. \A i \in 1..n - 1 : ~out'[i].step
      BY ONLY <2>1, <2>2, <2>3, <2>4, <3>1
    <3>3. ~reading
      BY ONLY <2>3, <2>4, <3>1
    <3> QED
      BY ONLY <2>1, <3>2, <3>3 DEF OneStep
  <2>5. CASE ~out[1].step
    <3>1. at' = at
      BY ONLY <2>1, <2>5
    <3>2. ASSUME NEW i \in 1..n - 1, out'[i].step
          PROVE  at' \in Steps /\ ~reading' /\ \A k \in 1..n - 1 : out'[k].step => k = i
      <4>1. i + 1 \in 1..n /\ out[i + 1].step
        BY ONLY <2>1, <2>2, <3>2
      <4>2. at \in Steps /\ ~reading /\ \A k \in 1..n : out[k].step => k = i + 1
        BY ONLY <2>3, <4>1
      <4>3. \A k \in 1..n - 1 : out'[k].step => k + 1 = i + 1
        BY ONLY <2>1, <2>2, <4>2
      <4> QED
        BY ONLY <2>1, <3>1, <4>2, <4>3, i \in 1..n - 1
    <3> QED
      BY ONLY <2>1, <2>3, <3>1, <3>2 DEF OneStep
  <2> QED
    BY ONLY <2>4, <2>5
<1>5. CASE Receive
  BY <1>a, <1>5 DEF Receive
<1>6. CASE ReadFails
  <2>1. reading /\ ~reading' /\ out' = out
    BY <1>6 DEF ReadFails
  <2> QED
    BY ONLY <2>1, OneStep DEF OneStep
<1>7. CASE Answered
  <2>1. reading /\ ~reading'
    BY <1>7 DEF Answered
  <2>2. \A i \in 1..n : ~out[i].step
    BY ONLY <2>1, OneStep DEF OneStep, n
  <2>3. CASE out' = out
    BY ONLY <2>1, <2>2, <2>3 DEF OneStep, n
  <2>4. CASE \E s \in Steps : at' = s /\ out' = AsyncWrite(out, Message(s), TRUE)
    <3>1. at' \in Steps /\ Len(out') = n + 1 /\ \A i \in 1..n : out'[i] = out[i]
      <4>1. PICK s \in Steps : at' = s /\ out' = AsyncWrite(out, Message(s), TRUE)
        BY ONLY <2>4
      <4>2. PICK m : m = Message(s) /\ m \in Seq(Items) /\ TRUE \in BOOLEAN
        BY MessagesTyped
      <4>3. out' = AsyncWrite(out, m, TRUE)
        BY ONLY <4>1, <4>2
      <4>4. Adds(out, out', m, TRUE)
        BY ONLY <1>0, <4>2, <4>3, AsyncWriteAdds
      <4> QED
        BY ONLY <4>1, <4>4 DEF Adds, n
    <3>2. \A i \in 1..n + 1 : i \in 1..n \/ i = n + 1
      BY ONLY <1>0
    <3>3. \A i \in 1..n + 1 : out'[i].step => i = n + 1
      BY ONLY <2>2, <3>1, <3>2
    <3> QED
      BY ONLY <2>1, <3>1, <3>3 DEF OneStep
  <2>5. out' = out \/ \E s \in Steps : at' = s /\ out' = AsyncWrite(out, Message(s), TRUE)
    <3>1. CASE Fail \/ (GoesOn /\ at \in {"DATA", "END"})
      BY <3>1 DEF GoesOn, Fail
    <3>2. CASE GoesOn /\ at # "END" /\ at # "DATA"
      <4>1. Step(StepAfter(at))
        BY <3>2 DEF GoesOn
      <4>2. StepAfter(at) \in Steps
        BY <3>2, <2>1, Afters DEF OneStep, Steps
      <4> QED
        BY ONLY <4>1, <4>2 DEF Step
    <3> QED
      BY <1>7, <3>1, <3>2 DEF Answered
  <2> QED
    BY ONLY <2>3, <2>4, <2>5
<1>8. CASE Composed
  <2>1. at = "compose" /\ at' = "END" /\ reading' = reading /\ out' = AsyncWrite(out, Message("END"), TRUE)
    BY <1>8 DEF Composed, Step
  <2>2. (\A i \in 1..n : ~out[i].step) /\ ~reading
    BY <2>1 DEF OneStep, Steps, n
  <2>3. Len(out') = n + 1 /\ (\A i \in 1..n : out'[i] = out[i]) /\ "END" \in Steps
    <3>1. PICK m : m = Message("END") /\ m \in Seq(Items) /\ "END" \in Steps /\ TRUE \in BOOLEAN
      BY MessagesTyped DEF Steps
    <3>2. out' = AsyncWrite(out, m, TRUE)
      BY ONLY <2>1, <3>1
    <3>3. Adds(out, out', m, TRUE)
      BY ONLY <1>0, <3>1, <3>2, AsyncWriteAdds
    <3> QED
      BY ONLY <3>1, <3>3 DEF Adds, n
  <2>4. \A i \in 1..n + 1 : i \in 1..n \/ i = n + 1
    BY ONLY <1>0
  <2>5. \A i \in 1..n + 1 : out'[i].step => i = n + 1
    BY ONLY <2>2, <2>3, <2>4
  <2> QED
    BY ONLY <2>1, <2>2, <2>3, <2>5 DEF OneStep
<1>b. ASSUME at' = at, reading' = reading,
             \A i \in 1..Len(out') : out'[i].step => i \in 1..Len(out) /\ out[i].step /\ out'[i] = out[i]
      PROVE  OneStep'
  BY ONLY <1>b, OneStep DEF OneStep
<1>14. CASE Flush
  <2>1. Len(out') = n + 1 /\ ~out'[n + 1].step /\ \A i \in 1..n : out'[i] = out[i]
    <3>1. out' = AsyncWrite(out, Piece, FALSE) /\ Piece \in Seq(Items) /\ FALSE \in BOOLEAN
      BY <1>14, PieceIs DEF Flush
    <3>2. Adds(out, out', Piece, FALSE)
      BY ONLY <1>0, <3>1, AsyncWriteAdds
    <3> QED
      BY ONLY <3>2 DEF Adds, n
  <2>2. \A i \in 1..Len(out') : out'[i].step => i \in 1..Len(out) /\ out[i].step /\ out'[i] = out[i]
    BY ONLY <1>0, <2>1, OneMore DEF n
  <2> QED
    BY <1>b, <1>14, <2>2 DEF Flush
<1>15. CASE Drop
  <2> DEFINE q == AsyncWrite(out, Piece, FALSE)
  <2>1. q \in Seq(Writes) /\ Len(q) = n + 1 /\ ~q[n + 1].step /\ \A i \in 1..n : q[i] = out[i]
    <3>1. Piece \in Seq(Items) /\ FALSE \in BOOLEAN
      BY PieceIs
    <3>2. q \in Seq(Writes) /\ Adds(out, q, Piece, FALSE)
      BY ONLY <1>0, <3>1, AsyncWriteAdds
    <3> QED
      BY ONLY <3>2 DEF Adds, n
  <2>2. out' = AsyncWrite(q, <<Line("end")>>, FALSE) /\ <<Line("end")>> \in Seq(Items)
    BY <1>15, ItemsAre DEF Drop
  <2> HIDE DEF q
  <2>3. Len(out') = Len(q) + 1 /\ ~out'[Len(q) + 1].step /\ Len(q) \in Nat /\ \A i \in 1..Len(q) : out'[i] = q[i]
    <3>1. FALSE \in BOOLEAN
      OBVIOUS
    <3>2. Adds(q, out', <<Line("end")>>, FALSE)
      BY ONLY <2>1, <2>2, <3>1, AsyncWriteAdds
    <3> QED
      BY ONLY <3>2 DEF Adds
  <2>4. \A i \in 1..Len(q) : q[i].step => i \in 1..Len(out) /\ out[i].step /\ q[i] = out[i]
    BY ONLY <1>0, <2>1, OneMore DEF n
  <2>5. \A i \in 1..Len(out') : out'[i].step => i \in 1..Len(q) /\ q[i].step /\ out'[i] = q[i]
    BY ONLY <2>3, OneMore
  <2>6. \A i \in 1..Len(out') : out'[i].step => i \in 1..Len(out) /\ out[i].step /\ out'[i] = out[i]
    BY ONLY <2>4, <2>5
  <2> QED
    BY <1>b, <1>15, <2>6 DEF Drop
<1>16. CASE Serve \/ Close \/ (\E l \in {"text", "dot"} : WriteLine(l)) \/ UNCHANGED vars
  BY <1>a, <1>16 DEF Serve, Greet, Command, Data, Close, WriteLine, vars, client
<1> QED
  BY <1>1, <1>2, <1>3, <1>4, <1>5, <1>6, <1>7, <1>8, <1>14, <1>15, <1>16 DEF Next, Chain

-----------------------------------------------------------------------------
(* The chain.                                                                *)
LEMMA MessageStays ==
  ASSUME [Next]_vars
  PROVE  \A s \in Steps : Message(s)' = Message(s)
<1>1. account' = account
  BY AccountStays
<1> QED
  BY <1>1 DEF Message

(* The first result is the only one.                                         *)
LEMMA ToldOnce ==
  ASSUME results = <<>>
  PROVE  \A b \in BOOLEAN : Append(results, b) = <<b>>
OBVIOUS

(* Where the chain is decides what it has written and reported.              *)
LEMMA ChainedStep ==
  ASSUME Types, OneStep, Chained, [Next]_vars
  PROVE  Chained'
<1>0. out \in Seq(Writes) /\ reading \in BOOLEAN
  BY DEF Types
<1>m. \A s \in Commands : Message(s)' = Message(s)
  BY MessageStays DEF Commands
<1>r. /\ reading => at \in Commands \cup {"greeting", "END"}
      /\ at # "over" => results = <<>>
  BY DEF OneStep, Commands, Chained
<1>a. ASSUME at' = at, results' = results, out' = out, reading' = reading, pkg' = pkg, body' = body,
             written' = written, started' = started,
             at = "connect" => server' = "absent",
             server' = "absent" =>
               server = "absent" /\ toServer' = toServer /\ buf' = buf /\ toClient' = toClient
      PROVE  Chained'
  BY <1>a, <1>m DEF Chained
<1>1. CASE NotConnected
  <2>1. /\ at = "connect" /\ at' = "over" /\ results' = <<FALSE>>
        /\ UNCHANGED <<reading, out, buf, toServer, toClient, pkg, body, written, started, server>>
    BY <1>1, <1>r, ToldOnce DEF NotConnected, package, peer
  <2>2. out = <<>> /\ pkg = "none"
    BY <2>1 DEF Chained, Commands, Steps
  <2> QED
    BY <2>1, <2>2 DEF Chained, Commands, Steps
<1>2. CASE Connected
  <2>1. /\ at = "connect" /\ at' = "greeting" /\ reading' = TRUE /\ server' = "greeting"
        /\ UNCHANGED <<results, out, buf, toServer, toClient, pkg, body, written, started>>
    BY <1>2 DEF Connected, package
  <2>2. out = <<>> /\ pkg = "none"
    BY <2>1 DEF Chained, Commands, Steps
  <2> QED
    BY <2>1, <2>2 DEF Chained, Commands, Steps
<1>3. CASE Written
  <2>1. /\ out # <<>> /\ reading' = (reading \/ Head(out).step)
        /\ out' = Tail(out) /\ \A i \in 1..Len(out) - 1 : out'[i] = out[i + 1]
        /\ Len(out') = Len(out) - 1 /\ Len(out) \in Nat
        /\ UNCHANGED <<at, results, buf, toClient, pkg, body, written, started, server>>
    BY <1>0, <1>3, FrontIs DEF Written, package, peer
  <2>2. server # "absent"
    BY <2>1 DEF Chained, Commands, Steps
  <2>3. CASE pkg = "none"
    <3>1. at \in Commands /\ ~reading
      BY <2>1, <2>3 DEF Chained
    <3>2. PICK w : w = [string |-> Message(at), step |-> TRUE] /\ out = <<w>>
      BY <2>3, <3>1 DEF Chained
    <3>3. w.step = TRUE /\ Head(out) = w /\ Tail(out) = <<>>
      BY <3>2
    <3>4. out' = <<>> /\ reading' = TRUE
      BY ONLY <2>1, <3>3
    <3> QED
      BY <2>1, <2>2, <2>3, <3>1, <3>4 DEF Chained
  <2>4. CASE pkg # "none"
    <3>1. \A i \in 1..Len(out) : IsText(out[i].string)
      BY <2>4 DEF Chained
    <3>2. \A i \in 1..Len(out') : i + 1 \in 1..Len(out) /\ out'[i] = out[i + 1]
      BY ONLY <2>1
    <3>3. \A i \in 1..Len(out') : IsText(out'[i].string)
      BY ONLY <3>1, <3>2
    <3> QED
      BY <2>1, <2>2, <2>4, <3>3 DEF Chained, IsText
  <2> QED
    BY ONLY <2>3, <2>4
<1>4. CASE WriteFails
  <2>1. /\ out # <<>> /\ reading' = reading /\ server = "closed" /\ Head(out) = out[1]
        /\ out' = Tail(out) /\ \A i \in 1..Len(out) - 1 : out'[i] = out[i + 1]
        /\ Len(out') = Len(out) - 1 /\ Len(out) \in Nat /\ Len(out) >= 1
        /\ UNCHANGED <<buf, toServer, toClient, pkg, body, written, started, server>>
    BY <1>0, <1>4, FrontIs DEF WriteFails, package, peer
  <2>2. IF out[1].step THEN at' = "over" /\ results' = <<FALSE>> ELSE UNCHANGED <<at, results>>
    <3>1. CASE out[1].step
      <4>1. results' = Append(results, FALSE) /\ at' = "over"
        BY <1>4, <2>1, <3>1 DEF WriteFails
      <4>2. 1 \in 1..Len(out)
        BY ONLY <2>1
      <4>3. at \in Steps
        BY <3>1, <4>2 DEF OneStep
      <4>4. results = <<>>
        BY <1>r, <4>3 DEF Steps
      <4> QED
        BY <3>1, <4>1, <4>4, ToldOnce
    <3>2. CASE ~out[1].step
      BY <1>4, <2>1, <3>2 DEF WriteFails
    <3> QED
      BY <3>1, <3>2
  <2>3. CASE pkg = "none"
    <3>1. at \in Commands /\ ~reading
      BY <2>1, <2>3 DEF Chained
    <3>2. PICK w : w = [string |-> Message(at), step |-> TRUE] /\ out = <<w>>
      BY <2>3, <3>1 DEF Chained
    <3>3. w.step = TRUE /\ out[1] = w /\ Tail(out) = <<>>
      BY <3>2
    <3>4. out' = <<>> /\ at' = "over" /\ results' = <<FALSE>>
      BY ONLY <2>1, <2>2, <3>3
    <3> QED
      BY <2>1, <2>3, <3>4 DEF Chained, Commands, Steps
  <2>4. CASE pkg # "none"
    <3>1. \A i \in 1..Len(out) : IsText(out[i].string)
      BY <2>4 DEF Chained
    <3>2. \A i \in 1..Len(out') : i + 1 \in 1..Len(out) /\ out'[i] = out[i + 1]
      BY ONLY <2>1
    <3>3. \A i \in 1..Len(out') : IsText(out'[i].string)
      BY ONLY <3>1, <3>2
    <3>4. at' \in {at, "over"} /\ results' \in IF at' = "over" THEN {<<TRUE>>, <<FALSE>>} ELSE {<<>>}
      BY <2>2 DEF Chained
    <3> QED
      BY <2>1, <2>4, <3>3, <3>4 DEF Chained, IsText
  <2> QED
    BY ONLY <2>3, <2>4
<1>5. CASE Receive
  <2>1. toClient # <<>> /\ UNCHANGED <<at, results, out, reading, pkg, body, written, started, server>>
    BY <1>5 DEF Receive, package, peer
  <2>2. server # "absent"
    BY <2>1 DEF Chained
  <2> QED
    BY <1>a, <2>1, <2>2 DEF Chained
<1>6. CASE ReadFails
  <2>1. /\ at' = "over" /\ results' = <<FALSE>> /\ ~reading' /\ reading /\ server = "closed"
        /\ UNCHANGED <<out, buf, toServer, toClient, pkg, body, written, started, server>>
    <3>1. reading
      BY <1>6 DEF ReadFails
    <3>2. results = <<>>
      BY <1>r, <3>1 DEF Commands, Steps
    <3> QED
      BY <1>6, <3>1, <3>2, ToldOnce DEF ReadFails, package, peer
  <2>2. pkg = "none" => out = <<>>
    BY <2>1 DEF Chained
  <2> QED
    BY <2>1, <2>2 DEF Chained, Commands, Steps
<1>7. CASE Answered
  <2>1. /\ reading /\ ~reading' /\ results = <<>> /\ at \in Commands \cup {"greeting", "END"}
        /\ UNCHANGED <<toServer, toClient, body, written, started, server>> /\ server # "absent"
    <3>1. reading /\ ~reading' /\ UNCHANGED <<toServer, toClient, body, written, started, server>>
      BY <1>7 DEF Answered, peer
    <3>2. at \in Commands \cup {"greeting", "END"}
      BY <1>r, <3>1
    <3> QED
      BY <1>r, <3>1, <3>2 DEF Chained, Commands, Steps
  <2>2. pkg = "none" => out = <<>>
    BY <2>1 DEF Chained
  <2>3. pkg # "none" => at = "END"
    BY <2>1 DEF Chained, Commands, Steps
  <2>4. CASE Fail /\ pkg' = pkg
    <3>1. at' = "over" /\ results' = <<FALSE>> /\ out' = out /\ pkg' = pkg
      BY <2>1, <2>4, ToldOnce DEF Fail
    <3> QED
      BY <2>1, <2>2, <2>3, <3>1 DEF Chained, Commands, Steps
  <2>5. CASE GoesOn /\ at = "END"
    <3>1. at' = "over" /\ results' = <<TRUE>> /\ out' = out /\ pkg' = pkg
      BY <2>1, <2>5, ToldOnce DEF GoesOn
    <3> QED
      BY <2>1, <2>2, <2>3, <3>1 DEF Chained, Commands, Steps
  <2>6. CASE GoesOn /\ at = "DATA"
    <3>1. at' = "compose" /\ results' = <<>> /\ out' = out /\ pkg' = "app" /\ out = <<>>
      BY <2>1, <2>2, <2>3, <2>6 DEF GoesOn
    <3> QED
      BY <2>1, <3>1 DEF Chained
  <2>7. CASE GoesOn /\ at \notin {"END", "DATA"}
    <3>1. Step(StepAfter(at)) /\ pkg' = pkg
      BY <2>7 DEF GoesOn
    <3>2. PICK s \in Commands : s = StepAfter(at)
      BY <2>1, <2>7, Afters DEF Commands, Steps
    <3>3. at' = s /\ out' = Append(<<>>, [string |-> Message(s), step |-> TRUE]) /\ results' = <<>> /\ pkg = "none"
      BY <2>1, <2>2, <2>3, <2>7, <3>1, <3>2 DEF Step, AsyncWrite
    <3>4. out' = <<[string |-> Message(s), step |-> TRUE]>>
      BY ONLY <3>3
    <3> QED
      BY <1>m, <2>1, <3>1, <3>3, <3>4 DEF Chained, Commands, Steps
  <2> QED
    BY <1>7, <2>4, <2>5, <2>6, <2>7 DEF Answered
<1>b. ASSUME NEW q \in Seq(Writes), NEW s \in Seq(Items), NEW b \in BOOLEAN,
             \A i \in 1..Len(q) : IsText(q[i].string), IsText(s)
      PROVE  /\ AsyncWrite(q, s, b) \in Seq(Writes)
             /\ \A i \in 1..Len(AsyncWrite(q, s, b)) : IsText(AsyncWrite(q, s, b)[i].string)
  <2>1. PICK r : r = AsyncWrite(q, s, b)
    OBVIOUS
  <2>2. r \in Seq(Writes) /\ Adds(q, r, s, b)
    BY ONLY <2>1, q \in Seq(Writes), s \in Seq(Items), b \in BOOLEAN, AsyncWriteAdds
  <2>3. ASSUME NEW i \in 1..Len(r) PROVE IsText(r[i].string)
    <3>1. i \in 1..Len(q) \/ i = Len(q) + 1
      BY ONLY <2>2, i \in 1..Len(r) DEF Adds
    <3> QED
      BY ONLY <1>b, <2>2, <3>1 DEF Adds
  <2> QED
    BY ONLY <2>1, <2>2, <2>3
<1>8. CASE Composed
  <2>1. /\ at = "compose" /\ at' = "END" /\ out' = AsyncWrite(out, <<>>, TRUE)
        /\ UNCHANGED <<results, reading, buf, toServer, toClient, pkg, body, written, started, server>>
    BY <1>8, Messages DEF Composed, Step, package, peer
  <2>2. pkg = "app" /\ server # "absent"
    BY <2>1 DEF Chained
  <2>3. \A i \in 1..Len(out') : IsText(out'[i].string)
    <3>1. <<>> \in Seq(Items) /\ IsText(<<>>) /\ TRUE \in BOOLEAN
      BY DEF IsText
    <3>2. \A i \in 1..Len(out) : IsText(out[i].string)
      BY <2>2 DEF Chained
    <3> QED
      BY ONLY <1>0, <1>b, <2>1, <3>1, <3>2
  <2> QED
    BY <2>1, <2>2, <2>3 DEF Chained, IsText
<1>13. ASSUME NEW l \in {"text", "dot"}, WriteLine(l)
       PROVE  Chained'
  <2>1. pkg = "app" /\ UNCHANGED <<at, results, out, reading, pkg, started, buf, toServer, toClient, server>>
    BY <1>13 DEF WriteLine, client, peer
  <2> QED
    BY <2>1 DEF Chained, IsText
<1>14. CASE Flush
  <2>1. /\ pkg = "app" /\ out' = AsyncWrite(out, Piece, FALSE)
        /\ UNCHANGED <<at, results, reading, pkg, buf, toServer, toClient, server>>
    BY <1>14 DEF Flush, peer
  <2>2. \A i \in 1..Len(out') : IsText(out'[i].string)
    <3>1. Piece \in Seq(Items) /\ IsText(Piece) /\ FALSE \in BOOLEAN
      BY PieceIs
    <3>2. \A i \in 1..Len(out) : IsText(out[i].string)
      BY <2>1 DEF Chained
    <3> QED
      BY ONLY <1>0, <1>b, <2>1, <3>1, <3>2
  <2> QED
    BY <2>1, <2>2 DEF Chained, IsText
<1>15. CASE Drop
  <2>1. /\ pkg = "app" /\ pkg' = "gone" /\ at # "compose"
        /\ out' = AsyncWrite(AsyncWrite(out, Piece, FALSE), <<Line("end")>>, FALSE)
        /\ UNCHANGED <<at, results, reading, buf, toServer, toClient, server>>
    BY <1>15 DEF Drop, peer
  <2>2. \A i \in 1..Len(out') : IsText(out'[i].string)
    <3>1. Piece \in Seq(Items) /\ IsText(Piece) /\ FALSE \in BOOLEAN
      BY PieceIs
    <3>2. \A i \in 1..Len(out) : IsText(out[i].string)
      BY <2>1 DEF Chained
    <3>3. PICK q : q = AsyncWrite(out, Piece, FALSE)
      OBVIOUS
    <3>4. q \in Seq(Writes) /\ \A i \in 1..Len(q) : IsText(q[i].string)
      BY ONLY <1>0, <1>b, <3>1, <3>2, <3>3
    <3>5. <<Line("end")>> \in Seq(Items) /\ IsText(<<Line("end")>>)
      BY ItemsAre DEF IsText
    <3>6. out' = AsyncWrite(q, <<Line("end")>>, FALSE)
      BY ONLY <2>1, <3>3
    <3> QED
      BY ONLY <1>b, <3>1, <3>4, <3>5, <3>6
  <2> QED
    BY <2>1, <2>2 DEF Chained, IsText
<1>16. CASE Serve \/ Close
  <2>1. /\ server # "absent" /\ server' # "absent"
        /\ UNCHANGED <<at, results, out, reading, pkg, body, written, started>>
    BY <1>16 DEF Serve, Greet, Command, Data, Close, client, package
  <2> QED
    BY <1>a, <2>1 DEF Chained
<1>17. CASE UNCHANGED vars
  BY <1>a, <1>17 DEF vars, client, package, peer, Chained
<1> QED
  BY <1>1, <1>2, <1>3, <1>4, <1>5, <1>6, <1>7, <1>8, <1>13, <1>14, <1>15, <1>16, <1>17 DEF Next, Chain

-----------------------------------------------------------------------------
(* The message follows DATA.                                                 *)
LEMMA TextOf ==
  ASSUME NEW q \in Seq(Items), NEW r \in Seq(Items)
  PROVE  /\ IsText(q) /\ IsText(r) => IsText(q \o r)
         /\ q # <<>> /\ IsText(q) => IsText(Tail(q)) /\ Head(q) \in TextLines
         /\ IsText(q) => \A s \in Commands : ~Says(q, s)
<1>1. ASSUME IsText(q), IsText(r) PROVE IsText(q \o r)
  <2>1. PICK m \in Nat, n \in Nat : m = Len(q) /\ n = Len(r)
    BY ConcatIs
  <2>2. /\ Len(q \o r) = m + n
        /\ \A i \in 1..m : (q \o r)[i] = q[i]
        /\ \A i \in 1..n : (q \o r)[m + i] = r[i]
    BY <2>1, ConcatIs
  <2>3. \A i \in 1..m + n : i \in 1..m \/ \E k \in 1..n : i = m + k
    BY ONLY m \in Nat, n \in Nat, Places
  <2>4. (\A i \in 1..m : q[i] \in TextLines) /\ (\A i \in 1..n : r[i] \in TextLines)
    BY ONLY <1>1, <2>1 DEF IsText
  <2>5. ASSUME NEW i \in 1..m + n PROVE (q \o r)[i] \in TextLines
    <3>1. CASE i \in 1..m
      BY ONLY <2>2, <2>4, <3>1
    <3>2. CASE \E k \in 1..n : i = m + k
      BY ONLY <2>2, <2>4, <3>2
    <3> QED
      BY ONLY <2>3, <3>1, <3>2
  <2> QED
    BY ONLY <2>2, <2>5 DEF IsText
<1>2. ASSUME q # <<>>, IsText(q) PROVE IsText(Tail(q)) /\ Head(q) \in TextLines
  <2>1. PICK m \in Nat : m = Len(q) /\ m >= 1
    BY <1>2, TailIs
  <2>2. Len(Tail(q)) = m - 1 /\ Head(q) = q[1] /\ \A i \in 1..m - 1 : Tail(q)[i] = q[i + 1]
    BY ONLY <1>2, <2>1, q \in Seq(Items), TailIs
  <2>3. \A i \in 1..m : q[i] \in TextLines
    BY ONLY <1>2, <2>1 DEF IsText
  <2>4. 1 \in 1..m /\ \A i \in 1..m - 1 : i + 1 \in 1..m
    BY ONLY <2>1
  <2>5. Head(q) \in TextLines
    BY ONLY <2>2, <2>3, <2>4
  <2>6. \A i \in 1..m - 1 : Tail(q)[i] \in TextLines
    BY ONLY <2>2, <2>3, <2>4
  <2> QED
    BY ONLY <2>2, <2>5, <2>6 DEF IsText
<1>3. ASSUME IsText(q), NEW s \in Commands PROVE ~Says(q, s)
  <2>1. \A x \in TextLines : x.say \in {"head", "text", "dot", "end"}
    BY ItemsAre
  <2>2. s \notin {"head", "text", "dot", "end"}
    BY DEF Commands, Steps
  <2> QED
    BY ONLY <1>3, <2>1, <2>2 DEF IsText, Says
<1> QED
  BY ONLY <1>1, <1>2, <1>3

(* What is said at the front of a queue and behind it.                       *)
LEMMA SaysTail ==
  ASSUME NEW q \in Seq(Items), q # <<>>
  PROVE  /\ Len(Tail(q)) = Len(q) - 1 /\ Len(q) \in Nat /\ Len(q) >= 1
         /\ \A i \in 1..Len(Tail(q)) : i + 1 \in 1..Len(q) /\ Tail(q)[i] = q[i + 1]
         /\ \A i \in 1..Len(q) : i = 1 \/ \E k \in 1..Len(Tail(q)) : i = k + 1
         /\ 1 \in 1..Len(q) /\ Head(q) = q[1]
         /\ \A s : Says(q, s) <=> Head(q).say = s \/ Says(Tail(q), s)
<1>1. PICK m \in Nat : m = Len(q) /\ m >= 1
  BY TailIs
<1>2. Len(Tail(q)) = m - 1 /\ Head(q) = q[1] /\ \A i \in 1..m - 1 : Tail(q)[i] = q[i + 1]
  BY ONLY <1>1, q # <<>>, q \in Seq(Items), TailIs
<1>3. 1 \in 1..m /\ \A i \in 1..m - 1 : i + 1 \in 1..m
  BY ONLY <1>1
<1>4. ASSUME NEW i \in 1..m PROVE i = 1 \/ \E k \in 1..m - 1 : i = k + 1
  <2>1. CASE i # 1
    <3>1. i - 1 \in 1..m - 1 /\ i = (i - 1) + 1
      BY ONLY <2>1, m \in Nat, i \in 1..m
    <3> QED
      BY ONLY <3>1
  <2> QED
    BY <2>1
<1>5. ASSUME NEW s PROVE Says(q, s) <=> Head(q).say = s \/ Says(Tail(q), s)
  <2>1. ASSUME Says(q, s) PROVE Head(q).say = s \/ Says(Tail(q), s)
    <3>1. PICK i \in 1..m : q[i].say = s
      BY ONLY <1>1, <2>1 DEF Says
    <3>2. CASE i = 1
      BY ONLY <1>2, <3>1, <3>2
    <3>3. CASE \E k \in 1..m - 1 : i = k + 1
      <4>1. PICK k \in 1..m - 1 : i = k + 1
        BY ONLY <3>3
      <4>2. Tail(q)[k].say = s
        BY ONLY <1>2, <3>1, <4>1
      <4> QED
        BY ONLY <1>2, <4>2, k \in 1..m - 1 DEF Says
    <3> QED
      BY ONLY <1>4, <3>2, <3>3
  <2>2. ASSUME Head(q).say = s PROVE Says(q, s)
    BY ONLY <1>1, <1>2, <1>3, <2>2 DEF Says
  <2>3. ASSUME Says(Tail(q), s) PROVE Says(q, s)
    <3>1. PICK k \in 1..m - 1 : Tail(q)[k].say = s
      BY ONLY <1>2, <2>3 DEF Says
    <3>2. k + 1 \in 1..m /\ q[k + 1].say = s
      BY ONLY <1>2, <1>3, <3>1
    <3> QED
      BY ONLY <1>1, <3>2 DEF Says
  <2> QED
    BY ONLY <2>1, <2>2, <2>3
<1> QED
  BY ONLY <1>1, <1>2, <1>3, <1>4, <1>5

(* Written: one command, or text.                                            *)
LEMMA SaysMore ==
  ASSUME NEW q \in Seq(Items), NEW x \in Items
  PROVE  /\ q \o <<x>> \in Seq(Items)
         /\ Len(q \o <<x>>) = Len(q) + 1 /\ Len(q) \in Nat
         /\ (q \o <<x>>)[Len(q) + 1] = x
         /\ \A i \in 1..Len(q) : (q \o <<x>>)[i] = q[i]
         /\ \A i \in 1..Len(q \o <<x>>) : i \in 1..Len(q) \/ i = Len(q) + 1
         /\ \A s : Says(q \o <<x>>, s) <=> Says(q, s) \/ x.say = s
<1>1. PICK r : r = q \o <<x>>
  OBVIOUS
<1>2. /\ r \in Seq(Items) /\ Len(r) = Len(q) + 1 /\ Len(q) \in Nat /\ r[Len(q) + 1] = x
      /\ \A i \in 1..Len(q) : r[i] = q[i]
  BY <1>1
<1>3. PICK m \in Nat : m = Len(q)
  BY <1>2
<1>4. /\ \A i \in 1..m + 1 : i \in 1..m \/ i = m + 1
      /\ \A i \in 1..m : i \in 1..m + 1
      /\ m + 1 \in 1..m + 1
  OBVIOUS
<1>5. \A s : Says(r, s) <=> Says(q, s) \/ x.say = s
  BY ONLY <1>2, <1>3, <1>4 DEF Says
<1> QED
  BY ONLY <1>1, <1>2, <1>3, <1>4, <1>5

(* What a write that completes brings the server.                            *)
LEMMA WrittenBrings ==
  ASSUME Types, OneStep, Chained, Written
  PROVE  /\ UNCHANGED <<account, at, results, threw, buf, pkg, body, started, written, flushes,
                        toClient, server, granted, login, mail, accepted, grumbled, extra>>
         /\ reading => reading'
         /\ \/ /\ pkg = "none" /\ ~reading /\ reading' /\ at \in Commands
               /\ \/ server = "closed" /\ toServer' = toServer
                  \/ server # "closed" /\ \E x \in Items :
                       x.say = at /\ toServer' = toServer \o <<x>> /\ Message(at) = <<x>>
            \/ /\ pkg # "none" /\ at \in {"compose", "END", "over"}
               /\ \/ server = "closed" /\ toServer' = toServer
                  \/ server # "closed" /\ \E r \in Seq(Items) :
                       IsText(r) /\ r = Head(out).string /\ toServer' = toServer \o r
<1>1. /\ out \in Seq(Writes) /\ out # <<>> /\ reading' = (reading \/ Head(out).step)
      /\ toServer' = IF server = "closed" THEN toServer ELSE toServer \o Head(out).string
      /\ UNCHANGED <<account, at, results, threw, buf, pkg, body, started, written, flushes,
                     toClient, server, granted, login, mail, accepted, grumbled, extra>>
  BY DEF Types, Written, package, peer
<1>2. reading => reading'
  BY <1>1
<1>3. CASE pkg = "none"
  <2>1. at \in Commands /\ ~reading
    BY <1>1, <1>3 DEF Chained
  <2>2. PICK x \in Items : Message(at) = <<x>> /\ x.say = at
    BY <2>1, MessagesTyped DEF Commands
  <2>3. out = <<[string |-> Message(at), step |-> TRUE]>>
    BY <1>3, <2>1 DEF Chained
  <2>4. PICK w : w = [string |-> Message(at), step |-> TRUE] /\ out = <<w>>
    BY <2>3
  <2>5. w.step = TRUE /\ Head(out) = w /\ w.string = <<x>>
    BY <2>2, <2>4
  <2>6. reading' = TRUE /\ Head(out).string = <<x>>
    BY ONLY <1>1, <2>5
  <2> QED
    BY <1>1, <1>2, <1>3, <2>1, <2>2, <2>6
<1>4. CASE pkg # "none"
  <2>1. at \in {"compose", "END", "over"} /\ \A i \in 1..Len(out) : IsText(out[i].string)
    BY <1>4 DEF Chained
  <2>2. 1 \in 1..Len(out) /\ Head(out) = out[1] /\ Head(out).string \in Seq(Items)
    BY <1>1, FrontIs
  <2> QED
    BY <1>1, <1>2, <1>4, <2>1, <2>2
<1> QED
  BY <1>3, <1>4

(* Nothing but text is written once DATA was granted.                        *)
LEMMA DataIsLastStep ==
  ASSUME Types, OneStep, Chained, DataIsLast, AnswersFollow, [Next]_vars, ~astray'
  PROVE  DataIsLast'
<1>0. toServer \in Seq(Items) /\ reading \in BOOLEAN
  BY DEF Types
<1>r. reading => at \in Commands \cup {"greeting", "END"}
  BY DEF OneStep, Commands
<1>t. IsText(toServer) => ~Says(toServer, "DATA")
  <2>1. "DATA" \in Commands
    BY DEF Commands, Steps
  <2> QED
    BY ONLY <1>0, <2>1, TextOf
<1>a. ASSUME UNCHANGED <<granted, mail, accepted, server, toServer>>,
             (pkg' = "none") <=> (pkg = "none"),
             (at = "DATA" /\ reading) \/ at \in {"compose", "END", "over"} =>
               (at' = "DATA" /\ reading') \/ at' \in {"compose", "END", "over"}
      PROVE  DataIsLast'
  BY <1>a DEF DataIsLast, IsText, Says
<1>1. CASE NotConnected
  <2>1. at' = "over" /\ UNCHANGED <<granted, mail, accepted, server, toServer, pkg>>
    BY <1>1 DEF NotConnected, peer, package
  <2> QED
    BY <1>a, <2>1
<1>2. CASE Connected
  <2>1. /\ at = "connect" /\ at' = "greeting" /\ server = "absent" /\ server' = "greeting"
        /\ UNCHANGED <<granted, mail, accepted, toServer, pkg>>
    BY <1>2 DEF Connected, package, Chained
  <2>2. "DATA" \notin granted /\ ~Says(toServer, "DATA") /\ accepted = <<>> /\ mail = <<>> /\ pkg = "none"
    BY <2>1 DEF DataIsLast
  <2> QED
    BY <2>1, <2>2 DEF DataIsLast, IsText, Says
<1>3. CASE Written
  <2>1. /\ UNCHANGED <<at, pkg, server, granted, mail, accepted>>
        /\ reading => reading'
    BY <1>3, WrittenBrings
  <2>2. CASE toServer' = toServer
    BY <1>a, <2>1, <2>2
  <2>3. CASE pkg = "none" /\ ~reading /\ reading' /\ at \in Commands
             /\ \E x \in Items : x.say = at /\ toServer' = toServer \o <<x>>
    <3>1. "DATA" \notin granted /\ ~Says(toServer, "DATA")
      BY <2>3 DEF DataIsLast, Commands, Steps
    <3>2. PICK x \in Items : x.say = at /\ toServer' = toServer \o <<x>>
      BY <2>3
    <3>3. /\ Len(toServer') = Len(toServer) + 1 /\ Len(toServer) \in Nat
          /\ toServer'[Len(toServer) + 1] = x
          /\ \A i \in 1..Len(toServer) : toServer'[i] = toServer[i]
          /\ \A i \in 1..Len(toServer') : i \in 1..Len(toServer) \/ i = Len(toServer) + 1
          /\ Says(toServer', "DATA") => at = "DATA"
      BY ONLY <1>0, <3>1, <3>2, SaysMore
    <3>4. \A i \in 1..Len(toServer) : toServer[i].say # "DATA"
      BY ONLY <3>1 DEF Says
    <3>5. \A i \in 1..Len(toServer') : toServer'[i].say = "DATA" => i = Len(toServer')
      BY ONLY <3>3, <3>4
    <3>6. server # "data" /\ accepted = <<>>
      BY <3>1 DEF DataIsLast
    <3> QED
      BY <2>1, <2>3, <3>1, <3>3, <3>5, <3>6 DEF DataIsLast
  <2>4. CASE pkg # "none" /\ at \in {"compose", "END", "over"}
             /\ \E r \in Seq(Items) : IsText(r) /\ toServer' = toServer \o r
    <3>1. "DATA" \in granted /\ IsText(toServer)
      BY <2>4 DEF DataIsLast
    <3>2. PICK r \in Seq(Items) : IsText(r) /\ toServer' = toServer \o r
      BY <2>4
    <3>3. toServer' \in Seq(Items) /\ IsText(toServer')
      BY ONLY <1>0, <3>1, <3>2, TextOf, ConcatIs
    <3>4. "DATA" \in Commands
      BY DEF Commands, Steps
    <3>5. ~Says(toServer', "DATA")
      <4>1. PICK q \in Seq(Items) : q = toServer'
        BY ONLY <3>3
      <4> QED
        BY ONLY <3>3, <3>4, <4>1, TextOf
    <3> QED
      BY <2>1, <2>4, <3>1, <3>3, <3>5 DEF DataIsLast, Says, IsText
  <2> QED
    BY <1>3, <2>2, <2>3, <2>4, WrittenBrings
<1>4. CASE WriteFails
  <2>1. reading' = reading /\ UNCHANGED <<granted, mail, accepted, server, toServer, pkg>> /\ at' \in {at, "over"}
    BY <1>4 DEF WriteFails, peer, package
  <2> QED
    BY <1>a, <2>1
<1>5. CASE Receive
  <2>1. UNCHANGED <<granted, mail, accepted, server, toServer, pkg, at, reading>>
    BY <1>5 DEF Receive, peer, package
  <2> QED
    BY <1>a, <2>1
<1>6. CASE ReadFails
  <2>1. UNCHANGED <<granted, mail, accepted, server, toServer, pkg>> /\ at' = "over"
    BY <1>6 DEF ReadFails, peer, package
  <2> QED
    BY <1>a, <2>1
<1>7. CASE Answered
  <2>1. UNCHANGED <<granted, mail, accepted, server, toServer>> /\ reading
    BY <1>7 DEF Answered, peer
  <2>5. at \in Steps \cup {"greeting"}
    BY <2>1 DEF OneStep
  <2>6. (Fail /\ pkg' = pkg) \/ (GoesOn /\ Truly(Expected[at]))
    BY <1>7, <2>5, Took DEF Types
  <2>2. CASE (Fail /\ pkg' = pkg) \/ (GoesOn /\ at = "END")
    <3>1. at' = "over" /\ pkg' = pkg
      BY <2>2 DEF GoesOn, Fail
    <3> QED
      BY <1>a, <2>1, <3>1
  <2>3. CASE GoesOn /\ Truly(Expected[at]) /\ at = "DATA"
    <3>1. at' = "compose" /\ pkg' = "app"
      BY <2>3 DEF GoesOn
    <3>2. "DATA" \in granted
      BY <2>3, Codes DEF Truly, AnswersFollow
    <3> QED
      BY <2>1, <3>1, <3>2 DEF DataIsLast, IsText, Says
  <2>4. CASE GoesOn /\ at \notin {"DATA", "END"}
    <3>1. pkg' = pkg /\ ~((at = "DATA" /\ reading) \/ at \in {"compose", "END", "over"})
      BY <1>r, <2>1, <2>4 DEF GoesOn, Commands, Steps
    <3> QED
      BY <1>a, <2>1, <3>1
  <2> QED
    BY ONLY <2>2, <2>3, <2>4, <2>6
<1>8. CASE Composed
  <2>1. UNCHANGED <<granted, mail, accepted, server, toServer, pkg>> /\ at' = "END"
    BY <1>8 DEF Composed, Step, peer, package
  <2> QED
    BY <1>a, <2>1
<1>9. CASE Greet
  <2>1. server = "greeting" /\ server' = "commands"
        /\ UNCHANGED <<granted, mail, accepted, toServer, pkg, at, reading>>
    BY <1>9 DEF Greet, client, package
  <2>2. "DATA" \notin granted /\ mail = <<>> /\ accepted = <<>> /\ pkg = "none"
    BY <2>1 DEF DataIsLast
  <2> QED
    BY <2>1, <2>2 DEF DataIsLast, Says
<1>10. CASE Command
  <2>1. /\ server = "commands" /\ toServer # <<>> /\ toServer' = Tail(toServer)
        /\ UNCHANGED <<mail, accepted, pkg, at, reading>>
    BY <1>10 DEF Command, client, package
  <2>2. mail = <<>>
    BY <2>1 DEF DataIsLast
  <2>3. /\ Len(Tail(toServer)) = Len(toServer) - 1 /\ Len(toServer) \in Nat /\ Len(toServer) >= 1
        /\ \A i \in 1..Len(Tail(toServer)) : i + 1 \in 1..Len(toServer) /\ Tail(toServer)[i] = toServer[i + 1]
        /\ 1 \in 1..Len(toServer) /\ Head(toServer) = toServer[1]
        /\ Says(toServer, "DATA") <=> Head(toServer).say = "DATA" \/ Says(Tail(toServer), "DATA")
    BY ONLY <1>0, <2>1, SaysTail
  <2>4. \A i \in 1..Len(toServer) : toServer[i].say = "DATA" => i = Len(toServer)
    BY DEF DataIsLast
  <2>5. \A i \in 1..Len(toServer') : toServer'[i].say = "DATA" => i = Len(toServer')
    <3>1. PICK m \in Nat : m = Len(toServer)
      BY ONLY <2>3
    <3>2. \A i \in 1..m - 1 : i + 1 \in 1..m /\ Tail(toServer)[i] = toServer[i + 1]
      BY ONLY <2>3, <3>1
    <3>3. \A i \in 1..m : toServer[i].say = "DATA" => i = m
      BY ONLY <2>4, <3>1
    <3>4. ASSUME NEW i \in 1..m - 1, Tail(toServer)[i].say = "DATA" PROVE i = m - 1
      <4>1. i + 1 \in 1..m /\ toServer[i + 1].say = "DATA"
        BY ONLY <3>2, <3>4
      <4>2. i + 1 = m
        BY ONLY <3>3, <4>1
      <4> QED
        BY ONLY <4>2, m \in Nat, i \in 1..m - 1
    <3> QED
      BY ONLY <2>1, <2>3, <3>1, <3>4
  <2>6. Says(toServer', "DATA") => Says(toServer, "DATA")
    BY ONLY <2>1, <2>3
  <2>7. IsText(toServer) => IsText(toServer')
    BY ONLY <1>0, <2>1, TextOf
  <2>8. CASE granted' = granted /\ server' = server
    BY <2>1, <2>2, <2>5, <2>6, <2>7, <2>8 DEF DataIsLast
  <2>9. CASE granted' = granted \cup {Head(toServer).say}
             /\ server' = IF Head(toServer).say = "DATA" THEN "data" ELSE server
    <3>1. CASE Head(toServer).say = "DATA"
      <4>1. Len(toServer) = 1 /\ Says(toServer, "DATA")
        BY ONLY <2>3, <2>4, <3>1
      <4>2. toServer' = <<>>
        <5>1. Len(toServer') = 0
          BY ONLY <2>1, <2>3, <4>1
        <5>2. toServer' \in Seq(Items)
          BY ONLY <1>0, <2>1, TailIs
        <5> QED
          BY ONLY <5>1, <5>2
      <4>3. "DATA" \notin granted
        BY <1>t, <4>1 DEF DataIsLast
      <4>4. accepted = <<>> /\ ((at = "DATA" /\ reading) \/ at \in {"compose", "END", "over"})
        BY <4>1, <4>3 DEF DataIsLast
      <4>5. "DATA" \in granted' /\ server' = "data"
        BY <2>9, <3>1
      <4>6. Len(toServer') = 0
        BY ONLY <4>2
      <4>7. IsText(toServer') /\ (\A i \in 1..Len(toServer') : toServer'[i].say = "DATA" => i = Len(toServer'))
        BY ONLY <4>6 DEF IsText
      <4> QED
        BY <2>1, <2>2, <4>2, <4>4, <4>5, <4>7 DEF DataIsLast
    <3>2. CASE Head(toServer).say # "DATA"
      <4>1. ("DATA" \in granted' <=> "DATA" \in granted) /\ server' = server
        BY <2>9, <3>2
      <4> QED
        BY <2>1, <2>2, <2>5, <2>6, <2>7, <4>1 DEF DataIsLast
    <3> QED
      BY ONLY <3>1, <3>2
  <2> QED
    BY <1>10, <2>8, <2>9 DEF Command
<1>11. CASE Data
  <2>1. /\ server = "data" /\ toServer # <<>> /\ toServer' = Tail(toServer)
        /\ UNCHANGED <<granted, pkg, at, reading>>
        /\ \/ server' = "data" /\ accepted' = accepted
           \/ server' = "commands" /\ mail' = <<>>
    BY <1>11 DEF Data, client, package
  <2>2. /\ "DATA" \in granted /\ IsText(toServer) /\ accepted = <<>> /\ pkg # "none"
        /\ ((at = "DATA" /\ reading) \/ at \in {"compose", "END", "over"})
    BY <2>1 DEF DataIsLast
  <2>3. toServer' \in Seq(Items) /\ IsText(toServer')
    BY ONLY <1>0, <2>1, <2>2, TextOf, TailIs
  <2>4. ~Says(toServer', "DATA")
    <3>1. PICK q \in Seq(Items) : q = toServer'
      BY ONLY <2>3
    <3>2. "DATA" \in Commands
      BY DEF Commands, Steps
    <3> QED
      BY ONLY <2>3, <3>1, <3>2, TextOf
  <2> QED
    BY <2>1, <2>2, <2>3, <2>4 DEF DataIsLast, Says
<1>12. CASE Close
  <2>1. server' = "closed" /\ toServer' = <<>> /\ UNCHANGED <<granted, mail, accepted, pkg, at, reading>>
    BY <1>12 DEF Close, client, package
  <2> QED
    BY <2>1 DEF DataIsLast, IsText, Says
<1>13. ASSUME NEW l \in {"text", "dot"}, WriteLine(l) PROVE DataIsLast'
  <2>1. UNCHANGED <<granted, mail, accepted, server, toServer, pkg, at, reading>>
    BY <1>13 DEF WriteLine, client, peer
  <2> QED
    BY <1>a, <2>1
<1>14. CASE Flush \/ Drop
  <2>1. pkg = "app" /\ pkg' # "none" /\ UNCHANGED <<granted, mail, accepted, server, toServer, at, reading>>
    BY <1>14 DEF Flush, Drop, peer
  <2> QED
    BY <1>a, <2>1
<1>16. CASE UNCHANGED vars
  BY <1>a, <1>16 DEF vars, client, package, peer
<1> QED
  BY <1>1, <1>2, <1>3, <1>4, <1>5, <1>6, <1>7, <1>8, <1>9, <1>10, <1>11, <1>12, <1>13, <1>14, <1>16
     DEF Next, Chain, Serve

(* The server says 250 after 354 only when it accepts the message.           *)
LEMMA AnswersFollowStep ==
  ASSUME MailAssumption, Types, OneStep, Chained, DataIsLast, AnswersFollow, [Next]_vars, ~astray'
  PROVE  AnswersFollow'
<1>0. /\ toServer \in Seq(Items) /\ buf \in Seq(Nat) /\ toClient \in Seq(Nat)
      /\ MaxExtra \in Nat /\ extra \in 0..MaxExtra
  BY DEF Types, MailAssumption
<1>a. ASSUME Stream' = Stream, accepted' = accepted, granted' = granted,
             at' \in {"compose", "END"} => at \in {"compose", "END"},
             results' = <<TRUE>> => results = <<TRUE>>
      PROVE  AnswersFollow'
  BY ONLY <1>a, AnswersFollow DEF AnswersFollow
<1>b. ASSUME buf' = buf, toClient' = toClient
      PROVE  Stream' = Stream
  BY <1>b DEF Stream
<1>c. Append(<<>>, FALSE) # <<TRUE>>
  OBVIOUS
<1>d. at # "over" => results = <<>>
  BY DEF Chained
<1>1. CASE NotConnected \/ Connected
  BY <1>1, <1>a, <1>b, <1>c, <1>d DEF NotConnected, Connected, peer
<1>3. CASE Written
  BY <1>3, <1>a, <1>b DEF Written, peer
<1>4. CASE WriteFails
  <2>1. UNCHANGED <<buf, toClient, accepted, granted>> /\ at' \in {at, "over"}
    BY <1>4 DEF WriteFails, peer
  <2>2. results' = results \/ results' = <<FALSE>>
    <3>1. CASE at # "over"
      BY <1>4, <1>d, <3>1, ToldOnce DEF WriteFails
    <3>2. CASE at = "over"
      <4>1. out \in Seq(Writes) /\ out # <<>>
        BY <1>4 DEF Types, WriteFails
      <4>2. 1 \in 1..Len(out) /\ Head(out) = out[1]
        BY <4>1, FrontIs
      <4>3. ~Head(out).step
        BY <3>2, <4>2 DEF OneStep, Steps
      <4> QED
        BY <1>4, <4>3 DEF WriteFails
    <3> QED
      BY ONLY <3>1, <3>2
  <2>3. <<FALSE>> # <<TRUE>>
    OBVIOUS
  <2> QED
    BY <1>a, <1>b, <2>1, <2>2, <2>3
<1>5. CASE Receive
  <2>1. Stream' = Stream
    BY <1>0, <1>5, ReceiveKeeps
  <2> QED
    BY <1>5, <1>a, <2>1 DEF Receive, peer
<1>6. CASE ReadFails
  <2>1. UNCHANGED <<buf, toClient, accepted, granted>> /\ at' = "over" /\ results' = Append(results, FALSE) /\ reading
    BY <1>6 DEF ReadFails, peer
  <2>2. results = <<>>
    BY <1>d, <2>1 DEF OneStep, Steps
  <2>3. results' # <<TRUE>>
    BY ONLY <1>c, <2>1, <2>2
  <2> QED
    BY <1>a, <1>b, <2>1, <2>3
<1>7. CASE Answered
  <2>1. UNCHANGED <<accepted, granted>> /\ reading
    BY <1>7 DEF Answered, peer
  <2>2. /\ Stream' = toClient
        /\ \A x : Has(Stream', x) => Has(Stream, x)
        /\ \A x, y : Before(Stream', x, y) => Before(Stream, x, y)
    BY <1>0, <1>7, AnsweredTakes
  <2>3. results = <<>> /\ at \in Steps \cup {"greeting"}
    BY <1>d, <2>1 DEF OneStep, Steps
  <2>8. (Fail /\ pkg' = pkg) \/ (GoesOn /\ Truly(Expected[at]))
    BY <1>0, <1>7, <2>3, Took
  <2>e. <<FALSE>> # <<TRUE>> /\ <<>> # <<TRUE>>
    OBVIOUS
  <2>4. CASE Fail
    <3>1. at' = "over" /\ results' = <<FALSE>>
      BY <2>3, <2>4, ToldOnce DEF Fail
    <3> QED
      BY <2>1, <2>2, <2>e, <3>1 DEF AnswersFollow
  <2>5. CASE GoesOn /\ Truly(Expected[at]) /\ at = "END"
    <3>1. at' = "over"
      BY <2>5 DEF GoesOn
    <3>2. Has(Stream, 250)
      BY <2>5, Codes DEF Truly
    <3>3. accepted # <<>>
      BY <2>2, <2>5, <3>2 DEF AnswersFollow
    <3> QED
      BY <2>1, <2>2, <3>1, <3>3 DEF AnswersFollow
  <2>6. CASE GoesOn /\ Truly(Expected[at]) /\ at = "DATA"
    <3>1. at' = "compose" /\ results' = <<>>
      BY <2>3, <2>6 DEF GoesOn
    <3>2. \A y : Has(toClient, y) => Before(Stream, 354, y)
      BY <2>6, Codes DEF Truly
    <3>3. Has(Stream', 250) => accepted # <<>>
      BY <2>2, <3>2 DEF AnswersFollow
    <3> QED
      BY <2>1, <2>2, <2>e, <3>1, <3>3 DEF AnswersFollow
  <2>7. CASE GoesOn /\ at \notin {"END", "DATA"}
    <3>1. Step(StepAfter(at))
      BY <2>7 DEF GoesOn
    <3>2. at' \notin {"compose", "END"} /\ results' = <<>>
      <4>1. StepAfter(at) \notin {"compose", "END"}
        BY <2>3, <2>7, Afters DEF Steps
      <4> QED
        BY ONLY <2>3, <3>1, <4>1 DEF Step
    <3> QED
      BY <2>1, <2>2, <2>e, <3>2 DEF AnswersFollow
  <2> QED
    BY ONLY <2>4, <2>5, <2>6, <2>7, <2>8
<1>8. CASE Composed
  BY <1>8, <1>a, <1>b DEF Composed, Step, peer
<1>9. CASE Greet
  <2>1. PICK good \in {220, 550} : Answer(good)
    BY <1>9 DEF Greet, Refusal
  <2>2. server = "greeting" /\ UNCHANGED <<buf, at, results, accepted, granted>>
    BY <1>9 DEF Greet, client
  <2>3. good \in Nat
    OBVIOUS
  <2>4. Heard(good)
    BY ONLY <1>0, <2>1, <2>2, <2>3, AnswerHeard
  <2>5. good # 354 /\ good # 250 /\ 354 # 10 /\ 250 # 10
    OBVIOUS
  <2>6. /\ Has(Stream', 354) => Has(Stream, 354)
        /\ Has(Stream', 250) => Has(Stream, 250)
        /\ Before(Stream', 354, 250) => Before(Stream, 354, 250)
    BY ONLY <2>4, <2>5 DEF Heard
  <2>7. at' = at /\ results' = results /\ accepted' = accepted /\ granted' = granted
    BY ONLY <2>2
  <2>8. /\ Has(Stream, 354) => "DATA" \in granted
        /\ Before(Stream, 354, 250) => accepted # <<>>
        /\ at \in {"compose", "END"} /\ Has(Stream, 250) => accepted # <<>>
        /\ results = <<TRUE>> => accepted # <<>>
    BY ONLY AnswersFollow DEF AnswersFollow
  <2>9. Has(Stream', 354) => "DATA" \in granted'
    BY ONLY <2>6, <2>7, <2>8
  <2>10. Before(Stream', 354, 250) => accepted' # <<>>
    BY ONLY <2>6, <2>7, <2>8
  <2>11. at' \in {"compose", "END"} /\ Has(Stream', 250) => accepted' # <<>>
    BY ONLY <2>6, <2>7, <2>8
  <2>12. results' = <<TRUE>> => accepted' # <<>>
    BY ONLY <2>7, <2>8
  <2> QED
    BY ONLY <2>9, <2>10, <2>11, <2>12 DEF AnswersFollow
<1>10. CASE Command
  <2>1. /\ server = "commands" /\ toServer # <<>>
        /\ UNCHANGED <<buf, at, results, accepted>> /\ granted \subseteq granted'
    BY <1>10 DEF Command, client
  <2>2. PICK good \in {220, 235, 250, 334, 354, 550} :
          /\ Answer(good)
          /\ good = 354 => "DATA" \in granted'
          /\ good = 250 => "DATA" \notin granted
    <3>1. CASE Answer(Refusal)
      BY <3>1 DEF Refusal
    <3>2. CASE /\ Head(toServer).say \in Steps \ {"END"} /\ Answer(Expected[Head(toServer).say])
               /\ granted' = granted \cup {Head(toServer).say}
      <4>1. PICK s \in Steps \ {"END"} : s = Head(toServer).say
        BY <3>2
      <4>2. Expected[s] \in {220, 235, 250, 334, 354, 550} /\ (Expected[s] = 354 => s = "DATA")
        BY Codes DEF Steps
      <4>3. "DATA" \notin granted
        <5>1. "DATA" \in granted => Head(toServer) \in TextLines
          <6>1. "DATA" \in granted => IsText(toServer)
            BY DEF DataIsLast
          <6> QED
            BY ONLY <1>0, <2>1, <6>1, TextOf
        <5>2. \A x \in TextLines : x.say \notin Steps
          BY ItemsAre DEF Steps
        <5> QED
          BY <3>2, <5>1, <5>2
      <4> QED
        BY <3>2, <4>1, <4>2, <4>3
    <3> QED
      BY <1>10, <3>1, <3>2 DEF Command
  <2>3. good \in Nat
    OBVIOUS
  <2>4. /\ Has(Stream', 354) => Has(Stream, 354) \/ good = 354
        /\ Has(Stream', 250) => Has(Stream, 250) \/ good = 250
        /\ Before(Stream', 354, 250) =>
             Before(Stream, 354, 250) \/ ((Has(Stream, 354) \/ good = 354) /\ good = 250)
    <3>1. Heard(good)
      BY ONLY <1>0, <2>1, <2>2, <2>3, AnswerHeard
    <3>2. 354 # 10 /\ 250 # 10
      OBVIOUS
    <3> QED
      BY ONLY <3>1, <3>2 DEF Heard
  <2>5. 354 # 10 /\ 250 # 10 /\ 354 # 250
    OBVIOUS
  <2>6. at \in {"compose", "END"} => "DATA" \in granted
    BY DEF Chained, DataIsLast
  <2>7. Has(Stream', 354) => "DATA" \in granted'
    BY <2>1, <2>2, <2>4, <2>5 DEF AnswersFollow
  <2>8. Before(Stream', 354, 250) => accepted # <<>>
    <3>1. ASSUME Before(Stream', 354, 250), ~Before(Stream, 354, 250) PROVE FALSE
      <4>1. (Has(Stream, 354) \/ good = 354) /\ good = 250
        BY ONLY <2>4, <2>5, <3>1
      <4>2. "DATA" \in granted
        BY <4>1 DEF AnswersFollow
      <4> QED
        BY <2>2, <4>1, <4>2
    <3> QED
      BY <3>1 DEF AnswersFollow
  <2>9. at \in {"compose", "END"} /\ Has(Stream', 250) => accepted # <<>>
    BY <2>2, <2>4, <2>5, <2>6 DEF AnswersFollow
  <2>10. results' = results /\ accepted' = accepted /\ at' = at
    BY ONLY <2>1
  <2>11. results = <<TRUE>> => accepted # <<>>
    BY DEF AnswersFollow
  <2> QED
    BY ONLY <2>7, <2>8, <2>9, <2>10, <2>11 DEF AnswersFollow
<1>11. CASE Data
  <2>1. server = "data" /\ UNCHANGED <<buf, at, results, granted>> /\ "DATA" \in granted
    BY <1>11 DEF Data, client, DataIsLast
  <2>2. CASE toClient' = toClient /\ accepted' = accepted
    BY <1>a, <1>b, <2>1, <2>2
  <2>3. CASE Answer(250) /\ accepted' = Append(accepted, mail)
    <3>1. accepted' # <<>>
      <4>1. accepted \in Seq(Seq(Items)) /\ mail \in Seq(Items)
        BY DEF Types
      <4> QED
        BY ONLY <2>3, <4>1, AppendProperties
    <3> QED
      BY <2>1, <3>1 DEF AnswersFollow
  <2>4. CASE Answer(550) /\ accepted' = accepted
    <3>1. Heard(550)
      <4>1. 550 \in Nat /\ buf' = buf
        BY <2>1
      <4> QED
        BY ONLY <1>0, <2>4, <4>1, AnswerHeard
    <3>2. 550 # 354 /\ 550 # 250 /\ 354 # 10 /\ 250 # 10
      OBVIOUS
    <3>3. /\ Has(Stream', 354) => Has(Stream, 354)
          /\ Has(Stream', 250) => Has(Stream, 250)
          /\ Before(Stream', 354, 250) => Before(Stream, 354, 250)
      BY ONLY <3>1, <3>2 DEF Heard
    <3> QED
      BY <2>1, <2>4, <3>3 DEF AnswersFollow
  <2> QED
    BY <1>11, <2>2, <2>3, <2>4 DEF Data, Refusal
<1>12. CASE Close
  BY <1>a, <1>b, <1>12 DEF Close, client
<1>13. CASE (\E l \in {"text", "dot"} : WriteLine(l)) \/ Flush \/ Drop \/ UNCHANGED vars
  BY <1>13, <1>a, <1>b DEF WriteLine, Flush, Drop, client, peer, vars
<1> QED
  BY <1>1, <1>3, <1>4, <1>5, <1>6, <1>7, <1>8, <1>9, <1>10, <1>11, <1>12, <1>13 DEF Next, Chain, Serve

-----------------------------------------------------------------------------
(* Lock-step.                                                                *)
LEMMA WholeLine ==
  ASSUME buf \in Seq(Nat), toClient \in Seq(Nat), NEW g \in Nat, g # 10, g # 0,
         Stream = <<g, EndOfLine>>, Has(buf, EndOfLine)
  PROVE  toClient = <<>> /\ Head(buf) = g
<1>1. PICK m \in Nat, n \in Nat : m = Len(buf) /\ n = Len(toClient)
  OBVIOUS
<1>2. /\ Len(Stream) = m + n
      /\ \A i \in 1..m : Stream[i] = buf[i]
  BY ONLY <1>1, buf \in Seq(Nat), toClient \in Seq(Nat), ConcatIs DEF Stream
<1>3. Len(Stream) = 2 /\ Stream[1] = g
  <2>1. PICK e : e = EndOfLine /\ Stream = <<g, e>>
    OBVIOUS
  <2> QED
    BY ONLY <2>1
<1>4. m + n = 2
  BY ONLY <1>2, <1>3
<1>5. PICK k \in 1..m : buf[k] = 10
  BY ONLY <1>1, Has(buf, EndOfLine) DEF Has, EndOfLine
<1>6. 1 \in 1..m
  BY ONLY <1>4, <1>5, m \in Nat
<1>7. buf[1] = g
  BY ONLY <1>2, <1>3, <1>6
<1>8. k # 1
  BY ONLY <1>5, <1>7, g # 10
<1>9. n = 0
  BY ONLY <1>4, <1>8, k \in 1..m, m \in Nat, n \in Nat
<1>10. toClient = <<>>
  BY ONLY <1>1, <1>9, toClient \in Seq(Nat), EmptySeq
<1>11. Head(buf) = g
  BY ONLY <1>1, <1>6, <1>7, buf \in Seq(Nat)
<1> QED
  BY ONLY <1>10, <1>11

(* With one line per answer the two keep in step.                            *)
LEMMA InLockStepStep ==
  ASSUME MailAssumption, Types, OneStep, Chained, DataIsLast, InLockStep, [Next]_vars, ~astray'
  PROVE  InLockStep'
<1>0. /\ toServer \in Seq(Items) /\ buf \in Seq(Nat) /\ toClient \in Seq(Nat)
      /\ MaxExtra \in Nat /\ extra \in 0..MaxExtra
  BY DEF Types, MailAssumption
<1>m. \A s \in Commands : Message(s)' = Message(s)
  BY MessageStays DEF Commands
<1>a. ASSUME Stream' = Stream, server' = server, grumbled' = grumbled, extra' = extra,
             at' = at, toServer' = toServer, reading' = reading, results' = results
      PROVE  InLockStep'
  <2>1. Quiet' => Quiet
    BY <1>a DEF Quiet
  <2>2. ASSUME Aligned PROVE Aligned'
    <3>1. /\ (at = "greeting" =>
                 /\ toServer = <<>>
                 /\ \/ server = "greeting" /\ Stream = <<>>
                    \/ server = "commands" /\ Stream = <<220, EndOfLine>>)'
          /\ (at \in {"compose", "END"} =>
                 \/ server = "data" /\ Stream = <<>>
                 \/ server = "commands" /\ Stream = <<250, EndOfLine>>)'
          /\ (at = "over" => results = <<TRUE>>)'
      BY ONLY <1>a, Aligned DEF Aligned
    <3>2. ASSUME NEW s \in Commands, at' = s
          PROVE  (\/ /\ server = "commands" /\ Stream = <<>>
                     /\ toServer = IF reading THEN Message(s) ELSE <<>>
                  \/ /\ reading /\ server = (IF s = "DATA" THEN "data" ELSE "commands")
                     /\ toServer = <<>> /\ Stream = <<Expected[s], EndOfLine>>)'
      <4>1. at = s /\ Message(s)' = Message(s)
        BY ONLY <1>a, <1>m, <3>2, s \in Commands
      <4>2. \/ /\ server = "commands" /\ Stream = <<>>
               /\ toServer = IF reading THEN Message(s) ELSE <<>>
            \/ /\ reading /\ server = (IF s = "DATA" THEN "data" ELSE "commands")
               /\ toServer = <<>> /\ Stream = <<Expected[s], EndOfLine>>
        BY ONLY Aligned, <4>1, s \in Commands DEF Aligned
      <4> QED
        BY ONLY <1>a, <4>1, <4>2
    <3> QED
      BY ONLY <3>1, <3>2 DEF Aligned
  <2> QED
    BY <2>1, <2>2 DEF InLockStep
<1>b. ASSUME buf' = buf, toClient' = toClient
      PROVE  Stream' = Stream
  BY <1>b DEF Stream
<1>1. CASE NotConnected
  <2>1. server' = "absent"
    BY <1>1 DEF NotConnected, peer, Chained
  <2> QED
    BY <2>1 DEF InLockStep, Quiet
<1>2. CASE Connected
  <2>1. /\ at' = "greeting" /\ server' = "greeting" /\ toServer' = <<>> /\ buf' = <<>> /\ toClient' = <<>>
    BY <1>2 DEF Connected, Chained
  <2>2. Stream' = <<>>
    BY <2>1 DEF Stream
  <2> QED
    BY <2>1, <2>2 DEF InLockStep, Aligned, Commands, Steps
<1>3. CASE Written
  <2>1. /\ UNCHANGED <<at, results, server, grumbled, extra>>
        /\ \/ /\ pkg = "none" /\ ~reading /\ reading' /\ at \in Commands
              /\ \/ server = "closed"
                 \/ \E x \in Items : toServer' = toServer \o <<x>> /\ Message(at) = <<x>>
           \/ at \in {"compose", "END", "over"}
    BY <1>3, WrittenBrings
  <2>2. Stream' = Stream
    BY <1>3, <1>b DEF Written
  <2>3. CASE server = "closed"
    BY <2>1, <2>3 DEF InLockStep, Quiet
  <2>4. CASE at \in {"compose", "END", "over"}
    BY <2>1, <2>2, <2>4 DEF InLockStep, Aligned, Quiet, Commands, Steps
  <2>5. ASSUME ~reading, reading', at \in Commands, Quiet,
               NEW x \in Items, toServer' = toServer \o <<x>>, Message(at) = <<x>>
        PROVE  Aligned'
    <3>1. server = "commands" /\ Stream = <<>> /\ toServer = <<>>
      BY <2>5 DEF InLockStep, Aligned
    <3>2. toServer' = <<x>>
      BY <2>5, <3>1
    <3> QED
      BY <1>m, <2>1, <2>2, <2>5, <3>1, <3>2 DEF Aligned, Commands, Steps
  <2>6. Quiet' => Quiet
    BY <2>1 DEF Quiet
  <2> QED
    BY <2>1, <2>3, <2>4, <2>5, <2>6 DEF InLockStep
<1>4. CASE WriteFails \/ ReadFails \/ Close
  <2>1. server' = "closed"
    BY <1>4 DEF WriteFails, ReadFails, Close, peer
  <2> QED
    BY <2>1 DEF InLockStep, Quiet
<1>5. CASE Receive
  <2>1. Stream' = Stream
    BY <1>0, <1>5, ReceiveKeeps
  <2> QED
    BY <1>5, <1>a, <2>1 DEF Receive, peer
<1>7. CASE Answered
  <2>1. reading /\ ~reading' /\ UNCHANGED <<toServer, toClient, server, grumbled, extra>>
    BY <1>7 DEF Answered, peer
  <2>2. at \in Commands \cup {"greeting", "END"} /\ results = <<>>
    BY <2>1 DEF OneStep, Chained, Commands, Steps
  <2>3. Stream' = toClient /\ Has(buf, EndOfLine) /\ Has(Stream, EndOfLine)
    <3>1. Stream' = toClient /\ Has(buf, EndOfLine)
      BY <1>0, <1>7, AnsweredTakes
    <3> QED
      BY ONLY <1>0, <3>1, HasConcat DEF Stream
  <2>4. Stream # <<>>
    BY ONLY <2>3 DEF Has
  <2>5. ASSUME Quiet
        PROVE  /\ Stream = <<Expected[at], EndOfLine>>
               /\ at # "END" => toServer = <<>>
               /\ at = "DATA" => server = "data"
               /\ at # "DATA" => server = "commands"
    <3>1. Aligned
      BY <2>5 DEF InLockStep
    <3>2. CASE at = "greeting"
      BY <2>4, <3>1, <3>2, Codes DEF Aligned
    <3>3. CASE at = "END"
      <4>1. server = "commands" /\ Stream = <<250, EndOfLine>>
        BY <2>4, <3>1, <3>3 DEF Aligned
      <4> QED
        BY <3>3, <4>1, Codes
    <3>4. CASE at \in Commands
      BY <2>4, <3>1, <3>4 DEF Aligned
    <3> QED
      BY <2>2, <3>2, <3>3, <3>4
  <2>6. Quiet' => Quiet
    BY <2>1 DEF Quiet
  <2>7. ASSUME Quiet PROVE GoesOn /\ Stream' = <<>>
    <3>1. Expected[at] \in Nat /\ Expected[at] # 10 /\ Expected[at] # 0
      BY <2>2, Codes DEF Commands, Steps
    <3>2. PICK g \in Nat : g = Expected[at] /\ g # 10 /\ g # 0
      BY ONLY <3>1
    <3>3. Stream = <<g, EndOfLine>>
      BY <2>5, <2>7, <3>2
    <3>4. toClient = <<>> /\ Head(buf) = g
      BY ONLY <1>0, <2>3, <3>2, <3>3, WholeLine
    <3> QED
      <4>1. \A c \in CodesRead : IsExpected(c)
        BY ONLY <3>2, <3>4 DEF CodesRead, IsExpected, EndOfLine
      <4>2. ~CodeIsAccident
        BY ONLY <3>2, <3>4 DEF CodeIsAccident, EndOfLine
      <4>3. GoesOn
        BY ONLY <1>7, <4>1, <4>2 DEF Answered
      <4> QED
        BY ONLY <2>3, <3>4, <4>3
  <2>8. ASSUME Quiet, at = "END" PROVE Aligned'
    <3>1. at' = "over" /\ results' = Append(results, TRUE)
      BY <2>7, <2>8 DEF GoesOn
    <3>2. results' = <<TRUE>>
      BY ONLY <2>2, <3>1, ToldOnce
    <3> QED
      BY ONLY <3>1, <3>2 DEF Aligned, Commands, Steps
  <2>9. ASSUME Quiet, at = "DATA" PROVE Aligned'
    <3>1. at' = "compose"
      BY <2>7, <2>9 DEF GoesOn
    <3>2. server' = "data" /\ Stream' = <<>>
      BY <2>1, <2>5, <2>7, <2>9
    <3> QED
      BY ONLY <3>1, <3>2 DEF Aligned, Commands, Steps
  <2>10. ASSUME Quiet, at \notin {"END", "DATA"} PROVE Aligned'
    <3>1. at' = StepAfter(at)
      BY <2>7, <2>10 DEF GoesOn, Step
    <3>2. at' \in Commands
      BY <2>2, <2>10, <3>1, Afters DEF Commands, Steps
    <3>3. server' = "commands" /\ Stream' = <<>> /\ toServer' = <<>> /\ ~reading'
      BY <2>1, <2>5, <2>7, <2>10
    <3> QED
      BY ONLY <3>2, <3>3 DEF Aligned, Commands, Steps
  <2> QED
    BY ONLY <2>6, <2>8, <2>9, <2>10 DEF InLockStep
<1>8. CASE Composed
  <2>1. at = "compose" /\ at' = "END" /\ UNCHANGED <<server, buf, toClient, grumbled, extra>>
    BY <1>8 DEF Composed, Step, peer
  <2>2. Stream' = Stream
    BY <1>b, <2>1
  <2> QED
    BY <2>1, <2>2 DEF InLockStep, Quiet, Aligned, Commands, Steps
<1>9. CASE Greet
  <2>1. /\ server = "greeting" /\ server' = "commands"
        /\ UNCHANGED <<buf, at, results, toServer>>
    BY <1>9 DEF Greet, client
  <2>2. ASSUME Quiet' PROVE Answer(220) /\ ~grumbled /\ extra' = 0
    BY <1>9, <2>2 DEF Greet, Quiet
  <2>3. ASSUME Quiet' PROVE Quiet /\ Stream' = Stream \o <<220, EndOfLine>>
    <3>1. 220 \in Nat
      OBVIOUS
    <3>2. extra = 0 /\ Stream' = Stream \o <<220, EndOfLine>>
      BY ONLY <1>0, <2>1, <2>2, <2>3, <3>1, AnswerAdds
    <3> QED
      BY <2>1, <2>2, <2>3, <3>2 DEF Quiet
  <2>4. ASSUME Quiet' PROVE Aligned'
    <3>1. Aligned
      BY <2>3, <2>4 DEF InLockStep
    <3>2. at \in {"greeting", "over"}
      <4>1. at \notin {"compose", "END"} /\ at \notin Commands
        BY <2>1, <3>1 DEF Aligned
      <4> QED
        BY <2>1, <4>1 DEF Types, Chained, Commands
    <3>3. CASE at = "over"
      BY <2>1, <3>1, <3>3 DEF Aligned, Commands, Steps
    <3>4. CASE at = "greeting"
      <4>1. Stream = <<>> /\ toServer = <<>>
        BY <2>1, <3>1, <3>4 DEF Aligned
      <4>2. Stream' = <<220, EndOfLine>>
        BY <2>3, <2>4, <4>1
      <4> QED
        BY <2>1, <3>4, <4>1, <4>2 DEF Aligned, Commands, Steps
    <3> QED
      BY ONLY <3>2, <3>3, <3>4
  <2> QED
    BY ONLY <2>4 DEF InLockStep
<1>10. CASE Command
  <2>1. /\ server = "commands" /\ toServer # <<>> /\ toServer' = Tail(toServer)
        /\ UNCHANGED <<buf, at, results, reading>>
    BY <1>10 DEF Command, client
  <2>2. ASSUME Quiet'
        PROVE  /\ Head(toServer).say \in Commands /\ Answer(Expected[Head(toServer).say])
               /\ server' = (IF Head(toServer).say = "DATA" THEN "data" ELSE "commands")
               /\ ~grumbled /\ extra' = 0
    BY <1>10, <2>2 DEF Command, Quiet, Commands
  <2>3. ASSUME Quiet'
        PROVE  Quiet /\ Stream' = Stream \o <<Expected[Head(toServer).say], EndOfLine>>
    <3>1. Expected[Head(toServer).say] \in Nat
      BY <2>2, <2>3, Codes DEF Commands, Steps
    <3>2. PICK g \in Nat : g = Expected[Head(toServer).say]
      BY ONLY <3>1
    <3>3. Answer(g) /\ extra' = 0
      BY <2>2, <2>3, <3>2
    <3>4. extra = 0 /\ Stream' = Stream \o <<g, EndOfLine>>
      BY ONLY <1>0, <2>1, <3>3, AnswerAdds
    <3> QED
      BY <2>1, <2>2, <2>3, <3>2, <3>4 DEF Quiet
  <2>4. ASSUME Quiet' PROVE Aligned'
    <3>1. Aligned
      BY <2>3, <2>4 DEF InLockStep
    <3>2. at \notin {"compose", "END"}
      <4>1. "DATA" \in granted => Head(toServer) \in TextLines
        <5>1. "DATA" \in granted => IsText(toServer)
          BY DEF DataIsLast
        <5> QED
          BY ONLY <1>0, <2>1, <5>1, TextOf
      <4>2. \A x \in TextLines : x.say \notin Commands
        BY ItemsAre DEF Commands, Steps
      <4>3. "DATA" \notin granted
        BY <2>2, <2>4, <4>1, <4>2
      <4> QED
        BY <4>3 DEF Chained, DataIsLast
    <3>3. at \in Commands \cup {"over"}
      BY <2>1, <3>1, <3>2 DEF Types, Chained, Commands, Aligned
    <3>4. CASE at = "over"
      BY <2>1, <3>1, <3>4 DEF Aligned, Commands, Steps
    <3>5. CASE at \in Commands
      <4>1. Stream = <<>> /\ reading /\ toServer = Message(at)
        BY <2>1, <3>1, <3>5 DEF Aligned
      <4>2. PICK x \in Items : Message(at) = <<x>> /\ x.say = at
        BY <3>5, MessagesTyped DEF Commands
      <4>3. Head(toServer) = x /\ Tail(toServer) = <<>>
        BY <4>1, <4>2
      <4>4. Stream' = <<Expected[at], EndOfLine>>
        BY <2>3, <2>4, <4>1, <4>2, <4>3
      <4>5. /\ server' = (IF at = "DATA" THEN "data" ELSE "commands") /\ toServer' = <<>>
            /\ reading' /\ at' = at
        BY <2>1, <2>2, <2>4, <4>1, <4>2, <4>3
      <4> QED
        BY ONLY <3>5, <4>4, <4>5 DEF Aligned, Commands, Steps
    <3> QED
      BY ONLY <3>3, <3>4, <3>5
  <2> QED
    BY ONLY <2>4 DEF InLockStep
<1>11. CASE Data
  <2>1. server = "data" /\ toServer # <<>> /\ UNCHANGED <<buf, at, results, reading>>
    BY <1>11 DEF Data, client
  <2>2. ASSUME Aligned PROVE (at \in {"compose", "END"} /\ Stream = <<>>) \/ at = "over"
    <3>1. at # "greeting" /\ at \notin Commands
      BY <2>1, <2>2 DEF Aligned
    <3> QED
      BY <2>1, <2>2, <3>1 DEF Aligned, Types, Chained, Commands
  <2>3. CASE UNCHANGED <<server, grumbled, toClient, extra>>
    <3>1. Stream' = Stream
      BY <1>b, <2>1, <2>3
    <3>2. Quiet' => Aligned
      BY <2>3 DEF Quiet, InLockStep
    <3> QED
      BY <2>1, <2>2, <2>3, <3>1, <3>2 DEF InLockStep, Aligned, Commands, Steps
  <2>4. CASE server' = "commands" /\ Answer(250) /\ UNCHANGED grumbled
    <3>1. ASSUME Quiet' PROVE Quiet /\ Stream' = Stream \o <<250, EndOfLine>>
      <4>1. 250 \in Nat /\ extra' = 0
        BY <3>1 DEF Quiet
      <4>2. extra = 0 /\ Stream' = Stream \o <<250, EndOfLine>>
        BY ONLY <1>0, <2>1, <2>4, <4>1, AnswerAdds
      <4> QED
        BY <2>1, <2>4, <3>1, <4>2 DEF Quiet
    <3>2. ASSUME Quiet' PROVE Aligned'
      <4>1. Aligned /\ Stream' = Stream \o <<250, EndOfLine>>
        BY <3>1, <3>2 DEF InLockStep
      <4>2. CASE at = "over"
        BY <2>1, <4>1, <4>2 DEF Aligned, Commands, Steps
      <4>3. CASE at \in {"compose", "END"} /\ Stream = <<>>
        <5>1. Stream' = <<250, EndOfLine>>
          BY <4>1, <4>3
        <5> QED
          BY <2>1, <2>4, <4>3, <5>1 DEF Aligned, Commands, Steps
      <4> QED
        BY <2>2, <4>1, <4>2, <4>3
    <3> QED
      BY ONLY <3>2 DEF InLockStep
  <2>5. CASE grumbled' = TRUE
    BY <2>5 DEF InLockStep, Quiet
  <2> QED
    BY <1>11, <2>3, <2>4, <2>5 DEF Data
<1>13. CASE (\E l \in {"text", "dot"} : WriteLine(l)) \/ Flush \/ Drop \/ UNCHANGED vars
  BY <1>13, <1>a, <1>b DEF WriteLine, Flush, Drop, client, peer, vars
<1> QED
  BY <1>1, <1>2, <1>3, <1>4, <1>5, <1>7, <1>8, <1>9, <1>10, <1>11, <1>13 DEF Next, Chain, Serve

-----------------------------------------------------------------------------
(* The login.                                                                *)
LEMMA NoLogin ==
  ASSUME NEW q, NEW l, ~Says(q, "USER"), ~Says(q, "PASS")
  PROVE  InOrder(q, l)
BY DEF InOrder, Says

(* Text is no part of the login.                                             *)
LEMMA TextNoLogin ==
  ASSUME NEW q \in Seq(Items), IsText(q)
  PROVE  ~Says(q, "USER") /\ ~Says(q, "PASS")
BY TextOf DEF Commands, Steps

(* The second element of a pair.                                             *)
LEMMA AppendToOne ==
  ASSUME NEW a, NEW b
  PROVE  Append(<<a>>, b) = <<a, b>>
<1>1. <<a>> \in Seq({a, b}) /\ b \in {a, b}
  OBVIOUS
<1>2. Len(<<a>>) = 1 /\ <<a>>[1] = a /\ Len(<<a, b>>) = 2 /\ <<a, b>> \in Seq({a, b})
  OBVIOUS
<1>3. /\ Append(<<a>>, b) \in Seq({a, b}) /\ Len(Append(<<a>>, b)) = 2
      /\ Append(<<a>>, b)[2] = b /\ Append(<<a>>, b)[1] = a
  BY <1>1, <1>2, AppendProperties
<1>4. \A i \in 1..2 : Append(<<a>>, b)[i] = <<a, b>>[i]
  BY <1>3
<1> QED
  BY ONLY <1>2, <1>3, <1>4, SeqEqual

(* The server gets nothing, the name, or the name and the password.          *)
LEMMA LoginsAre ==
  /\ Append(<<>>, UserItem.text) = <<UserItem.text>>
  /\ Append(<<UserItem.text>>, PassItem.text) = <<UserItem.text, PassItem.text>>
  /\ <<UserItem.text>> # <<UserItem.text, PassItem.text>>
  /\ <<>> # <<UserItem.text>> /\ <<>> # <<UserItem.text, PassItem.text>>
<1>1. PICK a, b : a = UserItem.text /\ b = PassItem.text
  OBVIOUS
<1>2. /\ Append(<<>>, a) = <<a>> /\ Append(<<a>>, b) = <<a, b>> /\ <<a>> # <<a, b>>
      /\ <<>> # <<a>> /\ <<>> # <<a, b>>
  <2>1. Append(<<>>, a) = <<a>> /\ Append(<<a>>, b) = <<a, b>>
    BY AppendToOne
  <2>2. Len(<<a>>) = 1 /\ Len(<<a, b>>) = 2 /\ Len(<<>>) = 0
    OBVIOUS
  <2>3. 1 # 2 /\ 0 # 1 /\ 0 # 2
    OBVIOUS
  <2> QED
    BY ONLY <2>1, <2>2, <2>3
<1> QED
  BY ONLY <1>1, <1>2

(* A command more keeps the order of the login if it comes last.             *)
LEMMA InOrderMore ==
  ASSUME NEW q \in Seq(Items), NEW x \in Items, NEW l, InOrder(q, l),
         x.say = "USER" => l = <<>> /\ ~Says(q, "USER") /\ ~Says(q, "PASS"),
         x.say = "PASS" =>
           /\ ~Says(q, "PASS") /\ l # <<UserItem.text, PassItem.text>>
           /\ l = <<>> => Says(q, "USER")
  PROVE  InOrder(q \o <<x>>, l)
<1>1. PICK r : r = q \o <<x>>
  OBVIOUS
<1>2. PICK m \in Nat : m = Len(q)
  BY SaysMore
<1>3. /\ Len(r) = m + 1 /\ r[m + 1] = x
      /\ \A i \in 1..m : r[i] = q[i]
      /\ \A i \in 1..m + 1 : i \in 1..m \/ i = m + 1
  BY <1>1, <1>2, SaysMore
<1>4. /\ \A i \in 1..m : \A k \in 1..i - 1 : k \in 1..m
      /\ \A k \in 1..(m + 1) - 1 : k \in 1..m
      /\ \A k \in 1..m : k \in 1..(m + 1) - 1
  OBVIOUS
<1>5. ASSUME NEW i \in 1..m
      PROVE  /\ r[i].say = "USER" => l = <<>> /\ \A k \in 1..i - 1 : r[k].say \notin {"USER", "PASS"}
             /\ r[i].say = "PASS" =>
                  /\ l # <<UserItem.text, PassItem.text>> /\ \A k \in 1..i - 1 : r[k].say # "PASS"
                  /\ l = <<>> => \E k \in 1..i - 1 : r[k].say = "USER"
  <2>1. r[i] = q[i] /\ \A k \in 1..i - 1 : r[k] = q[k]
    BY ONLY <1>3, <1>4, i \in 1..m
  <2>2. /\ q[i].say = "USER" => l = <<>> /\ \A k \in 1..i - 1 : q[k].say \notin {"USER", "PASS"}
        /\ q[i].say = "PASS" =>
             /\ l # <<UserItem.text, PassItem.text>> /\ \A k \in 1..i - 1 : q[k].say # "PASS"
             /\ l = <<>> => \E k \in 1..i - 1 : q[k].say = "USER"
    BY ONLY <1>2, InOrder(q, l), i \in 1..m DEF InOrder
  <2> QED
    BY ONLY <2>1, <2>2
<1>6. CASE x.say = "USER"
  <2>1. l = <<>> /\ \A k \in 1..m : r[k].say \notin {"USER", "PASS"}
    BY <1>2, <1>3, <1>6 DEF Says
  <2>2. \A k \in 1..(m + 1) - 1 : r[k].say \notin {"USER", "PASS"}
    BY ONLY <1>4, <2>1
  <2>3. r[m + 1].say = "USER"
    BY ONLY <1>3, <1>6
  <2> QED
    BY ONLY <1>1, <1>3, <1>5, <2>1, <2>2, <2>3 DEF InOrder
<1>7. CASE x.say = "PASS"
  <2>1. /\ l # <<UserItem.text, PassItem.text>> /\ \A k \in 1..m : r[k].say # "PASS"
        /\ l = <<>> => \E k \in 1..m : r[k].say = "USER"
    BY <1>2, <1>3, <1>7 DEF Says
  <2>2. /\ \A k \in 1..(m + 1) - 1 : r[k].say # "PASS"
        /\ l = <<>> => \E k \in 1..(m + 1) - 1 : r[k].say = "USER"
    BY ONLY <1>4, <2>1
  <2>3. r[m + 1].say = "PASS"
    BY ONLY <1>3, <1>7
  <2> QED
    BY ONLY <1>1, <1>3, <1>5, <2>1, <2>2, <2>3 DEF InOrder
<1>8. CASE x.say \notin {"USER", "PASS"}
  BY ONLY <1>1, <1>3, <1>5, <1>8 DEF InOrder
<1> QED
  BY ONLY <1>6, <1>7, <1>8

Got(c, l) == IF c.say \in {"USER", "PASS"} THEN Append(l, c.text) ELSE l

(* A command that the server reads leaves the rest in order.                 *)
LEMMA InOrderLess ==
  ASSUME NEW q \in Seq(Items), q # <<>>, NEW l \in Logins, InOrder(q, l)
  PROVE  /\ InOrder(Tail(q), Got(Head(q), l)) /\ Got(Head(q), l) \in Logins
         /\ Head(q).say = "USER" => l = <<>> /\ Got(Head(q), l) = <<UserItem.text>>
<1> DEFINE h == Head(q)
           r == Tail(q)
<1>1. PICK m \in Nat : m = Len(q) /\ m >= 1
  BY TailIs
<1>2. Len(r) = m - 1 /\ h = q[1] /\ \A i \in 1..m - 1 : r[i] = q[i + 1]
  BY ONLY <1>1, q # <<>>, q \in Seq(Items), TailIs
<1>3. h \in Items
  BY TailIs
<1> HIDE DEF h, r
<1>4. /\ h.say = "USER" => h = UserItem
      /\ h.say = "PASS" => h = PassItem
  BY ONLY <1>3, ItemsAre
<1>5. /\ 1 \in 1..m /\ (\A k \in 1..1 - 1 : FALSE)
      /\ \A i \in 1..m - 1 : i + 1 \in 1..m /\ 1 \in 1..(i + 1) - 1
      /\ \A i \in 1..m - 1 : \A k \in 1..i - 1 : k \in 1..m - 1 /\ k + 1 \in 1..(i + 1) - 1
  <2>1. 1 \in 1..m /\ (\A k \in 1..1 - 1 : FALSE)
    BY ONLY <1>1, m \in Nat
  <2>2. ASSUME NEW i \in 1..m - 1 PROVE i + 1 \in 1..m /\ 1 \in 1..(i + 1) - 1
    BY ONLY m \in Nat, i \in 1..m - 1
  <2>3. ASSUME NEW i \in 1..m - 1, NEW k \in 1..i - 1 PROVE k \in 1..m - 1 /\ k + 1 \in 1..(i + 1) - 1
    BY ONLY m \in Nat, i \in 1..m - 1, k \in 1..i - 1
  <2> QED
    BY ONLY <2>1, <2>2, <2>3
<1>6. \A i \in 1..m - 1 : \A k \in 1..(i + 1) - 1 :
        k = 1 \/ \E j \in 1..i - 1 : j \in 1..m - 1 /\ k = j + 1
  <2> TAKE i \in 1..m - 1
  <2> TAKE k \in 1..(i + 1) - 1
  <2>1. CASE k # 1
    <3>1. k - 1 \in 1..i - 1 /\ k - 1 \in 1..m - 1 /\ k = (k - 1) + 1
      BY <2>1
    <3> QED
      BY ONLY <3>1
  <2> QED
    BY <2>1
<1>7. \A i \in 1..m :
        /\ q[i].say = "USER" => l = <<>> /\ \A k \in 1..i - 1 : q[k].say \notin {"USER", "PASS"}
        /\ q[i].say = "PASS" =>
             /\ l # <<UserItem.text, PassItem.text>> /\ \A k \in 1..i - 1 : q[k].say # "PASS"
             /\ l = <<>> => \E k \in 1..i - 1 : q[k].say = "USER"
  BY ONLY <1>1, InOrder(q, l) DEF InOrder
<1>8. CASE h.say = "USER"
  <2>1. l = <<>>
    BY ONLY <1>2, <1>5, <1>7, <1>8
  <2>2. Got(h, l) = <<UserItem.text>>
    BY ONLY <1>4, <1>8, <2>1, LoginsAre DEF Got
  <2>3. ASSUME NEW i \in 1..m - 1
        PROVE  r[i].say # "USER" /\ (r[i].say = "PASS" => \A k \in 1..i - 1 : r[k].say # "PASS")
    <3>1. q[1].say = "USER" /\ r[i] = q[i + 1] /\ i + 1 \in 1..m /\ 1 \in 1..(i + 1) - 1
      BY ONLY <1>2, <1>5, <1>8, i \in 1..m - 1
    <3>2. q[i + 1].say # "USER"
      BY ONLY <1>7, <3>1
    <3>3. ASSUME r[i].say = "PASS", NEW k \in 1..i - 1 PROVE r[k].say # "PASS"
      <4>1. r[k] = q[k + 1] /\ k + 1 \in 1..(i + 1) - 1
        BY ONLY <1>2, <1>5, i \in 1..m - 1, k \in 1..i - 1
      <4>2. q[k + 1].say # "PASS"
        BY ONLY <1>7, <3>1, <3>3, <4>1
      <4> QED
        BY ONLY <4>1, <4>2
    <3> QED
      BY ONLY <3>1, <3>2, <3>3
  <2>4. InOrder(r, Got(h, l))
    BY ONLY <1>2, <2>2, <2>3, LoginsAre DEF InOrder
  <2> QED
    BY ONLY <2>1, <2>2, <2>4 DEF Logins, h, r
<1>9. CASE h.say = "PASS"
  <2>1. l # <<UserItem.text, PassItem.text>> /\ l # <<>>
    BY ONLY <1>2, <1>5, <1>7, <1>9
  <2>2. l = <<UserItem.text>>
    BY ONLY <2>1, l \in Logins DEF Logins
  <2>3. Got(h, l) = <<UserItem.text, PassItem.text>>
    BY ONLY <1>4, <1>9, <2>2, LoginsAre DEF Got
  <2>4. \A i \in 1..m - 1 : r[i].say # "USER" /\ r[i].say # "PASS"
    BY ONLY <1>2, <1>5, <1>7, <1>9, <2>1
  <2>5. InOrder(r, Got(h, l))
    BY ONLY <1>2, <2>4 DEF InOrder
  <2> QED
    BY ONLY <1>9, <2>3, <2>5 DEF Logins, h, r
<1>10. CASE h.say \notin {"USER", "PASS"}
  <2>1. Got(h, l) = l
    BY ONLY <1>10 DEF Got
  <2>2. ASSUME NEW i \in 1..m - 1
        PROVE  /\ r[i].say = "USER" => l = <<>> /\ \A k \in 1..i - 1 : r[k].say \notin {"USER", "PASS"}
               /\ r[i].say = "PASS" =>
                    /\ l # <<UserItem.text, PassItem.text>> /\ \A k \in 1..i - 1 : r[k].say # "PASS"
                    /\ l = <<>> => \E k \in 1..i - 1 : r[k].say = "USER"
    <3>1. r[i] = q[i + 1] /\ i + 1 \in 1..m
      BY ONLY <1>2, <1>5, i \in 1..m - 1
    <3>2. /\ q[i + 1].say = "USER" => l = <<>> /\ \A k \in 1..(i + 1) - 1 : q[k].say \notin {"USER", "PASS"}
          /\ q[i + 1].say = "PASS" =>
               /\ l # <<UserItem.text, PassItem.text>> /\ \A k \in 1..(i + 1) - 1 : q[k].say # "PASS"
               /\ l = <<>> => \E k \in 1..(i + 1) - 1 : q[k].say = "USER"
      BY ONLY <1>7, <3>1
    <3>3. \A k \in 1..i - 1 : k + 1 \in 1..(i + 1) - 1 /\ r[k] = q[k + 1]
      BY ONLY <1>2, <1>5, i \in 1..m - 1
    <3>4. (\E k \in 1..(i + 1) - 1 : q[k].say = "USER") => \E k \in 1..i - 1 : r[k].say = "USER"
      <4>1. ASSUME NEW k \in 1..(i + 1) - 1, q[k].say = "USER" PROVE \E j \in 1..i - 1 : r[j].say = "USER"
        <5>1. k # 1
          BY ONLY <1>2, <1>10, <4>1
        <5>2. PICK j \in 1..i - 1 : k = j + 1
          BY ONLY <1>6, <5>1, i \in 1..m - 1, k \in 1..(i + 1) - 1
        <5> QED
          BY ONLY <3>3, <4>1, <5>2
      <4> QED
        BY ONLY <4>1
    <3> QED
      BY ONLY <3>1, <3>2, <3>3, <3>4
  <2>3. InOrder(r, l)
    BY ONLY <1>2, <2>2 DEF InOrder
  <2> QED
    BY ONLY <1>10, <2>1, <2>3, l \in Logins DEF h, r
<1> QED
  BY ONLY <1>8, <1>9, <1>10

(* The login follows AUTH, the name first.                                   *)
LEMMA LoginInOrderStep ==
  ASSUME MailAssumption, Types, OneStep, Chained, DataIsLast, LoginInOrder, [Next]_vars, ~astray'
  PROVE  LoginInOrder'
<1>0. /\ toServer \in Seq(Items) /\ buf \in Seq(Nat) /\ toClient \in Seq(Nat)
      /\ MaxExtra \in Nat /\ extra \in 0..MaxExtra /\ reading \in BOOLEAN
  BY DEF Types, MailAssumption
<1>u. UserItem' = UserItem /\ PassItem' = PassItem /\ Logins' = Logins
  BY AccountStays DEF Logins
<1>a. ASSUME at' = at, reading' = reading, toServer' = toServer, login' = login, granted' = granted,
             Has(Stream', 334) => Has(Stream, 334),
             server' # "closed" => server # "closed"
      PROVE  LoginInOrder'
  <2>1. InOrder(toServer, login)' <=> InOrder(toServer, login)
    BY <1>a, <1>u DEF InOrder
  <2>2. \A s : Says(toServer', s) <=> Says(toServer, s)
    BY <1>a
  <2> QED
    BY <1>a, <1>u, <2>1, <2>2 DEF LoginInOrder
(* The chain has left the login, or goes on before it.                       *)
<1>b. ASSUME at' \notin {"USER", "PASS"}, at' \in {"connect", "greeting", "HELO", "AUTH"} => at \in {"connect", "greeting", "HELO"},
             toServer' = toServer, login' = login, granted' = granted,
             Has(Stream', 334) => Has(Stream, 334)
      PROVE  LoginInOrder'
  <2>1. InOrder(toServer, login)' <=> InOrder(toServer, login)
    BY <1>b, <1>u DEF InOrder
  <2>2. \A s : Says(toServer', s) <=> Says(toServer, s)
    BY <1>b
  <2> QED
    BY <1>b, <1>u, <2>1, <2>2 DEF LoginInOrder
<1>c. ASSUME buf' = buf, toClient' = toClient
      PROVE  Stream' = Stream
  BY <1>c DEF Stream
<1>1. CASE NotConnected \/ Connected \/ ReadFails \/ Composed
  BY <1>1, <1>b, <1>c DEF NotConnected, Connected, ReadFails, Composed, Step, peer
<1>3. CASE Written
  <2>1. UNCHANGED <<at, server, granted, login>> /\ Stream' = Stream
    BY <1>3, <1>c, WrittenBrings
  <2>2. CASE pkg # "none"
    <3>1. IsText(toServer') /\ toServer' \in Seq(Items) /\ at \in {"compose", "END", "over"}
      <4>1. IsText(toServer)
        BY <2>2 DEF DataIsLast
      <4>2. \/ toServer' = toServer
            \/ \E r \in Seq(Items) : IsText(r) /\ toServer' = toServer \o r
        BY <1>3, <2>2, WrittenBrings
      <4>3. at \in {"compose", "END", "over"}
        BY <2>2 DEF Chained
      <4> QED
        BY ONLY <1>0, <4>1, <4>2, <4>3, TextOf, ConcatIs
    <3>2. ~Says(toServer', "USER") /\ ~Says(toServer', "PASS")
      BY ONLY <3>1, TextNoLogin
    <3>3. InOrder(toServer, login)'
      <4>1. \A l : InOrder(toServer', l)
        BY ONLY <3>2 DEF InOrder, Says
      <4> QED
        BY ONLY <1>u, <2>1, <4>1 DEF InOrder
    <3> QED
      BY <1>u, <2>1, <3>1, <3>2, <3>3 DEF LoginInOrder
  <2>3. CASE pkg = "none" /\ server = "closed"
    <3>1. ~reading /\ reading' /\ toServer' = toServer
      BY <1>3, <2>3, WrittenBrings
    <3>2. InOrder(toServer, login)' <=> InOrder(toServer, login)
      BY <1>u, <2>1, <3>1 DEF InOrder
    <3>3. \A s : Says(toServer', s) <=> Says(toServer, s)
      BY <3>1
    <3> QED
      BY <1>u, <2>1, <2>3, <3>1, <3>2, <3>3, LoginsAre DEF LoginInOrder
  <2>4. CASE pkg = "none" /\ server # "closed"
    <3>1. PICK x \in Items : x.say = at /\ toServer' = toServer \o <<x>>
      BY <1>3, <2>4, WrittenBrings
    <3>2. ~reading /\ reading' /\ at \in Commands
      BY <1>3, <2>4, WrittenBrings
    <3>3. \A s : Says(toServer', s) <=> Says(toServer, s) \/ at = s
      BY ONLY <1>0, <3>1, SaysMore
    <3>4. InOrder(toServer', login)
      <4>1. x.say = "USER" => login = <<>> /\ ~Says(toServer, "USER") /\ ~Says(toServer, "PASS")
        <5>1. at = "USER" /\ ~reading => login = <<>> /\ ~Says(toServer, "USER") /\ ~Says(toServer, "PASS")
          BY ONLY LoginInOrder DEF LoginInOrder
        <5> QED
          BY ONLY <3>1, <3>2, <5>1
      <4>2. x.say = "PASS" =>
              /\ ~Says(toServer, "PASS") /\ login # <<UserItem.text, PassItem.text>>
              /\ login = <<>> => Says(toServer, "USER")
        <5>1. at = "PASS" /\ ~reading =>
                /\ ~Says(toServer, "PASS") /\ login # <<UserItem.text, PassItem.text>>
                /\ login = <<>> /\ server # "closed" => Says(toServer, "USER")
          BY ONLY LoginInOrder DEF LoginInOrder
        <5> QED
          BY ONLY <2>4, <3>1, <3>2, <5>1
      <4>3. InOrder(toServer, login)
        BY DEF LoginInOrder
      <4> QED
        BY ONLY <1>0, <3>1, <4>1, <4>2, <4>3, InOrderMore
    <3>5. InOrder(toServer, login)'
      BY ONLY <1>u, <2>1, <3>4 DEF InOrder
    <3>6. at \in {"USER", "PASS"} \/ Says(toServer', "USER") \/ Says(toServer', "PASS") \/ login # <<>> =>
            "AUTH" \in granted
      BY <3>3 DEF LoginInOrder
    <3>7. at \in {"connect", "greeting", "HELO", "AUTH"} =>
            login = <<>> /\ ~Says(toServer', "USER") /\ ~Says(toServer', "PASS")
      BY <3>3 DEF LoginInOrder
    <3>8. at = "USER" =>
            /\ ~Says(toServer', "PASS") /\ login # <<UserItem.text, PassItem.text>>
            /\ Says(toServer', "USER")
      BY <3>2, <3>3, LoginsAre DEF LoginInOrder
    <3>9. login \in Logins /\ (Has(Stream, 334) => "AUTH" \in granted)
      BY DEF LoginInOrder
    <3> QED
      BY ONLY <1>u, <2>1, <3>2, <3>5, <3>6, <3>7, <3>8, <3>9 DEF LoginInOrder
  <2> QED
    BY ONLY <2>2, <2>3, <2>4
<1>4. CASE WriteFails
  <2>1. at' \in {at, "over"} /\ reading' = reading /\ UNCHANGED <<buf, toClient, toServer, login, granted, server>>
    BY <1>4 DEF WriteFails, peer
  <2>2. CASE at' = at
    BY <1>a, <1>c, <2>1, <2>2
  <2>3. CASE at' = "over"
    BY <1>b, <1>c, <2>1, <2>3
  <2> QED
    BY <2>1, <2>2, <2>3
<1>5. CASE Receive
  <2>1. Stream' = Stream
    BY <1>0, <1>5, ReceiveKeeps
  <2> QED
    BY <1>5, <1>a, <2>1 DEF Receive, peer
<1>7. CASE Answered
  <2>1. reading /\ ~reading' /\ UNCHANGED <<toServer, login, granted, server>>
    BY <1>7 DEF Answered, peer
  <2>2. \A x : Has(Stream', x) => Has(Stream, x)
    BY <1>0, <1>7, AnsweredTakes
  <2>3. at \in Steps \cup {"greeting"}
    BY <2>1 DEF OneStep
  <2>4. CASE at' \in {"over", "compose"}
    BY <1>b, <2>1, <2>2, <2>4
  <2>6. (Fail /\ pkg' = pkg) \/ (GoesOn /\ Truly(Expected[at]))
    BY <1>0, <1>7, <2>3, Took
  <2>5. CASE Truly(Expected[at]) /\ at' = StepAfter(at) /\ at \notin {"END", "DATA"}
    <3>1. CASE at \notin {"AUTH", "USER"}
      BY <1>b, <2>1, <2>2, <2>3, <2>5, <3>1, Afters DEF Steps
    <3>2. CASE at = "AUTH"
      <4>1. "AUTH" \in granted /\ at' = "USER"
        BY <2>5, <3>2, Codes, Afters DEF Truly, LoginInOrder
      <4>2. login = <<>> /\ ~Says(toServer, "USER") /\ ~Says(toServer, "PASS")
        BY <3>2 DEF LoginInOrder
      <4>3. InOrder(toServer, login)'
        <5>1. InOrder(toServer, login)
          BY DEF LoginInOrder
        <5> QED
          BY <1>u, <2>1, <5>1 DEF InOrder
      <4>4. \A s : Says(toServer', s) <=> Says(toServer, s)
        BY <2>1
      <4>5. login \in Logins
        BY DEF LoginInOrder
      <4> QED
        BY ONLY <1>u, <2>1, <4>1, <4>2, <4>3, <4>4, <4>5 DEF LoginInOrder
    <3>3. CASE at = "USER"
      <4>1. "AUTH" \in granted /\ at' = "PASS"
        BY <2>5, <3>3, Afters DEF LoginInOrder
      <4>2. InOrder(toServer, login)'
        <5>1. InOrder(toServer, login)
          BY DEF LoginInOrder
        <5> QED
          BY <1>u, <2>1, <5>1 DEF InOrder
      <4>3. \A s : Says(toServer', s) <=> Says(toServer, s)
        BY <2>1
      <4> QED
        BY <1>u, <2>1, <3>3, <4>1, <4>2, <4>3 DEF LoginInOrder
    <3> QED
      BY ONLY <3>1, <3>2, <3>3
  <2> QED
    BY <2>4, <2>5, <2>6 DEF GoesOn, Fail, Step
<1>9. CASE Greet
  <2>1. PICK good \in {220, 550} : Answer(good)
    BY <1>9 DEF Greet, Refusal
  <2>2. server = "greeting" /\ UNCHANGED <<buf, at, reading, toServer, login, granted>>
    BY <1>9 DEF Greet, client
  <2>3. good \in Nat
    OBVIOUS
  <2>4. Heard(good)
    BY ONLY <1>0, <2>1, <2>2, <2>3, AnswerHeard
  <2>5. good # 334 /\ 334 # 10
    OBVIOUS
  <2>6. Has(Stream', 334) => Has(Stream, 334)
    BY ONLY <2>4, <2>5 DEF Heard
  <2> QED
    BY <1>a, <2>2, <2>6
<1>10. CASE Command
  <2>1. /\ server = "commands" /\ toServer # <<>> /\ toServer' = Tail(toServer)
        /\ UNCHANGED <<buf, at, reading>> /\ granted \subseteq granted'
        /\ login' = Got(Head(toServer), login)
    BY <1>10 DEF Command, client, Got
  <2>2. \A s : Says(toServer, s) <=> Head(toServer).say = s \/ Says(toServer', s)
    BY ONLY <1>0, <2>1, SaysTail
  <2>3. /\ InOrder(toServer', login') /\ login' \in Logins
        /\ Head(toServer).say = "USER" => login = <<>> /\ login' = <<UserItem.text>>
    <3>1. InOrder(toServer, login) /\ login \in Logins
      BY DEF LoginInOrder
    <3> QED
      BY ONLY <1>0, <2>1, <3>1, InOrderLess
  <2>4. Has(Stream', 334) => "AUTH" \in granted'
    <3>1. CASE Answer(Refusal)
      <4>1. 550 \in Nat /\ 550 # 334 /\ 334 # 10
        OBVIOUS
      <4>2. PICK g \in Nat : g = 550
        BY ONLY <4>1
      <4>3. Answer(g)
        BY ONLY <3>1, <4>2 DEF Refusal
      <4>4. Heard(g)
        BY ONLY <1>0, <2>1, <4>3, g \in Nat, AnswerHeard
      <4>5. Has(Stream', 334) => Has(Stream, 334)
        BY ONLY <4>1, <4>2, <4>4 DEF Heard
      <4> QED
        BY <2>1, <4>5 DEF LoginInOrder
    <3>2. CASE /\ Head(toServer).say \in Steps \ {"END"} /\ Needs[Head(toServer).say] \subseteq granted
               /\ Answer(Expected[Head(toServer).say])
               /\ granted' = granted \cup {Head(toServer).say}
      <4>1. PICK s \in Steps \ {"END"} : s = Head(toServer).say
        BY <3>2
      <4>2. Expected[s] \in Nat /\ (Expected[s] = 334 => s \in {"AUTH", "USER"})
        BY Codes DEF Steps
      <4>3. Heard(Expected[s])
        BY ONLY <1>0, <2>1, <3>2, <4>1, <4>2, AnswerHeard
      <4>4. Has(Stream', 334) => Has(Stream, 334) \/ s \in {"AUTH", "USER"}
        <5>1. 334 # 10
          OBVIOUS
        <5> QED
          BY ONLY <4>2, <4>3, <5>1 DEF Heard
      <4>5. s = "USER" => "AUTH" \in granted
        BY <3>2, <4>1 DEF Needs, Steps
      <4> QED
        BY <2>1, <3>2, <4>1, <4>4, <4>5 DEF LoginInOrder
    <3> QED
      BY <1>10, <3>1, <3>2 DEF Command
  <2>5. login' # login => Head(toServer).say \in {"USER", "PASS"}
    BY <2>1 DEF Got
  <2>6. at' \in {"USER", "PASS"} \/ Says(toServer', "USER") \/ Says(toServer', "PASS") \/ login' # <<>> =>
          "AUTH" \in granted'
    BY <2>1, <2>2, <2>5 DEF LoginInOrder
  <2>7. at' \in {"connect", "greeting", "HELO", "AUTH"} \/ (at' = "USER" /\ ~reading') =>
          login' = <<>> /\ ~Says(toServer', "USER") /\ ~Says(toServer', "PASS")
    BY <2>1, <2>2, <2>5 DEF LoginInOrder
  <2>8. ASSUME (at' = "USER" /\ reading') \/ (at' = "PASS" /\ ~reading')
        PROVE  /\ ~Says(toServer', "PASS") /\ login' # <<UserItem.text, PassItem.text>>
               /\ login' = <<>> => Says(toServer', "USER")
    <3>1. /\ ~Says(toServer, "PASS") /\ login # <<UserItem.text, PassItem.text>>
          /\ login = <<>> => Says(toServer, "USER")
      BY <2>1, <2>8 DEF LoginInOrder
    <3>2. CASE Head(toServer).say = "USER"
      BY ONLY <2>2, <2>3, <3>1, <3>2, LoginsAre
    <3>3. CASE Head(toServer).say # "USER"
      BY ONLY <2>2, <2>5, <3>1, <3>3
    <3> QED
      BY ONLY <3>2, <3>3
  <2>9. InOrder(toServer, login)'
    BY ONLY <1>u, <2>3 DEF InOrder
  <2> QED
    BY ONLY <1>u, <2>3, <2>4, <2>6, <2>7, <2>8, <2>9 DEF LoginInOrder
<1>11. CASE Data
  <2>1. server = "data" /\ toServer # <<>> /\ toServer' = Tail(toServer) /\ UNCHANGED <<buf, at, reading, login, granted>>
    BY <1>11 DEF Data, client
  <2>2. IsText(toServer) /\ at \in {"DATA", "compose", "END", "over"}
    BY <2>1 DEF DataIsLast
  <2>3. ~Says(toServer', "USER") /\ ~Says(toServer', "PASS")
    <3>1. IsText(toServer') /\ toServer' \in Seq(Items)
      BY ONLY <1>0, <2>1, <2>2, TextOf, TailIs
    <3> QED
      BY ONLY <3>1, TextNoLogin
  <2>4. InOrder(toServer, login)'
    <3>1. \A l : InOrder(toServer', l)
      BY ONLY <2>3 DEF InOrder, Says
    <3> QED
      BY ONLY <1>u, <2>1, <3>1 DEF InOrder
  <2>5. Has(Stream', 334) => Has(Stream, 334)
    <3>1. CASE toClient' = toClient
      BY <1>c, <2>1, <3>1
    <3>2. CASE \E good \in {250, 550} : Answer(good)
      <4>1. PICK good \in {250, 550} : Answer(good)
        BY <3>2
      <4>2. good # 334 /\ 334 # 10
        OBVIOUS
      <4>3. good \in Nat
        OBVIOUS
      <4>4. Heard(good)
        BY ONLY <1>0, <2>1, <4>1, <4>3, AnswerHeard
      <4> QED
        BY ONLY <4>2, <4>4 DEF Heard
    <3> QED
      BY <1>11, <3>1, <3>2 DEF Data, Refusal
  <2> QED
    BY <1>u, <2>1, <2>2, <2>3, <2>4, <2>5 DEF LoginInOrder
<1>12. CASE Close
  <2>1. /\ server' = "closed" /\ toServer' = <<>> /\ UNCHANGED <<buf, toClient, at, reading, login, granted>>
    BY <1>12 DEF Close, client
  <2>2. ~Says(toServer', "USER") /\ ~Says(toServer', "PASS")
    BY <2>1 DEF Says
  <2>3. InOrder(toServer, login)'
    BY <2>2 DEF InOrder, Says
  <2> QED
    BY <1>c, <1>u, <2>1, <2>2, <2>3 DEF LoginInOrder
<1>13. CASE (\E l \in {"text", "dot"} : WriteLine(l)) \/ Flush \/ Drop \/ UNCHANGED vars
  BY <1>13, <1>a, <1>c DEF WriteLine, Flush, Drop, client, peer, vars
<1> QED
  BY <1>1, <1>3, <1>4, <1>5, <1>7, <1>9, <1>10, <1>11, <1>12, <1>13 DEF Next, Chain, Serve

-----------------------------------------------------------------------------
(* The message on its way.                                                   *)
LEMMA SpellsNothing ==
  /\ Spells(<<>>, <<>>)
  /\ \A T \in Seq(Items) : Spells(<<>>, T) => T = <<>>
<1>1. Spells(<<>>, <<>>)
  <2>1. [i \in 0..0 |-> 0] \in [0..0 -> Nat] /\ Len(<<>>) = 0
    OBVIOUS
  <2> DEFINE cut == [i \in 0..0 |-> 0]
  <2>2. cut[0] = 0 /\ \A i \in 1..0 : FALSE
    OBVIOUS
  <2>3. \A i \in 0..0, k \in 0..0 : i <= k => cut[i] <= cut[k]
    OBVIOUS
  <2> HIDE DEF cut
  <2> QED
    BY ONLY <2>1, <2>2, <2>3 DEF Spells, Cuts, cut
<1>2. ASSUME NEW T \in Seq(Items), Spells(<<>>, T) PROVE T = <<>>
  <2>1. Len(T) = 0
    BY <1>2 DEF Spells, Cuts
  <2> QED
    BY <2>1, EmptySeq
<1> QED
  BY ONLY <1>1, <1>2

(* A string more in the queue spells itself behind the rest.                 *)
LEMMA SpellsMore ==
  ASSUME NEW q \in Seq(Writes), NEW T \in Seq(Items), Spells(q, T),
         NEW s \in Seq(Items), NEW b \in BOOLEAN
  PROVE  Spells(AsyncWrite(q, s, b), T \o s)
<1>1. PICK r : r = AsyncWrite(q, s, b)
  OBVIOUS
<1>2. Adds(q, r, s, b)
  BY ONLY <1>1, q \in Seq(Writes), s \in Seq(Items), b \in BOOLEAN, AsyncWriteAdds
<1>3. PICK n \in Nat : n = Len(q)
  BY ONLY <1>2 DEF Adds
<1>4. Len(r) = n + 1 /\ r[n + 1].string = s /\ \A i \in 1..n : r[i] = q[i]
  BY ONLY <1>2, <1>3 DEF Adds
<1>5. PICK t \in Nat, u \in Nat : t = Len(T) /\ u = Len(s)
  BY ConcatIs
<1>6. PICK U : U = T \o s
  OBVIOUS
<1>7. /\ Len(U) = t + u
      /\ \A i \in 1..t : U[i] = T[i]
      /\ \A i \in 1..u : U[t + i] = s[i]
  BY ONLY <1>5, <1>6, T \in Seq(Items), s \in Seq(Items), ConcatIs
<1>8. PICK cut \in [0..n -> Nat] :
        /\ cut[0] = 0 /\ cut[n] = t
        /\ \A i \in 0..n, k \in 0..n : i <= k => cut[i] <= cut[k]
        /\ \A i \in 1..n :
             /\ cut[i] = cut[i - 1] + Len(q[i].string)
             /\ \A k \in 1..Len(q[i].string) : T[cut[i - 1] + k] = q[i].string[k]
  BY ONLY <1>3, <1>5, Spells(q, T) DEF Spells, Cuts
<1> DEFINE new == [i \in 0..n + 1 |-> IF i = n + 1 THEN t + u ELSE cut[i]]
<1>9. 0..n + 1 = (0..n) \cup {n + 1} /\ n + 1 \notin 0..n /\ 0 \in 0..n /\ n \in 0..n
  BY ONLY n \in Nat
<1>10. /\ new \in [0..n + 1 -> Nat] /\ new[n + 1] = t + u
       /\ \A i \in 0..n : new[i] = cut[i] /\ new[i] \in Nat
  BY ONLY <1>9, cut \in [0..n -> Nat], t \in Nat, u \in Nat, n \in Nat
<1> HIDE DEF new
<1>11. \A i \in 0..n + 1, k \in 0..n + 1 : i <= k => new[i] <= new[k]
  <2>1. \A i \in 0..n : cut[i] \in Nat /\ cut[i] <= t
    BY ONLY <1>8, <1>9, n \in Nat
  <2>2. ASSUME NEW i \in 0..n, NEW k \in 0..n, i <= k PROVE new[i] <= new[k]
    BY ONLY <1>8, <1>10, <2>2
  <2>3. ASSUME NEW i \in 0..n PROVE new[i] <= new[n + 1]
    <3>1. new[i] \in Nat /\ new[i] <= t /\ new[n + 1] = t + u
      BY ONLY <1>10, <2>1, i \in 0..n
    <3> QED
      BY ONLY <3>1, t \in Nat, u \in Nat
  <2>4. new[n + 1] <= new[n + 1]
    BY ONLY <1>10, t \in Nat, u \in Nat
  <2>5. ASSUME NEW k \in 0..n PROVE ~(n + 1 <= k)
    BY ONLY n \in Nat, k \in 0..n
  <2> QED
    BY ONLY <1>9, <2>2, <2>3, <2>4, <2>5
<1>12. ASSUME NEW i \in 1..n + 1
       PROVE  /\ new[i] = new[i - 1] + Len(r[i].string)
              /\ \A k \in 1..Len(r[i].string) : U[new[i - 1] + k] = r[i].string[k]
  <2>1. CASE i = n + 1
    <3>1. (n + 1) - 1 = n
      BY ONLY n \in Nat
    <3>2. new[i] = t + u /\ new[i - 1] = t /\ r[i].string = s
      BY ONLY <1>4, <1>8, <1>9, <1>10, <2>1, <3>1
    <3> QED
      BY ONLY <1>5, <1>7, <3>2
  <2>2. CASE i \in 1..n
    <3>1. i \in 0..n /\ i - 1 \in 0..n
      BY ONLY <2>2, n \in Nat
    <3>2. new[i] = cut[i] /\ new[i - 1] = cut[i - 1] /\ r[i] = q[i]
      BY ONLY <1>4, <1>10, <2>2, <3>1
    <3>3. cut[i - 1] \in Nat /\ cut[i] \in Nat /\ cut[i] <= t /\ cut[i] = cut[i - 1] + Len(q[i].string)
      BY ONLY <1>8, <1>9, <2>2, <3>1, n \in Nat
    <3>4. q[i].string \in Seq(Items)
      <4>1. PICK w \in Writes : w = q[i]
        BY <1>3, <2>2
      <4>2. w.string \in Seq(Items)
        BY DEF Writes
      <4> QED
        BY ONLY <4>1, <4>2
    <3>5. PICK l \in Nat : l = Len(q[i].string)
      BY ONLY <3>4
    <3>6. ASSUME NEW k \in 1..l PROVE U[new[i - 1] + k] = r[i].string[k]
      <4>1. cut[i - 1] + k \in 1..t
        <5>1. PICK c \in Nat, d \in Nat : c = cut[i - 1] /\ d = cut[i] /\ d <= t
          BY ONLY <3>3
        <5>2. d = c + l
          BY ONLY <3>3, <3>5, <5>1
        <5>3. c + l <= t
          BY ONLY <5>1, <5>2
        <5>4. c + k \in 1..t
          BY ONLY <5>3, c \in Nat, t \in Nat, l \in Nat, k \in 1..l
        <5> QED
          BY ONLY <5>1, <5>4
      <4>2. T[cut[i - 1] + k] = q[i].string[k]
        BY ONLY <1>8, <2>2, <3>5, k \in 1..l
      <4> QED
        BY ONLY <1>7, <3>2, <4>1, <4>2
    <3> QED
      BY ONLY <3>2, <3>3, <3>5, <3>6
  <2>3. i = n + 1 \/ i \in 1..n
    BY ONLY i \in 1..n + 1, n \in Nat
  <2> QED
    BY ONLY <2>1, <2>2, <2>3
<1>13. new[0] = 0 /\ new[n + 1] = Len(U) /\ new \in [0..n + 1 -> Nat]
  BY ONLY <1>7, <1>8, <1>9, <1>10
<1>14. Cuts(new, n + 1, r, U)
  BY ONLY <1>11, <1>12, <1>13 DEF Cuts
<1>15. Spells(r, U)
  BY ONLY <1>4, <1>13, <1>14 DEF Spells
<1> QED
  BY ONLY <1>1, <1>6, <1>15

(* The queue spells its front and then what the rest of it spells.           *)
LEMMA SpellsLess ==
  ASSUME out \in Seq(Writes), out # <<>>, NEW T \in Seq(Items), Spells(out, T)
  PROVE  \E U \in Seq(Items) : T = Head(out).string \o U /\ Spells(Tail(out), U)
<1>1. PICK n \in Nat : n = Len(out) /\ n >= 1
  BY FrontIs
<1>2. PICK s \in Seq(Items), r \in Seq(Writes) : s = Head(out).string /\ r = Tail(out)
  BY FrontIs
<1>3. out[1].string = s /\ Len(r) = n - 1 /\ \A i \in 1..n - 1 : r[i] = out[i + 1]
  BY ONLY <1>1, <1>2, out \in Seq(Writes), out # <<>>, FrontIs
<1>4. PICK t \in Nat, u \in Nat : t = Len(T) /\ u = Len(s)
  BY ConcatIs
<1>5. PICK cut \in [0..n -> Nat] :
        /\ cut[0] = 0 /\ cut[n] = t
        /\ \A i \in 0..n, k \in 0..n : i <= k => cut[i] <= cut[k]
        /\ \A i \in 1..n :
             /\ cut[i] = cut[i - 1] + Len(out[i].string)
             /\ \A k \in 1..Len(out[i].string) : T[cut[i - 1] + k] = out[i].string[k]
  BY ONLY <1>1, <1>4, Spells(out, T) DEF Spells, Cuts
<1>6. 1 \in 1..n /\ 1 \in 0..n /\ n \in 0..n /\ 0 \in 0..n /\ 1 - 1 = 0 /\ 1 <= n
  BY ONLY <1>1, n \in Nat
<1>7. cut[1] = u /\ u <= t /\ \A k \in 1..u : T[k] = s[k]
  <2>1. cut[1] = 0 + u
    <3>1. cut[1] = cut[1 - 1] + Len(out[1].string)
      BY ONLY <1>5, <1>6
    <3> QED
      BY ONLY <1>3, <1>4, <1>5, <1>6, <3>1
  <2>2. cut[1] <= cut[n]
    BY ONLY <1>5, <1>6
  <2>3. \A k \in 1..u : T[0 + k] = s[k]
    <3>1. \A k \in 1..Len(out[1].string) : T[cut[1 - 1] + k] = out[1].string[k]
      BY ONLY <1>5, <1>6
    <3>2. cut[1 - 1] = 0
      BY ONLY <1>5, <1>6
    <3> QED
      BY ONLY <1>3, <1>4, <3>1, <3>2
  <2>4. \A k \in 1..u : 0 + k = k
    OBVIOUS
  <2> QED
    BY ONLY <1>5, <2>1, <2>2, <2>3, <2>4, u \in Nat
<1>8. PICK U : U = SubSeq(T, u + 1, t)
  OBVIOUS
<1>9. /\ U \in Seq(Items) /\ Len(U) = t - u
      /\ \A i \in 1..t - u : U[i] = T[u + i]
  BY ONLY <1>4, <1>7, <1>8, T \in Seq(Items), t \in Nat, u \in Nat
<1>10. T = s \o U
  <2>1. PICK V : V = s \o U
    OBVIOUS
  <2>2. /\ V \in Seq(Items) /\ Len(V) = u + (t - u)
        /\ \A i \in 1..u : V[i] = s[i]
        /\ \A i \in 1..t - u : V[u + i] = U[i]
    BY ONLY <1>4, <1>9, <2>1, s \in Seq(Items), ConcatIs
  <2>3. t - u \in Nat /\ u + (t - u) = t
    BY ONLY <1>7, t \in Nat, u \in Nat
  <2>4. PICK v \in Nat : v = t - u
    BY ONLY <2>3
  <2>5. \A i \in 1..u + v : i \in 1..u \/ \E k \in 1..v : i = u + k
    BY ONLY u \in Nat, v \in Nat, Places
  <2>6. ASSUME NEW i \in 1..t PROVE V[i] = T[i]
    <3>1. i \in 1..u \/ \E k \in 1..v : i = u + k
      BY ONLY <2>3, <2>4, <2>5, i \in 1..t
    <3>2. CASE i \in 1..u
      BY ONLY <1>7, <2>2, <3>2
    <3>3. CASE \E k \in 1..v : i = u + k
      BY ONLY <1>9, <2>2, <2>4, <3>3
    <3> QED
      BY ONLY <3>1, <3>2, <3>3
  <2>7. V = T
    <3>1. Len(V) = t /\ Len(T) = t
      BY ONLY <1>4, <2>2, <2>3
    <3> QED
      BY ONLY <2>2, <2>6, <3>1, T \in Seq(Items), SeqEqual
  <2> QED
    BY ONLY <2>1, <2>7
<1> DEFINE new == [i \in 0..n - 1 |-> cut[i + 1] - u]
<1>11. \A i \in 0..n - 1 : /\ i + 1 \in 0..n /\ i + 1 \in 1..n /\ cut[i + 1] \in Nat
                           /\ u <= cut[i + 1] /\ cut[i + 1] - u \in Nat
  <2> TAKE i \in 0..n - 1
  <2>1. i + 1 \in 0..n /\ i + 1 \in 1..n /\ 1 <= i + 1
    BY ONLY n \in Nat, i \in 0..n - 1
  <2>2. cut[1] <= cut[i + 1] /\ cut[i + 1] \in Nat
    BY ONLY <1>5, <1>6, <2>1
  <2>3. u <= cut[i + 1]
    BY ONLY <1>7, <2>2
  <2>4. cut[i + 1] - u \in Nat
    BY ONLY <2>2, <2>3, u \in Nat
  <2> QED
    BY ONLY <2>1, <2>2, <2>3, <2>4
<1>12. new \in [0..n - 1 -> Nat] /\ \A i \in 0..n - 1 : new[i] = cut[i + 1] - u
  BY ONLY <1>11
<1> HIDE DEF new
<1>13. new[0] = 0 /\ new[n - 1] = Len(U)
  <2>1. 0 \in 0..n - 1 /\ n - 1 \in 0..n - 1 /\ 0 + 1 = 1 /\ (n - 1) + 1 = n
    BY ONLY <1>1, n \in Nat
  <2>2. new[0] = u - u /\ new[n - 1] = t - u
    BY ONLY <1>5, <1>7, <1>12, <2>1
  <2> QED
    BY ONLY <1>9, <2>2, u \in Nat
<1>14. \A i \in 0..n - 1, k \in 0..n - 1 : i <= k => new[i] <= new[k]
  <2> TAKE i \in 0..n - 1, k \in 0..n - 1
  <2> HAVE i <= k
  <2>1. i + 1 \in 0..n /\ k + 1 \in 0..n /\ i + 1 <= k + 1
    BY ONLY i \in 0..n - 1, k \in 0..n - 1, i <= k, n \in Nat
  <2>2. cut[i + 1] <= cut[k + 1] /\ cut[i + 1] \in Nat /\ cut[k + 1] \in Nat
    BY ONLY <1>5, <2>1
  <2>3. cut[i + 1] - u <= cut[k + 1] - u
    BY ONLY <2>2, u \in Nat
  <2> QED
    BY ONLY <1>12, <2>3, i \in 0..n - 1, k \in 0..n - 1
<1>15. ASSUME NEW i \in 1..n - 1
       PROVE  /\ new[i] = new[i - 1] + Len(r[i].string)
              /\ \A k \in 1..Len(r[i].string) : U[new[i - 1] + k] = r[i].string[k]
  <2>1. i \in 0..n - 1 /\ i - 1 \in 0..n - 1 /\ (i - 1) + 1 = i /\ (i + 1) - 1 = i /\ i + 1 \in 1..n /\ i \in 0..n /\ i + 1 \in 0..n
    BY ONLY n \in Nat, i \in 1..n - 1
  <2>2. new[i] = cut[i + 1] - u /\ new[i - 1] = cut[i] - u /\ r[i] = out[i + 1]
    BY ONLY <1>3, <1>12, <2>1, i \in 1..n - 1
  <2>3. /\ cut[i + 1] = cut[i] + Len(out[i + 1].string)
        /\ \A k \in 1..Len(out[i + 1].string) : T[cut[i] + k] = out[i + 1].string[k]
    <3>1. PICK h \in 1..n : h = i + 1 /\ h - 1 = i
      BY ONLY <2>1
    <3>2. /\ cut[h] = cut[h - 1] + Len(out[h].string)
          /\ \A k \in 1..Len(out[h].string) : T[cut[h - 1] + k] = out[h].string[k]
      BY ONLY <1>5, h \in 1..n
    <3> QED
      BY ONLY <3>1, <3>2
  <2>4. out[i + 1].string \in Seq(Items)
    <3>1. PICK w \in Writes : w = out[i + 1]
      BY <1>1, <2>1
    <3>2. w.string \in Seq(Items)
      BY DEF Writes
    <3> QED
      BY ONLY <3>1, <3>2
  <2>5. PICK l \in Nat : l = Len(out[i + 1].string)
    BY ONLY <2>4
  <2>6. PICK c \in Nat, d \in Nat : c = cut[i] /\ d = cut[i + 1] /\ u <= c /\ d <= t
    <3>1. cut[i] \in Nat /\ u <= cut[i]
      BY ONLY <1>11, <2>1
    <3>2. cut[i + 1] \in Nat /\ cut[i + 1] <= t
      BY ONLY <1>5, <1>6, <2>1, n \in Nat
    <3> QED
      BY ONLY <3>1, <3>2
  <2>7. d = c + l /\ d - u = (c - u) + l
    <3>1. d = c + l
      BY ONLY <2>3, <2>5, <2>6
    <3>2. (c + l) - u = (c - u) + l
      BY ONLY u \in Nat, c \in Nat, l \in Nat
    <3> QED
      BY ONLY <3>1, <3>2
  <2>8. ASSUME NEW k \in 1..l PROVE U[(c - u) + k] = r[i].string[k]
    <3>0. u <= c /\ c + l <= t
      BY ONLY <2>6, <2>7
    <3>1. (c - u) + k \in 1..t - u /\ u + ((c - u) + k) = c + k
      BY ONLY <3>0, u \in Nat, c \in Nat, l \in Nat, t \in Nat, k \in 1..l
    <3>2. U[(c - u) + k] = T[c + k]
      BY ONLY <1>9, <3>1
    <3>3. T[c + k] = out[i + 1].string[k]
      BY ONLY <2>3, <2>5, <2>6, k \in 1..l
    <3> QED
      BY ONLY <2>2, <3>2, <3>3
  <2> QED
    BY ONLY <2>2, <2>5, <2>6, <2>7, <2>8
<1>16. Cuts(new, n - 1, r, U)
  BY ONLY <1>13, <1>14, <1>15 DEF Cuts
<1>17. Spells(r, U)
  BY ONLY <1>3, <1>12, <1>16 DEF Spells
<1> QED
  BY ONLY <1>2, <1>9, <1>10, <1>17

Associates(s, t, u) == (s \o t) \o u = s \o (t \o u)
(* Joining three texts in either way.                                        *)
LEMMA Texts ==
  ASSUME NEW s, s \in Seq(Items), NEW t, t \in Seq(Items), NEW u, u \in Seq(Items)
  PROVE  Associates(s, t, u)
BY ConcatAssociative DEF Associates

Regroups(m, s, h, t, p) ==
  /\ m \o (s \o (h \o t)) = m \o ((s \o h) \o t)
  /\ m \o (s \o ((h \o t) \o p)) = m \o ((s \o h) \o (t \o p))
  /\ m \o ((h \o s) \o t) = (m \o h) \o (s \o t)
  /\ m \o (s \o (t \o (p \o h))) = (m \o (s \o (t \o p))) \o h
  /\ m \o (s \o ((t \o p) \o h)) = (m \o (s \o (t \o p))) \o h

(* What leaves the queue for the server leaves the whole as it was.          *)
LEMMA Regrouped ==
  ASSUME NEW m, m \in Seq(Items), NEW s, s \in Seq(Items), NEW h, h \in Seq(Items),
         NEW t, t \in Seq(Items), NEW p, p \in Seq(Items)
  PROVE  Regroups(m, s, h, t, p)
<1>1. Associates(s, h, t)
  BY ONLY s \in Seq(Items), h \in Seq(Items), t \in Seq(Items), Texts
<1>2. m \o (s \o ((h \o t) \o p)) = m \o ((s \o h) \o (t \o p))
  <2>1. PICK c \in Seq(Items), d \in Seq(Items) : c = h \o t /\ d = t \o p
    BY ONLY h \in Seq(Items), t \in Seq(Items), p \in Seq(Items), ConcatIs
  <2>2. Associates(h, t, p)
    BY ONLY h \in Seq(Items), t \in Seq(Items), p \in Seq(Items), Texts
  <2>3. Associates(s, h, d)
    BY ONLY s \in Seq(Items), h \in Seq(Items), d \in Seq(Items), Texts
  <2> QED
    BY ONLY <2>1, <2>2, <2>3 DEF Associates
<1>3. m \o ((h \o s) \o t) = (m \o h) \o (s \o t)
  <2>1. PICK d \in Seq(Items) : d = s \o t
    BY ONLY s \in Seq(Items), t \in Seq(Items), ConcatIs
  <2>2. Associates(h, s, t)
    BY ONLY h \in Seq(Items), s \in Seq(Items), t \in Seq(Items), Texts
  <2>3. Associates(m, h, d)
    BY ONLY m \in Seq(Items), h \in Seq(Items), d \in Seq(Items), Texts
  <2> QED
    BY ONLY <2>1, <2>2, <2>3 DEF Associates
<1>4. /\ m \o (s \o (t \o (p \o h))) = (m \o (s \o (t \o p))) \o h
      /\ m \o (s \o ((t \o p) \o h)) = (m \o (s \o (t \o p))) \o h
  <2>1. PICK c \in Seq(Items) : c = t \o p
    BY ONLY t \in Seq(Items), p \in Seq(Items), ConcatIs
  <2>2. PICK d \in Seq(Items) : d = s \o c
    BY ONLY s \in Seq(Items), c \in Seq(Items), ConcatIs
  <2>3. Associates(t, p, h)
    BY ONLY t \in Seq(Items), p \in Seq(Items), h \in Seq(Items), Texts
  <2>4. Associates(s, c, h)
    BY ONLY s \in Seq(Items), c \in Seq(Items), h \in Seq(Items), Texts
  <2>5. Associates(m, d, h)
    BY ONLY m \in Seq(Items), d \in Seq(Items), h \in Seq(Items), Texts
  <2> QED
    BY ONLY <2>1, <2>2, <2>3, <2>4, <2>5 DEF Associates
<1> QED
  BY ONLY <1>1, <1>2, <1>3, <1>4 DEF Associates, Regroups

(* A text is its first line and the rest.                                    *)
LEMMA HeadAndTail ==
  ASSUME NEW q \in Seq(Items), q # <<>>
  PROVE  /\ Head(q) \in Items /\ Tail(q) \in Seq(Items) /\ <<Head(q)>> \in Seq(Items)
         /\ q = <<Head(q)>> \o Tail(q)
<1>1. PICK h, r : h = Head(q) /\ r = Tail(q)
  OBVIOUS
<1>2. PICK m \in Nat : m = Len(q) /\ m >= 1
  BY TailIs
<1>3. h \in Items /\ r \in Seq(Items) /\ Len(r) = m - 1 /\ h = q[1] /\ \A i \in 1..m - 1 : r[i] = q[i + 1]
  BY ONLY <1>1, <1>2, q # <<>>, q \in Seq(Items), TailIs
<1>4. <<h>> \in Seq(Items) /\ Len(<<h>>) = 1 /\ <<h>>[1] = h
  BY ONLY <1>3
<1>5. PICK v : v = <<h>> \o r
  OBVIOUS
<1>6. /\ v \in Seq(Items) /\ Len(v) = 1 + (m - 1)
      /\ \A i \in 1..1 : v[i] = <<h>>[i]
      /\ \A i \in 1..m - 1 : v[1 + i] = r[i]
  BY ONLY <1>3, <1>4, <1>5, ConcatIs
<1>7. ASSUME NEW i \in 1..m PROVE v[i] = q[i]
  <2>1. CASE i = 1
    <3>1. 1 \in 1..1
      OBVIOUS
    <3> QED
      BY ONLY <1>3, <1>4, <1>6, <2>1, <3>1
  <2>2. CASE i # 1
    <3>1. PICK k \in 1..m - 1 : i = k + 1 /\ i = 1 + k
      <4>1. i - 1 \in 1..m - 1 /\ i = (i - 1) + 1 /\ i = 1 + (i - 1)
        BY ONLY <2>2, m \in Nat, i \in 1..m
      <4> QED
        BY ONLY <4>1
    <3>2. v[1 + k] = r[k]
      BY ONLY <1>6, k \in 1..m - 1
    <3>3. r[k] = q[k + 1]
      BY ONLY <1>3, k \in 1..m - 1
    <3> QED
      BY ONLY <3>1, <3>2, <3>3
  <2> QED
    BY ONLY <2>1, <2>2
<1>8. v = q
  <2>1. Len(v) = m
    BY ONLY <1>6, m \in Nat
  <2> QED
    BY ONLY <1>2, <1>6, <1>7, <2>1, q \in Seq(Items), SeqEqual
<1> QED
  BY ONLY <1>1, <1>3, <1>4, <1>5, <1>8

Ends(m, h, x, w, e) ==
  /\ m \o (<<h>> \o x) = w => \E i \in 1..Len(w) : h = w[i]
  /\ m \o (<<h>> \o x) = w \o <<e>> => (\E i \in 1..Len(w) : h = w[i]) \/ m = w

(* A text that closes with the end has it nowhere else: what was read before *)
(* it is the message.                                                        *)
LEMMA Terminator ==
  ASSUME NEW m, m \in Seq(Items), NEW h, h \in Items, NEW x, x \in Seq(Items),
         NEW w, w \in Seq(Items), NEW e, e \in Items
  PROVE  Ends(m, h, x, w, e)
<1>1. PICK k \in Nat, l \in Nat, n \in Nat : k = Len(m) /\ l = Len(x) /\ n = Len(w)
  <2>1. Len(m) \in Nat /\ Len(x) \in Nat /\ Len(w) \in Nat
    BY LenProperties
  <2> QED
    BY ONLY <2>1
<1>2. PICK a \in Seq(Items), b \in Seq(Items) : a = <<h>> /\ b = <<e>>
  <2>1. \A c \in Items : <<c>> \in Seq(Items)
    OBVIOUS
  <2> QED
    BY ONLY <2>1, h \in Items, e \in Items
<1>3. Len(a) = 1 /\ a[1] = h /\ Len(b) = 1 /\ b[1] = e
  BY ONLY <1>2
<1>4. PICK y : y = <<h>> \o x
  OBVIOUS
<1>5. y \in Seq(Items) /\ Len(y) = 1 + l /\ \A i \in 1..1 : y[i] = a[i]
  BY ONLY <1>1, <1>2, <1>3, <1>4, x \in Seq(Items), ConcatIs
<1>6. PICK z : z = m \o y
  OBVIOUS
<1>7. /\ z \in Seq(Items) /\ Len(z) = k + (1 + l)
      /\ \A i \in 1..k : z[i] = m[i]
      /\ \A i \in 1..1 + l : z[k + i] = y[i]
  <2>1. y \in Seq(Items)
    BY ONLY <1>5
  <2>2. /\ z \in Seq(Items) /\ Len(z) = Len(m) + Len(y)
        /\ \A i \in 1..Len(m) : z[i] = m[i]
        /\ \A i \in 1..Len(y) : z[Len(m) + i] = y[i]
    BY ONLY <1>6, <2>1, m \in Seq(Items), ConcatIs
  <2>3. Len(m) = k /\ Len(y) = 1 + l
    BY ONLY <1>1, <1>5
  <2> QED
    BY ONLY <2>2, <2>3
<1>8. z[k + 1] = h
  <2>1. 1 \in 1..1 /\ 1 \in 1..1 + l
    OBVIOUS
  <2> QED
    BY ONLY <1>3, <1>5, <1>7, <2>1
<1>9. ASSUME z = w PROVE \E i \in 1..Len(w) : h = w[i]
  <2>1. n = k + (1 + l)
    BY ONLY <1>1, <1>7, <1>9
  <2>2. k + 1 \in 1..n
    BY ONLY <2>1, k \in Nat, l \in Nat
  <2> QED
    BY ONLY <1>1, <1>8, <1>9, <2>2
<1>10. ASSUME z = w \o b PROVE (\E i \in 1..Len(w) : h = w[i]) \/ m = w
  <2>1. Len(z) = n + 1 /\ \A i \in 1..n : z[i] = w[i]
    BY ONLY <1>1, <1>2, <1>3, <1>10, w \in Seq(Items), ConcatIs
  <2>2. n + 1 = k + (1 + l)
    BY ONLY <1>7, <2>1
  <2>3. k + 1 \in 1..n \/ k = n
    BY ONLY <2>2, k \in Nat, l \in Nat, n \in Nat
  <2>4. CASE k + 1 \in 1..n
    BY ONLY <1>1, <1>8, <2>1, <2>4
  <2>5. CASE k = n
    <3>1. \A i \in 1..k : m[i] = w[i]
      BY ONLY <1>7, <2>1, <2>5
    <3>2. m = w
      BY ONLY <1>1, <2>5, <3>1, m \in Seq(Items), w \in Seq(Items), SeqEqual
    <3> QED
      BY ONLY <3>2
  <2> QED
    BY ONLY <2>3, <2>4, <2>5
<1> QED
  BY ONLY <1>2, <1>4, <1>6, <1>9, <1>10 DEF Ends

(* The message is the head and lines of body; a dot in it was written by the *)
(* application.                                                              *)
LEMMA WholeIs ==
  ASSUME written \in Seq(BodyLines)
  PROVE  /\ Whole \in Seq(Items) /\ written \in Seq(Items)
         /\ \A i \in 1..Len(Whole) : Whole[i] = Line("head") \/ Whole[i] \in ToSet(written)
         /\ \A x \in ToSet(written) : x.say \in {"text", "dot"} /\ (x.say = "dot" => x = Line("dot"))
<1>1. written \in Seq(Items)
  <2>1. BodyLines \subseteq Items
    BY ItemsAre
  <2> QED
    BY ONLY <2>1, written \in Seq(BodyLines), SeqMonotonic
<1>2. PICK n \in Nat : n = Len(written)
  BY <1>1
<1>3. ToSet(written) = {written[i] : i \in 1..n}
  BY <1>2 DEF ToSet
<1>4. PICK a \in Seq(Items) : a = <<Line("head")>> /\ Len(a) = 1 /\ a[1] = Line("head")
  <2>1. PICK x \in Items : x = Line("head")
    BY ItemsAre
  <2>2. <<x>> \in Seq(Items) /\ Len(<<x>>) = 1 /\ <<x>>[1] = x
    OBVIOUS
  <2> QED
    BY ONLY <2>1, <2>2
<1>5. /\ Whole \in Seq(Items) /\ Len(Whole) = 1 + n
      /\ \A i \in 1..1 : Whole[i] = a[i]
      /\ \A i \in 1..n : Whole[1 + i] = written[i]
  BY ONLY <1>1, <1>2, <1>4, ConcatIs DEF Whole
<1>6. ASSUME NEW i \in 1..1 + n PROVE Whole[i] = Line("head") \/ Whole[i] \in ToSet(written)
  <2>1. i \in 1..1 \/ \E k \in 1..n : i = 1 + k
    <3>1. 1 \in Nat
      OBVIOUS
    <3> QED
      BY ONLY <3>1, n \in Nat, i \in 1..1 + n, Places
  <2>2. CASE i \in 1..1
    <3>1. i = 1
      BY ONLY <2>2
    <3> QED
      BY ONLY <1>4, <1>5, <2>2, <3>1
  <2>3. CASE \E k \in 1..n : i = 1 + k
    BY ONLY <1>3, <1>5, <2>3
  <2> QED
    BY ONLY <2>1, <2>2, <2>3
<1>7. \A x \in ToSet(written) : x.say \in {"text", "dot"} /\ (x.say = "dot" => x = Line("dot"))
  <2>1. \A i \in 1..n : written[i] \in BodyLines
    BY ONLY <1>2, written \in Seq(BodyLines), ElementOfSeq
  <2>2. \A x \in BodyLines : x.say \in {"text", "dot"} /\ x = Line(x.say)
    BY ItemsAre
  <2> QED
    BY ONLY <1>3, <2>1, <2>2
<1> QED
  BY ONLY <1>1, <1>5, <1>6, <1>7

(* Every line of the message is at the server, under way or in the package,  *)
(* in order.                                                                 *)
LEMMA OnItsWayStep ==
  ASSUME MailAssumption, Types, OneStep, Chained, DataIsLast, OnItsWay, [Next]_vars, ~astray'
  PROVE  OnItsWay'
<1>0. /\ mail \in Seq(Items) /\ toServer \in Seq(Items)
      /\ out \in Seq(Writes) /\ Piece \in Seq(Items) /\ written \in Seq(BodyLines)
      /\ body \in Seq(BodyLines) /\ body \in Seq(Items) /\ accepted \in Seq(Seq(Items))
  <2>1. BodyLines \subseteq Items
    BY ItemsAre
  <2>2. /\ mail \in Seq(Items) /\ toServer \in Seq(Items) /\ out \in Seq(Writes)
        /\ written \in Seq(BodyLines) /\ body \in Seq(BodyLines) /\ accepted \in Seq(Seq(Items))
    BY DEF Types
  <2>3. body \in Seq(Items)
    BY ONLY <2>1, <2>2, SeqMonotonic
  <2> QED
    BY <2>2, <2>3, PieceIs
<1>w. /\ Whole \in Seq(Items) /\ written \in Seq(Items)
      /\ \A i \in 1..Len(Whole) : Whole[i] = Line("head") \/ Whole[i] \in ToSet(written)
      /\ \A x \in ToSet(written) : x.say \in {"text", "dot"} /\ (x.say = "dot" => x = Line("dot"))
  BY ONLY <1>0, WholeIs
<1>i. Items' = Items
  BY AccountStays
<1>o. /\ \A i \in 1..Len(mail) : mail[i].say \notin {"dot", "end"}
      /\ server = "data" => \E T \in Seq(Items) : Complete(T)
      /\ accepted # <<>> /\ Line("dot") \notin ToSet(written) => pkg = "gone" /\ accepted = <<Whole>>
  BY DEF OnItsWay
<1>a. ASSUME out' = out, body' = body, started' = started, written' = written, mail' = mail,
             toServer' = toServer, accepted' = accepted,
             server' = "data" => server = "data", pkg' = "gone" <=> pkg = "gone"
      PROVE  OnItsWay'
  <2>1. \A T : Complete(T) => Complete(T)'
    BY <1>a DEF Complete, Sent, Whole, Piece
  <2>2. Whole' = Whole
    BY <1>a DEF Whole
  <2> QED
    BY <1>a, <1>i, <1>o, <2>1, <2>2 DEF OnItsWay
(* The string of a step is not part of the message.                          *)
<1>b. ASSUME mail' = mail, written' = written, accepted' = accepted, server' # "data", pkg' = "gone" <=> pkg = "gone"
      PROVE  OnItsWay'
  BY <1>b, <1>o DEF OnItsWay, Whole
<1>1. CASE NotConnected \/ Connected \/ Receive \/ ReadFails \/ Greet
  BY <1>1, <1>a DEF NotConnected, Connected, Receive, ReadFails, Greet, client, package, peer
<1>3. CASE Written
  <2>1. /\ out # <<>> /\ out' = Tail(out)
        /\ UNCHANGED <<server, pkg, body, started, written, mail, accepted>>
        /\ server # "closed" => toServer' = toServer \o Head(out).string
    BY <1>3 DEF Written, package, peer
  <2>2. CASE server # "data"
    BY <1>b, <2>1, <2>2
  <2>3. CASE server = "data"
    <3>1. PICK T \in Seq(Items) : Complete(T)
      BY ONLY <1>o, <2>3
    <3>2. PICK U \in Seq(Items) : T = Head(out).string \o U /\ Spells(Tail(out), U)
      <4>1. Spells(out, T)
        BY ONLY <3>1 DEF Complete
      <4> QED
        BY ONLY <1>0, <2>1, <4>1, T \in Seq(Items), SpellsLess
    <3>3. PICK h \in Seq(Items) : h = Head(out).string
      BY ONLY <1>0, <2>1, FrontIs
    <3>4. /\ Sent(T) = mail \o ((toServer \o h) \o U)
          /\ Sent(T \o Piece) = mail \o ((toServer \o h) \o (U \o Piece))
      <4>1. PICK m \in Seq(Items), s \in Seq(Items), p \in Seq(Items) :
              m = mail /\ s = toServer /\ p = Piece
        BY ONLY <1>0
      <4>2. Regroups(m, s, h, U, p)
        BY ONLY m \in Seq(Items), s \in Seq(Items), h \in Seq(Items), U \in Seq(Items),
                p \in Seq(Items), Regrouped
      <4> QED
        BY ONLY <3>2, <3>3, <4>1, <4>2 DEF Sent, Regroups
    <3>5. /\ Sent(U)' = mail \o ((toServer \o h) \o U)
          /\ Sent(U \o Piece)' = mail \o ((toServer \o h) \o (U \o Piece))
      BY ONLY <2>1, <2>3, <3>3 DEF Sent, Piece
    <3>6. Whole' = Whole
      BY ONLY <2>1 DEF Whole
    <3>7. Complete(U)'
      BY ONLY <2>1, <3>1, <3>2, <3>4, <3>5, <3>6 DEF Complete
    <3> QED
      BY ONLY <1>i, <1>o, <2>1, <3>6, <3>7, U \in Seq(Items) DEF OnItsWay
  <2> QED
    BY ONLY <2>2, <2>3
<1>4. CASE WriteFails \/ Close
  BY <1>4, <1>b DEF WriteFails, Close, client, package, peer
<1>7. CASE Answered
  <2>1. UNCHANGED <<body, started, written, mail, toServer, accepted, server>> /\ reading
    BY <1>7 DEF Answered, peer
  <2>2. pkg' = "gone" <=> pkg = "gone"
    <3>1. at = "DATA" => pkg = "none"
      BY DEF Chained
    <3> QED
      BY <1>7, <3>1 DEF Answered, GoesOn
  <2>3. CASE server # "data"
    BY <1>b, <2>1, <2>2, <2>3
  <2>4. CASE server = "data"
    <3>1. at \in {"DATA", "END"}
      BY <2>1, <2>4 DEF DataIsLast, OneStep, Steps
    <3>2. out' = out
      BY <1>7, <3>1 DEF Answered, GoesOn, Fail
    <3> QED
      BY <1>a, <2>1, <2>2, <3>2
  <2> QED
    BY ONLY <2>3, <2>4
<1>8. CASE Composed
  <2>1. /\ out' = AsyncWrite(out, <<>>, TRUE)
        /\ UNCHANGED <<server, pkg, body, started, written, mail, accepted, toServer>>
    BY <1>8, Messages DEF Composed, Step, package, peer
  <2>2. Whole' = Whole
    BY ONLY <2>1 DEF Whole
  <2>3. ASSUME NEW T \in Seq(Items), Complete(T) PROVE Complete(T)'
    <3>1. Spells(out', T)
      <4>1. PICK e \in Seq(Items) : e = <<>> /\ T \o e = T
        <5>1. <<>> \in Seq(Items) /\ T \o <<>> = T
          BY ConcatEmptySeq
        <5> QED
          BY ONLY <5>1
      <4>2. Spells(out, T) /\ TRUE \in BOOLEAN
        BY <2>3 DEF Complete
      <4>3. Spells(AsyncWrite(out, e, TRUE), T \o e)
        BY ONLY <1>0, <4>2, T \in Seq(Items), e \in Seq(Items), SpellsMore
      <4> QED
        BY ONLY <2>1, <4>1, <4>3
    <3> QED
      BY ONLY <2>1, <2>2, <2>3, <3>1 DEF Complete, Sent, Piece
  <2> QED
    BY ONLY <1>i, <1>o, <2>1, <2>2, <2>3 DEF OnItsWay
<1>10. CASE Command
  <2>1. /\ server = "commands" /\ toServer # <<>> /\ toServer' = Tail(toServer)
        /\ UNCHANGED <<out, pkg, body, started, written, mail, accepted>>
    BY <1>10 DEF Command, client, package
  <2>2. CASE server' # "data"
    BY <1>b, <2>1, <2>2
  <2>3. CASE server' = "data"
    <3>1. Head(toServer).say = "DATA"
      BY <1>10, <2>1, <2>3 DEF Command
    <3>2. /\ Says(toServer, "DATA") /\ toServer[1].say = "DATA" /\ 1 \in 1..Len(toServer)
          /\ Len(Tail(toServer)) = Len(toServer) - 1 /\ Tail(toServer) \in Seq(Items)
      BY ONLY <1>0, <2>1, <3>1, SaysTail, TailIs
    <3>3. "DATA" \notin granted
      <4>1. IsText(toServer) => ~Says(toServer, "DATA")
        <5>1. "DATA" \in Commands
          BY DEF Commands, Steps
        <5> QED
          BY ONLY <1>0, <5>1, TextOf
      <4> QED
        BY <3>2, <4>1 DEF DataIsLast
    <3>4. pkg = "none"
      BY <3>3 DEF DataIsLast
    <3>5. out = <<>> /\ body = <<>> /\ written = <<>> /\ ~started /\ mail = <<>>
      <4>1. at \notin Commands \/ reading
        BY <3>2, <3>4 DEF DataIsLast, Chained, Commands, Steps
      <4> QED
        BY <2>1, <3>4, <4>1 DEF Chained, DataIsLast
    <3>6. toServer' = <<>>
      <4>1. 1 = Len(toServer)
        BY <3>2 DEF DataIsLast
      <4>2. Len(Tail(toServer)) = 0
        <5>1. Len(Tail(toServer)) = 1 - 1
          BY ONLY <3>2, <4>1
        <5> QED
          BY ONLY <5>1
      <4> QED
        BY ONLY <2>1, <3>2, <4>2, EmptySeq
    <3>7. Complete(<<>>)'
      <4>1. PICK e \in Seq(Items) : e = <<Line("head")>>
        <5>1. PICK x \in Items : x = Line("head")
          BY ItemsAre
        <5>2. <<x>> \in Seq(Items)
          OBVIOUS
        <5> QED
          BY ONLY <5>1, <5>2
      <4>2. <<>> \o e = e /\ e \o <<>> = e /\ <<>> \in Seq(Items)
        BY ConcatEmptySeq
      <4>3. Piece' = e /\ Whole' = e
        BY ONLY <2>1, <3>5, <4>1, <4>2 DEF Piece, Whole
      <4>4. Sent(<<>> \o Piece)' = e
        BY ONLY <2>1, <3>5, <3>6, <4>2, <4>3 DEF Sent
      <4>5. Spells(out', <<>>)
        BY ONLY <2>1, <3>5, SpellsNothing
      <4>6. pkg' = "none"
        BY ONLY <2>1, <3>4
      <4> QED
        BY ONLY <4>3, <4>4, <4>5, <4>6 DEF Complete
    <3>8. <<>> \in Seq(Items) /\ Whole' = Whole
      BY <2>1 DEF Whole
    <3> QED
      BY ONLY <1>i, <1>o, <2>1, <3>7, <3>8 DEF OnItsWay
  <2> QED
    BY ONLY <2>2, <2>3
<1>11. CASE Data
  <2>1. /\ server = "data" /\ toServer # <<>> /\ toServer' = Tail(toServer)
        /\ UNCHANGED <<out, pkg, body, started, written>>
    BY <1>11 DEF Data, client, package
  <2>2. PICK h \in Items, r \in Seq(Items) : h = Head(toServer) /\ r = Tail(toServer)
    BY ONLY <1>0, <2>1, HeadAndTail
  <2>3. toServer = <<h>> \o r /\ <<h>> \in Seq(Items)
    BY ONLY <1>0, <2>1, <2>2, HeadAndTail
  <2>4. PICK T \in Seq(Items) : Complete(T)
    BY ONLY <1>o, <2>1
  <2>5. Whole' = Whole
    BY <2>1 DEF Whole
  <2>6. CASE h.say \notin {"dot", "end"}
    <3>1. mail' = Append(mail, h) /\ UNCHANGED <<server, accepted>>
      BY <1>11, <2>2, <2>6 DEF Data
    <3>2. mail' = mail \o <<h>>
      BY ONLY <1>0, <3>1, h \in Items, AppendIsConcat
    <3>3. \A i \in 1..Len(mail') : mail'[i].say \notin {"dot", "end"}
      <4>1. PICK m \in Nat : m = Len(mail)
        BY <1>0
      <4>2. /\ Len(mail') = m + 1 /\ mail'[m + 1] = h
            /\ \A i \in 1..m : mail'[i] = mail[i]
        BY ONLY <1>0, <3>1, <4>1, h \in Items, AppendIs
      <4>3. \A i \in 1..m + 1 : i \in 1..m \/ i = m + 1
        OBVIOUS
      <4> QED
        BY ONLY <1>o, <2>6, <4>1, <4>2, <4>3
    <3>4. \A x \in Seq(Items) : Sent(x)' = Sent(x)
      <4> TAKE x \in Seq(Items)
      <4>1. PICK m \in Seq(Items), e \in Seq(Items) : m = mail /\ e = <<h>>
        BY ONLY <1>0, <2>3
      <4>2. Regroups(m, r, e, x, x)
        BY ONLY m \in Seq(Items), e \in Seq(Items), r \in Seq(Items), x \in Seq(Items), Regrouped
      <4> QED
        BY ONLY <2>1, <2>2, <2>3, <3>2, <4>1, <4>2 DEF Sent, Regroups
    <3>5. Complete(T)'
      <4>1. T \o Piece \in Seq(Items)
        BY ONLY <1>0, T \in Seq(Items), ConcatIs
      <4>2. Sent(T)' = Sent(T) /\ Sent(T \o Piece)' = Sent(T \o Piece)
        <5>1. (T \o Piece)' = T \o Piece
          BY <2>1 DEF Piece
        <5> QED
          BY ONLY <3>4, <4>1, <5>1, T \in Seq(Items) DEF Sent
      <4> QED
        BY ONLY <2>1, <2>4, <2>5, <4>2 DEF Complete
    <3> QED
      BY ONLY <1>i, <1>o, <2>1, <2>5, <3>1, <3>3, <3>5, T \in Seq(Items) DEF OnItsWay
  <2>7. CASE h.say \in {"dot", "end"}
    <3>1. /\ server' = "commands" /\ mail' = <<>>
          /\ accepted' = Append(accepted, mail) \/ accepted' = accepted
      BY <1>11, <2>2, <2>7 DEF Data
    <3>2. accepted = <<>>
      BY <2>1 DEF DataIsLast
    <3>3. accepted' # <<>> => accepted' = <<mail>>
      <4>1. Append(<<>>, mail) = <<mail>>
        OBVIOUS
      <4> QED
        BY ONLY <3>1, <3>2, <4>1
    <3>4. ASSUME NEW i \in 1..Len(Whole), h = Whole[i] PROVE Line("dot") \in ToSet(written)
      <4>1. h # Line("head")
        BY <2>7, Said
      <4>2. h \in ToSet(written)
        BY ONLY <1>w, <3>4, <4>1
      <4> QED
        BY ONLY <1>w, <2>7, <4>2
    <3>5. Line("dot") \notin ToSet(written) => pkg = "gone" /\ mail = Whole
      <4>1. PICK m \in Seq(Items), w \in Seq(Items) : m = mail /\ w = Whole
        BY ONLY <1>0, <1>w
      <4>2. \A x \in Seq(Items) : Sent(x) = m \o (<<h>> \o (r \o x))
        <5> TAKE x \in Seq(Items)
        <5>1. PICK e \in Seq(Items) : e = <<h>>
          BY ONLY <2>3
        <5>2. Associates(e, r, x)
          BY ONLY e \in Seq(Items), r \in Seq(Items), x \in Seq(Items), Texts
        <5> QED
          BY ONLY <2>3, <4>1, <5>1, <5>2 DEF Sent, Associates
      <4>3. ASSUME pkg # "gone" PROVE Line("dot") \in ToSet(written)
        <5>1. PICK x \in Seq(Items) : x = r \o (T \o Piece)
          BY ONLY <1>0, T \in Seq(Items), r \in Seq(Items), ConcatIs
        <5>2. m \o (<<h>> \o x) = w
          <6>1. T \o Piece \in Seq(Items)
            BY ONLY <1>0, T \in Seq(Items), ConcatIs
          <6>2. Sent(T \o Piece) = Whole
            BY ONLY <2>4, <4>3 DEF Complete
          <6> QED
            BY ONLY <4>1, <4>2, <5>1, <6>1, <6>2
        <5>3. \E i \in 1..Len(w) : h = w[i]
          <6>1. Ends(m, h, x, w, h)
            BY ONLY m \in Seq(Items), h \in Items, x \in Seq(Items), w \in Seq(Items), Terminator
          <6> QED
            BY ONLY <5>2, <6>1 DEF Ends
        <5> QED
          BY ONLY <3>4, <4>1, <5>3
      <4>4. ASSUME pkg = "gone" PROVE Line("dot") \in ToSet(written) \/ mail = Whole
        <5>1. PICK x \in Seq(Items) : x = r \o T
          BY ONLY T \in Seq(Items), r \in Seq(Items), ConcatIs
        <5>2. PICK e \in Items : e = Line("end")
          BY ItemsAre
        <5>3. m \o (<<h>> \o x) = w \o <<e>>
          <6>1. Sent(T) = Whole \o <<Line("end")>>
            BY ONLY <2>4, <4>4 DEF Complete
          <6> QED
            BY ONLY <4>1, <4>2, <5>1, <5>2, <6>1, T \in Seq(Items)
        <5>4. (\E i \in 1..Len(w) : h = w[i]) \/ m = w
          <6>1. Ends(m, h, x, w, e)
            BY ONLY m \in Seq(Items), h \in Items, x \in Seq(Items), w \in Seq(Items), e \in Items, Terminator
          <6> QED
            BY ONLY <5>3, <6>1 DEF Ends
        <5> QED
          BY ONLY <3>4, <4>1, <5>4
      <4> QED
        BY ONLY <4>3, <4>4
    <3>6. \A i \in 1..Len(mail') : mail'[i].say \notin {"dot", "end"}
      <4>1. Len(mail') = 0
        BY <3>1
      <4> QED
        BY <4>1
    <3>7. accepted' # <<>> /\ Line("dot") \notin ToSet(written) => pkg = "gone" /\ accepted' = <<Whole>>
      BY ONLY <3>3, <3>5
    <3> QED
      BY ONLY <2>1, <2>5, <3>1, <3>6, <3>7 DEF OnItsWay
  <2> QED
    BY ONLY <2>6, <2>7
<1>13. CASE \E l \in {"text", "dot"} : WriteLine(l)
  <2>1. PICK l \in {"text", "dot"} : WriteLine(l)
    BY <1>13
  <2>2. /\ pkg = "app" /\ body' = Append(body, Line(l)) /\ written' = Append(written, Line(l))
        /\ UNCHANGED <<out, pkg, started, toServer, server, mail, accepted>>
    BY <2>1 DEF WriteLine, client, peer
  <2>3. PICK x \in BodyLines : x = Line(l)
    BY ItemsAre
  <2>4. x \in Items
    BY ItemsAre
  <2>5. body' = body \o <<x>> /\ written' = written \o <<x>>
    BY ONLY <1>0, <2>2, <2>3, x \in BodyLines, AppendIsConcat
  <2>6. ToSet(written) \subseteq ToSet(written')
    <3>1. PICK n \in Nat : n = Len(written)
      BY <1>0
    <3>2. Len(written') = n + 1 /\ \A i \in 1..n : written'[i] = written[i]
      BY ONLY <1>0, <2>2, <2>3, <3>1, x \in BodyLines, AppendIs
    <3>3. \A i \in 1..n : i \in 1..n + 1
      OBVIOUS
    <3>4. ToSet(written) = {written[i] : i \in 1..n} /\ ToSet(written') = {written'[i] : i \in 1..n + 1}
      <4>1. DOMAIN written = 1..n
        BY <1>0, <3>1
      <4>2. written' \in Seq(BodyLines)
        BY ONLY <1>0, <2>2, <2>3, x \in BodyLines, AppendIs
      <4>3. DOMAIN written' = 1..n + 1
        BY <3>2, <4>2
      <4> QED
        BY ONLY <4>1, <4>3 DEF ToSet
    <3> QED
      BY ONLY <3>2, <3>3, <3>4
  <2>7. accepted' # <<>> /\ Line("dot") \notin ToSet(written') => FALSE
    BY ONLY <1>o, <2>2, <2>6
  <2>8. ASSUME NEW T \in Seq(Items), Complete(T) PROVE Complete(T)'
    <3>1. PICK e \in Seq(Items) : e = <<x>>
      <4>1. <<x>> \in Seq(Items)
        BY ONLY <2>4
      <4> QED
        BY ONLY <4>1
    <3>2. PICK m \in Seq(Items), s \in Seq(Items), p \in Seq(Items) : m = mail /\ s = toServer /\ p = Piece
      BY ONLY <1>0
    <3>3. Piece' = p \o e
      <4>1. PICK z \in Seq(Items) : z = (IF started THEN <<>> ELSE <<Line("head")>>)
        <5>1. PICK c \in Items : c = Line("head")
          BY ItemsAre
        <5>2. <<>> \in Seq(Items) /\ <<c>> \in Seq(Items)
          OBVIOUS
        <5> QED
          BY ONLY <5>1, <5>2
      <4>2. PICK b \in Seq(Items) : b = body
        BY ONLY <1>0
      <4>3. Associates(z, b, e)
        BY ONLY z \in Seq(Items), b \in Seq(Items), e \in Seq(Items), Texts
      <4> QED
        BY ONLY <2>2, <2>5, <3>1, <3>2, <4>1, <4>2, <4>3 DEF Piece, Associates
    <3>4. Whole' = Whole \o e
      <4>1. PICK z \in Seq(Items), w \in Seq(Items) : z = <<Line("head")>> /\ w = written
        <5>1. PICK c \in Items : c = Line("head")
          BY ItemsAre
        <5>2. <<c>> \in Seq(Items)
          OBVIOUS
        <5> QED
          BY ONLY <1>w, <5>1, <5>2
      <4>2. Associates(z, w, e)
        BY ONLY z \in Seq(Items), w \in Seq(Items), e \in Seq(Items), Texts
      <4> QED
        BY ONLY <2>5, <3>1, <4>1, <4>2 DEF Whole, Associates
    <3>5. Regroups(m, s, e, T, p)
      BY ONLY m \in Seq(Items), s \in Seq(Items), e \in Seq(Items), T \in Seq(Items), p \in Seq(Items),
              Regrouped
    <3>6. m \o (s \o (T \o p)) = Whole /\ Spells(out, T)
      BY ONLY <2>2, <2>8, <3>2 DEF Complete, Sent
    <3>7. Sent(T \o Piece)' = Whole'
      BY ONLY <2>2, <3>2, <3>3, <3>4, <3>5, <3>6 DEF Sent, Regroups
    <3> QED
      BY ONLY <2>2, <3>6, <3>7 DEF Complete
  <2> QED
    BY ONLY <1>i, <1>o, <2>2, <2>7, <2>8 DEF OnItsWay
<1>14. CASE Flush
  <2>1. /\ pkg = "app" /\ out' = AsyncWrite(out, Piece, FALSE) /\ body' = <<>> /\ started' = TRUE
        /\ UNCHANGED <<pkg, written, toServer, server, mail, accepted>>
    BY <1>14 DEF Flush, peer
  <2>2. Whole' = Whole
    BY <2>1 DEF Whole
  <2>3. Piece' = <<>>
    <3>1. <<>> \o <<>> = <<>>
      OBVIOUS
    <3> QED
      BY ONLY <2>1, <3>1 DEF Piece
  <2>4. ASSUME NEW T \in Seq(Items), Complete(T) PROVE \E U \in Seq(Items) : Complete(U)'
    <3>1. PICK U \in Seq(Items) : U = T \o Piece
      BY ONLY <1>0, T \in Seq(Items), ConcatIs
    <3>2. U \o <<>> = U
      BY ONLY U \in Seq(Items), ConcatEmptySeq
    <3>3. Spells(out', U)
      <4>1. Spells(out, T) /\ FALSE \in BOOLEAN
        BY <2>4 DEF Complete
      <4>2. PICK p \in Seq(Items) : p = Piece
        BY ONLY <1>0
      <4>3. Spells(AsyncWrite(out, p, FALSE), T \o p)
        BY ONLY <1>0, <4>1, T \in Seq(Items), p \in Seq(Items), SpellsMore
      <4> QED
        BY ONLY <2>1, <3>1, <4>2, <4>3
    <3>4. Sent(U \o Piece)' = Whole'
      <4>1. Sent(U) = Whole
        BY ONLY <2>1, <2>4, <3>1 DEF Complete
      <4> QED
        BY ONLY <2>1, <2>2, <2>3, <3>2, <4>1 DEF Sent
    <3>5. Complete(U)'
      BY ONLY <2>1, <3>3, <3>4 DEF Complete
    <3> QED
      BY ONLY <3>5, U \in Seq(Items)
  <2> QED
    BY ONLY <1>i, <1>o, <2>1, <2>2, <2>4 DEF OnItsWay
<1>15. CASE Drop
  <2>1. /\ pkg = "app" /\ pkg' = "gone"
        /\ out' = AsyncWrite(AsyncWrite(out, Piece, FALSE), <<Line("end")>>, FALSE)
        /\ UNCHANGED <<written, toServer, server, mail, accepted>>
    BY <1>15 DEF Drop, peer
  <2>2. Whole' = Whole
    BY <2>1 DEF Whole
  <2>3. accepted' # <<>> /\ Line("dot") \notin ToSet(written') => FALSE
    BY ONLY <1>o, <2>1
  <2>4. PICK e \in Seq(Items) : e = <<Line("end")>>
    <3>1. PICK c \in Items : c = Line("end")
      BY ItemsAre
    <3>2. <<c>> \in Seq(Items)
      OBVIOUS
    <3> QED
      BY ONLY <3>1, <3>2
  <2>5. ASSUME NEW T \in Seq(Items), Complete(T) PROVE \E U \in Seq(Items) : Complete(U)'
    <3>1. PICK p \in Seq(Items) : p = Piece
      BY ONLY <1>0
    <3>2. PICK q \in Seq(Writes) : q = AsyncWrite(out, p, FALSE)
      <4>1. FALSE \in BOOLEAN
        OBVIOUS
      <4> QED
        BY ONLY <1>0, <4>1, p \in Seq(Items), AsyncWriteIs
    <3>3. PICK U \in Seq(Items) : U = T \o p
      BY ONLY T \in Seq(Items), p \in Seq(Items), ConcatIs
    <3>4. PICK V \in Seq(Items) : V = U \o e
      BY ONLY U \in Seq(Items), e \in Seq(Items), ConcatIs
    <3>5. FALSE \in BOOLEAN
      OBVIOUS
    <3>6. Spells(q, U)
      <4>1. Spells(out, T)
        BY ONLY <2>5 DEF Complete
      <4>2. Spells(AsyncWrite(out, p, FALSE), T \o p)
        BY ONLY <1>0, <3>5, <4>1, T \in Seq(Items), p \in Seq(Items), SpellsMore
      <4> QED
        BY ONLY <3>2, <3>3, <4>2
    <3>7. Spells(out', V)
      <4>1. Spells(AsyncWrite(q, e, FALSE), U \o e)
        BY ONLY <3>5, <3>6, q \in Seq(Writes), U \in Seq(Items), e \in Seq(Items), SpellsMore
      <4> QED
        BY ONLY <2>1, <2>4, <3>1, <3>2, <3>4, <4>1
    <3>8. Sent(V)' = Whole' \o <<Line("end")>>
      <4>1. PICK m \in Seq(Items), s \in Seq(Items) : m = mail /\ s = toServer
        BY ONLY <1>0
      <4>2. Regroups(m, s, e, T, p)
        BY ONLY m \in Seq(Items), s \in Seq(Items), e \in Seq(Items), T \in Seq(Items), p \in Seq(Items),
                Regrouped
      <4>3. m \o (s \o (T \o p)) = Whole
        BY ONLY <2>1, <2>5, <3>1, <4>1 DEF Complete, Sent
      <4>4. Sent(V)' = m \o (s \o ((T \o p) \o e))
        BY ONLY <2>1, <3>3, <3>4, <4>1 DEF Sent
      <4> QED
        BY ONLY <2>2, <2>4, <4>2, <4>3, <4>4 DEF Regroups
    <3>9. Complete(V)'
      BY ONLY <2>1, <3>7, <3>8 DEF Complete
    <3> QED
      BY ONLY <3>9, V \in Seq(Items)
  <2> QED
    BY ONLY <1>i, <1>o, <2>1, <2>3, <2>5 DEF OnItsWay
<1>16. CASE UNCHANGED vars
  BY <1>16, <1>a DEF vars, client, package, peer
<1> QED
  BY <1>1, <1>3, <1>4, <1>7, <1>8, <1>10, <1>11, <1>13, <1>14, <1>15, <1>16 DEF Next, Chain, Serve

-----------------------------------------------------------------------------
(* The invariant at the start, and after each step.                          *)
LEMMA InitHolds ==
  ASSUME MailAssumption, Init
  PROVE  IInv
<1>0. /\ <<>> \in Seq(Nat) /\ <<>> \in Seq(Writes) /\ <<>> \in Seq(Items) /\ <<>> \in Seq(BodyLines)
      /\ <<>> \in Seq(Seq(Items)) /\ Len(<<>>) = 0
  OBVIOUS
<1>1. Types
  <2>1. /\ account \in Accounts /\ at = "connect" /\ pkg = "none" /\ server = "absent"
        /\ granted = {} /\ extra = 0 /\ reading = FALSE /\ threw = FALSE /\ started = FALSE
        /\ grumbled = FALSE
        /\ buf = <<>> /\ toClient = <<>> /\ out = <<>> /\ toServer = <<>> /\ body = <<>>
        /\ written = <<>> /\ mail = <<>> /\ accepted = <<>>
    BY DEF Init
  <2>2. 0 \in 0..MaxExtra
    BY DEF MailAssumption
  <2> QED
    BY ONLY <1>0, <2>1, <2>2 DEF Types
<1>2. OneStep
  BY <1>0 DEF Init, OneStep
<1>3. Chained
  BY DEF Init, Chained, Commands, Steps
<1>4. Stream = <<>> /\ ~Has(Stream, 354) /\ ~Has(Stream, 334) /\ ~Before(Stream, 354, 250)
  <2>1. Stream = <<>>
    BY DEF Init, Stream
  <2>2. \A i \in 1..Len(Stream) : FALSE
    BY ONLY <1>0, <2>1
  <2> QED
    BY ONLY <2>1, <2>2 DEF Has, Before
<1>5. \A s : ~Says(toServer, s)
  BY <1>0 DEF Init, Says
<1>6. DataIsLast
  BY <1>0, <1>5 DEF Init, DataIsLast
<1>7. AnswersFollow
  <2>1. <<>> # <<TRUE>>
    OBVIOUS
  <2> QED
    BY <1>4, <2>1 DEF Init, AnswersFollow
<1>8. OnItsWay
  BY <1>0 DEF Init, OnItsWay
<1>9. InLockStep
  BY DEF Init, InLockStep, Quiet
<1>10. LoginInOrder
  <2>1. InOrder(toServer, login)
    BY <1>5, NoLogin
  <2> QED
    BY <1>4, <1>5, <2>1 DEF Init, LoginInOrder, Logins
<1> QED
  BY <1>1, <1>2, <1>3, <1>6, <1>7, <1>8, <1>9, <1>10 DEF IInv, Meant

(* Each part from the lemma of its own.                                      *)
LEMMA NextKeeps ==
  ASSUME MailAssumption, IInv, [Next]_vars
  PROVE  IInv'
<1>1. Types /\ OneStep /\ Chained
  BY DEF IInv
<1>2. Types'
  BY ONLY <1>1, MailAssumption, [Next]_vars, TypesStep
<1>3. OneStep'
  BY ONLY <1>1, [Next]_vars, OneStepStep
<1>4. Chained'
  BY ONLY <1>1, [Next]_vars, ChainedStep
<1>5. ASSUME ~astray' PROVE Meant'
  <2>1. DataIsLast /\ AnswersFollow /\ OnItsWay /\ InLockStep /\ LoginInOrder
    <3>1. ~astray
      BY ONLY <1>5, [Next]_vars, StaysAstray
    <3> QED
      BY <3>1 DEF IInv, Meant
  <2>2. DataIsLast'
    BY ONLY <1>1, <1>5, <2>1, MailAssumption, [Next]_vars, DataIsLastStep
  <2>3. AnswersFollow'
    BY ONLY <1>1, <1>5, <2>1, MailAssumption, [Next]_vars, AnswersFollowStep
  <2>4. OnItsWay'
    BY ONLY <1>1, <1>5, <2>1, MailAssumption, [Next]_vars, OnItsWayStep
  <2>5. InLockStep'
    BY ONLY <1>1, <1>5, <2>1, MailAssumption, [Next]_vars, InLockStepStep
  <2>6. LoginInOrder'
    BY ONLY <1>1, <1>5, <2>1, MailAssumption, [Next]_vars, LoginInOrderStep
  <2> QED
    BY ONLY <2>2, <2>3, <2>4, <2>5, <2>6 DEF Meant
<1> QED
  BY ONLY <1>2, <1>3, <1>4, <1>5 DEF IInv

(* What the application is told, from the invariant: true needs an accepted  *)
(* message, false a refusal.                                                 *)
LEMMA Told ==
  ASSUME MailAssumption, IInv
  PROVE  ToldOnceAndTruly
<1>0. Types /\ OneStep /\ Chained
  BY DEF IInv
<1>m. ~astray => DataIsLast /\ AnswersFollow /\ OnItsWay /\ InLockStep
  BY DEF IInv, Meant
<1>1. results \in {<<>>, <<TRUE>>, <<FALSE>>} /\ (at # "over" => results = <<>>)
  BY <1>0 DEF Chained
<1>2. (\A i \in 1..Len(results) : results[i] \in BOOLEAN) /\ Len(results) <= 1
  <2>1. /\ Len(<<>>) = 0
        /\ \A b \in BOOLEAN : Len(<<b>>) = 1 /\ <<b>>[1] = b
    OBVIOUS
  <2>2. Len(<<TRUE>>) = 1 /\ <<TRUE>>[1] = TRUE /\ Len(<<FALSE>>) = 1 /\ <<FALSE>>[1] = FALSE
    BY ONLY <2>1
  <2>3. \A i \in 1..1 : i = 1
    OBVIOUS
  <2>4. 0 <= 1 /\ 1 <= 1 /\ \A i \in 1..0 : FALSE
    OBVIOUS
  <2>5. CASE results = <<>>
    BY ONLY <2>1, <2>4, <2>5
  <2>6. CASE \E b \in BOOLEAN : results = <<b>>
    BY ONLY <2>1, <2>3, <2>4, <2>6
  <2> QED
    BY ONLY <1>1, <2>5, <2>6
<1>3. TypeOK
  BY <1>0, <1>2 DEF TypeOK, Types, OneStep
<1>4. ~astray /\ results = <<TRUE>> =>
        /\ accepted # <<>>
        /\ Line("dot") \notin ToSet(written) =>
             pkg = "gone" /\ accepted = <<<<Line("head")>> \o written>>
  BY ONLY <1>m DEF AnswersFollow, OnItsWay, Whole
<1>5. ~astray /\ results = <<FALSE>> => grumbled \/ server \in {"absent", "closed"} \/ extra > 0
  <2>1. ASSUME ~astray, results = <<FALSE>>, Quiet PROVE FALSE
    <3>1. <<FALSE>> # <<TRUE>> /\ <<FALSE>> # <<>>
      OBVIOUS
    <3>2. at = "over"
      BY ONLY <1>1, <2>1, <3>1
    <3>3. results = <<TRUE>>
      BY ONLY <1>m, <2>1, <3>2 DEF InLockStep, Aligned
    <3> QED
      BY ONLY <2>1, <3>1, <3>3
  <2>2. extra \in Nat
    BY <1>0 DEF Types
  <2>3. extra = 0 \/ extra > 0
    BY ONLY <2>2
  <2> QED
    BY ONLY <2>1, <2>3 DEF Quiet
<1>6. ~astray /\ pkg # "none" => "DATA" \in granted
  BY <1>m DEF DataIsLast
<1> QED
  BY ONLY <1>2, <1>3, <1>4, <1>5, <1>6 DEF ToldOnceAndTruly

-----------------------------------------------------------------------------
(* A set of numbers that is not empty has a least one.                       *)
LEMMA LeastNumber ==
  ASSUME NEW T \in SUBSET Nat, T # {}
  PROVE  \E x \in T : \A y \in T : x <= y
<1> DEFINE R == OpToRel(<, Nat)
<1>1. IsWellFoundedOn(R, Nat)
  BY NatLessThanWellFounded
<1> HIDE DEF R
<1>2. PICK x \in T : \A y \in T : ~(<<y, x>> \in R)
  BY <1>1, WFMin
<1>3. \A y \in T : ~(y < x)
  BY <1>2 DEF R, OpToRel
<1> QED
  BY <1>3

(* The user name up to the at sign is bytes again, the first of these signs  *)
(* or the end being defined.                                                 *)
LEMMA UserIs ==
  ASSUME NEW name \in Seq(0..255)
  PROVE  User(name) \in Seq(0..255)
<1> DEFINE ats == {i \in 1..Len(name) : name[i] = 64}
           k == CHOOSE i \in ats : \A j \in ats : i <= j
<1>1. CASE ats = {}
  BY <1>1 DEF User
<1>2. CASE ats # {}
  <2>1. \E i \in ats : \A j \in ats : i <= j
    <3>1. ats \in SUBSET Nat
      OBVIOUS
    <3> HIDE DEF ats
    <3> QED
      BY <1>2, <3>1, LeastNumber
  <2>2. k \in ats
    BY <2>1
  <2> HIDE DEF k
  <2>3. k \in 1..Len(name)
    BY <2>2
  <2>4. SubSeq(name, 1, k - 1) \in Seq(0..255)
    <3>1. PICK n \in Nat : n = k - 1 /\ n <= Len(name)
      BY <2>3
    <3>2. SubSeq(name, 1, n) \in Seq(0..255)
      <4>1. \A i \in 1..n : i \in 1..Len(name)
        BY <3>1
      <4>2. \A i \in 1..n : name[i] \in 0..255
        BY ONLY <4>1, name \in Seq(0..255), ElementOfSeq
      <4>3. 1 \in Int /\ n \in Int
        OBVIOUS
      <4> QED
        BY ONLY <4>2, <4>3, SubSeqProperties
    <3> QED
      BY ONLY <3>1, <3>2
  <2> QED
    BY <1>2, <2>4 DEF User, k
<1> QED
  BY <1>1, <1>2

(* What the server got is what encode made of the account, and encode is     *)
(* right for every input.                                                    *)
LEMMA Arrived ==
  ASSUME MailAssumption, IInv
  PROVE  CredentialsArrive
<1> SUFFICES ASSUME ~astray PROVE CredentialsArrive
  BY DEF CredentialsArrive
<1>0. Types /\ LoginInOrder
  BY DEF IInv, Meant
<1>1. User(account.username) \in Seq(0..255) /\ account.password \in Seq(0..255)
  BY <1>0, UserIs DEF MailAssumption, Types
<1>2. PICK u \in Seq(0..255), p \in Seq(0..255) : u = User(account.username) /\ p = account.password
  BY ONLY <1>1
<1>3. /\ Encodes(Encode(u), u) /\ Decode(Encode(u)) = u
      /\ Encodes(Encode(p), p) /\ Decode(Encode(p)) = p
  BY ONLY u \in Seq(0..255), p \in Seq(0..255), EncodeEncodes, DecodeInverts
<1>4. PICK c, d : c = Encode(u) /\ d = Encode(p)
  OBVIOUS
<1>5. UserItem.text = c /\ PassItem.text = d
  BY <1>2, <1>4, Said DEF UserItem, PassItem
<1>6. login \in {<<>>, <<c>>, <<c, d>>} /\ (login # <<>> => "AUTH" \in granted)
  BY ONLY <1>0, <1>5 DEF LoginInOrder, Logins
<1>7. /\ Len(<<>>) = 0 /\ Len(<<c>>) = 1 /\ <<c>>[1] = c
      /\ Len(<<c, d>>) = 2 /\ <<c, d>>[1] = c /\ <<c, d>>[2] = d
  OBVIOUS
<1>8. (\A i \in 1..1 : i = 1) /\ (\A i \in 1..2 : i = 1 \/ i = 2) /\ 2 # 1 /\ (\A i \in 1..0 : FALSE)
  OBVIOUS
<1>9. ASSUME NEW i \in 1..Len(login)
      PROVE  /\ "AUTH" \in granted
             /\ (i = 1 /\ login[i] = c) \/ (i # 1 /\ login[i] = d)
  <2>1. CASE login = <<>>
    BY ONLY <1>7, <1>8, <2>1, i \in 1..Len(login)
  <2>2. CASE login = <<c>>
    <3>1. i = 1 /\ login # <<>>
      BY ONLY <1>7, <1>8, <2>2, i \in 1..Len(login)
    <3>2. "AUTH" \in granted
      BY ONLY <1>6, <3>1
    <3>3. login[1] = c
      BY ONLY <1>7, <2>2
    <3> QED
      BY ONLY <3>1, <3>2, <3>3
  <2>3. CASE login = <<c, d>>
    <3>1. (i = 1 \/ i = 2) /\ login # <<>>
      BY ONLY <1>7, <1>8, <2>3, i \in 1..Len(login)
    <3>2. "AUTH" \in granted
      BY ONLY <1>6, <3>1
    <3>3. login[1] = c /\ login[2] = d
      BY ONLY <1>7, <2>3
    <3> QED
      BY ONLY <1>8, <3>1, <3>2, <3>3
  <2> QED
    BY ONLY <1>6, <2>1, <2>2, <2>3
<1>10. ASSUME NEW i \in 1..Len(login)
       PROVE  Encodes(login[i], IF i = 1 THEN u ELSE p) /\ Decode(login[i]) = IF i = 1 THEN u ELSE p
  BY ONLY <1>3, <1>4, <1>9, i \in 1..Len(login)
<1> QED
  BY ONLY <1>2, <1>9, <1>10 DEF CredentialsArrive

(* For all accounts, lengths of the message and numbers of answers in two    *)
(* lines, and however the bytes are cut: the result handler is called once at*)
(* most.  And unless the code of a step was accepted by accident, from the   *)
(* rest of a line or from an int never written (mail.cc:23), it is called    *)
(* with true only after the server accepted the message, which is what the   *)
(* application wrote unless a line of it was a dot, and with false only if   *)
(* the server refused or closed, was not there, or answered in two lines     *)
(* (mail.cc:19-311, the chain of steps and MailPkg).                         *)
THEOREM TellsOnceAndTruly == Spec => []ToldOnceAndTruly
<1>1. Init => IInv
  BY MailAssumption, InitHolds
<1>2. IInv /\ [Next]_vars => IInv'
  BY MailAssumption, NextKeeps
<1>3. IInv => ToldOnceAndTruly
  BY MailAssumption, Told
<1> QED
  BY <1>1, <1>2, <1>3, PTL DEF Spec

(* For all accounts, and unless a code was accepted by accident, the server  *)
(* gets the user name up to the at sign and the password, in this order and  *)
(* after it granted AUTH, in the code that Base64 defines and from which           *)
(* Base64::decode gives them back (mail.cc:245, 261, src/base64.cc).         *)
THEOREM CredentialsDoArrive == Spec => []CredentialsArrive
<1>1. Init => IInv
  BY MailAssumption, InitHolds
<1>2. IInv /\ [Next]_vars => IInv'
  BY MailAssumption, NextKeeps
<1>3. IInv => CredentialsArrive
  BY MailAssumption, Arrived
<1> QED
  BY <1>1, <1>2, <1>3, PTL DEF Spec
=============================================================================
