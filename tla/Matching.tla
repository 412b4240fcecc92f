------------------------------- MODULE Matching -------------------------------
(***************************************************************************)
(* isPathMatch, isDomainMatch and isValidIPAddress of src/utils.cc, on     *)
(* texts as sequences of characters.  Letters are small ones (the code     *)
(* compares domains without regard to case).                               *)
(***************************************************************************)
EXTENDS Integers, Sequences, FiniteSets

Last(s) == s[Len(s)]
Front(s) == SubSeq(s, 1, Len(s) - 1)

Slashless(b) == IF Len(b) > 1 /\ Last(b) = "/" THEN Front(b) ELSE b

(* Slip: a base that is a prefix of the path matches, as "/a" does "/ab".    *)
PrefixMatch(p0, b0) ==
  LET b == Slashless(b0)  p == Slashless(p0) IN
  b = <<>> \/ (Len(b) <= Len(p) /\ b = SubSeq(p, 1, Len(b)))

IsPathMatch(p0, b0) ==
  LET b == Slashless(b0)
      p == Slashless(p0)
  IN  \/ b0 = <<>>
      \/ b0 = <<"/">> /\ p0[1] = "/"
      \/ /\ Len(b) <= Len(p) /\ b = SubSeq(p, 1, Len(b))
         /\ Len(b) < Len(p) => p[Len(b) + 1] = "/"

-----------------------------------------------------------------------------
Digits == <<"0", "1", "2", "3", "4", "5", "6", "7", "8", "9">>
Digit(c) == CHOOSE d \in 0..9 : Digits[d + 1] = c

(* isValidIPAddress for texts without ":" (Client cuts a host there).  The   *)
(* last of the four numbers is not compared with 255.                        *)
Dots(s) == {i \in 1..Len(s) : s[i] = "."}
IsValidIPAddress(addr) ==
  /\ Cardinality(Dots(addr)) = 3
  /\ \A i \in 1..Len(addr) : addr[i] \in {Digits[d] : d \in 1..10} \cup {"."}
  /\ \A i \in Dots(addr) \cup {Len(addr) + 1} :
       LET before == {d \in Dots(addr) : d < i}
           first == 1 + (IF before = {} THEN 0 ELSE CHOOSE d \in before : \A e \in before : e <= d)
           value[k \in first - 1..i - 1] ==
             IF k < first THEN 0 ELSE (10 * value[k - 1]) + Digit(addr[k])
       IN  i - first \in 1..3 /\ (i \in Dots(addr) => value[i - 1] <= 255)

IsDomainMatch(url, base) ==
  LET b == IF base # <<>> /\ base[1] = "." THEN Tail(base) ELSE base
      rest == Len(url) - Len(b)
  IN  /\ rest >= 0 /\ b = SubSeq(url, rest + 1, Len(url))
      /\ rest > 0 => ~IsValidIPAddress(url) /\ url[rest] = "."
=============================================================================
