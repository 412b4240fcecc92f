---------------------------- MODULE RoutingProofs ----------------------------
(***************************************************************************)
(* Theorems about Routing, for every table, path and alphabet.             *)
(***************************************************************************)
EXTENDS Routing, SequenceTheorems, TLAPS

USE DEF NoHandler

(* The variables keep their types.                                           *)
THEOREM TypeCorrect == Spec => []TypeOK
<1>1. Init => TypeOK
  BY RoutingAssumption DEF Init, TypeOK
<1>2. TypeOK /\ [Next]_vars => TypeOK'
  <2> SUFFICES ASSUME TypeOK, [Next]_vars PROVE TypeOK'
    OBVIOUS
  <2>1. ASSUME NEW b \in Bases, AddSubHandler(b) PROVE TypeOK'
    <3>1. table' \in Seq(Bases) /\ Len(table') = Len(table) + 1
      BY <2>1 DEF AddSubHandler, TypeOK
    <3>2. Len(table') <= MaxTable
      BY <3>1, <2>1, RoutingAssumption DEF AddSubHandler, TypeOK
    <3> QED BY <3>1, <3>2, <2>1 DEF AddSubHandler, TypeOK
  <2>2. ASSUME NEW p \in Paths, Refuse(p) PROVE TypeOK'
    BY <2>2 DEF Refuse, TypeOK
  <2>3. ASSUME NEW p \in Paths, Start(p) PROVE TypeOK'
    BY <2>3 DEF Start, TypeOK
  <2>4. ASSUME Look PROVE TypeOK'
    BY <2>4 DEF Look, TypeOK
  <2>5. ASSUME Deliver PROVE TypeOK'
    BY <2>5 DEF Deliver, TypeOK
  <2>6. CASE UNCHANGED vars
    BY <2>6 DEF vars, TypeOK
  <2> QED BY <2>1, <2>2, <2>3, <2>4, <2>5, <2>6 DEF Next
<1> QED BY <1>1, <1>2, PTL DEF Spec

-----------------------------------------------------------------------------
(* The scan of deliverRequest: what one round makes of the best so far.      *)
LEMMA OneRound ==
  ASSUME NEW n, n = next, TypeOK, BestSoFar, Look
  PROVE  BestSoFar'
<1>1. n \in 1..Len(table) /\ n \in Nat /\ next' = n + 1 /\ table' = table /\ path' = path
      /\ best' = (IF Better(n) THEN n ELSE best) /\ outcome = "routing"
      /\ Len(table) \in Nat /\ best \in 0..n - 1
  BY DEF Look, TypeOK
<1>2. \A i \in 1..Len(table) : Len(table[i]) \in Nat
  BY RoutingAssumption DEF TypeOK
<1>3. \A i : i \in Matching(n) <=> i \in Matching(n - 1) \/ (i = n /\ IsPathMatch(path, table[n]))
  BY <1>1 DEF Matching
<1>4. Matching(n)' = Matching(n)
  BY <1>1 DEF Matching, IsPathMatch, Slashless, Last, Front
<1>5. Matching(n - 1) \subseteq 1..n - 1
  BY DEF Matching
<1>6. IF Matching(n - 1) = {} THEN best = 0
      ELSE /\ best \in Matching(n - 1)
           /\ \A i \in Matching(n - 1) :
                /\ Len(table[i]) <= Len(table[best])
                /\ Len(table[i]) = Len(table[best]) => i <= best
  BY <1>1 DEF BestSoFar
<1>7. next' - 1 = n
  BY <1>1
<1>8. SUFFICES IF Matching(n) = {} THEN best' = 0
      ELSE /\ best' \in Matching(n)
           /\ \A i \in Matching(n) :
                /\ Len(table[i]) <= Len(table[best'])
                /\ Len(table[i]) = Len(table[best']) => i <= best'
  BY <1>1, <1>4, <1>7 DEF BestSoFar
<1>9. CASE ~IsPathMatch(path, table[n])
  <2>1. Matching(n) = Matching(n - 1) BY <1>9, <1>3
  <2>2. best' = best BY <1>1, <1>9 DEF Better
  <2> QED BY <2>1, <2>2, <1>6
<1>10. CASE IsPathMatch(path, table[n]) /\ Matching(n - 1) = {}
  <2>1. Matching(n) = {n} BY <1>10, <1>3
  <2>2. best' = n BY <1>1, <1>2, <1>6, <1>10 DEF Better, BestSize
  <2> QED BY <2>1, <2>2, <1>1, <1>2
<1>11. CASE IsPathMatch(path, table[n]) /\ Matching(n - 1) # {}
  <2>1. best \in 1..n - 1 /\ best # 0 BY <1>6, <1>5, <1>1, <1>11
  <2>2. BestSize = Len(table[best]) BY <2>1 DEF BestSize
  <2>3. Matching(n) # {} /\ n \in Matching(n) BY <1>11, <1>3
  <2>4. CASE Len(table[n]) >= Len(table[best])
    <3>1. best' = n BY <2>4, <2>2, <1>1, <1>11 DEF Better
    <3>2. ASSUME NEW i \in Matching(n) PROVE Len(table[i]) <= Len(table[n]) /\ i <= n
      <4>1. CASE i = n BY <4>1, <1>1, <1>2
      <4>2. CASE i \in Matching(n - 1)
        <5>1. i \in 1..n - 1 /\ i \in 1..Len(table) /\ best \in 1..Len(table)
          BY <4>2, <1>5, <1>1, <2>1
        <5>2. Len(table[i]) <= Len(table[best]) BY <4>2, <1>6, <1>11
        <5> QED BY <5>1, <5>2, <2>4, <1>2, <1>1
      <4> QED BY <4>1, <4>2, <3>2, <1>3
    <3> QED BY <3>1, <3>2, <2>3
  <2>5. CASE ~(Len(table[n]) >= Len(table[best]))
    <3>1. best' = best BY <2>5, <2>2, <1>1 DEF Better
    <3>2. best \in Matching(n) BY <1>6, <1>11, <1>3
    <3>3. ASSUME NEW i \in Matching(n)
          PROVE Len(table[i]) <= Len(table[best]) /\ (Len(table[i]) = Len(table[best]) => i <= best)
      <4>1. best \in 1..Len(table) BY <2>1, <1>1
      <4>2. CASE i = n BY <4>1, <4>2, <2>5, <1>1, <1>2
      <4>3. CASE i \in Matching(n - 1) BY <4>3, <1>6, <1>11
      <4> QED BY <4>2, <4>3, <3>3, <1>3
    <3> QED BY <3>1, <3>2, <3>3, <2>3
  <2> QED BY <2>4, <2>5
<1> QED BY <1>9, <1>10, <1>11

(* The best entry is at every moment the last of the longest that match      *)
(* among those looked at (RequestHandler.cc:66).                             *)
THEOREM ScanCorrect == Spec => []BestSoFar
<1>1. Init => BestSoFar
  BY DEF Init, BestSoFar
<1>2. TypeOK /\ BestSoFar /\ [Next]_vars => BestSoFar'
  <2> SUFFICES ASSUME TypeOK, BestSoFar, [Next]_vars PROVE BestSoFar'
    OBVIOUS
  <2>1. ASSUME NEW b \in Bases, AddSubHandler(b) PROVE BestSoFar'
    BY <2>1 DEF AddSubHandler, BestSoFar
  <2>2. ASSUME NEW p \in Paths, Refuse(p) PROVE BestSoFar'
    BY <2>2 DEF Refuse, BestSoFar
  <2>3. ASSUME NEW p \in Paths, Start(p) PROVE BestSoFar'
    <3>1. next' - 1 = 0 /\ best' = 0 BY <2>3 DEF Start
    <3>2. Matching(next - 1)' = {} BY <3>1 DEF Matching
    <3> QED BY <3>1, <3>2 DEF BestSoFar
  <2>4. ASSUME Look PROVE BestSoFar'
    <3>1. PICK n : n = next OBVIOUS
    <3> QED BY <3>1, <2>4, OneRound
  <2>5. ASSUME Deliver PROVE BestSoFar'
    <3>1. table' = table /\ path' = path /\ next' = next /\ best' = best /\ outcome = "routing"
      BY <2>5 DEF Deliver
    <3>2. Matching(next - 1)' = Matching(next - 1)
      BY <3>1 DEF Matching, IsPathMatch, Slashless, Last, Front
    <3> QED BY <3>1, <3>2 DEF BestSoFar
  <2>6. CASE UNCHANGED vars
    <3>1. Matching(next - 1)' = Matching(next - 1)
      BY <2>6 DEF vars, Matching, IsPathMatch, Slashless, Last, Front
    <3> QED BY <3>1, <2>6 DEF vars, BestSoFar
  <2> QED BY <2>1, <2>2, <2>3, <2>4, <2>5, <2>6 DEF Next
<1> QED BY <1>1, <1>2, TypeCorrect, PTL DEF Spec

(* When the scan is over the whole table was looked at.                      *)
Scanned == outcome \in {"delivered", "unmatched"} =>
             /\ next = Len(table) + 1
             /\ outcome = "unmatched" <=> best = NoHandler

LEMMA ScannedInv == Spec => []Scanned
<1>1. Init => Scanned
  BY DEF Init, Scanned
<1>2. TypeOK /\ Scanned /\ [Next]_vars => Scanned'
  BY DEF TypeOK, Scanned, Next, vars, AddSubHandler, Refuse, Start, Look, Deliver
<1> QED BY <1>1, <1>2, TypeCorrect, PTL DEF Spec

(* A request goes to the longest matching base, the one registered last if   *)
(* there are several, and is not found exactly when no base matches.         *)
THEOREM SpecificWins == Spec => []MostSpecificAnswers
<1>1. TypeOK /\ BestSoFar /\ Scanned => MostSpecificAnswers
  <2> SUFFICES ASSUME TypeOK, BestSoFar, Scanned, outcome \in {"delivered", "unmatched"}
               PROVE  MostSpecificAnswers
    BY DEF MostSpecificAnswers
  <2>1. next - 1 = Len(table) BY DEF Scanned, TypeOK
  <2>2. IF Matching(Len(table)) = {} THEN best = 0
        ELSE /\ best \in Matching(Len(table))
             /\ \A i \in Matching(Len(table)) :
                  /\ Len(table[i]) <= Len(table[best])
                  /\ Len(table[i]) = Len(table[best]) => i <= best
    BY <2>1 DEF BestSoFar
  <2>3. best \in Matching(Len(table)) => best # 0 BY DEF Matching
  <2>4. outcome = "unmatched" <=> Matching(Len(table)) = {}
    BY <2>2, <2>3 DEF Scanned
  <2>5. ASSUME outcome = "delivered"
        PROVE  /\ IsPathMatch(path, table[best])
               /\ \A i \in Matching(Len(table)) :
                    Len(table[i]) < Len(table[best])
                      \/ (Len(table[i]) = Len(table[best]) /\ i <= best)
    <3>1. best \in Matching(Len(table)) BY <2>2, <2>4, <2>5
    <3>2. \A i \in Matching(Len(table)) : Len(table[i]) \in Nat
      BY RoutingAssumption DEF Matching, TypeOK
    <3>3. \A i \in Matching(Len(table)) :
             /\ Len(table[i]) <= Len(table[best])
             /\ Len(table[i]) = Len(table[best]) => i <= best
      BY <2>2, <2>4, <2>5
    <3>4. IsPathMatch(path, table[best]) BY <3>1 DEF Matching
    <3> QED BY <3>1, <3>2, <3>3, <3>4
  <2> QED BY <2>4, <2>5 DEF MostSpecificAnswers
<1> QED BY <1>1, TypeCorrect, ScanCorrect, ScannedInv, PTL

-----------------------------------------------------------------------------
(* Two bases of the same length that match the same path are the same base   *)
(* (isPathMatch): both are the first characters of the path, or the path is  *)
(* one character shorter than a base that ends with a slash.                 *)
LEMMA SameLengthSameBase ==
  ASSUME NEW p \in Seq(Char), p # <<>>,
         NEW b \in Seq(Char), NEW c \in Seq(Char), Len(b) = Len(c),
         IsPathMatch(p, b), IsPathMatch(p, c)
  PROVE  b = c
<1> DEFINE q == Slashless(p)  bb == Slashless(b)  cc == Slashless(c)
<1>1. q \in Seq(Char) /\ Len(q) \in Nat /\ Len(q) >= 1
      /\ Len(q) <= Len(p) /\ \A i \in 1..Len(q) : q[i] = p[i]
  BY DEF Slashless, Last, Front
<1>2. CASE b = <<>>
  BY <1>2
<1>3. CASE Len(b) = 1
  <2>0. Len(c) = 1 /\ b # <<>> /\ c # <<>>
    <3>1. Len(b) # 0 /\ Len(c) # 0 /\ Len(c) = 1 /\ Len(<<>>) = 0 BY <1>3
    <3> QED BY <3>1, Zenon
  <2>1. bb = b /\ cc = c BY <1>3 DEF Slashless
  <2>4. p[1] = q[1] BY <1>1
  <2>5. b = <<"/">> => b[1] = "/" BY <1>3
  <2>6. c = <<"/">> => c[1] = "/" BY <1>3
  <2>7. b = SubSeq(q, 1, 1) => b[1] = q[1] BY <1>1
  <2>8. c = SubSeq(q, 1, 1) => c[1] = q[1] BY <1>1
  <2>2. b[1] = p[1] BY <2>0, <2>1, <2>4, <2>5, <2>7, <1>3 DEF IsPathMatch
  <2>3. c[1] = p[1] BY <2>0, <2>1, <2>4, <2>6, <2>8, <1>3 DEF IsPathMatch
  <2>9. \A i \in 1..Len(b) : b[i] = c[i] BY <2>2, <2>3, <1>3
  <2> QED BY <2>9, SeqEqual
<1>4. CASE Len(b) > 1
  <2>1. b # <<>> /\ b # <<"/">> /\ c # <<>> /\ c # <<"/">>
    <3>0. Len(b) \in Nat OBVIOUS
    <3>1. \A n \in Nat : n > 1 => n # 0 /\ n # 1 OBVIOUS
    <3>4. Len(b) # 0 /\ Len(b) # 1 BY ONLY <1>4, <3>0, <3>1, Zenon
    <3>2. Len(c) # 0 /\ Len(c) # 1 BY ONLY <3>4, Len(b) = Len(c)
    <3>3. Len(<<>>) = 0 /\ Len(<<"/">>) = 1 OBVIOUS
    <3> QED BY <3>4, <3>2, <3>3, Zenon
  <2>2. /\ Len(bb) <= Len(q) /\ bb = SubSeq(q, 1, Len(bb))
        /\ Len(bb) < Len(q) => q[Len(bb) + 1] = "/"
        /\ Len(cc) <= Len(q) /\ cc = SubSeq(q, 1, Len(cc))
        /\ Len(cc) < Len(q) => q[Len(cc) + 1] = "/"
    BY <2>1 DEF IsPathMatch
  <2>3. CASE Last(b) = "/" /\ Last(c) = "/"
    <3>1. /\ bb = SubSeq(b, 1, Len(b) - 1) /\ Len(bb) = Len(b) - 1 /\ b[Len(b)] = "/"
          /\ cc = SubSeq(c, 1, Len(c) - 1) /\ Len(cc) = Len(c) - 1 /\ c[Len(c)] = "/"
      BY <2>3, <1>4 DEF Slashless, Last, Front
    <3>2. bb = cc BY <3>1, <2>2
    <3>3. \A i \in 1..Len(b) - 1 : b[i] = bb[i] /\ c[i] = cc[i] BY <3>1
    <3>4. \A i \in 1..Len(b) : b[i] = c[i] BY <3>1, <3>2, <3>3
    <3> QED BY <3>4
  <2>4. CASE Last(b) # "/" /\ Last(c) # "/"
    <3>1. bb = b /\ cc = c BY <2>4 DEF Slashless
    <3> QED BY <3>1, <2>2
  <2>5. ASSUME NEW d \in Seq(Char), NEW e \in Seq(Char), Len(d) = Len(e), Len(d) > 1,
               Last(d) = "/", Last(e) # "/",
               Len(Slashless(d)) < Len(q) => q[Len(Slashless(d)) + 1] = "/",
               Len(Slashless(e)) <= Len(q), Slashless(e) = SubSeq(q, 1, Len(Slashless(e)))
        PROVE  FALSE
    <3> HIDE DEF q
    <3>0. Len(d) \in Nat /\ Len(e) \in Nat BY <2>5
    <3>1. Slashless(e) = e /\ Slashless(d) = SubSeq(d, 1, Len(d) - 1)
      BY <2>5, <3>0 DEF Slashless, Front
    <3>2. Len(Slashless(d)) = Len(d) - 1 BY <3>1, <3>0, <2>5
    <3>3. Len(e) <= Len(q) /\ e = SubSeq(q, 1, Len(e)) BY <3>1, <2>5
    <3>4. q[Len(d)] = "/" BY <3>2, <3>3, <3>0, <2>5, <1>1
    <3>5. e[Len(e)] = q[Len(e)] BY <3>3, <3>0, <2>5, <1>1
    <3> QED BY <3>4, <3>5, <2>5 DEF Last
  <2>6. CASE Last(b) = "/" /\ Last(c) # "/"
    BY <2>6, <2>2, <2>5, <1>4
  <2>7. CASE Last(b) # "/" /\ Last(c) = "/"
    <3>1. Len(c) > 1 /\ Len(c) = Len(b) BY <1>4
    <3> QED BY <3>1, <2>7, <2>2, <2>5
  <2> QED BY <2>3, <2>4, <2>6, <2>7
<1>5. Len(b) \in Nat /\ (Len(b) = 0 => b = <<>>)
  OBVIOUS
<1> QED BY <1>2, <1>3, <1>4, <1>5

(* So the order of registration decides only between equal bases.            *)
THEOREM OrderDecidesOnlyTies == Spec => []NoAmbiguity
<1>1. TypeOK => NoAmbiguity \/ path = <<>>
  <2> SUFFICES ASSUME TypeOK, path # <<>> PROVE NoAmbiguity
    OBVIOUS
  <2>1. path \in Seq(Char) BY RoutingAssumption DEF TypeOK
  <2>2. \A i \in 1..Len(table) : table[i] \in Seq(Char)
    BY RoutingAssumption DEF TypeOK
  <2>3. ASSUME NEW i \in Matching(Len(table)), NEW j \in Matching(Len(table)),
               Len(table[i]) = Len(table[j])
        PROVE  table[i] = table[j]
    <3>1. /\ table[i] \in Seq(Char) /\ table[j] \in Seq(Char)
          /\ IsPathMatch(path, table[i]) /\ IsPathMatch(path, table[j])
      BY <2>2 DEF Matching
    <3> QED BY <3>1, <2>1, <2>3, SameLengthSameBase
  <2> QED BY <2>3 DEF NoAmbiguity
<1> DEFINE Asked == outcome = "routing" => path # <<>>
<1>2. Init => Asked
  BY DEF Init
<1>3. Asked /\ [Next]_vars => Asked'
  BY RoutingAssumption DEF Next, vars, AddSubHandler, Refuse, Start, Look, Deliver
<1>4. Asked /\ TypeOK => NoAmbiguity
  BY <1>1 DEF NoAmbiguity
<1> QED BY <1>2, <1>3, <1>4, TypeCorrect, PTL DEF Spec

-----------------------------------------------------------------------------
(* One text begins another when it agrees with it as far as it goes.         *)
LEMMA BeginsWith ==
  ASSUME NEW s \in Seq(Char), NEW t \in Seq(Char), Len(s) <= Len(t)
  PROVE  s = SubSeq(t, 1, Len(s)) <=> \A i \in 1..Len(s) : s[i] = t[i]
<1>1. Len(s) \in Nat /\ Len(t) \in Nat
  OBVIOUS
<1> DEFINE u == SubSeq(t, 1, Len(s))
<1>2. u \in Seq(Char) /\ Len(u) = Len(s) /\ \A i \in 1..Len(s) : u[i] = t[i]
  BY <1>1
<1> HIDE DEF u
<1>3. ASSUME \A i \in 1..Len(s) : s[i] = t[i] PROVE s = u
  BY <1>2, <1>3, SeqEqual
<1> QED
  BY <1>2, <1>3 DEF u

(* A text with one trailing slash taken away, and with one put there.        *)
LEMMA SlashOnOff ==
  ASSUME NEW s \in Seq(Char), "/" \in Char, Clean(s), Len(s) > 1
  PROVE  /\ Slashless(s) \in Seq(Char) /\ WithSlash(s) \in Seq(Char)
         /\ Slashless(s)[1] = "/" /\ Last(Slashless(s)) # "/" /\ Len(Slashless(s)) >= 2
         /\ Len(WithSlash(s)) = Len(Slashless(s)) + 1
         /\ WithSlash(s)[Len(Slashless(s)) + 1] = "/"
         /\ \A i \in 1..Len(Slashless(s)) : WithSlash(s)[i] = Slashless(s)[i]
<1>1. Len(s) \in Nat /\ s[1] = "/" /\ \A i \in 1..Len(s) - 1 : ~(s[i] = "/" /\ s[i + 1] = "/")
  BY DEF Clean
<1>2. CASE s[Len(s)] = "/"
  <2>1. Slashless(s) = SubSeq(s, 1, Len(s) - 1) /\ WithSlash(s) = s
    BY <1>2 DEF Slashless, WithSlash, Last, Front
  <2>2. /\ SubSeq(s, 1, Len(s) - 1) \in Seq(Char) /\ Len(SubSeq(s, 1, Len(s) - 1)) = Len(s) - 1
        /\ \A i \in 1..Len(s) - 1 : SubSeq(s, 1, Len(s) - 1)[i] = s[i]
    BY <1>1
  <2>3. Len(s) - 1 \in 1..Len(s) - 1 /\ s[Len(s) - 1] # "/" /\ Len(s) - 1 >= 2
    <3>1. Len(s) - 1 \in 1..Len(s) - 1 /\ (Len(s) - 1) + 1 = Len(s)
      BY <1>1
    <3>2. s[Len(s) - 1] # "/"
      BY <1>1, <1>2, <3>1
    <3> QED
      BY <1>1, <3>1, <3>2
  <2> QED
    BY <1>1, <1>2, <2>1, <2>2, <2>3 DEF Last
<1>3. CASE s[Len(s)] # "/"
  <2>1. Slashless(s) = s /\ WithSlash(s) = Append(s, "/")
    BY <1>3 DEF Slashless, WithSlash, Last
  <2>2. /\ Append(s, "/") \in Seq(Char) /\ Len(Append(s, "/")) = Len(s) + 1
        /\ Append(s, "/")[Len(s) + 1] = "/"
        /\ \A i \in 1..Len(s) : Append(s, "/")[i] = s[i]
    BY AppendProperties
  <2> QED
    BY <1>1, <1>3, <2>1, <2>2 DEF Last
<1> QED
  BY <1>2, <1>3

(* isPathMatch cuts both texts and compares characters; for clean absolute   *)
(* paths this is the same as comparing segments.                             *)
LEMMA MatchesBySegments ==
  ASSUME NEW p \in Seq(Char), NEW base \in Seq(Char), "/" \in Char, Clean(p), Clean(base)
  PROVE  IsPathMatch(p, base) <=> Covers(base, p)
<1>0. /\ Len(p) \in Nat /\ Len(base) \in Nat /\ Len(p) >= 1 /\ Len(base) >= 1
  BY DEF Clean
<1>a. \A k \in Nat : k >= 1 => (k = 1 \/ k > 1)
  OBVIOUS
<1>1. /\ Len(p) \in Nat /\ Len(base) \in Nat /\ Len(p) >= 1 /\ Len(base) >= 1
      /\ p[1] = "/" /\ base[1] = "/" /\ p # <<>> /\ base # <<>>
  BY DEF Clean
<1> DEFINE b == Slashless(base)
           q == Slashless(p)
           bs == WithSlash(base)
           ps == WithSlash(p)
<1>2. CASE Len(base) = 1
  <2>1. base = <<"/">>
    BY <1>1, <1>2, SeqEqual
  <2>2. IsPathMatch(p, base)
    BY <1>1, <2>1 DEF IsPathMatch
  <2>3. bs = base
    BY <1>1, <1>2 DEF WithSlash, Last
  <2>4. ps \in Seq(Char) /\ Len(ps) >= 1 /\ ps[1] = "/"
    <3>1. Append(p, "/") \in Seq(Char) /\ Len(Append(p, "/")) = Len(p) + 1 /\ Append(p, "/")[1] = p[1]
      BY <1>1, AppendProperties
    <3> QED
      BY <1>1, <3>1 DEF WithSlash
  <2>5. base = SubSeq(ps, 1, Len(base))
    <3> HIDE DEF ps
    <3>1. Len(base) <= Len(ps) /\ \A i \in 1..Len(base) : base[i] = ps[i]
      BY <1>1, <1>2, <2>4
    <3> QED
      BY <2>4, <3>1, BeginsWith
  <2>6. Covers(base, p)
    <3>1. Len(bs) <= Len(ps) /\ SubSeq(ps, 1, Len(bs)) = bs
      BY <1>2, <2>3, <2>4, <2>5
    <3> QED
      BY <3>1 DEF Covers
  <2> QED
    BY <2>2, <2>6
<1>3. CASE Len(base) > 1
  <2>1. /\ b \in Seq(Char) /\ bs \in Seq(Char)
        /\ b[1] = "/" /\ b[Len(b)] # "/" /\ Len(b) >= 2
        /\ Len(bs) = Len(b) + 1 /\ bs[Len(b) + 1] = "/"
        /\ \A i \in 1..Len(b) : bs[i] = b[i]
    BY <1>3, SlashOnOff DEF Last
  <2>2. base # <<"/">>
    <3>1. Len(<<"/">>) = 1
      OBVIOUS
    <3>2. Len(base) # 1
      <4>1. \A k \in Nat : k > 1 => k # 1
        OBVIOUS
      <4> QED
        BY ONLY <1>0, <1>3, <4>1, Zenon
    <3> QED
      BY ONLY <3>1, <3>2
  <2>3. IsPathMatch(p, base) <=> /\ Len(b) <= Len(q) /\ b = SubSeq(q, 1, Len(b))
                                 /\ Len(b) < Len(q) => q[Len(b) + 1] = "/"
    BY <1>1, <2>2 DEF IsPathMatch
  <2>4. Covers(base, p) <=> Len(bs) <= Len(ps) /\ SubSeq(ps, 1, Len(bs)) = bs
    BY DEF Covers
  <2>5. CASE Len(p) = 1
    <3>1. q = p /\ ps = p
      BY <1>1, <2>5 DEF Slashless, WithSlash, Last
    <3>2. ~(Len(b) <= Len(q)) /\ ~(Len(bs) <= Len(ps))
      <4> HIDE DEF b, bs, q, ps
      <4> QED
        BY <2>1, <2>5, <3>1
    <3> QED
      BY <2>3, <2>4, <3>2
  <2>6. CASE Len(p) > 1
    <3>1. /\ q \in Seq(Char) /\ ps \in Seq(Char) /\ Len(ps) = Len(q) + 1 /\ ps[Len(q) + 1] = "/"
          /\ \A i \in 1..Len(q) : ps[i] = q[i]
      BY <2>6, SlashOnOff
    <3> HIDE DEF b, bs, q, ps
    <3>2. Len(b) \in Nat /\ Len(q) \in Nat
      BY <2>1, <3>1
    <3>3. ASSUME Len(b) <= Len(q)
          PROVE  /\ b = SubSeq(q, 1, Len(b)) <=> \A i \in 1..Len(b) : b[i] = q[i]
                 /\ bs = SubSeq(ps, 1, Len(bs)) <=> \A i \in 1..Len(bs) : bs[i] = ps[i]
      <4>1. Len(bs) <= Len(ps)
        BY <2>1, <3>1, <3>2, <3>3
      <4> QED
        BY <2>1, <3>1, <3>3, <4>1, BeginsWith
    <3>4. ASSUME Len(b) <= Len(q)
          PROVE  (\A i \in 1..Len(bs) : bs[i] = ps[i])
                   <=> (\A i \in 1..Len(b) : b[i] = q[i]) /\ (Len(b) < Len(q) => q[Len(b) + 1] = "/")
      <4>1. ps[Len(b) + 1] = IF Len(b) < Len(q) THEN q[Len(b) + 1] ELSE "/"
        BY <3>1, <3>2, <3>4
      <4>2. (\A i \in 1..Len(bs) : bs[i] = ps[i])
              <=> (\A i \in 1..Len(b) : bs[i] = ps[i]) /\ ps[Len(b) + 1] = "/"
        <5>1. \A i : i \in 1..Len(bs) <=> i \in 1..Len(b) \/ i = Len(b) + 1
          BY <2>1, <3>2
        <5>2. bs[Len(b) + 1] = "/"
          BY <2>1
        <5> QED
          BY ONLY <5>1, <5>2
      <4>3. (\A i \in 1..Len(b) : bs[i] = ps[i]) <=> (\A i \in 1..Len(b) : b[i] = q[i])
        BY <2>1, <3>1, <3>2, <3>4
      <4> QED
        BY <4>1, <4>2, <4>3
    <3>5. Len(b) <= Len(q) <=> Len(bs) <= Len(ps)
      BY <2>1, <3>1, <3>2
    <3> QED
      BY <2>3, <2>4, <3>3, <3>4, <3>5
  <2>7. Len(p) = 1 \/ Len(p) > 1
    BY ONLY <1>0, <1>a, Zenon
  <2> QED
    BY ONLY <2>5, <2>6, <2>7
<1>4. Len(base) = 1 \/ Len(base) > 1
  BY ONLY <1>0, <1>a, Zenon
<1> QED
  BY ONLY <1>2, <1>3, <1>4

(* Whatever the table and the path, matching is by whole segments, and a     *)
(* trailing slash does not matter (utils.cc:288).                            *)
THEOREM SegmentsDecide == Spec => []MatchIsBySegments
<1>1. TypeOK => MatchIsBySegments
  <2> SUFFICES ASSUME TypeOK, NEW i \in 1..Len(table), Clean(path), Clean(table[i])
               PROVE  IsPathMatch(path, table[i]) <=> Covers(table[i], path)
    BY DEF MatchIsBySegments
  <2>1. path \in Seq(Char) /\ table[i] \in Seq(Char)
    BY RoutingAssumption DEF TypeOK, Clean
  <2>2. "/" \in Char
    <3>1. path[1] = "/" /\ path # <<>>
      BY DEF Clean
    <3> QED
      BY <2>1, <3>1
  <2> QED
    BY <2>1, <2>2, MatchesBySegments
<1> QED
  BY <1>1, TypeCorrect, PTL
=============================================================================
